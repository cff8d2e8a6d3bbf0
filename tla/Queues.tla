------------------------------- MODULE Queues -------------------------------
(***************************************************************************)
(* The queues of a local client: what he sends is cut into lines, counted  *)
(* against the flood limits of his class and given to the parser           *)
(* (userprocess.cpp); what others write to him waits in sendq until his    *)
(* socket takes it (userrec::AddWriteBuf, FlushWriteBuf).  An error found  *)
(* while somebody else writes to him is only noted: his own next event, or *)
(* his ping timeout, removes him.                                          *)
(***************************************************************************)
EXTENDS Naturals, Sequences, SequencesExt

CONSTANTS
    QuFlood,        \* lines allowed in a period, 0 for no limit
    QuThreshold,    \* length of a period, seconds
    QuRecvMax,      \* recvqmax, in lines
    QuSendMax,      \* sendqmax, in lines
    QuPing          \* ping frequency, seconds

ASSUME QueuesOK ==
    /\ QuFlood \in Nat /\ QuThreshold \in Nat /\ QuRecvMax \in Nat /\ QuSendMax \in Nat
    /\ QuPing \in Nat \ {0}

VARIABLES
    qu_reg,         \* registered is REG_ALL
    qu_part,        \* recvq: the start of a line whose end has not come
    qu_in,          \* lines_in
    qu_due,         \* reset_due, in seconds from now
    qu_send,        \* lines in sendq
    qu_error,       \* WriteError is set
    qu_muted,       \* muted: a quit is queued
    qu_ping,        \* nping, in seconds from now
    qu_answered,    \* lastping
    qu_full,        \* his socket takes no more
    qu_zlined,      \* his address got a Z-line
    qu_log          \* the lines handed to the parser in each of the last seconds

qu_vars == <<qu_reg, qu_part, qu_in, qu_due, qu_send, qu_error, qu_muted, qu_ping, qu_answered, qu_full,
             qu_zlined, qu_log>>

QueuesTypeOK ==
    /\ {qu_reg, qu_part, qu_error, qu_muted, qu_answered, qu_full, qu_zlined} \subseteq BOOLEAN
    /\ qu_in \in Nat /\ qu_due \in 0 .. QuThreshold + 1
    /\ qu_send \in 0 .. QuSendMax
    /\ qu_ping \in 0 .. QuPing
    /\ qu_log \in [0 .. QuThreshold -> Nat]

\* AddClient, of an address with no Z-line.
QuFresh ==
    [reg |-> FALSE, part |-> FALSE, in |-> 0, due |-> 0, send |-> 0, error |-> FALSE, muted |-> FALSE,
     zlined |-> FALSE, now |-> 0]
QuSilence == [s \in 0 .. QuThreshold |-> 0]

QueuesInit ==
    /\ qu_reg \in BOOLEAN
    /\ qu_part = FALSE /\ qu_in = 0 /\ qu_due = 0 /\ qu_send = 0
    /\ qu_error = FALSE /\ qu_muted = FALSE
    /\ qu_ping = QuPing /\ qu_answered = TRUE /\ qu_full = FALSE
    /\ qu_zlined = FALSE /\ qu_log = QuSilence

\* The client as one record, for the functions that change several of its fields.
QuClient ==
    [reg |-> qu_reg, part |-> qu_part, in |-> qu_in, due |-> qu_due, send |-> qu_send, error |-> qu_error,
     muted |-> qu_muted, zlined |-> qu_zlined, now |-> qu_log[0]]
QuBecome(c) ==
    /\ qu_reg' = c.reg /\ qu_part' = c.part /\ qu_in' = c.in /\ qu_due' = c.due /\ qu_send' = c.send
    /\ qu_error' = c.error /\ qu_muted' = c.muted /\ qu_zlined' = c.zlined
    /\ qu_log' = [qu_log EXCEPT ![0] = c.now]

\* userrec::AddWriteBuf; SetWriteError keeps the first error.
QuAddWriteBuf(c) ==
    IF c.error THEN c
    ELSE IF c.send + 1 > QuSendMax THEN [c EXCEPT !.error = TRUE]
    ELSE [c EXCEPT !.send = @ + 1]

\* InspIRCd::FloodQuitUser: an error, and a Z-line for who is not registered; apply_lines
\* queues his quit at once.
QuFloodQuit(c) ==
    [c EXCEPT !.error = TRUE, !.zlined = @ \/ ~c.reg, !.muted = @ \/ ~c.reg]

\* The period ends when its time is over and a line comes.
QuCount(c) ==
    IF c.due = 0 THEN [c EXCEPT !.due = QuThreshold + 1, !.in = 1] ELSE [c EXCEPT !.in = @ + 1]

\* ProcessBuffer of one line: nothing for a client who is muted, else a command, which
\* answers or quits him.
QuProcess(c, line) ==
    IF c.muted THEN c
    ELSE LET heard == [c EXCEPT !.now = @ + 1] IN
         IF line = "QUIT" THEN [heard EXCEPT !.muted = TRUE]
         ELSE IF line = "USER" THEN [QuAddWriteBuf(heard) EXCEPT !.reg = TRUE]
         ELSE QuAddWriteBuf(heard)

\* One turn of the loop of ProcessUser; after a flood it has returned.
QuTurn(c, line, floodlines) ==
    LET counted == QuCount(c) IN
    IF QuFlood # 0 /\ (counted.in > QuFlood \/ floodlines > QuFlood)
    THEN [QuFloodQuit(counted) EXCEPT !.stop = TRUE]
    ELSE QuProcess(counted, line)
QuLoop(c, lines) ==
    FoldLeftDomain(LAMBDA d, i : IF d.stop THEN d ELSE QuTurn(d, lines[i], i), c, lines)

\* AddBuffer refused the data: counted as a line too when he is registered.
QuTooLong(c) ==
    LET full == [c EXCEPT !.error = TRUE]
        counted == QuCount(full) IN
    IF ~c.reg THEN QuFloodQuit(full)
    ELSE IF QuFlood # 0 /\ counted.in > QuFlood THEN QuFloodQuit(counted)
    ELSE [QuAddWriteBuf(counted) EXCEPT !.part = FALSE]

\* The end of userrec::HandleEvent: whoever has an error is quit.
QuAfterEvent_trusts(c) == c  \* mutant: the error is left for somebody else to see
QuAfterEvent(c) == IF c.error THEN [c EXCEPT !.muted = TRUE] ELSE c

\* EVENT_READ with these complete lines and perhaps the start of another.
QuRead(lines, rest) ==
    /\ LET c == QuClient @@ [stop |-> FALSE]
           size == Len(lines) + (IF rest THEN 1 ELSE 0)
           read == IF size > QuRecvMax THEN QuTooLong(c)
                   ELSE LET looped == QuLoop(c, lines) IN
                        [looped EXCEPT !.part = IF lines = <<>> THEN @ \/ rest ELSE rest] IN
       QuBecome(QuAfterEvent(read))
    /\ qu_answered' = TRUE
    /\ UNCHANGED <<qu_ping, qu_full>>

\* EVENT_ERROR, or the end of the connection.
QuHangup ==
    /\ QuBecome(QuAfterEvent([QuClient EXCEPT !.error = TRUE]))
    /\ UNCHANGED <<qu_ping, qu_answered, qu_full>>

\* EVENT_WRITE: FlushWriteBuf drops what is queued after an error, else sends it.
QuWritable ==
    /\ ~qu_full /\ (qu_send > 0 \/ qu_error)
    /\ QuBecome(QuAfterEvent([QuClient EXCEPT !.send = 0]))
    /\ UNCHANGED <<qu_ping, qu_answered, qu_full>>

\* Somebody else's command, or a broadcast, writes to him.
QuWrittenTo ==
    /\ QuBecome(QuAddWriteBuf(QuClient))
    /\ UNCHANGED <<qu_ping, qu_answered, qu_full>>

\* The client's end stops reading, or reads again.
QuFills ==
    /\ qu_full' = ~qu_full
    /\ UNCHANGED <<qu_reg, qu_part, qu_in, qu_due, qu_send, qu_error, qu_muted, qu_ping, qu_answered,
                   qu_zlined, qu_log>>

\* A second passes; DoBackgroundUserStuff pings, and quits who has not answered; who is
\* not registered by then is quit as well.
QuSecond ==
    LET c == IF qu_ping > 0 THEN QuClient
             ELSE IF qu_reg /\ qu_answered THEN QuAddWriteBuf(QuClient)
             ELSE [QuClient EXCEPT !.muted = TRUE] IN
    /\ qu_reg' = c.reg /\ qu_send' = c.send /\ qu_error' = c.error /\ qu_muted' = c.muted
    /\ qu_ping' = IF qu_ping > 0 THEN qu_ping - 1 ELSE QuPing
    /\ qu_answered' = (qu_ping > 0 /\ qu_answered)
    /\ qu_due' = IF qu_due > 0 THEN qu_due - 1 ELSE 0
    /\ qu_log' = [s \in 0 .. QuThreshold |-> IF s = 0 THEN 0 ELSE qu_log[s - 1]]
    /\ UNCHANGED <<qu_part, qu_in, qu_full, qu_zlined>>

\* CullList::Apply; the next client from there is another one.
QuCulled ==
    /\ qu_muted
    /\ qu_reg' \in BOOLEAN
    /\ qu_part' = FALSE /\ qu_in' = 0 /\ qu_due' = 0 /\ qu_send' = 0
    /\ qu_error' = FALSE /\ qu_muted' = FALSE
    /\ qu_ping' = QuPing /\ qu_answered' = TRUE /\ qu_full' = FALSE
    /\ qu_zlined' = FALSE /\ qu_log' = QuSilence

QuLines == UNION {[1 .. n -> {"say", "QUIT", "USER"}] : n \in 0 .. QuRecvMax + 1}
QueuesNext ==
    \/ ~qu_muted /\ \E lines \in QuLines, rest \in BOOLEAN : QuRead(lines, rest)
    \/ ~qu_muted /\ QuHangup
    \/ ~qu_muted /\ QuWritable
    \/ ~qu_muted /\ QuWrittenTo
    \/ ~qu_muted /\ QuFills
    \/ ~qu_muted /\ QuSecond
    \/ QuCulled

\* Seconds pass; the client need not do anything.
QueuesFairSpec == QueuesInit /\ [][QueuesNext]_qu_vars /\ WF_qu_vars(~qu_muted /\ QuSecond)

-----------------------------------------------------------------------------
(* Properties *)

\* A period runs from its first line, so a client may use up two periods back to back,
\* but never more: in any QuThreshold + 1 seconds the parser sees at most twice the limit.
QuRateBounded == QuFlood # 0 => FoldFunction(+, 0, qu_log) <= 2 * QuFlood

\* Whoever has a write error is removed, also when the error was found while somebody
\* else wrote to him, his socket takes nothing any more and he says nothing.
QuErrorEndsInQuit == qu_error ~> qu_muted

\* The parser never gets more than the class allows, and a write error ends in a quit.
QuLimits == []QuRateBounded /\ QuErrorEndsInQuit
=============================================================================

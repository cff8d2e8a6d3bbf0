------------------------------- MODULE Pipes -------------------------------
(***************************************************************************)
(* Writing to a socket that does not take everything (InspSocket::Write,   *)
(* userrec::Write and the WantWrite of the epoll and select engines).      *)
(* What cannot be written stays queued until the engine reports that there *)
(* is room; the other end may be a second server that runs the same code,  *)
(* or a client.                                                            *)
(***************************************************************************)
EXTENDS Naturals, FiniteSetsExt

CONSTANTS
    PiEnds,         \* sockets of servers that run this code
    PiPeer,         \* the end each one is connected to, or PiOutside
    PiOutside,      \* a client program, which reads whatever it can
    PiEngines,      \* the engines a server may be built with, of "epoll" and "select"
    PiRoom,         \* lines the kernel takes for a socket before it is full
    PiQueue         \* lines a socket is ever given while earlier ones are queued

ASSUME PipesOK ==
    /\ PiRoom \in Nat \ {0} /\ PiQueue \in Nat \ {0}
    /\ PiPeer \in [PiEnds -> PiEnds \cup {PiOutside}]
    /\ \A e \in PiEnds : PiPeer[e] # PiOutside => PiPeer[PiPeer[e]] = e

VARIABLES
    pi_engine,      \* the engine of the server of each socket
    pi_out,         \* lines in outbuffer or sendq
    pi_sent,        \* lines written and not read by the other end yet
    pi_typed,       \* a client has sent something
    pi_events       \* what the engine waits for: the epoll set, or writeable[]

pi_vars == <<pi_engine, pi_out, pi_sent, pi_typed, pi_events>>

PipesTypeOK ==
    /\ pi_engine \in [PiEnds -> {"epoll", "select"}]
    /\ pi_out \in [PiEnds -> 0 .. PiQueue]
    /\ pi_sent \in [PiEnds -> 0 .. PiRoom]
    /\ pi_typed \in [PiEnds -> BOOLEAN]
    /\ pi_events \in [PiEnds -> SUBSET {"read", "write"}]

\* AddFd of a readable handler.
PipesInit ==
    /\ pi_engine \in [PiEnds -> PiEngines]
    /\ pi_out = [e \in PiEnds |-> 0] /\ pi_sent = [e \in PiEnds |-> 0]
    /\ pi_typed = [e \in PiEnds |-> FALSE]
    /\ pi_events = [e \in PiEnds |-> {"read"}]

\* WantWrite: EPOLL_CTL_MOD to EPOLLOUT alone; writeable[fd] next to the read set.
PiWantWrite(e, events) == IF pi_engine[e] = "epoll" THEN {"write"} ELSE events \cup {"write"}

PiFits(e, n) == Min({n, PiRoom - pi_sent[e]})

\* FlushWriteBuffer, FlushWriteBuf: what fits is written, and WantWrite for the rest.
PiFlush_forgets(e, n, events) ==  \* mutant: a write cut short does not ask again
    [out |-> n - PiFits(e, n), sent |-> pi_sent[e] + PiFits(e, n), events |-> events]
PiFlush(e, n, events) ==
    [out |-> n - PiFits(e, n), sent |-> pi_sent[e] + PiFits(e, n),
     events |-> IF n > PiFits(e, n) THEN PiWantWrite(e, events) ELSE events]

PiSet(e, s) ==
    /\ pi_out' = [pi_out EXCEPT ![e] = s.out]
    /\ pi_sent' = [pi_sent EXCEPT ![e] = s.sent]
    /\ pi_events' = [pi_events EXCEPT ![e] = s.events]

\* InspSocket::Write: queue, WantWrite, and flush at once.
PiWrite(e) ==
    /\ PiPeer[e] # PiOutside /\ pi_out[e] < PiQueue
    /\ PiSet(e, PiFlush(e, pi_out[e] + 1, PiWantWrite(e, pi_events[e])))
    /\ UNCHANGED <<pi_engine, pi_typed>>

\* userrec::Write: queue and WantWrite.
PiWriteClient(e) ==
    /\ PiPeer[e] = PiOutside /\ pi_out[e] < PiQueue
    /\ pi_out' = [pi_out EXCEPT ![e] = @ + 1]
    /\ pi_events' = [pi_events EXCEPT ![e] = PiWantWrite(e, @)]
    /\ UNCHANGED <<pi_engine, pi_sent, pi_typed>>

PiReadable(e) == IF PiPeer[e] = PiOutside THEN pi_typed[e] ELSE pi_sent[PiPeer[e]] > 0
PiWriteable(e) == pi_sent[e] < PiRoom

\* Reading takes everything there is.
PiRead(e) ==
    /\ pi_typed' = [pi_typed EXCEPT ![e] = FALSE]
    /\ pi_sent' = [f \in PiEnds |-> IF f = PiPeer[e] THEN 0 ELSE pi_sent[f]]
    /\ UNCHANGED <<pi_engine, pi_out, pi_events>>

\* EPollEngine::DispatchEvents: EPOLLOUT puts the set back to EPOLLIN before the handler.
PiEpollOut(e) ==
    /\ pi_engine[e] = "epoll" /\ "write" \in pi_events[e] /\ PiWriteable(e)
    /\ PiSet(e, PiFlush(e, pi_out[e], {"read"}))
    /\ UNCHANGED <<pi_engine, pi_typed>>
PiEpollIn(e) ==
    /\ pi_engine[e] = "epoll" /\ "read" \in pi_events[e] /\ PiReadable(e)
    /\ PiRead(e)

\* SelectEngine::DispatchEvents: a descriptor that is ready gets a write event if it
\* asked for one, and writeable[] is cleared after the handler.
PiSelectOut(e) ==
    /\ pi_engine[e] = "select" /\ "write" \in pi_events[e]
    /\ PiReadable(e) \/ PiWriteable(e)
    /\ PiSet(e, [PiFlush(e, pi_out[e], pi_events[e]) EXCEPT !.events = @ \ {"write"}])
    /\ UNCHANGED <<pi_engine, pi_typed>>
PiSelectIn(e) ==
    /\ pi_engine[e] = "select" /\ "write" \notin pi_events[e] /\ PiReadable(e)
    /\ PiRead(e)

\* A client reads what it was sent, or sends something.
PiClientReads(e) ==
    /\ PiPeer[e] = PiOutside /\ pi_sent[e] > 0
    /\ pi_sent' = [pi_sent EXCEPT ![e] = 0]
    /\ UNCHANGED <<pi_engine, pi_out, pi_typed, pi_events>>
PiClientSends(e) ==
    /\ PiPeer[e] = PiOutside
    /\ pi_typed' = [pi_typed EXCEPT ![e] = TRUE]
    /\ UNCHANGED <<pi_engine, pi_out, pi_sent, pi_events>>

PiDispatch(e) == PiEpollOut(e) \/ PiEpollIn(e) \/ PiSelectOut(e) \/ PiSelectIn(e)

PipesNext ==
    \E e \in PiEnds :
        \/ PiWrite(e) \/ PiWriteClient(e)
        \/ PiEpollOut(e) \/ PiEpollIn(e) \/ PiSelectOut(e) \/ PiSelectIn(e)
        \/ PiClientReads(e) \/ PiClientSends(e)

\* The main loop dispatches what is ready for ever, and a client reads.
PipesFairness ==
    \A e \in PiEnds : WF_pi_vars(PiDispatch(e)) /\ WF_pi_vars(PiClientReads(e))
PipesFairSpec == PipesInit /\ [][PipesNext]_pi_vars /\ PipesFairness

-----------------------------------------------------------------------------
(* Properties *)

PiQueuedWanted(e) == pi_out[e] > 0 => "write" \in pi_events[e]

\* On epoll, whatever is queued has a write event coming: the event that writes a part
\* of it asks for the next one, and the reset to EPOLLIN comes before the handler.
PiEpollKeepsWaiting(e) == pi_engine[e] = "epoll" => PiQueuedWanted(e)

\* Two servers that each wait for room, with both pipes full: WantWrite has taken the
\* read interest away from both, and neither will ever read.
PiBothBlocked(e) ==
    /\ PiPeer[e] # PiOutside
    /\ \A f \in {e, PiPeer[e]} : pi_sent[f] = PiRoom /\ pi_events[f] = {"write"}

\* On epoll, for what is queued there is room in the end, and an event to write it with,
\* except between two servers that block each other: the only way to wait for ever.
PiMayWrite(e) == "write" \in pi_events[e] /\ PiWriteable(e)
PiDelivered ==
    \A e \in PiEnds :
        pi_engine[e] = "epoll" /\ pi_out[e] > 0 ~> pi_out[e] = 0 \/ PiMayWrite(e) \/ PiBothBlocked(e)

\* On epoll what is queued has an event coming that writes it, and is written.
PiWritten == [](\A e \in PiEnds : PiEpollKeepsWaiting(e)) /\ PiDelivered
=============================================================================

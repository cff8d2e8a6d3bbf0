----------------------------- MODULE Background -----------------------------
(***************************************************************************)
(* The deadlines of local clients (DoBackgroundUserStuff, userprocess.cpp):*)
(* registration timeout, DNS timeout, ping.  The loop over all clients is  *)
(* run only when InspIRCd::next_call is reached; each run computes the     *)
(* next one from the deadlines it has seen, and commands lower it.  What   *)
(* a client's deadlines are is otherwise not told to next_call: a cached   *)
(* value that must never sleep for ever.                                   *)
(*                                                                         *)
(* All times are relative to TIME: a deadline d is passed when d < 0.      *)
(***************************************************************************)
EXTENDS Integers, FiniteSets
LOCAL INSTANCE FiniteSetsExt

CONSTANTS
    BgClients,      \* local clients
    BgSilent,       \* those that never send a line once registered
    BgReg,          \* ConnectClass::registration_timeout
    BgPing,         \* ConnectClass::pingtime
    BgDns,          \* ServerConfig::dns_timeout
    BgDummy,        \* DUMMY_VALUE: longer than any deadline
    BgSteps         \* seconds between two iterations of the main loop

ASSUME BackgroundOK ==
    /\ BgSilent \subseteq BgClients
    /\ BgReg \in Nat \ {0} /\ BgPing \in Nat \ {0} /\ BgDns \in Nat \ {0}
    /\ BgDummy > BgReg /\ BgDummy > BgPing + BgDns /\ BgDummy > 2 * BgDns
    /\ BgSteps \subseteq Nat \ {0}

VARIABLES
    bg_state,       \* what the client has sent: "absent", "waiting", "sent" (REG_NICKUSER), "all"
    bg_dns,         \* userrec::dns_done
    bg_ready,       \* AllModulesReportReady
    bg_timeout,     \* userrec::timeout
    bg_signon,      \* userrec::signon
    bg_nping,       \* userrec::nping
    bg_pong,        \* userrec::lastping: the last PING was answered
    bg_next         \* InspIRCd::next_call

bg_client == <<bg_state, bg_dns, bg_ready, bg_timeout, bg_signon, bg_nping, bg_pong>>
bg_vars == <<bg_client, bg_next>>

BgDeadlines == -BgDummy .. BgDummy

BackgroundTypeOK ==
    /\ bg_state \in [BgClients -> {"absent", "waiting", "sent", "all"}]
    /\ bg_dns \in [BgClients -> BOOLEAN]
    /\ bg_ready \in [BgClients -> BOOLEAN]
    /\ bg_timeout \in [BgClients -> BgDeadlines]
    /\ bg_signon \in [BgClients -> BgDeadlines]
    /\ bg_nping \in [BgClients -> BgDeadlines]
    /\ bg_pong \in [BgClients -> BOOLEAN]
    /\ bg_next \in BgDeadlines

BackgroundInit ==
    /\ bg_state = [c \in BgClients |-> "absent"]
    /\ bg_dns = [c \in BgClients |-> FALSE] /\ bg_ready = [c \in BgClients |-> FALSE]
    /\ bg_timeout = [c \in BgClients |-> 0] /\ bg_signon = [c \in BgClients |-> 0]
    /\ bg_nping = [c \in BgClients |-> 0] /\ bg_pong = [c \in BgClients |-> FALSE]
    /\ bg_next = 3

-----------------------------------------------------------------------------
(* Commands and answers, between two seconds *)

BgSooner(d) == bg_next' = IF bg_next > d THEN d ELSE bg_next

\* AddClient: next_call is not told of the new deadlines.
BgConnect(c) ==
    /\ bg_state[c] = "absent"
    /\ bg_state' = [bg_state EXCEPT ![c] = "waiting"]
    /\ bg_dns' = [bg_dns EXCEPT ![c] = FALSE]
    /\ bg_ready' = [bg_ready EXCEPT ![c] = FALSE]
    /\ bg_timeout' = [bg_timeout EXCEPT ![c] = BgReg]
    /\ bg_signon' = [bg_signon EXCEPT ![c] = BgDns]
    /\ bg_nping' = [bg_nping EXCEPT ![c] = BgPing + BgDns]
    /\ bg_pong' = [bg_pong EXCEPT ![c] = TRUE]
    /\ UNCHANGED bg_next

\* The second of NICK and USER.
BgRegister(c) ==
    /\ bg_state[c] = "waiting"
    /\ bg_state' = [bg_state EXCEPT ![c] = "sent"]
    /\ BgSooner(BgDns)
    /\ UNCHANGED <<bg_dns, bg_ready, bg_timeout, bg_signon, bg_nping, bg_pong>>

\* UserResolver::OnLookupComplete or OnError.
BgLookup(c) ==
    /\ bg_state[c] \in {"waiting", "sent"} /\ ~bg_dns[c]
    /\ bg_dns' = [bg_dns EXCEPT ![c] = TRUE]
    /\ UNCHANGED <<bg_state, bg_ready, bg_timeout, bg_signon, bg_nping, bg_pong, bg_next>>

\* The last module that held the client back lets it go; m_ident resets next_call,
\* m_conn_waitpong does not.
BgReady(c) ==
    /\ bg_state[c] \in {"waiting", "sent"} /\ ~bg_ready[c]
    /\ bg_ready' = [bg_ready EXCEPT ![c] = TRUE]
    /\ bg_next' \in {bg_next, 0}
    /\ UNCHANGED <<bg_state, bg_dns, bg_timeout, bg_signon, bg_nping, bg_pong>>

\* Any command moves nping (ProcessCommand); PONG also sets lastping.
BgCommand(c) ==
    /\ bg_state[c] = "all" /\ c \notin BgSilent
    /\ bg_nping' = [bg_nping EXCEPT ![c] = BgPing]
    /\ \E pong \in BOOLEAN : bg_pong' = [bg_pong EXCEPT ![c] = @ \/ pong]
    /\ UNCHANGED <<bg_state, bg_dns, bg_ready, bg_timeout, bg_signon, bg_next>>

-----------------------------------------------------------------------------
(* DoBackgroundUserStuff, with TIME d seconds later than the deadlines say *)

BgTimedOut(c, d) == bg_state[c] \in {"waiting", "sent"} /\ bg_timeout[c] - d < 0

BgConnects(c, d) ==
    /\ bg_state[c] = "sent" /\ bg_ready[c] /\ ~BgTimedOut(c, d)
    /\ bg_signon[c] - d < 0 \/ bg_dns[c]

BgPingDue(c, d) == bg_state[c] = "all" /\ bg_nping[c] - d < 0
BgPingedOut(c, d) == BgPingDue(c, d) /\ ~bg_pong[c]

BgSeen(c, d) ==
    (IF bg_state[c] \in {"waiting", "sent"} /\ ~BgTimedOut(c, d) THEN {bg_timeout[c] - d} ELSE {})
    \cup (IF bg_state[c] = "sent" /\ bg_ready[c] /\ ~BgTimedOut(c, d) /\ ~BgConnects(c, d)
          THEN {bg_signon[c] - d, bg_signon[c] - d + BgDns} ELSE {})
    \cup (IF bg_state[c] = "all" /\ ~BgPingDue(c, d) THEN {bg_nping[c] - d} ELSE {})

\* next_call at the end of the loop; nothing seen means the next second.
BgNextCall_sleep(d) ==  \* mutant: nothing seen means a long sleep
    Min({BgDummy} \cup UNION {BgSeen(c, d) : c \in BgClients})
BgNextCall(d) ==
    LET seen == UNION {BgSeen(c, d) : c \in BgClients} IN
    IF seen = {} THEN 1 ELSE Min(seen)

\* Deadlines of absent clients are not kept, nor the exact age of old ones.
BgLater(t, d) == IF t - d < -BgDummy THEN -BgDummy ELSE t - d

BgAge(d) ==
    /\ bg_timeout' = [c \in BgClients |->
          IF bg_state'[c] \in {"waiting", "sent"} THEN BgLater(bg_timeout[c], d) ELSE 0]
    /\ bg_signon' = [c \in BgClients |->
          IF bg_state'[c] \in {"waiting", "sent"} THEN BgLater(bg_signon[c], d) ELSE 0]

\* A second (or more) passes and next_call is not reached.
BgSleep(d) ==
    /\ bg_next - d > 0
    /\ bg_next' = bg_next - d
    /\ UNCHANGED <<bg_state, bg_dns, bg_ready, bg_pong>>
    /\ bg_nping' = [c \in BgClients |-> IF bg_state[c] = "absent" THEN 0 ELSE BgLater(bg_nping[c], d)]
    /\ BgAge(d)

\* It is reached: the clients are looked at, and those that quit are culled at the
\* end of the iteration.
BgCheck(d) ==
    /\ bg_next - d <= 0
    /\ bg_state' = [c \in BgClients |->
          IF BgTimedOut(c, d) \/ BgPingedOut(c, d) THEN "absent"
          ELSE IF BgConnects(c, d) THEN "all" ELSE bg_state[c]]
    /\ bg_dns' = [c \in BgClients |-> bg_dns[c] /\ bg_state'[c] \in {"waiting", "sent"}]
    /\ bg_ready' = [c \in BgClients |-> bg_ready[c] /\ bg_state'[c] \in {"waiting", "sent"}]
    /\ bg_pong' = [c \in BgClients |-> bg_pong[c] /\ bg_state'[c] # "absent" /\ ~BgPingDue(c, d)]
    /\ bg_nping' = [c \in BgClients |->
          IF bg_state'[c] = "absent" THEN 0
          ELSE IF BgPingDue(c, d) THEN BgPing ELSE BgLater(bg_nping[c], d)]
    /\ BgAge(d)
    /\ bg_next' = BgNextCall(d)

BgTick == \E d \in BgSteps : BgSleep(d) \/ BgCheck(d)

BackgroundNext ==
    \/ \E c \in BgClients :
         BgConnect(c) \/ BgRegister(c) \/ BgLookup(c) \/ BgReady(c) \/ BgCommand(c)
    \/ \E d \in BgSteps : BgSleep(d) \/ BgCheck(d)

BackgroundSpec == BackgroundInit /\ [][BackgroundNext]_bg_vars
\* Time passes.
BackgroundFairSpec == BackgroundSpec /\ WF_bg_vars(BgTick)

-----------------------------------------------------------------------------
(* Properties *)

\* next_call can be late for a client it was not told of, by no more than the
\* longest deadline of another one: no connection stays half open longer.
BgSlack == Max({BgReg, BgPing + BgDns, 2 * BgDns}) + Max(BgSteps)
RegistrationNotVeryLate(c) == bg_state[c] \in {"waiting", "sent"} => bg_timeout[c] >= -BgSlack

\* Whatever a client sends or does not, and whatever DNS and modules do, it is
\* connected or removed some time.
RegistrationEnds ==
    \A c \in BgClients :
        (bg_state[c] \in {"waiting", "sent"}) ~> (bg_state[c] \in {"all", "absent"})

\* A registered client that does not answer is removed: one ping, one more wait.
SilentIsRemoved == \A c \in BgSilent : (bg_state[c] = "all") ~> (bg_state[c] = "absent")

\* No connection stays half open, however long the loop sleeps, and none stays open that does not answer.
BgEnds == [](\A c \in BgClients : RegistrationNotVeryLate(c)) /\ RegistrationEnds /\ SilentIsRemoved
=============================================================================

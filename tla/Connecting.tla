----------------------------- MODULE Connecting -----------------------------
(***************************************************************************)
(* How one server keeps its links: m_spanningtree's link blocks,           *)
(* AutoConnectServers, ConnectServer with its host name lookup, DoFailOver *)
(* after a connection that failed, CONNECT, SQUIT and a rehash, and        *)
(* DoPingChecks with LocalPong. Time passes in ticks of 30 seconds. The    *)
(* attempts to reach one server that are at the same stage count as one.   *)
(***************************************************************************)
EXTENDS Naturals, FiniteSets

CONSTANTS
    CoLinks,     \* names of link blocks
    CoFailover,  \* failover of each block, or CoNone
    CoNamed,     \* blocks whose ipaddr is a host name
    CoAuto,      \* blocks with an autoconnect time
    CoPeriod,    \* that time, in ticks
    CoConfigs,   \* the sets of blocks a configuration may have
    CoFlaps,     \* changes of the other servers and of the configuration
    CoNone

ASSUME ConnectingOK ==
    /\ CoFailover \in [CoLinks -> CoLinks \cup {CoNone}] /\ CoNone \notin CoLinks
    /\ CoNamed \subseteq CoLinks /\ CoAuto \subseteq CoLinks /\ CoPeriod \in Nat \ {0}
    /\ CoConfigs \subseteq SUBSET CoLinks /\ CoConfigs # {} /\ CoFlaps \in Nat

VARIABLES
    co_blocks,  \* LinkBlocks
    co_wait,    \* NextConnectTime of each block, in ticks from now
    co_try,     \* stages of the attempts to reach each server: "resolve" (ServernameResolver),
                \* "connect", "handshake", "lost" (connected, but its block is gone)
    co_in,      \* the servers linked
    co_left,    \* their NextPing, in ticks from now
    co_good,    \* LastPingWasGood
    co_owes,    \* linked servers that have a PING to answer
    co_peer,    \* each other server: "up", "down" or "silent"
    co_flaps

co_vars == <<co_blocks, co_wait, co_try, co_in, co_left, co_good, co_owes, co_peer, co_flaps>>

CoPing == 2   \* 60 seconds
CoStages == {"resolve", "connect", "handshake", "lost"}

ConnectingTypeOK ==
    /\ co_blocks \in CoConfigs /\ co_wait \in [CoLinks -> 0 .. CoPeriod]
    /\ co_try \in [CoLinks -> SUBSET CoStages] /\ co_in \subseteq CoLinks
    /\ co_left \in [CoLinks -> 0 .. CoPing] /\ co_good \in [CoLinks -> BOOLEAN]
    /\ co_owes \subseteq CoLinks /\ co_peer \in [CoLinks -> {"up", "down", "silent"}]
    /\ co_flaps \in 0 .. CoFlaps

ConnectingInit ==
    /\ co_blocks \in CoConfigs /\ co_wait = [x \in CoLinks |-> CoPeriod]
    /\ co_try = [x \in CoLinks |-> {}] /\ co_in = {}
    /\ co_left = [x \in CoLinks |-> 0] /\ co_good = [x \in CoLinks |-> FALSE]
    /\ co_owes = {} /\ co_peer \in [CoLinks -> {"up", "down"}] /\ co_flaps = 0

-----------------------------------------------------------------------------
(* Attempts *)

\* DoFailOver: the block to try instead of x, when there is one.
CoNext(x) == {y \in co_blocks : y = CoFailover[x] /\ y # x}
\* ConnectServer and the failovers it runs into: a socket that fails at once goes on to the
\* failover. Blocks that fail over to each other in a circle would never end here.
CoReached(x, fails) ==
    LET reach[n \in 0 .. Cardinality(CoLinks), y \in CoLinks] ==
            IF y \in CoNamed \/ y \notin fails THEN {y}
            ELSE IF n = 0 THEN {} ELSE UNION {reach[n - 1, z] : z \in CoNext(y)}
    IN reach[Cardinality(CoLinks), x]
CoStage(x) == IF x \in CoNamed THEN "resolve" ELSE "connect"
CoStarted(xs, fails) ==
    LET ys == UNION {CoReached(x, fails) : x \in xs}
    IN [y \in CoLinks |-> co_try[y] \cup IF y \in ys THEN {CoStage(y)} ELSE {}]
\* What may fail at once: nothing that is there to be reached.
CoFails == SUBSET {x \in CoLinks : co_peer[x] # "up"}

CoDrop(try, x, stage) == [try EXCEPT ![x] = @ \ {stage}]
CoMove(x, from, to) == [co_try EXCEPT ![x] = (@ \ {from}) \cup {to}]
CoRest == <<co_blocks, co_wait, co_peer, co_flaps>>
CoTree == <<co_in, co_left, co_good, co_owes>>

CoFailOver(x, stage) ==
    \E fails \in CoFails : co_try' = CoDrop(CoStarted(CoNext(x), fails), x, stage)

\* ServernameResolver: OnLookupComplete checks that nobody has linked the server meanwhile.
CoResolved(x) ==
    /\ "resolve" \in co_try[x] /\ co_peer[x] = "up"
    /\ co_try' = IF x \in co_in THEN CoDrop(co_try, x, "resolve") ELSE CoMove(x, "resolve", "connect")
    /\ UNCHANGED <<CoRest, CoTree>>
CoUnresolved(x) ==
    /\ "resolve" \in co_try[x] /\ co_peer[x] # "up"
    /\ CoFailOver(x, "resolve") /\ UNCHANGED <<CoRest, CoTree>>
\* OnConnected: the block may have gone; then the connection stays until the other end closes it.
CoConnected(x) ==
    /\ "connect" \in co_try[x] /\ co_peer[x] = "up"
    /\ co_try' = CoMove(x, "connect", IF x \in co_blocks THEN "handshake" ELSE "lost")
    /\ UNCHANGED <<CoRest, CoTree>>
\* OnError(I_ERR_CONNECT) and OnTimeout: the failover, when the block is still there.
CoRefused_ends(x) ==  \* mutant: no failover after a timeout
    /\ "connect" \in co_try[x] /\ co_peer[x] # "up"
    /\ co_try' = CoDrop(co_try, x, "connect") /\ UNCHANGED <<CoRest, CoTree>>
CoRefused(x) ==
    /\ "connect" \in co_try[x] /\ co_peer[x] # "up"
    /\ IF x \in co_blocks THEN CoFailOver(x, "connect") ELSE co_try' = CoDrop(co_try, x, "connect")
    /\ UNCHANGED <<CoRest, CoTree>>

\* The constructor of TreeServer: pinged in a minute, and as if it had answered.
CoNew(x) ==
    /\ co_in' = co_in \cup {x}
    /\ co_left' = [co_left EXCEPT ![x] = CoPing] /\ co_good' = [co_good EXCEPT ![x] = TRUE]
    /\ co_owes' = co_owes \ {x}
\* The handshake (LinkSetup): a server that is linked, or that has no block, is refused.
CoShaken(x) ==
    /\ "handshake" \in co_try[x] /\ co_try' = CoDrop(co_try, x, "handshake")
    /\ IF co_peer[x] = "up" /\ x \in co_blocks \ co_in THEN CoNew(x) ELSE UNCHANGED CoTree
    /\ UNCHANGED CoRest
\* The other server closes the connection nobody speaks on.
CoHungUp(x) ==
    /\ "lost" \in co_try[x] /\ co_try' = CoDrop(co_try, x, "lost")
    /\ UNCHANGED <<CoRest, CoTree>>
\* The other server has connected to us.
CoInbound(x) ==
    /\ co_peer[x] = "up" /\ x \in co_blocks \ co_in
    /\ CoNew(x) /\ UNCHANGED <<co_try, CoRest>>

\* Squit and OnClose
CoGone(xs) == co_in' = co_in \ xs /\ co_owes' = co_owes \ xs
CoClosed(x) ==
    /\ x \in co_in /\ co_peer[x] = "down"
    /\ CoGone({x}) /\ UNCHANGED <<co_left, co_good, co_try, CoRest>>
CoSquit(x) ==
    /\ x \in co_in /\ co_flaps < CoFlaps /\ co_flaps' = co_flaps + 1
    /\ CoGone({x}) /\ UNCHANGED <<co_left, co_good, co_try, co_blocks, co_wait, co_peer>>
\* HandleConnect, also for RCONNECT.
CoConnect(x) ==
    /\ x \in co_blocks \ co_in
    /\ \E fails \in CoFails : co_try' = CoStarted({x}, fails)
    /\ UNCHANGED <<CoRest, CoTree>>

-----------------------------------------------------------------------------
(* The timer *)

CoLess(n) == IF n = 0 THEN 0 ELSE n - 1
\* AutoConnectServers: not while the failover is on the network.
CoDue == {x \in co_blocks \cap CoAuto : CoLess(co_wait[x]) = 0}
CoWanted(due) == {x \in due : CoFailover[x] \notin co_in /\ x \notin co_in}
CoAutoConnect ==
    /\ co_wait' = [x \in CoLinks |-> IF x \in CoDue THEN CoPeriod ELSE CoLess(co_wait[x])]
    /\ \E fails \in CoFails : co_try' = CoStarted(CoWanted(CoDue), fails)

\* DoPingChecks: one server at most is booted at a time, and the others wait for the next call.
CoAsk(xs) == co_good' = [x \in CoLinks |-> x \notin xs /\ co_good[x]]
CoPingChecks ==
    LET late == {x \in co_in : CoLess(co_left[x]) = 0}
        mute == {x \in late : ~co_good[x]}
    IN \E asked \in SUBSET (late \ mute) :
        /\ mute = {} => asked = late
        /\ CoAsk(asked)
        /\ co_left' = [x \in CoLinks |-> IF x \in asked THEN CoPing ELSE CoLess(co_left[x])]
        /\ IF mute = {} THEN co_in' = co_in /\ co_owes' = co_owes \cup asked
           ELSE \E x \in mute : co_in' = co_in \ {x} /\ co_owes' = (co_owes \cup asked) \ {x}
CoBackground == CoAutoConnect /\ CoPingChecks /\ UNCHANGED <<co_blocks, co_peer, co_flaps>>

\* LocalPong
CoPong(x) ==
    /\ x \in co_owes /\ co_peer[x] = "up"
    /\ co_good' = [co_good EXCEPT ![x] = TRUE] /\ co_owes' = co_owes \ {x}
    /\ UNCHANGED <<co_in, co_left, co_try, CoRest>>

\* ReadConfiguration: new blocks, with NextConnectTime from now on.
CoRehash ==
    /\ co_flaps < CoFlaps /\ co_flaps' = co_flaps + 1
    /\ co_blocks' \in CoConfigs /\ co_wait' = [x \in CoLinks |-> CoPeriod]
    /\ UNCHANGED <<co_try, CoTree, co_peer>>
\* The other servers
CoPeer(x) ==
    /\ co_flaps < CoFlaps /\ co_flaps' = co_flaps + 1
    /\ co_peer' \in {[co_peer EXCEPT ![x] = p] : p \in {"up", "down", "silent"}}
    /\ co_peer[x] = "down" => x \notin co_in
    /\ UNCHANGED <<co_blocks, co_wait, co_try, CoTree>>

ConnectingNext ==
    \/ \E x \in CoLinks :
        \/ CoResolved(x) \/ CoUnresolved(x) \/ CoConnected(x) \/ CoRefused(x) \/ CoShaken(x)
        \/ CoHungUp(x) \/ CoInbound(x) \/ CoClosed(x) \/ CoSquit(x) \/ CoConnect(x)
        \/ CoPong(x) \/ CoPeer(x)
    \/ CoBackground \/ CoRehash
ConnectingSpec == ConnectingInit /\ [][ConnectingNext]_co_vars
\* The timer is called, and what was begun ends: lookups and connections have their timeouts.
ConnectingFairSpec ==
    /\ ConnectingSpec /\ WF_co_vars(CoBackground)
    /\ \A x \in CoLinks :
        /\ WF_co_vars(CoResolved(x)) /\ WF_co_vars(CoUnresolved(x)) /\ WF_co_vars(CoConnected(x))
        /\ WF_co_vars(CoRefused(x)) /\ WF_co_vars(CoShaken(x)) /\ WF_co_vars(CoClosed(x))

-----------------------------------------------------------------------------
(* Properties *)

\* A server with an autoconnect block that can be reached is linked again and again, or its
\* failover is: the autoconnect time, the failovers and what an operator does never end it.
CoAutoconnects ==
    \A x \in CoAuto :
        <>[](co_peer[x] = "up" /\ x \in co_blocks) => []<>(co_in \cap {x, CoFailover[x]} # {})

\* When the server of the block cannot be reached, its failover is linked.
CoFailsOver ==
    \A x \in CoAuto : CoFailover[x] \in CoLinks =>
        (<>[](co_peer[x] # "up" /\ co_peer[CoFailover[x]] = "up" /\ {x, CoFailover[x]} \subseteq co_blocks)
            => []<>(CoFailover[x] \in co_in))

\* A linked server that has fallen silent does not stay on the network.
CoSilentGoes == \A x \in CoLinks : <>[](co_peer[x] = "silent") => <>[](x \notin co_in)

\* The timer removes no server that owes it no answer.
CoBootsSilent == [][CoBackground => \A x \in co_in \ co_in' : x \in co_owes]_co_vars

\* Links that should be there come back, over the failover if need be, and only silent ones are given up.
CoKeepsLinks == CoBootsSilent /\ CoAutoconnects /\ CoFailsOver /\ CoSilentGoes
=============================================================================

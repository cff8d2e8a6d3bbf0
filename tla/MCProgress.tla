----------------------------- MODULE MCProgress ------------------------------
(* What has to go on: bounded instances of the components with liveness      *)
(* properties, in one run. A behaviour exercises one of them, and only that  *)
(* one's steps are owed.                                                     *)
EXTENDS LinkSetup, Background, Pipes, Queues, Database, Connecting, TLC
CONSTANTS alpha, beta, c1, b1, b2, ea, eb, ec

VARIABLE progress_part   \* the part of the server this behaviour exercises

MCServers == {alpha, beta}
MCConns == {c1}
MCDialer == [c \in MCConns |-> alpha]
MCPiPeer == ea :> eb @@ eb :> ea @@ ec :> PiOutside
MCCoFailover == [x \in CoLinks |-> IF x = "hub" THEN "spare" ELSE "none"]
MCCoDown == [x \in CoLinks |-> "down"]
MCCoConfigs == {{"hub","spare"},{"spare"}}

ProgressParts == {"links", "background", "pipes", "queues", "database",
    "connecting"}

\* The parts a behaviour does not exercise keep one initial state.
ProgressInit ==
    /\ progress_part \in ProgressParts
    /\ Init
    /\ BackgroundInit
    /\ PipesInit
    /\ (progress_part # "pipes" => pi_engine = [e \in PiEnds |-> "epoll"])
    /\ QueuesInit /\ (progress_part # "queues" => qu_reg)
    /\ DatabaseInit /\ (progress_part # "database" => db_provider = "pgsql")
    /\ ConnectingInit
    /\ (progress_part # "connecting" => co_blocks = CoLinks /\ co_peer = MCCoDown)

ProgressFrame(part) ==
    /\ progress_part = part /\ UNCHANGED progress_part
    /\ (part # "links" => UNCHANGED vars)
    /\ (part # "background" => UNCHANGED bg_vars)
    /\ (part # "pipes" => UNCHANGED pi_vars)
    /\ (part # "queues" => UNCHANGED qu_vars)
    /\ (part # "database" => UNCHANGED db_vars)
    /\ (part # "connecting" => UNCHANGED co_vars)

ProgressNext ==
    \/ ProgressFrame("links") /\ Next
    \/ ProgressFrame("background") /\ BackgroundNext
    \/ ProgressFrame("pipes") /\ PipesNext
    \/ ProgressFrame("queues") /\ QueuesNext
    \/ ProgressFrame("database") /\ DatabaseNext
    \/ ProgressFrame("connecting") /\ ConnectingNext

progress_vars == <<progress_part, vars, bg_vars, pi_vars, qu_vars, db_vars,
    co_vars>>
ProgressSpec == ProgressInit /\ [][ProgressNext]_progress_vars

\* The fairness of each component's own specification, for the part exercised.
Owed(part) == progress_part = part
ProgressFair ==
    /\ \A c \in Conns : WF_vars(Owed("links") /\ Dial(c)) /\ WF_vars(Owed("links") /\ Accept(c))
    /\ \A s \in Servers, c \in Conns : WF_vars(Owed("links") /\ ProcessLine(s, c))
    /\ \A s \in Servers : WF_vars(Owed("links") /\ InspSocketCull(s))
    /\ WF_bg_vars(Owed("background") /\ BgTick)
    /\ \A e \in PiEnds : WF_pi_vars(Owed("pipes") /\ PiDispatch(e))
    /\ \A e \in PiEnds : WF_pi_vars(Owed("pipes") /\ PiClientReads(e))
    /\ WF_qu_vars(Owed("queues") /\ ~qu_muted /\ QuSecond)
    /\ WF_db_vars(Owed("database") /\ DbDeliver)
    /\ WF_db_vars(Owed("database") /\ DbAnswer)
    /\ WF_db_vars(Owed("database") /\ DbReconnect)
    /\ WF_db_vars(Owed("database") /\ DbLook)
    /\ WF_db_vars(Owed("database") /\ DbTake)
    /\ WF_db_vars(Owed("database") /\ DbExecute)
    /\ WF_db_vars(Owed("database") /\ DbNotify)
    /\ WF_db_vars(Owed("database") /\ DbPop)
    /\ WF_co_vars(Owed("connecting") /\ CoBackground)
    /\ \A x \in CoLinks :
        /\ WF_co_vars(Owed("connecting") /\ CoResolved(x))
        /\ WF_co_vars(Owed("connecting") /\ CoUnresolved(x))
        /\ WF_co_vars(Owed("connecting") /\ CoConnected(x))
        /\ WF_co_vars(Owed("connecting") /\ CoRefused(x))
        /\ WF_co_vars(Owed("connecting") /\ CoShaken(x))
        /\ WF_co_vars(Owed("connecting") /\ CoClosed(x))
ProgressFairSpec == ProgressSpec /\ ProgressFair

\* Where the links are exercised, the servers end up linked (LinkSetup.EventuallyLinked).
LinkedInTheEnd == Owed("links") => EventuallyLinked
\* The two ends of a link keep agreeing, and however often it breaks it comes back.
LinkKept == [](BothSidesAgree /\ NoDanglingSocket) /\ LinkedInTheEnd

\* Every component keeps its types, whichever of them moves: the type
\* invariants of the components, together.
ProgressTypeOK ==
    /\ TypeOK /\ BackgroundTypeOK
    /\ PipesTypeOK /\ QueuesTypeOK
    /\ DatabaseTypeOK /\ ConnectingTypeOK
=============================================================================

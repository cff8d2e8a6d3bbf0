----------------------------- MODULE ServerTree -----------------------------
(***************************************************************************)
(* The tree of servers as each server of a network keeps it: TreeServer,   *)
(* SpanningTreeUtilities (FindServer, BestRouteTo, DoOneToAllButSender),   *)
(* and the lines that change it or use it: BURST with the SERVER lines of  *)
(* SendServers, SERVER, SQUIT, and a notice sent to everybody. LinkSetup   *)
(* has the handshake of one link; here links of several servers cross.     *)
(***************************************************************************)
EXTENDS Naturals, Sequences, FiniteSets, SequencesExt

CONSTANTS
    TrServers,
    TrPlans,    \* the networks: sets of <<s, t>>, s has a link block to connect to t
    TrDials,    \* connections made in all
    TrLosses,   \* connections lost
    TrNone

ASSUME ServerTreeOK ==
    /\ IsFiniteSet(TrServers) /\ TrNone \notin TrServers
    /\ TrPlans \subseteq SUBSET (TrServers \X TrServers) /\ TrDials \in Nat /\ TrLosses \in Nat

VARIABLES
    tr_plan,    \* the link blocks
    tr_nodes,   \* of each server: its TreeServers, each as the path of names from the root <<>>
    tr_hash,    \* its serverlist: the TreeServer of each name
    tr_sock,    \* tr_sock[s][t]: LinkState of s's socket to t: "none", "dialled", "auth2" or "up"
    tr_wire,    \* tr_wire[s][t]: lines on their way from s to t
    tr_got,     \* how often each server has handled the notice
    tr_dials, tr_losses

tr_vars == <<tr_plan, tr_nodes, tr_hash, tr_sock, tr_wire, tr_got, tr_dials, tr_losses>>

TrRoot == <<>>
TrLine(cmd, prefix, x) == [cmd |-> cmd, prefix |-> prefix, x |-> x]
TrEof == TrLine("EOF", TrNone, TrNone)

ServerTreeTypeOK ==
    /\ \A s \in TrServers : TrRoot \in tr_nodes[s]
    /\ tr_sock \in [TrServers -> [TrServers -> {"none", "dialled", "auth2", "up"}]]
    /\ tr_got \in [TrServers -> Nat] /\ tr_dials \in 0 .. TrDials /\ tr_losses \in 0 .. TrLosses

ServerTreeInit ==
    /\ tr_plan \in TrPlans
    /\ tr_nodes = [s \in TrServers |-> {TrRoot}]
    /\ tr_hash = [s \in TrServers |-> [x \in TrServers |-> IF x = s THEN {TrRoot} ELSE {}]]
    /\ tr_sock = [s \in TrServers |-> [t \in TrServers |-> "none"]]
    /\ tr_wire = [s \in TrServers |-> [t \in TrServers |-> <<>>]]
    /\ tr_got = [s \in TrServers |-> 0] /\ tr_dials = 0 /\ tr_losses = 0

-----------------------------------------------------------------------------
(* One server: [me, nodes, hash, sock, out], out the lines it writes to each socket. *)

TrState(s) == [me |-> s, nodes |-> tr_nodes[s], hash |-> tr_hash[s], sock |-> tr_sock[s],
               out |-> [t \in TrServers |-> <<>>]]

TrKnows(S, x) == x # TrNone /\ S.hash[x] # {}
TrFind(S, x) == CHOOSE n \in S.hash[x] : TRUE
\* BestRouteTo: the directly linked server to reach x by.
TrRoute(S, x) == IF x \in {S.me, TrNone} \/ ~TrKnows(S, x) THEN TrNone ELSE TrFind(S, x)[1]

\* WriteLine, when there is a socket.
TrWrite(S, t, l) == IF S.sock[t] = "none" THEN S.out[t] ELSE Append(S.out[t], l)
TrKids(S) == {t \in TrServers : <<t>> \in S.nodes}
\* DoOneToAllButSender
TrSpread(S, l, omit) ==
    LET to == {t \in TrKids(S) : t # omit /\ t # TrRoute(S, omit)}
    IN [S EXCEPT !.out = [t \in TrServers |-> IF t \in to THEN TrWrite(S, t, l) ELSE S.out[t]]]

\* The constructor of TreeServer: AddHashEntry keeps the entry there is.
TrAdd(S, node) ==
    [S EXCEPT !.nodes = @ \cup {node}, !.hash[Last(node)] = IF @ = {} THEN {node} ELSE @]
\* Tidy and the destructor: DelHashEntry goes by the name.
TrDelete_hashed(S, node) ==  \* mutant: only the server that is lost leaves the list of names
    [S EXCEPT !.nodes = {n \in @ : ~IsPrefix(node, n)}, !.hash[Last(node)] = {}]
TrDelete(S, node) ==
    LET lost == {n \in S.nodes : IsPrefix(node, n)}
    IN [S EXCEPT !.nodes = @ \ lost,
                 !.hash = [x \in TrServers |-> IF \E n \in lost : Last(n) = x THEN {} ELSE @[x]]]
\* TreeSocket::Squit and SquitServer
TrParent(S, node) == IF Len(node) = 1 THEN S.me ELSE node[Len(node) - 1]
TrSquit(S, x) ==
    IF ~TrKnows(S, x) \/ x = S.me THEN S
    ELSE LET node == TrFind(S, x)
         IN TrDelete(TrSpread(S, TrLine("SQUIT", TrParent(S, node), x), x), node)

\* OnClose of the socket to t, once it is closed: the server is looked up by name.
TrClose(S, t) == TrSquit([S EXCEPT !.sock[t] = "none", !.out[t] = Append(@, TrEof)], t)

\* SendServers: each server after the one it is linked to.
TrOrders(told) ==
    {f \in [1 .. Cardinality(told) -> told] :
        \A i, j \in DOMAIN f : i < j => ~IsPrefix(f[j], f[i])}
TrBurstLines(S, t) ==
    LET told == {n \in S.nodes \ {TrRoot} : n[1] # t}
        sorted == CHOOSE f \in TrOrders(told) : TRUE
    IN [i \in DOMAIN sorted |-> TrLine("SERVER", TrParent(S, sorted[i]), Last(sorted[i]))]
\* What both ends do when the link is accepted: a TreeServer, SERVER to the others, DoBurst.
TrJoin(S, t, first) ==
    LET up == TrAdd([S EXCEPT !.sock[t] = "up"], <<t>>)
        told == TrSpread(up, TrLine("SERVER", S.me, t), t)
    IN [told EXCEPT !.out[t] = @ \o first \o TrBurstLines(up, t)]

\* RemoteServer: a server that exists is refused and the link closed.
TrDupe(S, x) == TrKnows(S, x)
TrRemoteServer(S, t, l) ==
    IF TrDupe(S, l.x) THEN TrClose(S, t)
    ELSE TrSpread(TrAdd(S, Append(TrFind(S, l.prefix), l.x)), l, l.prefix)

\* ProcessLine of a socket that is up: the prefix must lie in the direction of the socket.
TrFrom(S, t, prefix) == TrRoute(S, prefix) = t
TrHandle(S, t, l) ==
    IF l.cmd = "EOF" THEN TrClose(S, t)
    ELSE IF l.cmd = "BURST" THEN IF S.sock[t] = "auth2" THEN TrJoin(S, t, <<TrLine("BURST", TrNone, TrNone)>>) ELSE S
    ELSE IF S.sock[t] # "up" \/ ~TrFrom(S, t, l.prefix) THEN S
    ELSE IF l.cmd = "SERVER" THEN TrRemoteServer(S, t, l)
    ELSE IF l.cmd = "SQUIT" THEN TrSquit(S, l.x)
    ELSE TrSpread(S, l, l.prefix)

-----------------------------------------------------------------------------
(* Actions *)

\* The new state of s, which has read the first line of t's (or none): lines to a socket
\* that is closed now are lost, but for the end of the stream.
TrCommit(S, read) ==
    LET s == S.me IN
    /\ tr_nodes' = [tr_nodes EXCEPT ![s] = S.nodes] /\ tr_hash' = [tr_hash EXCEPT ![s] = S.hash]
    /\ tr_sock' = [tr_sock EXCEPT ![s] = S.sock]
    /\ tr_wire' = [u \in TrServers |-> [v \in TrServers |->
           IF u = s THEN tr_wire[s][v] \o (IF tr_sock[v][s] = "none" THEN <<>> ELSE S.out[v])
           ELSE IF v # s \/ S.sock[u] = "none" THEN IF v = s THEN <<>> ELSE tr_wire[u][v]
           ELSE IF u = read THEN Tail(tr_wire[u][s]) ELSE tr_wire[u][s]]]

\* ConnectServer, the connection, CAPAB and SERVER of s, and Inbound_Server at t, which
\* checks that it does not know s yet. One connection between two servers at a time.
TrDial(s, t) ==
    /\ <<s, t>> \in tr_plan /\ tr_dials < TrDials /\ tr_dials' = tr_dials + 1
    /\ tr_sock[s][t] = "none" /\ tr_sock[t][s] = "none"
    /\ tr_hash[s][t] = {} /\ tr_hash[t][s] = {}
    /\ tr_sock' = [tr_sock EXCEPT ![s][t] = "dialled", ![t][s] = "auth2"]
    /\ UNCHANGED <<tr_plan, tr_nodes, tr_hash, tr_wire, tr_got, tr_losses>>
\* Outbound_Reply_Server: the same check at s, later.
TrReply(s, t) ==
    /\ tr_sock[s][t] = "dialled"
    /\ LET S == TrState(s) IN
       TrCommit(IF TrKnows(S, t) THEN TrClose(S, t) ELSE TrJoin(S, t, <<TrLine("BURST", TrNone, TrNone)>>), TrNone)
    /\ UNCHANGED <<tr_plan, tr_got, tr_dials, tr_losses>>
\* OnDataReady, ProcessLine.
TrRead(s, t) ==
    /\ tr_sock[s][t] # "none" /\ tr_wire[t][s] # <<>>
    /\ LET l == Head(tr_wire[t][s]) IN
       /\ TrCommit(TrHandle(TrState(s), t, l), t)
       /\ tr_got' = [tr_got EXCEPT ![s] = IF l.cmd = "NOTICE" /\ tr_sock[s][t] = "up" /\ TrFrom(TrState(s), t, l.prefix)
                                          THEN @ + 1 ELSE @]
    /\ UNCHANGED <<tr_plan, tr_dials, tr_losses>>
\* HandleSquit, a ping timeout or an error: Squit, then Close.
TrLose(s, t) ==
    /\ tr_sock[s][t] # "none" /\ tr_losses < TrLosses /\ tr_losses' = tr_losses + 1
    /\ TrCommit(TrClose(TrState(s), t), TrNone)
    /\ UNCHANGED <<tr_plan, tr_got, tr_dials>>
\* OPERNOTICE and the like, once.
TrNotice(s) ==
    /\ \A t \in TrServers : tr_got[t] = 0
    /\ LET S == TrState(s) IN TrCommit(TrSpread(S, TrLine("NOTICE", s, TrNone), TrNone), TrNone)
    /\ tr_got' = [tr_got EXCEPT ![s] = 1]
    /\ UNCHANGED <<tr_plan, tr_dials, tr_losses>>

ServerTreeNext ==
    \/ \E s, t \in TrServers : TrDial(s, t) \/ TrReply(s, t) \/ TrRead(s, t) \/ TrLose(s, t)
    \/ \E s \in TrServers : TrNotice(s)
ServerTreeSpec == ServerTreeInit /\ [][ServerTreeNext]_tr_vars

-----------------------------------------------------------------------------
(* Properties *)

\* The link blocks cannot close a circle: one way at most leads from a server to another. Nothing in the
\* code makes sure of it: two links made at the same time can, and BURST adds a server that is known by
\* another way.
TrLinked(plan, s, t) == <<s, t>> \in plan \/ <<t, s>> \in plan
TrWays(plan, s) ==
    {n \in UNION {[1 .. k -> TrServers] : k \in 1 .. Cardinality(TrServers) - 1} :
        /\ \A i, j \in DOMAIN n : n[i] = n[j] => i = j
        /\ \A i \in DOMAIN n : n[i] # s /\ TrLinked(plan, IF i = 1 THEN s ELSE n[i - 1], n[i])}
TrTrees == {plan \in TrPlans : \A s \in TrServers : \A m, n \in TrWays(plan, s) : Last(m) = Last(n) => m = n}
TrTreePlan == tr_plan \in TrTrees

\* On a network without circles every server in a tree is found by its name, and each name
\* leads to a server in the tree, whatever links are lost and made again.
TrFoundByName ==
    TrTreePlan => \A s, x \in TrServers :
        tr_hash[s][x] = {n \in tr_nodes[s] : IF n = TrRoot THEN x = s ELSE Last(n) = x}

\* Without circles a route leads over a socket that is open, and when all lines have been
\* read, two servers that know each other do so both ways.
TrRoutesOpen ==
    TrTreePlan => \A s \in TrServers : \A n \in tr_nodes[s] : n # TrRoot => tr_sock[s][n[1]] = "up"
TrQuiet == \A s, t \in TrServers : tr_wire[s][t] = <<>> /\ tr_sock[s][t] \in {"none", "up"}
TrTreesAgree ==
    TrTreePlan /\ TrQuiet => \A s, t \in TrServers : tr_hash[s][t] # {} => tr_hash[t][s] # {}

\* Nobody hears a notice twice, though links are lost and made again while it is on its way.
TrHeardOnce == TrTreePlan => \A s \in TrServers : tr_got[s] <= 1

\* While the configurations allow no circle: the trees of all servers are one when all is read, every record can be
\* found by its name and reached, and a message is heard nowhere twice.
TrOneTree == TrFoundByName /\ TrRoutesOpen /\ TrTreesAgree /\ TrHeardOnce
=============================================================================

------------------------------ MODULE MCNetwork ------------------------------
(* What passes between servers, clients and name servers: bounded instances  *)
(* of the components that do not act on each other, in one run. A behaviour  *)
(* exercises one of them.                                                    *)
EXTENDS ChannelSync, NickSync, Sockets, Resolver, TransportHooks, ServerTree,
        Gateway, Http, TLC
CONSTANTS alpha, beta, a1, b1, u1, u2, k1, i1, ip1, ip2, h1, h2, gu, hc, hd

VARIABLE network_part   \* the part of the server this behaviour exercises

MCServers == {alpha, beta}
MCUsers == {a1, b1}
MCHome == [u \in MCUsers |-> IF u = b1 THEN beta ELSE alpha]
MCComeAndGo == [s \in MCServers |-> {"JOIN", "PART"}]
MCNsServers == {alpha, beta}
MCNsHome == [c \in {"a1", "a2", "b1"} |-> IF c = "b1" THEN beta ELSE alpha]
MCReReverse == ip1 :> h1 @@ ip2 :> h2
MCReForward == h1 :> ip1 @@ h2 :> ip1
MCTrLine == {<<"a","b">>,<<"b","c">>}
MCTrPlans == {{<<"a","b">>,<<"b","c">>,<<"a","c">>}, MCTrLine}
MCGwAddresses == {"gate", "home", "dorm"}
MCGwAction == [l \in {"bl"} |-> "g"]
MCGwListed == [l \in {"bl"} |-> {"home"}]
MCGwConfs == {[a \in MCGwAddresses |-> IF a = "gate" THEN t ELSE "none"] : t \in {"passfirst", "webirc"}}
MCGwSent == {<<"home", "none">>, <<"name", "dorm">>}
MCGwElsewhere == [a \in MCGwAddresses |-> IF a = "dorm" THEN 1 ELSE 0]
MCHtGet(uri) == [method |-> "GET", known |-> TRUE, uri |-> uri, length |-> 0, body |-> <<"x">>]
MCHtPost(length, body) == [method |-> "POST", known |-> TRUE, uri |-> "page", length |-> length, body |-> body]
MCHtRequests == {MCHtGet("/"), [MCHtGet("other") EXCEPT !.known = FALSE], MCHtPost(0, <<"x">>),
    MCHtPost(2, <<"x", "x", "x">>), MCHtPost(2, <<"len", "x">>)}

NetworkParts == {"channels", "nicks", "sockets", "resolver", "transport",
    "tree", "gateway", "http"}

\* The parts a behaviour does not exercise keep one initial state.
NetworkInit ==
    /\ network_part \in NetworkParts
    /\ Init
    /\ NickSyncInit
    /\ SocketsInit
    /\ ResolverInit
    /\ TransportHooksInit /\ (network_part # "transport" => sl_module = "zip")
    /\ ServerTreeInit /\ (network_part # "tree" => tr_plan = MCTrLine)
    /\ GatewayInit
    /\ (network_part # "gateway" => gw_hosts["gate"] = "webirc")
    /\ HttpInit

NetworkFrame(part) ==
    /\ network_part = part /\ UNCHANGED network_part
    /\ (part # "channels" => UNCHANGED vars)
    /\ (part # "nicks" => UNCHANGED ns_vars)
    /\ (part # "sockets" => UNCHANGED so_vars)
    /\ (part # "resolver" => UNCHANGED re_vars)
    /\ (part # "transport" => UNCHANGED sl_vars)
    /\ (part # "tree" => UNCHANGED tr_vars)
    /\ (part # "gateway" => UNCHANGED gw_vars)
    /\ (part # "http" => UNCHANGED ht_vars)

NetworkNext ==
    \/ NetworkFrame("channels") /\ Next
    \/ NetworkFrame("nicks") /\ NickSyncNext
    \/ NetworkFrame("sockets") /\ SocketsNext
    \/ NetworkFrame("resolver") /\ ResolverNext
    \/ NetworkFrame("transport") /\ TransportHooksNext
    \/ NetworkFrame("tree") /\ ServerTreeNext
    \/ NetworkFrame("gateway") /\ GatewayNext
    \/ NetworkFrame("http") /\ HttpNext

network_vars == <<network_part, vars, ns_vars, so_vars, re_vars, sl_vars,
    tr_vars, gw_vars, ht_vars>>
NetworkSpec == NetworkInit /\ [][NetworkNext]_network_vars

\* Every component keeps its types, whichever of them moves: the type
\* invariants of the components, together.
NetworkTypeOK ==
    /\ TypeOK /\ NickSyncTypeOK
    /\ SocketsTypeOK /\ ResolverTypeOK
    /\ TransportHooksTypeOK /\ ServerTreeTypeOK
    /\ GatewayTypeOK /\ HttpTypeOK
=============================================================================

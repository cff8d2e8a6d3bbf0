---------------------------- MODULE MCTwoServers ----------------------------
(***************************************************************************)
(* Bounded instances of ChannelSync and LinkSetup, each apart: two halves  *)
(* of a channel that have lived apart are merged, the clients of alpha     *)
(* give commands that beta follows, and alpha and beta link.  A behaviour  *)
(* is one of the three; the variables of the others stay as they began.    *)
(***************************************************************************)
EXTENDS ChannelSync, TLC

CONSTANTS alpha, beta, c1, c2, c3, a1, a2, b1

VARIABLES
    part,                                       \* "merge", "follow" or "link"
    state, named, lines, burstingserverlist,    \* those of LinkSetup
    children, serverlist, failures

linkVars == <<state, named, lines, burstingserverlist, children, serverlist, failures>>

MCServers == {alpha, beta}

\* Merging: clients on both servers, who give commands while these are apart. The
\* link is not broken: there is no second one after which the halves could agree.
MCThree == {a1, a2, b1}
MCHomeThree == [u \in MCThree |-> IF u = b1 THEN beta ELSE alpha]
MCNone == [s \in MCServers |-> {}]

\* Following: clients of alpha only, who give commands at any moment, and a link
\* that may break.
MCAlphaOnly == {a1, a2}
MCHomeAlpha == [u \in MCAlphaOnly |-> alpha]
MCAll == [s \in MCServers |-> {"JOIN", "PART", "KICK", "STATUS", "KEY", "TOPIC"}]
Follow == INSTANCE ChannelSync WITH
    Users <- MCAlphaOnly, Home <- MCHomeAlpha, Topics <- {"t1"},
    MaxLinks <- 2, MaxLines <- 2, Linked <- MCAll

\* Linking: two connections dialled by alpha and one by beta, and a failure.
MCConns == {c1, c2, c3}
MCDialer == [c \in MCConns |-> IF c = c3 THEN beta ELSE alpha]
Link == INSTANCE LinkSetup WITH
    Conns <- MCConns, Dialer <- MCDialer, MaxFailures <- 1, wire <- lines

\* The clients of alpha, and the connections it dials, are interchangeable.
Symmetry == Permutations({a1, a2}) \cup Permutations({c1, c2})

TwoInit ==
    /\ part \in {"merge", "follow", "link"}
    /\ Init
    /\ Link!Init

TwoNext ==
    \/ part = "merge" /\ Next /\ (connected => connected') /\ UNCHANGED <<part, linkVars>>
    \/ part = "follow" /\ Follow!Next /\ UNCHANGED <<part, linkVars>>
    \/ part = "link" /\ Link!Next /\ UNCHANGED <<part, vars>>

TwoSpec == TwoInit /\ [][TwoNext]_<<part, vars, linkVars>>

\* The structures Inbound_Server decides by are exact, as LinkSetup says: the
\* handshake that waits for BURST is the one in the bursting list, and FindServer
\* leads to no record that was deleted.
RecordsExact == Link!RecordsExact
=============================================================================

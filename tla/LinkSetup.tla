----------------------------- MODULE LinkSetup ------------------------------
(***************************************************************************)
(* Two servers link: the handshake of m_spanningtree's TreeSocket and the  *)
(* TreeServer records it creates and removes.                              *)
(*                                                                         *)
(* A connection is dialled by one of the servers (AutoConnectServers or    *)
(* /CONNECT); nothing stops both from dialling, or one from dialling again *)
(* while the handshake is on.  Each end of it is a TreeSocket with a       *)
(* LinkState.  The lines that matter travel in order:                      *)
(*   listener  CAPAB            SERVER                BURST                *)
(*   dialler            SERVER           BURST                             *)
(* "SELF" is a SERVER line of a burst that names the server it is sent to, *)
(* and "EOF" the end of the stream; an ERROR line has the effect of the    *)
(* EOF that follows it and is not modelled apart.  Credentials match.      *)
(*                                                                         *)
(* A socket that fails is queued in SocketCull and closed and deleted at   *)
(* the end of the iteration of the main loop; other sockets' lines may be  *)
(* handled before.                                                         *)
(***************************************************************************)
EXTENDS Naturals, Sequences, FiniteSets

CONSTANTS
    Servers,        \* the two servers
    Conns,          \* TCP connections that can exist at a time
    Dialer,         \* which server dials each
    None,           \* no connection
    MaxFailures     \* bound on connections that fail, break or are taken down

ASSUME LinkOK ==
    /\ \E a, b \in Servers : a # b /\ Servers = {a, b}
    /\ Dialer \in [Conns -> Servers]
    /\ None \notin Conns
    /\ MaxFailures \in Nat

Ends == Servers \X Conns
Peer(s) == CHOOSE t \in Servers : t # s

VARIABLES
    state,          \* LinkState of each end, or where its TreeSocket is
    named,          \* ends that know whom they talk to (myhost, InboundServerName)
    wire,           \* lines on their way to each end
    burstingserverlist, \* the end of each server in SpanningTreeUtilities' list
    children,       \* connections with a TreeServer under each TreeRoot
    serverlist,     \* which of them FindServer returns for the peer's name
    failures

vars == <<state, named, wire, burstingserverlist, children, serverlist, failures>>

\* "culled": in SocketCull.  "closed": in it, with Close already called.
Reading == {"CONNECTING", "WAIT_AUTH_1", "WAIT_AUTH_2", "CONNECTED"}
States == Reading \cup {"none", "culled", "closed"}
Lines == {"CAPAB", "SERVER", "BURST", "SELF", "EOF"}

TypeOK ==
    /\ state \in [Ends -> States]
    /\ named \subseteq Ends
    /\ wire \in [Ends -> Seq(Lines)]
    /\ burstingserverlist \in [Servers -> Conns \cup {None}]
    /\ children \in [Servers -> SUBSET Conns]
    /\ serverlist \in [Servers -> Conns \cup {None}]
    /\ failures \in 0 .. MaxFailures

Init ==
    /\ state = [e \in Ends |-> "none"]
    /\ named = {}
    /\ wire = [e \in Ends |-> <<>>]
    /\ burstingserverlist = [s \in Servers |-> None]
    /\ children = [s \in Servers |-> {}]
    /\ serverlist = [s \in Servers |-> None]
    /\ failures = 0

-----------------------------------------------------------------------------
Heard(s, c, line) ==
    /\ state[<<s, c>>] \in Reading
    /\ wire[<<s, c>>] # <<>> /\ Head(wire[<<s, c>>]) = line

\* The wire after s took its next line from c and sent lines back.  What is
\* sent after the other end has gone is lost.
Answer(s, c, lines) ==
    [wire EXCEPT ![<<s, c>>] = Tail(@),
                 ![<<Peer(s), c>>] = IF state[<<Peer(s), c>>] = "none" THEN @ ELSE @ \o lines]

\* The wire after s closed the connections in cs.
HangUp(s, cs) ==
    [e \in Ends |->
        IF e[2] \notin cs THEN wire[e]
        ELSE IF e[1] = s \/ state[e] = "none" THEN <<>>
        ELSE Append(wire[e], "EOF")]

\* ProcessLine returns false: HandleEvent queues the socket in SocketCull.
Fail(s, c) ==
    /\ state' = [state EXCEPT ![<<s, c>>] = "culled"]
    /\ wire' = Answer(s, c, <<>>)

\* DoBurst to the child c: SendServers skips that TreeServer object only, so a
\* second object for the same server is sent to the server it stands for.
Burst_ended(s, c) == <<"BURST", "ENDBURST">>  \* mutant: a line nobody handles
Burst(s, c) == IF children[s] \ {c} = {} THEN <<"BURST">> ELSE <<"BURST", "SELF">>

\* Squit of the TreeServer FindServer returns, if any; its destructor removes
\* the name from the hash.
SquitFound_keeps(s) ==  \* mutant: the hash entry stays
    /\ children' = [children EXCEPT ![s] = @ \ {serverlist[s]}]
    /\ UNCHANGED serverlist
SquitFound(s) ==
    /\ children' = [children EXCEPT ![s] = @ \ {serverlist[s]}]
    /\ serverlist' = [serverlist EXCEPT ![s] = None]

-----------------------------------------------------------------------------
\* AutoConnectServers, HandleConnect: no dial while the peer is on the network.
\* (A connection a TreeServer still points to does not get its name reused.)
Dial(c) ==
    LET s == Dialer[c] IN
    /\ \A t \in Servers : state[<<t, c>>] = "none" /\ c \notin children[t]
    /\ serverlist[s] = None
    /\ state' = [state EXCEPT ![<<s, c>>] = "CONNECTING"]
    /\ named' = named \cup {<<s, c>>}
    /\ UNCHANGED <<wire, burstingserverlist, children, serverlist, failures>>

Unaccepted(c) ==
    /\ state[<<Dialer[c], c>>] = "CONNECTING"
    /\ state[<<Peer(Dialer[c]), c>>] = "none"
    /\ wire[<<Dialer[c], c>>] = <<>>

\* The connection attempt is refused, or SocketTimeout ticks first.
DialFails(c) ==
    /\ Unaccepted(c)
    /\ failures < MaxFailures
    /\ failures' = failures + 1
    /\ state' = [state EXCEPT ![<<Dialer[c], c>>] = "culled"]
    /\ UNCHANGED <<named, wire, burstingserverlist, children, serverlist>>

\* OnIncomingConnection; HandshakeTimer sends CAPAB a second later.
Accept(c) ==
    /\ Unaccepted(c)
    /\ state' = [state EXCEPT ![<<Peer(Dialer[c]), c>>] = "WAIT_AUTH_1"]
    /\ wire' = [wire EXCEPT ![<<Dialer[c], c>>] = <<"CAPAB">>]
    /\ UNCHANGED <<named, burstingserverlist, children, serverlist, failures>>

\* CAPAB END while CONNECTING: we send SERVER.
Capab(s, c) ==
    /\ Heard(s, c, "CAPAB")
    /\ wire' = Answer(s, c, IF state[<<s, c>>] = "CONNECTING" THEN <<"SERVER">> ELSE <<>>)
    /\ UNCHANGED <<state, named, burstingserverlist, children, serverlist, failures>>

\* Inbound_Server, another handshake with that server being in WAIT_AUTH_2:
\* both are given up, that one at once (DelFd, Close and so OnClose).
Collision(s, c) ==
    LET d == burstingserverlist[s] IN
    /\ Heard(s, c, "SERVER") /\ state[<<s, c>>] = "WAIT_AUTH_1"
    /\ d # None
    /\ named' = named \cup {<<s, c>>}
    /\ state' = [state EXCEPT ![<<s, c>>] = "culled", ![<<s, d>>] = "closed"]
    /\ IF state[<<s, d>>] = "closed"
       THEN /\ wire' = Answer(s, c, <<>>)
            /\ UNCHANGED <<children, serverlist>>
       ELSE /\ wire' = [HangUp(s, {d}) EXCEPT ![<<s, c>>] = Tail(@)]
            /\ SquitFound(s)
    /\ UNCHANGED <<burstingserverlist, failures>>

\* Inbound_Server otherwise: refuse a server we know, or answer SERVER.
InboundServer(s, c) ==
    /\ Heard(s, c, "SERVER") /\ state[<<s, c>>] = "WAIT_AUTH_1"
    /\ burstingserverlist[s] = None
    /\ named' = named \cup {<<s, c>>}
    /\ IF serverlist[s] # None
       THEN Fail(s, c) /\ UNCHANGED burstingserverlist
       ELSE /\ state' = [state EXCEPT ![<<s, c>>] = "WAIT_AUTH_2"]
            /\ burstingserverlist' = [burstingserverlist EXCEPT ![s] = c]
            /\ wire' = Answer(s, c, <<"SERVER">>)
    /\ UNCHANGED <<children, serverlist, failures>>

\* Outbound_Reply_Server: they accepted us.
OutboundReplyServer(s, c) ==
    /\ Heard(s, c, "SERVER") /\ state[<<s, c>>] = "CONNECTING"
    /\ IF serverlist[s] # None
       THEN Fail(s, c) /\ UNCHANGED <<children, serverlist>>
       ELSE /\ state' = [state EXCEPT ![<<s, c>>] = "CONNECTED"]
            /\ children' = [children EXCEPT ![s] = @ \cup {c}]
            /\ serverlist' = [serverlist EXCEPT ![s] = c]
            /\ wire' = Answer(s, c, Burst(s, c))
    /\ UNCHANGED <<named, burstingserverlist, failures>>

\* BURST in WAIT_AUTH_2: the link is up.  A new TreeServer is made without
\* another look at FindServer; AddHashEntry does not replace an entry.
NetBurst(s, c) ==
    /\ Heard(s, c, "BURST") /\ state[<<s, c>>] = "WAIT_AUTH_2"
    /\ state' = [state EXCEPT ![<<s, c>>] = "CONNECTED"]
    /\ children' = [children EXCEPT ![s] = @ \cup {c}]
    /\ serverlist' = [serverlist EXCEPT ![s] = IF @ = None THEN c ELSE @]
    /\ burstingserverlist' = [burstingserverlist EXCEPT ![s] = IF @ = c THEN None ELSE @]
    /\ wire' = Answer(s, c, Burst(s, c))
    /\ UNCHANGED <<named, failures>>

\* The same BURST, from a clock more than 300 seconds away: a clock that is set
\* wrong counts as a failure.
ClockRefused(s, c) ==
    /\ Heard(s, c, "BURST") /\ state[<<s, c>>] = "WAIT_AUTH_2"
    /\ failures < MaxFailures
    /\ failures' = failures + 1
    /\ Fail(s, c)
    /\ UNCHANGED <<named, burstingserverlist, children, serverlist>>

\* BURST once CONNECTED: nothing to do.
BurstBack(s, c) ==
    /\ Heard(s, c, "BURST") /\ state[<<s, c>>] = "CONNECTED"
    /\ wire' = Answer(s, c, <<>>)
    /\ UNCHANGED <<state, named, burstingserverlist, children, serverlist, failures>>

\* RemoteServer, our own name being introduced to us: an error, unless the line
\* came from a direction FindServer does not agree with and is dropped.
IntroducedToSelf(s, c) ==
    /\ Heard(s, c, "SELF")
    /\ IF serverlist[s] = c
       THEN Fail(s, c)
       ELSE wire' = Answer(s, c, <<>>) /\ UNCHANGED state
    /\ UNCHANGED <<named, burstingserverlist, children, serverlist, failures>>

\* EOF or ERROR: OnDataReady returns false.
EndOfStream(s, c) ==
    /\ Heard(s, c, "EOF")
    /\ Fail(s, c)
    /\ UNCHANGED <<named, burstingserverlist, children, serverlist, failures>>

\* InspSocketCull: Close every queued socket (OnClose looks the peer up by
\* name and squits what it finds), delete it and forget it (~TreeSocket).
InspSocketCull_silent(s) ==  \* mutant: OnClose does not look the peer up
    LET gone == {c \in Conns : state[<<s, c>>] \in {"culled", "closed"}}
        closing == {c \in gone : state[<<s, c>>] = "culled"} IN
    /\ gone # {}
    /\ wire' = [e \in Ends |-> IF e[1] = s /\ e[2] \in gone THEN <<>> ELSE HangUp(s, closing)[e]]
    /\ state' = [e \in Ends |-> IF e[1] = s /\ e[2] \in gone THEN "none" ELSE state[e]]
    /\ named' = named \ ({s} \X gone)
    /\ burstingserverlist' = [burstingserverlist EXCEPT ![s] = IF @ \in gone THEN None ELSE @]
    /\ UNCHANGED <<children, serverlist, failures>>
InspSocketCull(s) ==
    LET gone == {c \in Conns : state[<<s, c>>] \in {"culled", "closed"}}
        closing == {c \in gone : state[<<s, c>>] = "culled"} IN
    /\ gone # {}
    /\ IF \E c \in closing : <<s, c>> \in named
       THEN SquitFound(s)
       ELSE UNCHANGED <<children, serverlist>>
    /\ wire' = [e \in Ends |-> IF e[1] = s /\ e[2] \in gone THEN <<>> ELSE HangUp(s, closing)[e]]
    /\ state' = [e \in Ends |-> IF e[1] = s /\ e[2] \in gone THEN "none" ELSE state[e]]
    /\ named' = named \ ({s} \X gone)
    /\ burstingserverlist' = [burstingserverlist EXCEPT ![s] = IF @ \in gone THEN None ELSE @]
    /\ UNCHANGED failures

\* DoPingChecks and HandleSquit: Squit that TreeServer, then DelFd and Close.
Disconnect(s, c) ==
    /\ failures < MaxFailures
    /\ failures' = failures + 1
    /\ c \in children[s] /\ state[<<s, c>>] = "CONNECTED"
    /\ children' = [children EXCEPT ![s] = @ \ {c}]
    /\ serverlist' = [serverlist EXCEPT ![s] = None]
    /\ state' = [state EXCEPT ![<<s, c>>] = "closed"]
    /\ wire' = HangUp(s, {c})
    /\ UNCHANGED <<named, burstingserverlist>>

\* The network drops a connection; lines on the way may be lost.
Break(c) ==
    /\ failures < MaxFailures
    /\ failures' = failures + 1
    /\ \A s \in Servers : state[<<s, c>>] \in Reading
    /\ wire' = [e \in Ends |-> IF e[2] = c THEN <<"EOF">> ELSE wire[e]]
    /\ UNCHANGED <<state, named, burstingserverlist, children, serverlist>>

ProcessLine(s, c) ==
    \/ Capab(s, c)
    \/ Collision(s, c) \/ InboundServer(s, c)
    \/ OutboundReplyServer(s, c)
    \/ NetBurst(s, c) \/ ClockRefused(s, c) \/ BurstBack(s, c)
    \/ IntroducedToSelf(s, c)
    \/ EndOfStream(s, c)

Next ==
    \/ \E c \in Conns : Dial(c) \/ DialFails(c) \/ Accept(c) \/ Break(c)
    \/ \E s \in Servers, c \in Conns : ProcessLine(s, c) \/ Disconnect(s, c)
    \/ \E s \in Servers : InspSocketCull(s)

Spec == Init /\ [][Next]_vars

\* AutoConnectServers runs every five seconds, the listening socket accepts,
\* sockets with data to read are read, and every iteration ends with a cull.
Fairness ==
    /\ \A c \in Conns : WF_vars(Dial(c)) /\ WF_vars(Accept(c))
    /\ \A s \in Servers, c \in Conns : WF_vars(ProcessLine(s, c))
    /\ \A s \in Servers : WF_vars(InspSocketCull(s))

FairSpec == Spec /\ Fairness

-----------------------------------------------------------------------------
(* Properties *)

\* The list that Inbound_Server relies on to see a handshake that waits for
\* BURST holds exactly that socket, and never one that has been deleted.
NegotiationListed ==
    \A s \in Servers, c \in Conns :
        /\ state[<<s, c>>] = "WAIT_AUTH_2" => burstingserverlist[s] = c
        /\ burstingserverlist[s] = c => state[<<s, c>>] \in {"WAIT_AUTH_2", "culled", "closed"}

\* FindServer never returns a deleted TreeServer.
HashFollowsTree == \A s \in Servers : serverlist[s] \in children[s] \cup {None}

\* No TreeServer keeps a pointer to a deleted TreeSocket.
NoDanglingSocket ==
    \A s \in Servers : \A c \in children[s] : state[<<s, c>>] # "none"

\* "Negotiation collision" is there "to prevent a race condition": a server has
\* one TreeServer record for its peer.
OneRecordPerServer == \A s \in Servers : Cardinality(children[s]) <= 1

Settled ==
    /\ \A e \in Ends : state[e] \notin {"culled", "closed"}
    /\ \A e \in Ends : state[e] \in Reading => wire[e] = <<>>

\* When nothing is under way either both servers know the other, over the same
\* connection, or neither does.
BothSidesAgree == Settled => \A s, t \in Servers : serverlist[s] = serverlist[t]

\* The servers end up linked once connections stop failing.
EventuallyLinked == <>[](\A s \in Servers : serverlist[s] # None)

\* The two structures the handshake decides by are exact at every moment: the handshake that waits for BURST is
\* the one that is listed, and the name of a server never leads to a record that was deleted.
RecordsExact == NegotiationListed /\ HashFollowsTree
=============================================================================

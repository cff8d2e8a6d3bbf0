-------------------------- MODULE LinkSetupProofs ---------------------------
(***************************************************************************)
(* Proofs about two servers that link: LinkSetup, for any number of        *)
(* connections between the two, dialled by either, and NickSync, for any   *)
(* clients and nicknames on them.                                          *)
(***************************************************************************)
EXTENDS LinkSetup, NickSync, FiniteSetTheorems, SequenceTheorems, DataFacts, TLAPS

LEMMA PeerType == \A s \in Servers : Peer(s) \in Servers /\ Peer(s) # s
  BY LinkOK DEF Peer

\* What Answer and HangUp put on the wire are lines.
LEMMA AnswerType ==
  ASSUME TypeOK, NEW s \in Servers, NEW c \in Conns,
         wire[<<s, c>>] # <<>>, NEW lines \in Seq(Lines)
  PROVE  Answer(s, c, lines) \in [Ends -> Seq(Lines)]
<1>1. <<s, c>> \in Ends /\ <<Peer(s), c>> \in Ends /\ <<s, c>> # <<Peer(s), c>>
  BY PeerType DEF Ends
<1>2. wire \in [Ends -> Seq(Lines)]
  BY DEF TypeOK
<1>3. Tail(wire[<<s, c>>]) \in Seq(Lines)
  BY <1>1, <1>2
<1>4. wire[<<Peer(s), c>>] \in Seq(Lines) /\ wire[<<Peer(s), c>>] \o lines \in Seq(Lines)
  BY <1>1, <1>2
<1> QED  BY <1>1, <1>2, <1>3, <1>4 DEF Answer

LEMMA HangUpType ==
  ASSUME TypeOK, NEW s \in Servers, NEW cs
  PROVE  HangUp(s, cs) \in [Ends -> Seq(Lines)]
<1>1. \A e \in Ends : wire[e] \in Seq(Lines) /\ Append(wire[e], "EOF") \in Seq(Lines)
  <2>1. "EOF" \in Lines
    BY DEF Lines
  <2> QED  BY <2>1 DEF TypeOK
<1>2. <<>> \in Seq(Lines)
  OBVIOUS
<1> QED  BY <1>1, <1>2 DEF HangUp

LEMMA LinesType ==
  /\ <<>> \in Seq(Lines) /\ <<"CAPAB">> \in Seq(Lines) /\ <<"SERVER">> \in Seq(Lines)
  /\ <<"EOF">> \in Seq(Lines)
  /\ \A s, c : Burst(s, c) \in Seq(Lines)
<1>1. "CAPAB" \in Lines /\ "SERVER" \in Lines /\ "BURST" \in Lines /\ "SELF" \in Lines /\ "EOF" \in Lines
  BY DEF Lines
<1>2. <<"BURST">> \in Seq(Lines) /\ <<"BURST", "SELF">> \in Seq(Lines)
  BY <1>1
<1>3. \A s, c : Burst(s, c) = <<"BURST">> \/ Burst(s, c) = <<"BURST", "SELF">>
  BY DEF Burst
<1>4. \A s, c : Burst(s, c) \in Seq(Lines)
  BY <1>2, <1>3
<1> QED  BY <1>1, <1>4

-----------------------------------------------------------------------------
Listed == TypeOK /\ NegotiationListed /\ HashFollowsTree

LEMMA ListedInit == Init => Listed
  BY LinkOK DEF Init, Listed, TypeOK, NegotiationListed, HashFollowsTree, States, Ends

LEMMA TypeStep == TypeOK /\ NegotiationListed /\ [Next]_vars => TypeOK'
<1> SUFFICES ASSUME TypeOK, NegotiationListed, [Next]_vars PROVE TypeOK'
  OBVIOUS
<1> USE DEF Ends
<1>1. ASSUME NEW c \in Conns, Dial(c) PROVE TypeOK'
  BY <1>1, LinkOK DEF Dial, TypeOK, States, Reading
<1>2. ASSUME NEW c \in Conns, DialFails(c) PROVE TypeOK'
  BY <1>2, LinkOK DEF DialFails, TypeOK, States
<1>3. ASSUME NEW c \in Conns, Accept(c) PROVE TypeOK'
  BY <1>3, LinkOK, LinesType, PeerType DEF Accept, TypeOK, States, Reading
<1>4. ASSUME NEW c \in Conns, Break(c) PROVE TypeOK'
  BY <1>4, LinkOK, LinesType DEF Break, TypeOK
<1>5. ASSUME NEW s \in Servers, NEW c \in Conns, Capab(s, c) PROVE TypeOK'
  BY <1>5, AnswerType, LinesType DEF Capab, Heard, TypeOK
<1>6. ASSUME NEW s \in Servers, NEW c \in Conns, Collision(s, c) PROVE TypeOK'
  <2> DEFINE d == burstingserverlist[s]
  <2>1. wire[<<s, c>>] # <<>> /\ d \in Conns /\ Tail(wire[<<s, c>>]) \in Seq(Lines)
    BY <1>6 DEF Collision, Heard, TypeOK
  <2>2. Answer(s, c, <<>>) \in [Ends -> Seq(Lines)]
    BY <2>1, AnswerType, LinesType
  <2>3. HangUp(s, {d}) \in [Ends -> Seq(Lines)]
    BY HangUpType
  <2>4. wire' \in [Ends -> Seq(Lines)]
    <3>1. [HangUp(s, {d}) EXCEPT ![<<s, c>>] = Tail(@)] \in [Ends -> Seq(Lines)]
      <4>1. c # d /\ <<s, c>> \in Ends /\ HangUp(s, {d})[<<s, c>>] = wire[<<s, c>>]
        BY <1>6, <2>1 DEF Collision, NegotiationListed, HangUp
      <4> QED  BY <2>1, <2>3, <4>1
    <3> QED  BY <1>6, <2>2, <3>1 DEF Collision
  <2>5. children' \in [Servers -> SUBSET Conns] /\ serverlist' \in [Servers -> Conns \cup {None}]
    BY ZenonT(60), <1>6 DEF Collision, SquitFound, TypeOK
  <2>6. state' \in [Ends -> States] /\ named' \subseteq Ends
    BY <1>6, <2>1 DEF Collision, TypeOK, States
  <2> QED  BY <1>6, <2>4, <2>5, <2>6 DEF Collision, TypeOK
<1>7. ASSUME NEW s \in Servers, NEW c \in Conns,
             InboundServer(s, c) \/ OutboundReplyServer(s, c) \/ NetBurst(s, c)
      PROVE  TypeOK'
  <2>1. wire[<<s, c>>] # <<>>
    BY <1>7 DEF InboundServer, OutboundReplyServer, NetBurst, Heard
  <2>2. \A lines \in Seq(Lines) : Answer(s, c, lines) \in [Ends -> Seq(Lines)]
    BY <2>1, AnswerType
  <2>3. wire' \in [Ends -> Seq(Lines)]
    <3>1. /\ <<>> \in Seq(Lines) /\ <<"SERVER">> \in Seq(Lines)
          /\ Burst(s, c) \in Seq(Lines)
      BY LinesType
    <3>2. PICK lines \in {<<>>, <<"SERVER">>, Burst(s, c)} : wire' = Answer(s, c, lines)
      BY <1>7 DEF InboundServer, OutboundReplyServer, NetBurst, Fail
    <3> QED  BY <2>2, <3>1, <3>2
  <2>4. CASE InboundServer(s, c)
    BY ZenonT(60), <2>3, <2>4 DEF InboundServer, Fail, TypeOK, States, Reading
  <2>5. CASE OutboundReplyServer(s, c)
    <3>1. PICK x \in {"culled", "CONNECTED"} : state' = [state EXCEPT ![<<s, c>>] = x]
      BY <2>5 DEF OutboundReplyServer, Fail
    <3>2. state' \in [Ends -> States]
      BY <3>1 DEF TypeOK, States, Reading
    <3>3. \/ UNCHANGED <<children, serverlist>>
          \/ /\ children' = [children EXCEPT ![s] = @ \cup {c}]
             /\ serverlist' = [serverlist EXCEPT ![s] = c]
      BY <2>5 DEF OutboundReplyServer
    <3>4. children' \in [Servers -> SUBSET Conns]
      BY <3>3 DEF TypeOK
    <3>5. serverlist' \in [Servers -> Conns \cup {None}]
      BY <3>3 DEF TypeOK
    <3> QED  BY <2>3, <2>5, <3>2, <3>4, <3>5 DEF OutboundReplyServer, TypeOK
  <2>6. CASE NetBurst(s, c)
    <3>1. state' \in [Ends -> States]
      BY <2>6 DEF NetBurst, TypeOK, States, Reading
    <3>2. children' \in [Servers -> SUBSET Conns]
      BY <2>6 DEF NetBurst, TypeOK
    <3>3. serverlist' \in [Servers -> Conns \cup {None}]
      BY <2>6 DEF NetBurst, TypeOK
    <3>4. burstingserverlist' \in [Servers -> Conns \cup {None}]
      BY <2>6 DEF NetBurst, TypeOK
    <3> QED  BY <2>3, <2>6, <3>1, <3>2, <3>3, <3>4 DEF NetBurst, TypeOK
  <2> QED  BY <1>7, <2>4, <2>5, <2>6
<1>8. ASSUME NEW s \in Servers, NEW c \in Conns,
             \/ BurstBack(s, c) \/ ClockRefused(s, c)
             \/ IntroducedToSelf(s, c) \/ EndOfStream(s, c)
      PROVE  TypeOK'
  <2>1. wire[<<s, c>>] # <<>>
    BY <1>8 DEF BurstBack, ClockRefused, IntroducedToSelf, EndOfStream, Heard
  <2>2. wire' \in [Ends -> Seq(Lines)]
    <3>1. wire' = Answer(s, c, <<>>)
      BY <1>8 DEF BurstBack, ClockRefused, IntroducedToSelf, EndOfStream, Fail
    <3> QED  BY <2>1, <3>1, AnswerType, LinesType
  <2>3. state' \in [Ends -> States]
    BY <1>8 DEF BurstBack, ClockRefused, IntroducedToSelf, EndOfStream, Fail, TypeOK, States
  <2>4. failures' \in 0 .. MaxFailures
    BY <1>8, LinkOK DEF BurstBack, ClockRefused, IntroducedToSelf, EndOfStream, TypeOK
  <2> QED  BY <1>8, <2>2, <2>3, <2>4 DEF BurstBack, ClockRefused, IntroducedToSelf, EndOfStream, TypeOK
<1>9. ASSUME NEW s \in Servers, NEW c \in Conns, Disconnect(s, c) PROVE TypeOK'
  <2>1. wire' \in [Ends -> Seq(Lines)]
    BY <1>9, HangUpType DEF Disconnect
  <2>2. failures' \in 0 .. MaxFailures
    BY <1>9, LinkOK DEF Disconnect, TypeOK
  <2>3. state' \in [Ends -> States]
    BY <1>9 DEF Disconnect, TypeOK, States
  <2> QED  BY <1>9, <2>1, <2>2, <2>3 DEF Disconnect, TypeOK
<1>10. ASSUME NEW s \in Servers, InspSocketCull(s) PROVE TypeOK'
  <2> DEFINE gone == {c \in Conns : state[<<s, c>>] \in {"culled", "closed"}}
             closing == {c \in gone : state[<<s, c>>] = "culled"}
  <2>1. wire' = [e \in Ends |-> IF e[1] = s /\ e[2] \in gone THEN <<>> ELSE HangUp(s, closing)[e]]
    BY <1>10 DEF InspSocketCull
  <2> HIDE DEF gone, closing
  <2>2. wire' \in [Ends -> Seq(Lines)]
    BY <2>1, HangUpType, LinesType
  <2>3. state' \in [Ends -> States]
    BY <1>10 DEF InspSocketCull, TypeOK, States
  <2>4. children' \in [Servers -> SUBSET Conns] /\ serverlist' \in [Servers -> Conns \cup {None}]
    <3>1. SquitFound(s) \/ UNCHANGED <<children, serverlist>>
      BY <1>10 DEF InspSocketCull
    <3> QED  BY <3>1 DEF SquitFound, TypeOK
  <2>5. burstingserverlist' \in [Servers -> Conns \cup {None}]
    BY <1>10 DEF InspSocketCull, TypeOK
  <2> QED  BY <1>10, <2>2, <2>3, <2>4, <2>5 DEF InspSocketCull, TypeOK
<1>11. CASE UNCHANGED vars
  BY <1>11 DEF vars, TypeOK
<1> QED
  BY <1>1, <1>2, <1>3, <1>4, <1>5, <1>6, <1>7, <1>8, <1>9, <1>10, <1>11 DEF Next, ProcessLine

LEMMA ListStep == TypeOK /\ NegotiationListed /\ [Next]_vars => NegotiationListed'
<1> SUFFICES ASSUME TypeOK, NegotiationListed, [Next]_vars PROVE NegotiationListed'
  OBVIOUS
<1> USE DEF Ends
<1>1. ASSUME NEW c \in Conns, Dial(c) PROVE NegotiationListed'
  BY <1>1, LinkOK DEF Dial, TypeOK, NegotiationListed
<1>2. ASSUME NEW c \in Conns, DialFails(c) \/ Accept(c) PROVE NegotiationListed'
  <2>1. PICK e \in Ends, x \in {"culled", "WAIT_AUTH_1"} :
          /\ state' = [state EXCEPT ![e] = x]
          /\ state[e] \in {"CONNECTING", "none"}
    BY <1>2, LinkOK, PeerType DEF DialFails, Accept, Unaccepted
  <2>2. UNCHANGED burstingserverlist
    BY <1>2 DEF DialFails, Accept
  <2> QED  BY <2>1, <2>2 DEF TypeOK, NegotiationListed
<1>3. ASSUME NEW s \in Servers, NEW c \in Conns, Collision(s, c) PROVE NegotiationListed'
  BY <1>3 DEF Collision, Heard, TypeOK, NegotiationListed
<1>4. ASSUME NEW s \in Servers, NEW c \in Conns, InboundServer(s, c) PROVE NegotiationListed'
  <2>1. state[<<s, c>>] = "WAIT_AUTH_1" /\ burstingserverlist[s] = None
    BY <1>4 DEF InboundServer
  <2>2. CASE /\ state' = [state EXCEPT ![<<s, c>>] = "culled"]
             /\ UNCHANGED burstingserverlist
    BY <2>1, <2>2 DEF TypeOK, NegotiationListed
  <2>3. CASE /\ state' = [state EXCEPT ![<<s, c>>] = "WAIT_AUTH_2"]
             /\ burstingserverlist' = [burstingserverlist EXCEPT ![s] = c]
    BY <2>1, <2>3, LinkOK DEF TypeOK, NegotiationListed
  <2> QED  BY <1>4, <2>2, <2>3 DEF InboundServer, Fail
<1>5. ASSUME NEW s \in Servers, NEW c \in Conns, OutboundReplyServer(s, c)
      PROVE  NegotiationListed'
  <2>1. PICK x \in {"culled", "CONNECTED"} : state' = [state EXCEPT ![<<s, c>>] = x]
    BY <1>5 DEF OutboundReplyServer, Fail
  <2>2. state[<<s, c>>] = "CONNECTING" /\ UNCHANGED burstingserverlist
    BY <1>5 DEF OutboundReplyServer
  <2> QED  BY <2>1, <2>2 DEF TypeOK, NegotiationListed
<1>6. ASSUME NEW s \in Servers, NEW c \in Conns, NetBurst(s, c) PROVE NegotiationListed'
  <2>1. state[<<s, c>>] = "WAIT_AUTH_2"
    BY <1>6 DEF NetBurst
  <2>2. /\ state' = [state EXCEPT ![<<s, c>>] = "CONNECTED"]
        /\ burstingserverlist' = [burstingserverlist EXCEPT ![s] = IF @ = c THEN None ELSE @]
    BY <1>6 DEF NetBurst
  <2> QED  BY <2>1, <2>2, LinkOK DEF TypeOK, NegotiationListed
<1>7. ASSUME NEW s \in Servers, NEW c \in Conns,
             \/ ClockRefused(s, c) \/ IntroducedToSelf(s, c)
             \/ EndOfStream(s, c) \/ Disconnect(s, c)
      PROVE  NegotiationListed'
  BY ZenonT(60), <1>7 DEF ClockRefused, IntroducedToSelf, EndOfStream, Disconnect, Fail, TypeOK, NegotiationListed
<1>8. ASSUME NEW s \in Servers, InspSocketCull(s) PROVE NegotiationListed'
  BY <1>8, LinkOK DEF InspSocketCull, TypeOK, NegotiationListed
<1>9. CASE UNCHANGED <<state, burstingserverlist>>
  BY <1>9 DEF NegotiationListed
<1> QED
  BY <1>1, <1>2, <1>3, <1>4, <1>5, <1>6, <1>7, <1>8, <1>9
  DEF Next, ProcessLine, vars, Capab, BurstBack, Break

LEMMA HashStep == TypeOK /\ HashFollowsTree /\ [Next]_vars => HashFollowsTree'
<1> SUFFICES ASSUME TypeOK, HashFollowsTree, [Next]_vars PROVE HashFollowsTree'
  OBVIOUS
<1>1. ASSUME NEW s \in Servers, NEW c \in Conns, Collision(s, c) PROVE HashFollowsTree'
  BY <1>1 DEF Collision, SquitFound, TypeOK, HashFollowsTree
<1>2. ASSUME NEW s \in Servers, NEW c \in Conns,
             OutboundReplyServer(s, c) \/ NetBurst(s, c) \/ Disconnect(s, c)
      PROVE  HashFollowsTree'
  <2>1. CASE OutboundReplyServer(s, c)
    BY <2>1 DEF OutboundReplyServer, TypeOK, HashFollowsTree
  <2>2. CASE NetBurst(s, c)
    BY <2>2 DEF NetBurst, TypeOK, HashFollowsTree
  <2>3. CASE Disconnect(s, c)
    BY <2>3 DEF Disconnect, TypeOK, HashFollowsTree
  <2> QED  BY <1>2, <2>1, <2>2, <2>3
<1>3. ASSUME NEW s \in Servers, InspSocketCull(s) PROVE HashFollowsTree'
  BY <1>3 DEF InspSocketCull, SquitFound, TypeOK, HashFollowsTree
<1>4. CASE UNCHANGED <<children, serverlist>>
  BY <1>4 DEF HashFollowsTree
<1> QED
  BY ZenonT(60), <1>1, <1>2, <1>3, <1>4
  DEF Next, ProcessLine, vars, Dial, DialFails, Accept, Break, Capab, InboundServer,
      BurstBack, ClockRefused, IntroducedToSelf, EndOfStream

LEMMA ListedAlways == Spec => []Listed
<1>1. Listed /\ [Next]_vars => Listed'
  BY TypeStep, ListStep, HashStep DEF Listed
<1> QED  BY <1>1, ListedInit, PTL DEF Spec

-----------------------------------------------------------------------------
\* The TreeSockets, the lines between them and the tables have their types.
THEOREM LinkTypeCorrect == Spec => []TypeOK
<1>1. Listed => TypeOK
  BY DEF Listed
<1> QED  BY <1>1, ListedAlways, PTL

\* A handshake that waits for BURST is always in the list Inbound_Server looks
\* at, and nothing else is: at most one can wait at a time, over any number of
\* connections, failures and collisions.
THEOREM NegotiationAlwaysListed == Spec => []NegotiationListed
<1>1. Listed => NegotiationListed
  BY DEF Listed
<1> QED  BY <1>1, ListedAlways, PTL

\* FindServer never returns a TreeServer that Squit has deleted.
THEOREM HashAlwaysFollowsTree == Spec => []HashFollowsTree
<1>1. Listed => HashFollowsTree
  BY DEF Listed
<1> QED  BY <1>1, ListedAlways, PTL
\* RecordsExact for any number of connections: the two structures by which a handshake decides whether a server
\* is already linked are exact whatever lines cross and wherever connections break.
THEOREM RecordsAlwaysExact == Spec => []RecordsExact
  BY NegotiationAlwaysListed, HashAlwaysFollowsTree, PTL DEF RecordsExact

-----------------------------------------------------------------------------
(***************************************************************************)
(* NickSync, for any clients, nicknames and bounds.  NsBase says what the  *)
(* tables and the wires hold.  NsFollows relates them: for the lines w a   *)
(* server of the network has sent and the other has not read, there are    *)
(* views P[0] .. P[Len(w)], the nicknames of its registered clients after  *)
(* each line, that the lines explain one by one (NsFits).  NsTale is the   *)
(* story of one of its clients along those views: the other server knows   *)
(* him by the first of them, has no record before it has read his INTRO,   *)
(* and he cannot be on the way twice.  NsReached is why nobody is missed:  *)
(* who never changed his nickname is known, on the way, or will be removed *)
(* by a KILL.                                                              *)
(***************************************************************************)

\* Who has a record, is registered or is being removed.
NsRecords ==
    /\ \A c \in ns_reg : ns_nick[NsHome[c]][c] \in NsNicks
    /\ \A c \in ns_new : c \notin ns_reg /\ ns_nick[NsHome[c]][c] = NsAbsent
    /\ \A s \in NsServers : \A c \in NsDying(s) : ns_nick[s][c] # NsAbsent
    /\ \A s \in NsServers, c \in NsClients : ~NsLocal(s, c) => ns_nick[s][c] # NsNoNick

\* A server introduces its own clients; BURST is what a server reads that waits for it, and it has said nothing.
NsIs(l, command) == l[1] = command
NsOwn(s, l) == NsIs(l, "INTRO") => NsLocal(s, l[2])
NsSays(s, lines) ==
    lines \in Seq(NsLines) /\ \A i \in 1 .. Len(lines) : ~NsIs(lines[i], "BURST") /\ NsOwn(s, lines[i])
NsAwaits(s) ==
    /\ ns_up[NsOther(s)] /\ ns_wire[s] = <<>>
    /\ ns_wire[NsOther(s)] # <<>> /\ ns_wire[NsOther(s)][1] = <<"BURST">>
NsWires ==
    /\ \A s \in NsServers : \A i \in 1 .. Len(ns_wire[s]) : NsOwn(s, ns_wire[s][i])
    /\ ns_link = "down" => \A s \in NsServers : ~ns_up[s] /\ ns_wire[s] = <<>>
    /\ ns_link = "up" => \A s \in NsServers :
          /\ \A i \in 1 .. Len(ns_wire[s]) : NsIs(ns_wire[s][i], "BURST") => i = 1 /\ ~ns_up[NsOther(s)]
          /\ ns_up[s] \/ NsAwaits(s)
NsTidied == ns_link = "up" => \A s \in NsServers : ns_up[s] \/ (NsTidy(s) /\ NsTidy(NsOther(s)))

\* The last conjunct of the type invariant.
NsUnique == \A s \in NsServers : \A c, d \in NsClients : ns_nick[s][c] = ns_nick[s][d] /\ ns_nick[s][c] \in NsNicks => c = d

NsBase == NickSyncTypeOK /\ NsRecords /\ NsWires /\ NsTidied

LEMMA NsPeers ==
    \A s \in NsServers : /\ NsOther(s) \in NsServers /\ NsOther(s) # s /\ NsOther(NsOther(s)) = s
                         /\ \A t \in NsServers : t = s \/ t = NsOther(s)
  <1>1. PICK f : f \in Bijection(1 .. 2, NsServers)
    BY NickSyncOK, FS_CardinalityType DEF ExistsBijection
  <1>2. NsServers = {f[1], f[2]} /\ f[1] # f[2]
    BY <1>1 DEF Bijection, Injection, Surjection, IsInjective
  <1>3. \A s \in NsServers : \E t \in NsServers : t # s
    BY <1>2
  <1>4. \A s \in NsServers : NsOther(s) \in NsServers /\ NsOther(s) # s
    BY <1>3 DEF NsOther
  <1> QED BY <1>2, <1>4

LEMMA NsLineType ==
    /\ \A l \in NsLines :
         /\ l[1] \in {"INTRO", "NICK", "SVSNICK", "QUIT", "KILL", "BURST"}
         /\ l[1] = "INTRO" => l[2] \in NsClients /\ l[3] \in NsNicks /\ l = <<"INTRO", l[2], l[3]>>
         /\ l[1] \in {"NICK", "SVSNICK"} => l[2] \in NsNicks /\ l[3] \in NsNicks
         /\ l[1] \in {"QUIT", "KILL"} => l[2] \in NsNicks /\ l = <<l[1], l[2]>>
         /\ l[1] = "BURST" => l = <<"BURST">>
    /\ \A c \in NsClients, n \in NsNicks : <<"INTRO", c, n>> \in NsLines
    /\ \A n, m \in NsNicks : <<"NICK", n, m>> \in NsLines /\ <<"SVSNICK", n, m>> \in NsLines
    /\ \A n \in NsNicks : <<"QUIT", n>> \in NsLines /\ <<"KILL", n>> \in NsLines
    /\ <<"BURST">> \in NsLines
  BY DEF NsLines

\* What is said is at the end of the wire, while there is one.
LEMMA NsSentTo ==
    ASSUME NEW road \in [NsServers -> Seq(NsLines)], NEW s \in NsServers, NEW lines \in Seq(NsLines)
    PROVE  /\ NsSent(road, s, lines) \in [NsServers -> Seq(NsLines)]
           /\ \A t \in NsServers : NsSent(road, s, lines)[t] =
                IF t = s /\ ns_up[s] /\ ns_link = "up" THEN road[s] \o lines ELSE road[t]
  <1>1. road[s] \o lines \in Seq(NsLines)
    OBVIOUS
  <1> QED BY <1>1 DEF NsSent

LEMMA NsReadFrom ==
    ASSUME ns_wire \in [NsServers -> Seq(NsLines)], NEW s \in NsServers, ns_wire[NsOther(s)] # <<>>
    PROVE  /\ NsRead(s) \in [NsServers -> Seq(NsLines)]
           /\ \A t \in NsServers : NsRead(s)[t] = IF t = s THEN ns_wire[s] ELSE Tail(ns_wire[t])
           /\ NsLine(s) \in NsLines /\ NsLine(s) = ns_wire[NsOther(s)][1]
  <1>1. Tail(ns_wire[NsOther(s)]) \in Seq(NsLines) /\ Head(ns_wire[NsOther(s)]) \in NsLines
    BY NsPeers
  <1> QED BY <1>1, NsPeers DEF NsRead, NsLine

LEMMA NsQueued ==
    ASSUME ns_culls \in [NsServers -> Seq(NsClients)], NEW s \in NsServers, NEW cs,
           cs \subseteq NsClients, NsQueue(s, cs)
    PROVE  /\ ns_culls' \in [NsServers -> Seq(NsClients)]
           /\ NsDying(s)' = NsDying(s) \cup cs
           /\ \A t \in NsServers : t # s => NsDying(t)' = NsDying(t)
  <1> DEFINE S == cs \ ToSet(ns_culls[s])  L == SetToSeq(S)
  <1>1. IsFiniteSet(S)
    BY NickSyncOK, FS_Subset
  <1>2. L \in Seq(S) /\ \A x \in S : \E i \in 1 .. Len(L) : L[i] = x
    BY <1>1, SetListed
  <1>3. S \subseteq NsClients
    OBVIOUS
  <1>4. L \in Seq(NsClients)
    BY <1>2, <1>3
  <1>5. ns_culls[s] \o L \in Seq(NsClients) /\ ns_culls' = [ns_culls EXCEPT ![s] = ns_culls[s] \o L]
    <2>1. ns_culls' = [ns_culls EXCEPT ![s] = ns_culls[s] \o L]
      BY Zenon DEF NsQueue
    <2>2. ns_culls[s] \in Seq(NsClients)
      OBVIOUS
    <2> HIDE DEF L
    <2>3. ns_culls[s] \o L \in Seq(NsClients)
      BY <1>4, <2>2
    <2> QED BY <2>1, <2>3
  <1> HIDE DEF L
  <1>6. ToSet(ns_culls[s] \o L) = ToSet(ns_culls[s]) \cup S
    <2>1. ASSUME NEW i \in DOMAIN (ns_culls[s] \o L) PROVE (ns_culls[s] \o L)[i] \in ToSet(ns_culls[s]) \cup S
      <3>1. CASE i <= Len(ns_culls[s])
        BY <3>1, <1>4, <2>1 DEF ToSet
      <3>2. CASE i > Len(ns_culls[s])
        BY <3>2, <1>2, <1>4, <2>1
      <3> QED BY <3>1, <3>2, <1>4, <2>1
    <2>2. ASSUME NEW i \in DOMAIN ns_culls[s] PROVE ns_culls[s][i] \in ToSet(ns_culls[s] \o L)
      <3>1. i \in DOMAIN (ns_culls[s] \o L) /\ (ns_culls[s] \o L)[i] = ns_culls[s][i]
        BY <1>4
      <3> QED BY <3>1 DEF ToSet
    <2>3. ASSUME NEW x \in S PROVE x \in ToSet(ns_culls[s] \o L)
      <3>1. PICK i \in 1 .. Len(L) : L[i] = x
        BY <1>2
      <3>2. Len(ns_culls[s]) + i \in DOMAIN (ns_culls[s] \o L) /\ (ns_culls[s] \o L)[Len(ns_culls[s]) + i] = x
        BY <3>1, <1>4
      <3> QED BY <3>2 DEF ToSet
    <2> QED BY <2>1, <2>2, <2>3 DEF ToSet
  <1>7. ns_culls'[s] = ns_culls[s] \o L /\ \A t \in NsServers : t # s => ns_culls'[t] = ns_culls[t]
    BY <1>5
  <1>8. NsDying(s)' = ToSet(ns_culls'[s]) /\ NsDying(s) = ToSet(ns_culls[s])
    BY DEF NsDying
  <1>9. NsDying(s)' = NsDying(s) \cup S
    BY <1>6, <1>7, <1>8
  <1> QED BY <1>5, <1>7, <1>8, <1>9 DEF NsDying

\* Who takes a nickname that only clients still connecting have leaves it to nobody else.
LEMMA NsRenamed ==
    ASSUME NickSyncTypeOK, NEW s \in NsServers, NEW c \in NsClients, NEW n \in NsNicks, NsRename(s, c, n)
    PROVE  /\ ns_nick' \in [NsServers -> [NsClients -> NsNicks \cup {NsNoNick, NsAbsent}]]
           /\ \A t \in NsServers \ {s} : ns_nick'[t] = ns_nick[t]
           /\ ns_nick'[s][c] = n
           /\ \A d \in NsClients \ {c} : ns_nick'[s][d] = IF ns_nick[s][d] = n THEN NsNoNick ELSE ns_nick[s][d]
           /\ \A t \in NsServers : \A d, e \in NsClients :
                ns_nick'[t][d] = ns_nick'[t][e] /\ ns_nick'[t][d] \in NsNicks => d = e
           /\ ns_hasty' = ns_hasty \cup {d \in {c} : NsLocal(s, d) /\ d \in ns_reg} /\ ns_hasty' \subseteq NsClients
  <1>1. ns_nick' = [ns_nick EXCEPT ![s] = [d \in NsClients |->
                     IF d = c THEN n ELSE IF ns_nick[s][d] = n THEN NsNoNick ELSE ns_nick[s][d]]]
    BY DEF NsRename
  <1>2. /\ ns_nick \in [NsServers -> [NsClients -> NsNicks \cup {NsNoNick, NsAbsent}]]
        /\ \A t \in NsServers : \A d, e \in NsClients :
                ns_nick[t][d] = ns_nick[t][e] /\ ns_nick[t][d] \in NsNicks => d = e
    BY DEF NickSyncTypeOK
  <1>3. /\ ns_nick' \in [NsServers -> [NsClients -> NsNicks \cup {NsNoNick, NsAbsent}]]
        /\ \A t \in NsServers \ {s} : ns_nick'[t] = ns_nick[t]
        /\ ns_nick'[s][c] = n
        /\ \A d \in NsClients \ {c} : ns_nick'[s][d] = IF ns_nick[s][d] = n THEN NsNoNick ELSE ns_nick[s][d]
    BY <1>1, <1>2
  <1>4. NsNoNick \notin NsNicks
    BY NickSyncOK
  <1>5. \A t \in NsServers : \A d, e \in NsClients :
                ns_nick'[t][d] = ns_nick'[t][e] /\ ns_nick'[t][d] \in NsNicks => d = e
    BY <1>2, <1>3, <1>4
  <1>6. ns_hasty' = ns_hasty \cup {d \in {c} : NsLocal(s, d) /\ d \in ns_reg} /\ ns_hasty' \subseteq NsClients
    BY DEF NsRename, NickSyncTypeOK
  <1> QED BY <1>3, <1>5, <1>6

\* The parts of the type invariant.
LEMMA NsTypes ==
    ASSUME NickSyncTypeOK
    PROVE  /\ ns_nick \in [NsServers -> [NsClients -> NsNicks \cup {NsNoNick, NsAbsent}]]
           /\ ns_culls \in [NsServers -> Seq(NsClients)] /\ ns_reg \subseteq NsClients /\ ns_new \subseteq NsClients
           /\ ns_wire \in [NsServers -> Seq(NsLines)] /\ ns_up \in [NsServers -> BOOLEAN]
           /\ ns_link \in {"up", "broken", "down"} /\ ns_left \in [acts : 0 .. NsActs, splits : 0 .. NsSplits]
           /\ ns_hasty \subseteq NsClients
           /\ \A s \in NsServers : NsDying(s) \subseteq NsClients
           /\ \A s \in NsServers, n \in NsNicks : \A c, d \in NsFind(s, n) : c = d
           /\ NsNoNick \notin NsNicks /\ NsAbsent \notin NsNicks
  <1>1. \A s \in NsServers : NsDying(s) \subseteq NsClients
    BY DEF NickSyncTypeOK, NsDying, ToSet
  <1> QED BY <1>1, NickSyncOK DEF NickSyncTypeOK, NsFind

LEMMA NsOfFind ==
    ASSUME NickSyncTypeOK, NEW s \in NsServers, NEW n \in NsNicks
    PROVE  NsFind(s, n) \subseteq NsClients /\ \A c \in NsFind(s, n) : ns_nick[s][c] = n /\ ns_nick[s][c] # NsAbsent
  BY NsTypes DEF NsFind

LEMMA NsActType ==
    ASSUME NickSyncTypeOK, NsAct
    PROVE  ns_left' \in [acts : 0 .. NsActs, splits : 0 .. NsSplits]
  BY NickSyncOK, NsTypes DEF NsAct

\* Lines of a server that is in the network.
LEMMA NsWiresSaid ==
    ASSUME NickSyncTypeOK, NsWires, NEW s \in NsServers, NEW lines, NsSays(s, lines),
           ns_wire' = NsSent(ns_wire, s, lines), UNCHANGED <<ns_up, ns_link>>
    PROVE  NsWires' /\ ns_wire' \in [NsServers -> Seq(NsLines)]
  <1> DEFINE more == ns_up[s] /\ ns_link = "up"
  <1> lines \in Seq(NsLines) /\ \A i \in 1 .. Len(lines) : ~NsIs(lines[i], "BURST") /\ NsOwn(s, lines[i])
    BY DEF NsSays
  <1>1. ns_wire \in [NsServers -> Seq(NsLines)]
    BY NsTypes
  <1>2. /\ ns_wire' \in [NsServers -> Seq(NsLines)]
        /\ \A t \in NsServers : ns_wire'[t] = IF t = s /\ more THEN ns_wire[s] \o lines ELSE ns_wire[t]
    <2>1. /\ NsSent(ns_wire, s, lines) \in [NsServers -> Seq(NsLines)]
          /\ \A t \in NsServers : NsSent(ns_wire, s, lines)[t] = IF t = s /\ more THEN ns_wire[s] \o lines ELSE ns_wire[t]
      <3>1. NsSent(ns_wire, s, lines) \in [NsServers -> Seq(NsLines)]
        BY <1>1, NsSentTo
      <3>2. ASSUME NEW t \in NsServers
            PROVE  NsSent(ns_wire, s, lines)[t] = IF t = s /\ ns_up[s] /\ ns_link = "up" THEN ns_wire[s] \o lines ELSE ns_wire[t]
        BY <1>1, NsSentTo
      <3> QED BY <3>1, <3>2
    <2> HIDE DEF more
    <2> QED BY Zenon, <2>1
  <1> HIDE DEF more
  <1>3. ASSUME NEW i \in 1 .. Len(ns_wire[s] \o lines)
        PROVE  \/ i \in 1 .. Len(ns_wire[s]) /\ (ns_wire[s] \o lines)[i] = ns_wire[s][i]
               \/ i > Len(ns_wire[s]) /\ \E k \in 1 .. Len(lines) : (ns_wire[s] \o lines)[i] = lines[k]
    <2>1. CASE i <= Len(ns_wire[s])
      BY <1>1, <1>3, <2>1
    <2>2. CASE i > Len(ns_wire[s])
      <3>1. i - Len(ns_wire[s]) \in 1 .. Len(lines) /\ (ns_wire[s] \o lines)[i] = lines[i - Len(ns_wire[s])]
        BY <1>1, <1>3, <2>2
      <3> QED BY <2>2, <3>1
    <2> QED BY <1>1, <1>3, <2>1, <2>2
  <1>4. ASSUME NEW t \in NsServers, NEW i \in 1 .. Len(ns_wire'[t])
        PROVE  NsOwn(t, ns_wire'[t][i])
    <2>1. \A k \in 1 .. Len(ns_wire[t]) : NsOwn(t, ns_wire[t][k])
      BY DEF NsWires
    <2>2. CASE t = s /\ more
      <3>1. ns_wire'[t] = ns_wire[s] \o lines
        BY <1>2, <2>2
      <3> QED BY <1>3, <1>4, <2>1, <2>2, <3>1
    <2>3. CASE ~(t = s /\ more)
      <3>1. ns_wire'[t] = ns_wire[t]
        BY <1>2, <2>3
      <3> QED BY <1>4, <2>1, <3>1
    <2> QED BY <2>2, <2>3
  <1>5. ns_link = "down" => \A t \in NsServers : ns_wire'[t] = <<>> /\ ~ns_up[t]
    BY <1>2 DEF NsWires, more
  <1>6. ASSUME ns_link = "up", NEW t \in NsServers
        PROVE  /\ \A i \in 1 .. Len(ns_wire'[t]) : NsIs(ns_wire'[t][i], "BURST") => i = 1 /\ ~ns_up[NsOther(t)]
               /\ ns_up[t] \/ NsAwaits(t)'
    <2>1. ASSUME NEW i \in 1 .. Len(ns_wire'[t]), NsIs(ns_wire'[t][i], "BURST")
          PROVE  i = 1 /\ ~ns_up[NsOther(t)]
      <3>1. i \in 1 .. Len(ns_wire[t]) /\ NsIs(ns_wire[t][i], "BURST")
        BY <1>2, <1>3, <2>1
      <3> QED BY <1>6, <3>1 DEF NsWires
    <2>2. CASE ns_up[t]
      BY <2>1, <2>2
    <2>3. CASE ~ns_up[t]
      <3>1. NsAwaits(t)
        BY <1>6, <2>3 DEF NsWires
      <3>2. ns_wire'[t] = <<>>
        BY <1>2, <2>3, <3>1 DEF NsAwaits, more
      <3>3. ns_wire[NsOther(t)] \in Seq(NsLines) /\ NsOther(t) \in NsServers
        BY <1>1, NsPeers
      <3>4. (ns_wire[NsOther(t)] \o lines) # <<>> /\ (ns_wire[NsOther(t)] \o lines)[1] = ns_wire[NsOther(t)][1]
        BY <3>1, <3>3 DEF NsAwaits
      <3>5. ns_wire'[NsOther(t)] # <<>> /\ ns_wire'[NsOther(t)][1] = <<"BURST">>
        BY <1>2, <3>1, <3>3, <3>4 DEF NsAwaits
      <3> QED BY <2>1, <3>1, <3>2, <3>5 DEF NsAwaits
    <2> QED BY <2>2, <2>3
  <1> QED BY <1>2, <1>4, <1>5, <1>6 DEF NsWires

\* A server that is in the network has read a line.
LEMMA NsWiresRead ==
    ASSUME NickSyncTypeOK, NsWires, NEW s \in NsServers, ns_up[s], ns_wire[NsOther(s)] # <<>>,
           NEW lines, NsSays(s, lines),
           ns_wire' \in [NsServers -> Seq(NsLines)],
           ns_wire'[s] = ns_wire[s] \/ ns_wire'[s] = ns_wire[s] \o lines,
           ns_wire'[NsOther(s)] = Tail(ns_wire[NsOther(s)]), UNCHANGED <<ns_up, ns_link>>
    PROVE  NsWires'
  <1> DEFINE r == NsOther(s)
  <1> lines \in Seq(NsLines) /\ \A i \in 1 .. Len(lines) : ~NsIs(lines[i], "BURST") /\ NsOwn(s, lines[i])
    BY DEF NsSays
  <1>1. /\ ns_wire \in [NsServers -> Seq(NsLines)] /\ r \in NsServers /\ r # s /\ NsOther(r) = s
        /\ \A t \in NsServers : t = s \/ t = r
    BY NsTypes, NsPeers
  <1> HIDE DEF r
  <1>2. ASSUME NEW i \in 1 .. Len(ns_wire'[s])
        PROVE  \/ i \in 1 .. Len(ns_wire[s]) /\ ns_wire'[s][i] = ns_wire[s][i]
               \/ ~NsIs(ns_wire'[s][i], "BURST") /\ NsOwn(s, ns_wire'[s][i])
    <2>1. CASE i <= Len(ns_wire[s])
      BY <1>1, <1>2, <2>1
    <2>2. CASE i > Len(ns_wire[s])
      <3>1. ns_wire'[s] = ns_wire[s] \o lines
        BY <1>1, <1>2, <2>2
      <3>2. i - Len(ns_wire[s]) \in 1 .. Len(lines) /\ (ns_wire[s] \o lines)[i] = lines[i - Len(ns_wire[s])]
        BY <1>1, <1>2, <2>2, <3>1
      <3> QED BY <3>1, <3>2
    <2> QED BY <1>1, <1>2, <2>1, <2>2
  <1>3. ASSUME NEW i \in 1 .. Len(ns_wire'[r])
        PROVE  i + 1 \in 1 .. Len(ns_wire[r]) /\ ns_wire'[r][i] = ns_wire[r][i + 1] /\ i + 1 # 1
    BY <1>1, <1>3 DEF r
  <1>4. ASSUME NEW t \in NsServers, NEW i \in 1 .. Len(ns_wire'[t]) PROVE NsOwn(t, ns_wire'[t][i])
    <2>1. \A k \in 1 .. Len(ns_wire[t]) : NsOwn(t, ns_wire[t][k])
      BY DEF NsWires
    <2>2. CASE t = s
      BY <1>2, <1>4, <2>1, <2>2
    <2>3. CASE t = r
      BY <1>3, <1>4, <2>1, <2>3
    <2> QED BY <1>1, <2>2, <2>3
  <1>5. ns_link # "down"
    BY DEF NsWires
  <1>6. ASSUME ns_link = "up"
        PROVE  /\ ns_up[r]
               /\ \A t \in NsServers : \A i \in 1 .. Len(ns_wire'[t]) : ~NsIs(ns_wire'[t][i], "BURST")
    <2>1. ns_up[r]
      BY <1>1, <1>6 DEF NsWires, NsAwaits, r
    <2>2. \A t \in NsServers : \A i \in 1 .. Len(ns_wire[t]) : ~NsIs(ns_wire[t][i], "BURST")
      <3>1. \A t \in NsServers : ns_up[NsOther(t)]
        BY <1>1, <2>1 DEF r
      <3> QED BY <1>6, <3>1 DEF NsWires
    <2> QED BY <1>1, <1>2, <1>3, <2>1, <2>2
  <1> QED BY <1>1, <1>4, <1>5, <1>6 DEF NsWires

\* More clients who have records are to be removed.
LEMMA NsRecordsQueued ==
    ASSUME NickSyncTypeOK, NsRecords, NEW s \in NsServers, NEW cs, cs \subseteq NsClients, NsQueue(s, cs),
           \A c \in cs : ns_nick[s][c] # NsAbsent, UNCHANGED <<ns_nick, ns_reg, ns_new>>
    PROVE  NsRecords' /\ ns_culls' \in [NsServers -> Seq(NsClients)]
  <1>1. /\ ns_culls' \in [NsServers -> Seq(NsClients)] /\ NsDying(s)' = NsDying(s) \cup cs
        /\ \A t \in NsServers : t # s => NsDying(t)' = NsDying(t)
    BY NsTypes, NsQueued
  <1>2. \A t \in NsServers : \A c \in NsDying(t)' : ns_nick[t][c] # NsAbsent
    BY <1>1 DEF NsRecords
  <1> QED BY <1>1, <1>2 DEF NsRecords

\* A change of nickname, where nobody else but clients who are connecting has the new one.
LEMMA NsRecordsRenamed ==
    ASSUME NickSyncTypeOK, NsRecords, NEW s \in NsServers, NEW c \in NsClients, NEW n \in NsNicks, NsRename(s, c, n),
           ~NsTaken(s, c, n), UNCHANGED <<ns_culls, ns_reg>>, ns_new' \subseteq ns_new,
           NsLocal(s, c) => c \notin ns_new'
    PROVE  NsRecords' /\ \A d \in NsClients \ {c} : NsRegistered(s, d) => ns_nick'[s][d] = ns_nick[s][d]
  <1>1. /\ \A t \in NsServers \ {s} : ns_nick'[t] = ns_nick[t]
        /\ ns_nick'[s][c] = n
        /\ \A d \in NsClients \ {c} : ns_nick'[s][d] = IF ns_nick[s][d] = n THEN NsNoNick ELSE ns_nick[s][d]
    BY NsRenamed
  <1>2. \A d \in NsClients \ {c} : NsRegistered(s, d) => ns_nick'[s][d] = ns_nick[s][d]
    BY <1>1 DEF NsTaken, NsFind
  <1>3. ns_reg \subseteq NsClients /\ ns_new \subseteq NsClients /\ NsAbsent \notin NsNicks /\ NsNoNick \notin NsNicks
    BY NsTypes
  <1>4. \A d \in NsClients : NsHome[d] \in NsServers
    BY NickSyncOK
  <1>5. \A d \in ns_reg : ns_nick'[NsHome[d]][d] \in NsNicks
    BY <1>1, <1>2, <1>3, <1>4 DEF NsRecords, NsRegistered, NsLocal
  <1>6. \A d \in ns_new' : d \notin ns_reg /\ ns_nick'[NsHome[d]][d] = NsAbsent
    BY <1>1, <1>3, <1>4 DEF NsRecords, NsLocal
  <1>7. \A t \in NsServers : \A d \in NsClients : ns_nick'[t][d] = NsAbsent => ns_nick[t][d] = NsAbsent
    BY <1>1, <1>3, NickSyncOK DEF NsNoNick, NsAbsent
  <1>8. \A t \in NsServers : \A d \in NsDying(t)' : ns_nick'[t][d] # NsAbsent
    <2>1. \A t \in NsServers : NsDying(t)' = NsDying(t) /\ NsDying(t) \subseteq NsClients
      BY NsTypes DEF NsDying
    <2> QED BY <1>7, <2>1 DEF NsRecords
  <1>9. \A t \in NsServers, d \in NsClients : ~NsLocal(t, d) => ns_nick'[t][d] # NsNoNick
    BY <1>1, <1>2, <1>3 DEF NsRecords, NsRegistered
  <1> QED BY <1>2, <1>5, <1>6, <1>8, <1>9 DEF NsRecords

\* What a server says where no record changes but those it removes later.
LEMMA NsBaseSaid ==
    ASSUME NsBase, NEW s \in NsServers, NEW lines, NsSays(s, lines),
           ns_wire' = NsSent(ns_wire, s, lines), UNCHANGED <<ns_nick, ns_new, ns_up, ns_link, ns_hasty>>,
           NsRecords', ns_culls' \in [NsServers -> Seq(NsClients)], ns_reg' \subseteq NsClients,
           ns_left' \in [acts : 0 .. NsActs, splits : 0 .. NsSplits]
    PROVE  NsBase'
  <1>1. NsWires' /\ ns_wire' \in [NsServers -> Seq(NsLines)]
    BY NsWiresSaid DEF NsBase
  <1>2. NickSyncTypeOK'
    BY <1>1 DEF NsBase, NickSyncTypeOK
  <1>3. NsTidied'
    BY DEF NsBase, NsTidied, NsTidy
  <1> QED BY <1>1, <1>2, <1>3 DEF NsBase

LEMMA NsSaysFew ==
    ASSUME NEW s \in NsServers
    PROVE  /\ NsSays(s, <<>>)
           /\ \A l \in NsLines : ~NsIs(l, "BURST") /\ NsOwn(s, l) => NsSays(s, <<l>>)
           /\ \A l, k \in NsLines : ~NsIs(l, "BURST") /\ NsOwn(s, l) /\ ~NsIs(k, "BURST") /\ NsOwn(s, k) => NsSays(s, <<l, k>>)
  BY DEF NsSays

LEMMA NsFineLines ==
    ASSUME NEW s \in NsServers
    PROVE  /\ \A n \in NsNicks : ~NsIs(<<"KILL", n>>, "BURST") /\ NsOwn(s, <<"KILL", n>>) /\ <<"KILL", n>> \in NsLines
           /\ \A n \in NsNicks : ~NsIs(<<"QUIT", n>>, "BURST") /\ NsOwn(s, <<"QUIT", n>>) /\ <<"QUIT", n>> \in NsLines
           /\ \A n, m \in NsNicks : ~NsIs(<<"NICK", n, m>>, "BURST") /\ NsOwn(s, <<"NICK", n, m>>) /\ <<"NICK", n, m>> \in NsLines
           /\ \A n, m \in NsNicks : ~NsIs(<<"SVSNICK", n, m>>, "BURST") /\ NsOwn(s, <<"SVSNICK", n, m>>) /\ <<"SVSNICK", n, m>> \in NsLines
           /\ \A c \in NsClients, n \in NsNicks : NsLocal(s, c) =>
                 ~NsIs(<<"INTRO", c, n>>, "BURST") /\ NsOwn(s, <<"INTRO", c, n>>) /\ <<"INTRO", c, n>> \in NsLines
  BY NsLineType DEF NsIs, NsOwn

LEMMA NsSaysOne ==
    ASSUME NEW s \in NsServers
    PROVE  /\ NsSays(s, <<>>)
           /\ \A n \in NsNicks : NsSays(s, <<<<"KILL", n>>>>)
           /\ \A n, m \in NsNicks : NsSays(s, <<<<"SVSNICK", n, m>>>>)
           /\ \A n, m \in NsNicks : NsSays(s, <<<<"NICK", n, m>>>>)
           /\ \A n, m \in NsNicks : NsSays(s, <<<<"KILL", m>>, <<"KILL", n>>>>)
           /\ \A c \in NsClients, n \in NsNicks : NsLocal(s, c) => NsSays(s, <<<<"INTRO", c, n>>>>)
  BY NsSaysFew, NsFineLines, Zenon

\* What a set of lines is written as.
LEMMA NsSaysSet ==
    ASSUME NEW s \in NsServers, NEW S, IsFiniteSet(S), \A l \in S : l \in NsLines /\ ~NsIs(l, "BURST") /\ NsOwn(s, l)
    PROVE  NsSays(s, SetToSeq(S))
  <1>1. SetToSeq(S) \in Seq(S)
    BY SetListed
  <1>2. \A i \in 1 .. Len(SetToSeq(S)) : SetToSeq(S)[i] \in S
    BY <1>1
  <1>3. SetToSeq(S) \in Seq(NsLines)
    BY <1>1, SeqMonotonic
  <1> QED BY <1>2, <1>3 DEF NsSays

LEMMA NsImageFinite ==
    ASSUME NEW f, IsFiniteSet(DOMAIN f), f = [x \in DOMAIN f |-> f[x]]
    PROVE  IsFiniteSet({f[x] : x \in DOMAIN f})
  <1>1. f \in Surjection(DOMAIN f, {f[x] : x \in DOMAIN f})
    BY DEF Surjection
  <1> QED BY <1>1, FS_Surjection

LEMMA NsChangedType ==
    ASSUME NsBase, NEW s \in NsServers, NEW c \in NsClients, NEW n \in NsNicks
    PROVE  NsSays(s, NsChanged(s, c, n))
  <1>1. CASE NsLocal(s, c) /\ c \in ns_reg
    <2>1. ns_nick[s][c] \in NsNicks
      BY <1>1 DEF NsBase, NsRecords, NsLocal
    <2>2. NsChanged(s, c, n) = <<<<"NICK", ns_nick[s][c], n>>>>
      BY <1>1 DEF NsChanged
    <2> QED BY <2>1, <2>2, NsSaysOne
  <1>2. CASE ~(NsLocal(s, c) /\ c \in ns_reg)
    <2>1. NsChanged(s, c, n) = <<>>
      BY <1>2 DEF NsChanged
    <2> QED BY <2>1, NsSaysOne
  <1> QED BY <1>1, <1>2

LEMMA NsBaseNick ==
    ASSUME NsBase, NEW s \in NsServers, NEW c \in NsClients, NEW n \in NsNicks, NsNick(s, c, n)
    PROVE  NsBase'
  <1>1. NickSyncTypeOK /\ NsRecords /\ NsWires /\ NsTidied /\ NsLocal(s, c)
    BY DEF NsBase, NsNick
  <1>2. /\ NsRename(s, c, n) /\ ~NsTaken(s, c, n) /\ UNCHANGED <<ns_culls, ns_reg, ns_up, ns_link>>
        /\ ns_new' = ns_new \ {c} /\ ns_wire' = NsSent(ns_wire, s, NsChanged(s, c, n))
    BY DEF NsNick
  <1>3. ns_left' \in [acts : 0 .. NsActs, splits : 0 .. NsSplits]
    BY <1>1, NsTypes, NsActType DEF NsNick
  <1>4. NsWires' /\ ns_wire' \in [NsServers -> Seq(NsLines)]
    BY <1>1, <1>2, NsChangedType, NsWiresSaid
  <1>5. NsRecords'
    BY <1>1, <1>2, NsRecordsRenamed
  <1>6. /\ ns_nick' \in [NsServers -> [NsClients -> NsNicks \cup {NsNoNick, NsAbsent}]]
        /\ \A t \in NsServers \ {s} : ns_nick'[t] = ns_nick[t]
        /\ \A d \in NsClients \ {c} : ns_nick'[s][d] = IF ns_nick[s][d] = n THEN NsNoNick ELSE ns_nick[s][d]
        /\ NsUnique' /\ ns_hasty' \subseteq NsClients
    BY <1>1, <1>2, NsRenamed DEF NsUnique
  <1>7. NickSyncTypeOK'
    BY <1>1, <1>2, <1>3, <1>4, <1>6 DEF NickSyncTypeOK, NsUnique
  <1>8. \A t \in NsServers : NsTidy(t) => NsTidy(t)'
    <2>1. NsAbsent \notin NsNicks
      BY <1>1, NsTypes
    <2>2. ASSUME NEW t \in NsServers, NEW d \in NsClients, NsLocal(t, d) \/ ns_nick[t][d] = NsAbsent
          PROVE  NsLocal(t, d) \/ ns_nick'[t][d] = NsAbsent
      BY <1>1, <1>6, <2>1, <2>2
    <2> QED BY <2>2 DEF NsTidy, NsLocal
  <1>9. NsTidied'
    BY <1>1, <1>2, <1>8, NsPeers DEF NsTidied
  <1> QED BY <1>4, <1>5, <1>7, <1>9 DEF NsBase

LEMMA NsBaseRegister ==
    ASSUME NsBase, NEW s \in NsServers, NEW c \in NsClients, NsRegister(s, c)
    PROVE  NsBase'
  <1>1. /\ NsLocal(s, c) /\ ns_nick[s][c] \in NsNicks /\ ns_reg' = ns_reg \cup {c}
        /\ ns_wire' = NsSent(ns_wire, s, <<<<"INTRO", c, ns_nick[s][c]>>>>)
        /\ UNCHANGED <<ns_nick, ns_culls, ns_new, ns_up, ns_link, ns_left, ns_hasty>>
    BY DEF NsRegister
  <1>2. NsRecords'
    BY <1>1, NsTypes DEF NsBase, NsRecords, NsLocal, NsDying
  <1>3. /\ ns_culls' \in [NsServers -> Seq(NsClients)] /\ ns_reg' \subseteq NsClients
        /\ ns_left' \in [acts : 0 .. NsActs, splits : 0 .. NsSplits]
    BY <1>1, NsTypes DEF NsBase
  <1> QED BY <1>1, <1>2, <1>3, NsSaysOne, NsBaseSaid

LEMMA NsSentNothing ==
    ASSUME NickSyncTypeOK, NEW s \in NsServers
    PROVE  ns_wire = NsSent(ns_wire, s, <<>>)
  <1>1. ns_wire \in [NsServers -> Seq(NsLines)] /\ <<>> \in Seq(NsLines)
    BY NsTypes
  <1>2. ns_wire[s] \o <<>> = ns_wire[s]
    BY <1>1
  <1> QED BY <1>1, <1>2 DEF NsSent

LEMMA NsBaseQuit ==
    ASSUME NsBase, NEW s \in NsServers, NEW c \in NsClients, NsQuit(s, c)
    PROVE  NsBase'
  <1>1. /\ NsQueue(s, {c}) /\ ns_nick[s][c] # NsAbsent /\ NsAct
        /\ UNCHANGED <<ns_nick, ns_reg, ns_new, ns_wire, ns_up, ns_link, ns_hasty>>
    BY DEF NsQuit
  <1>2. NsRecords' /\ ns_culls' \in [NsServers -> Seq(NsClients)]
    BY <1>1, NsRecordsQueued DEF NsBase
  <1>3. ns_left' \in [acts : 0 .. NsActs, splits : 0 .. NsSplits] /\ ns_reg' \subseteq NsClients
    BY <1>1, NsActType, NsTypes DEF NsBase
  <1>4. ns_wire' = NsSent(ns_wire, s, <<>>)
    BY <1>1, NsSentNothing DEF NsBase
  <1> QED BY <1>1, <1>2, <1>3, <1>4, NsSaysOne, NsBaseSaid

LEMMA NsKilledType ==
    ASSUME NEW s \in NsServers, NEW n \in NsNicks
    PROVE  NsSays(s, NsKilled(s, n))
  <1>1. NsKilled(s, n) = <<<<"KILL", n>>>> \/ NsKilled(s, n) = <<>>
    BY DEF NsKilled
  <1> QED BY <1>1, NsSaysOne

LEMMA NsBaseKill ==
    ASSUME NsBase, NEW s \in NsServers, NEW n \in NsNicks, NsKill(s, n)
    PROVE  NsBase'
  <1>1. /\ NsQueue(s, NsFind(s, n)) /\ NsAct /\ ns_wire' = NsSent(ns_wire, s, NsKilled(s, n))
        /\ UNCHANGED <<ns_nick, ns_reg, ns_new, ns_up, ns_link, ns_hasty>>
    BY DEF NsKill
  <1>2. NsRecords' /\ ns_culls' \in [NsServers -> Seq(NsClients)]
    BY <1>1, NsOfFind, NsRecordsQueued DEF NsBase
  <1>3. ns_left' \in [acts : 0 .. NsActs, splits : 0 .. NsSplits] /\ ns_reg' \subseteq NsClients
    BY <1>1, NsActType, NsTypes DEF NsBase
  <1> QED BY <1>1, <1>2, <1>3, NsKilledType, NsBaseSaid

LEMMA NsBaseService ==
    ASSUME NsBase, NEW s \in NsServers, NEW n \in NsNicks, NEW m \in NsNicks, NsService(s, n, m)
    PROVE  NsBase'
  <1>1. /\ NsAct /\ ns_wire' = NsSent(ns_wire, s, <<<<"SVSNICK", n, m>>>>)
        /\ UNCHANGED <<ns_nick, ns_culls, ns_reg, ns_new, ns_up, ns_link, ns_hasty>>
    BY DEF NsService
  <1>2. NsRecords' /\ ns_culls' \in [NsServers -> Seq(NsClients)]
    BY <1>1, NsTypes DEF NsBase, NsRecords, NsDying
  <1>3. ns_left' \in [acts : 0 .. NsActs, splits : 0 .. NsSplits] /\ ns_reg' \subseteq NsClients
    BY <1>1, NsActType, NsTypes DEF NsBase
  <1> QED BY <1>1, <1>2, <1>3, NsSaysOne, NsBaseSaid

LEMMA NsQuitsType ==
    ASSUME NsBase, NEW s \in NsServers
    PROVE  /\ NsSays(s, NsQuits(s))
           /\ IsFiniteSet({<<"QUIT", ns_nick[s][c]>> : c \in {d \in NsDying(s) \cap ns_reg : NsLocal(s, d)}})
  <1> DEFINE G == {d \in NsDying(s) \cap ns_reg : NsLocal(s, d)}
             f == [c \in G |-> <<"QUIT", ns_nick[s][c]>>]
             S == {f[c] : c \in G}
  <1>1. G \subseteq NsClients /\ \A c \in G : ns_nick[s][c] \in NsNicks /\ NsLocal(s, c)
    BY NsTypes DEF NsBase, NsRecords, NsLocal
  <1>2. IsFiniteSet(G) /\ DOMAIN f = G /\ f = [x \in DOMAIN f |-> f[x]]
    BY <1>1, NickSyncOK, FS_Subset
  <1>3. \A l \in S : l \in NsLines /\ ~NsIs(l, "BURST") /\ NsOwn(s, l)
    BY <1>1, NsFineLines
  <1>4. S = {<<"QUIT", ns_nick[s][c]>> : c \in G}
    OBVIOUS
  <1> HIDE DEF f
  <1>5. IsFiniteSet(S)
    BY <1>2, NsImageFinite
  <1> HIDE DEF S
  <1>6. NsSays(s, SetToSeq(S))
    BY <1>3, <1>5, NsSaysSet
  <1> QED BY <1>4, <1>5, <1>6 DEF NsQuits

LEMMA NsUsersType ==
    ASSUME NsBase, NEW s \in NsServers
    PROVE  /\ NsSays(s, NsUsers(s))
           /\ IsFiniteSet({<<"INTRO", c, ns_nick[s][c]>> : c \in {d \in ns_reg : NsLocal(s, d)}})
  <1> DEFINE G == {d \in ns_reg : NsLocal(s, d)}
             f == [c \in G |-> <<"INTRO", c, ns_nick[s][c]>>]
             S == {f[c] : c \in G}
  <1>1. G \subseteq NsClients /\ \A c \in G : ns_nick[s][c] \in NsNicks /\ NsLocal(s, c)
    BY NsTypes DEF NsBase, NsRecords, NsLocal
  <1>2. IsFiniteSet(G) /\ DOMAIN f = G /\ f = [x \in DOMAIN f |-> f[x]]
    BY <1>1, NickSyncOK, FS_Subset
  <1>3. \A l \in S : l \in NsLines /\ ~NsIs(l, "BURST") /\ NsOwn(s, l)
    BY <1>1, NsFineLines
  <1>4. S = {<<"INTRO", c, ns_nick[s][c]>> : c \in G}
    OBVIOUS
  <1> HIDE DEF f
  <1>5. IsFiniteSet(S)
    BY <1>2, NsImageFinite
  <1> HIDE DEF S
  <1>6. NsSays(s, SetToSeq(S))
    BY <1>3, <1>5, NsSaysSet
  <1> QED BY <1>4, <1>5, <1>6 DEF NsUsers

\* The records of those who were to be removed are gone.
LEMMA NsApplied ==
    ASSUME NickSyncTypeOK, NEW s \in NsServers, NsApply(s)
    PROVE  /\ ns_nick' \in [NsServers -> [NsClients -> NsNicks \cup {NsNoNick, NsAbsent}]]
           /\ \A t \in NsServers \ {s} : ns_nick'[t] = ns_nick[t] /\ NsDying(t)' = NsDying(t)
           /\ \A c \in NsClients : ns_nick'[s][c] = IF c \in NsDying(s) THEN NsAbsent ELSE ns_nick[s][c]
           /\ NsDying(s)' = {} /\ ns_culls' \in [NsServers -> Seq(NsClients)]
           /\ ns_reg' = ns_reg \ {c \in NsDying(s) : NsLocal(s, c)} /\ ns_wire' = NsSent(ns_wire, s, NsQuits(s))
           /\ UNCHANGED <<ns_new, ns_up, ns_link, ns_left, ns_hasty>>
  <1>1. /\ ns_nick' = [ns_nick EXCEPT ![s] = [c \in NsClients |-> IF c \in NsDying(s) THEN NsAbsent ELSE ns_nick[s][c]]]
        /\ ns_culls' = [ns_culls EXCEPT ![s] = <<>>]
        /\ ns_reg' = ns_reg \ {c \in NsDying(s) : NsLocal(s, c)} /\ ns_wire' = NsSent(ns_wire, s, NsQuits(s))
        /\ UNCHANGED <<ns_new, ns_up, ns_link, ns_left, ns_hasty>>
    BY DEF NsApply
  <1>2. ns_nick \in [NsServers -> [NsClients -> NsNicks \cup {NsNoNick, NsAbsent}]] /\ ns_culls \in [NsServers -> Seq(NsClients)]
    BY NsTypes
  <1>3. ns_culls' \in [NsServers -> Seq(NsClients)] /\ ns_culls'[s] = <<>> /\ \A t \in NsServers \ {s} : ns_culls'[t] = ns_culls[t]
    BY <1>1, <1>2
  <1>4. NsDying(s)' = {} /\ \A t \in NsServers \ {s} : NsDying(t)' = NsDying(t)
    BY <1>3 DEF NsDying, ToSet
  <1>5. /\ ns_nick' \in [NsServers -> [NsClients -> NsNicks \cup {NsNoNick, NsAbsent}]]
        /\ \A t \in NsServers \ {s} : ns_nick'[t] = ns_nick[t]
        /\ \A c \in NsClients : ns_nick'[s][c] = IF c \in NsDying(s) THEN NsAbsent ELSE ns_nick[s][c]
    BY <1>1, <1>2
  <1> QED BY <1>1, <1>3, <1>4, <1>5

LEMMA NsBaseApply ==
    ASSUME NsBase, NEW s \in NsServers, NsApply(s)
    PROVE  NsBase'
  <1>1. NickSyncTypeOK /\ NsRecords /\ NsWires /\ NsTidied
    BY DEF NsBase
  <1>2. /\ ns_nick' \in [NsServers -> [NsClients -> NsNicks \cup {NsNoNick, NsAbsent}]]
        /\ \A t \in NsServers \ {s} : ns_nick'[t] = ns_nick[t] /\ NsDying(t)' = NsDying(t)
        /\ \A c \in NsClients : ns_nick'[s][c] = IF c \in NsDying(s) THEN NsAbsent ELSE ns_nick[s][c]
        /\ NsDying(s)' = {} /\ ns_culls' \in [NsServers -> Seq(NsClients)]
        /\ ns_reg' = ns_reg \ {c \in NsDying(s) : NsLocal(s, c)} /\ ns_wire' = NsSent(ns_wire, s, NsQuits(s))
        /\ UNCHANGED <<ns_new, ns_up, ns_link, ns_left, ns_hasty>>
    BY <1>1, NsApplied
  <1>3. NsWires' /\ ns_wire' \in [NsServers -> Seq(NsLines)]
    BY <1>1, <1>2, NsQuitsType, NsWiresSaid
  <1>4. /\ ns_nick \in [NsServers -> [NsClients -> NsNicks \cup {NsNoNick, NsAbsent}]]
        /\ ns_reg \subseteq NsClients /\ ns_new \subseteq NsClients /\ NsAbsent \notin NsNicks /\ NsUnique
        /\ \A c \in NsClients : NsHome[c] \in NsServers /\ NsAbsent # NsNoNick
        /\ \A t \in NsServers : NsDying(t) \subseteq NsClients
    BY <1>1, NsTypes, NickSyncOK DEF NickSyncTypeOK, NsUnique, NsAbsent, NsNoNick
  <1>5. NsUnique'
    <2>1. ASSUME NEW t \in NsServers, NEW c \in NsClients, NEW d \in NsClients,
                 ns_nick'[t][c] = ns_nick'[t][d], ns_nick'[t][c] \in NsNicks
          PROVE  c = d
      <3>1. CASE t = s
        BY <1>2, <1>4, <2>1, <3>1 DEF NsUnique
      <3>2. CASE t # s
        BY <1>2, <1>4, <2>1, <3>2 DEF NsUnique
      <3> QED BY <3>1, <3>2
    <2> QED BY <2>1 DEF NsUnique
  <1>6. NickSyncTypeOK'
    BY <1>1, <1>2, <1>3, <1>5 DEF NickSyncTypeOK, NsUnique
  <1>7. \A c \in ns_reg' : ns_nick'[NsHome[c]][c] \in NsNicks
    BY <1>1, <1>2, <1>4 DEF NsRecords, NsLocal
  <1>8. \A c \in ns_new' : c \notin ns_reg' /\ ns_nick'[NsHome[c]][c] = NsAbsent
    BY <1>1, <1>2, <1>4 DEF NsRecords, NsLocal
  <1>9. \A t \in NsServers : \A c \in NsDying(t)' : ns_nick'[t][c] # NsAbsent
    BY <1>1, <1>2, <1>4 DEF NsRecords
  <1>10. \A t \in NsServers, c \in NsClients : ~NsLocal(t, c) => ns_nick'[t][c] # NsNoNick
    BY <1>1, <1>2, <1>4 DEF NsRecords
  <1>11. NsRecords'
    BY <1>7, <1>8, <1>9, <1>10 DEF NsRecords
  <1>12. \A t \in NsServers : NsTidy(t) => NsTidy(t)'
    BY <1>2, <1>4 DEF NsTidy
  <1>13. NsTidied'
    BY <1>1, <1>2, <1>12, NsPeers DEF NsTidied
  <1> QED BY <1>3, <1>6, <1>11, <1>13 DEF NsBase

\* The line a server of the network reads; both are in the network when the link is up.
LEMMA NsReadLine ==
    ASSUME NsBase, NEW s \in NsServers, NEW command, command # "BURST", NsReads(s, command)
    PROVE  /\ ns_up[s] /\ ns_wire[NsOther(s)] # <<>> /\ NsLine(s) \in NsLines /\ NsLine(s) = ns_wire[NsOther(s)][1]
           /\ NsIs(NsLine(s), command) /\ NsOwn(NsOther(s), NsLine(s)) /\ (ns_link = "up" => ns_up[NsOther(s)])
  <1>1. ns_up[s] /\ ns_wire[NsOther(s)] # <<>> /\ NsOther(s) \in NsServers /\ NsOther(NsOther(s)) = s
    BY NsPeers DEF NsReads
  <1>2. ns_wire \in [NsServers -> Seq(NsLines)] /\ NsLine(s) \in NsLines /\ NsLine(s) = ns_wire[NsOther(s)][1]
    BY <1>1, NsTypes, NsReadFrom DEF NsBase
  <1>3. NsIs(NsLine(s), command)
    BY DEF NsIs, NsLine, NsReads
  <1>4. 1 \in 1 .. Len(ns_wire[NsOther(s)])
    <2>1. ns_wire[NsOther(s)] \in Seq(NsLines)
      BY <1>1, <1>2
    <2> QED BY <1>1, <2>1
  <1>5. NsOwn(NsOther(s), NsLine(s))
    BY <1>1, <1>2, <1>4 DEF NsBase, NsWires
  <1>6. ns_link = "up" => ns_up[NsOther(s)]
    BY <1>1 DEF NsBase, NsWires, NsAwaits
  <1> QED BY <1>1, <1>2, <1>3, <1>5, <1>6

LEMMA NsToldType ==
    ASSUME NsBase, NEW s \in NsServers, NEW command, command # "BURST", NsReads(s, command),
           NEW lines, NsSays(s, lines), NsTold(s, lines), UNCHANGED <<ns_up, ns_link>>
    PROVE  /\ NsWires' /\ NsTidied' /\ ns_wire' \in [NsServers -> Seq(NsLines)]
           /\ ns_wire'[s] = IF ns_link = "up" THEN ns_wire[s] \o lines ELSE ns_wire[s]
           /\ ns_wire'[NsOther(s)] = Tail(ns_wire[NsOther(s)])
  <1>1. /\ ns_wire \in [NsServers -> Seq(NsLines)] /\ lines \in Seq(NsLines)
        /\ \A t \in NsServers : t = s \/ t = NsOther(s)
        /\ NsOther(s) \in NsServers /\ NsOther(s) # s /\ NsOther(NsOther(s)) = s
    BY NsTypes, NsPeers DEF NsBase, NsSays
  <1>2. ns_up[s] /\ ns_wire[NsOther(s)] # <<>> /\ (ns_link = "up" => ns_up[NsOther(s)])
    BY NsReadLine
  <1>3. /\ NsRead(s) \in [NsServers -> Seq(NsLines)]
        /\ NsRead(s)[s] = ns_wire[s] /\ NsRead(s)[NsOther(s)] = Tail(ns_wire[NsOther(s)])
    BY <1>1, <1>2, NsReadFrom
  <1>4. PICK road : road = NsRead(s)
    OBVIOUS
  <1>5. ns_wire' = NsSent(road, s, lines)
    BY <1>4 DEF NsTold
  <1>6. /\ NsSent(road, s, lines) \in [NsServers -> Seq(NsLines)]
        /\ \A t \in NsServers : NsSent(road, s, lines)[t] =
                IF t = s /\ ns_up[s] /\ ns_link = "up" THEN road[s] \o lines ELSE road[t]
    <2>1. road \in [NsServers -> Seq(NsLines)]
      BY <1>3, <1>4
    <2>2. NsSent(road, s, lines) \in [NsServers -> Seq(NsLines)]
      BY <1>1, <2>1, NsSentTo
    <2>3. ASSUME NEW t \in NsServers
          PROVE  NsSent(road, s, lines)[t] = IF t = s /\ ns_up[s] /\ ns_link = "up" THEN road[s] \o lines ELSE road[t]
      BY <1>1, <2>1, NsSentTo
    <2> QED BY <2>2, <2>3
  <1>7. /\ ns_wire' \in [NsServers -> Seq(NsLines)]
        /\ ns_wire'[s] = IF ns_link = "up" THEN ns_wire[s] \o lines ELSE ns_wire[s]
        /\ ns_wire'[NsOther(s)] = Tail(ns_wire[NsOther(s)])
    BY <1>1, <1>2, <1>3, <1>4, <1>5, <1>6
  <1>8. NsWires'
    BY <1>2, <1>7, NsWiresRead DEF NsBase
  <1>9. NsTidied'
    BY <1>1, <1>2 DEF NsTidied
  <1> QED BY <1>7, <1>8, <1>9

LEMMA NsReadIsTold ==
    ASSUME NsBase, NEW s \in NsServers, NEW command, command # "BURST", NsReads(s, command), ns_wire' = NsRead(s)
    PROVE  NsTold(s, <<>>) /\ NsSays(s, <<>>)
  <1>1. NsRead(s) \in [NsServers -> Seq(NsLines)]
    BY NsReadLine, NsReadFrom, NsTypes DEF NsBase
  <1>2. NsRead(s)[s] \o <<>> = NsRead(s)[s]
    BY <1>1
  <1> QED BY <1>1, <1>2, NsSaysOne DEF NsTold, NsSent

\* The types of what a line does not change.
LEMMA NsBaseTold ==
    ASSUME NsBase, NEW s \in NsServers, NEW command, command # "BURST", NsReads(s, command),
           NEW lines, NsSays(s, lines), NsTold(s, lines), UNCHANGED <<ns_reg, ns_new, ns_up, ns_link, ns_left>>,
           NsRecords', ns_nick' \in [NsServers -> [NsClients -> NsNicks \cup {NsNoNick, NsAbsent}]], NsUnique',
           ns_culls' \in [NsServers -> Seq(NsClients)], ns_hasty' \subseteq NsClients
    PROVE  NsBase'
  <1>1. NsWires' /\ NsTidied' /\ ns_wire' \in [NsServers -> Seq(NsLines)]
    BY NsToldType
  <1>2. NickSyncTypeOK'
    BY <1>1 DEF NsBase, NickSyncTypeOK, NsUnique
  <1> QED BY <1>1, <1>2 DEF NsBase

\* A line that only has clients removed.
LEMMA NsBaseToldQueue ==
    ASSUME NsBase, NEW s \in NsServers, NEW command, command # "BURST", NsReads(s, command),
           NEW lines, NsSays(s, lines), NsTold(s, lines), UNCHANGED <<ns_nick, ns_reg, ns_new, ns_up, ns_link, ns_left, ns_hasty>>,
           NEW cs, cs \subseteq NsClients, \A c \in cs : ns_nick[s][c] # NsAbsent, NsQueue(s, cs)
    PROVE  NsBase'
  <1>1. NsRecords' /\ ns_culls' \in [NsServers -> Seq(NsClients)]
    BY NsRecordsQueued DEF NsBase
  <1>2. /\ ns_nick' \in [NsServers -> [NsClients -> NsNicks \cup {NsNoNick, NsAbsent}]] /\ NsUnique'
        /\ ns_hasty' \subseteq NsClients
    BY DEF NsBase, NickSyncTypeOK, NsUnique
  <1> QED BY <1>1, <1>2, NsBaseTold

\* A line that changes a nickname.
LEMMA NsBaseToldRename ==
    ASSUME NsBase, NEW s \in NsServers, NEW command, command # "BURST", NsReads(s, command),
           NEW lines, NsSays(s, lines), NsTold(s, lines), UNCHANGED <<ns_culls, ns_reg, ns_new, ns_up, ns_link, ns_left>>,
           NEW c \in NsClients, NEW n \in NsNicks, NsRename(s, c, n), ~NsTaken(s, c, n), NsLocal(s, c) => c \in ns_reg
    PROVE  NsBase'
  <1>1. c \in ns_reg => c \notin ns_new
    BY DEF NsBase, NsRecords
  <1>2. NsRecords'
    BY <1>1, NsRecordsRenamed DEF NsBase
  <1>3. /\ ns_nick' \in [NsServers -> [NsClients -> NsNicks \cup {NsNoNick, NsAbsent}]] /\ NsUnique'
        /\ ns_hasty' \subseteq NsClients
    BY NsRenamed DEF NsBase, NsUnique
  <1>4. ns_culls' \in [NsServers -> Seq(NsClients)]
    BY NsTypes DEF NsBase
  <1> QED BY <1>2, <1>3, <1>4, NsBaseTold

LEMMA NsBaseIntroduce ==
    ASSUME NsBase, NEW s \in NsServers, NsIntroduce(s)
    PROVE  NsBase'
  <1>1. PICK c, n : c = NsLine(s)[2] /\ n = NsLine(s)[3]
    OBVIOUS
  <1>2. NsReads(s, "INTRO") /\ UNCHANGED <<ns_reg, ns_new, ns_up, ns_link, ns_left, ns_hasty>>
    BY DEF NsIntroduce
  <1>3. c \in NsClients /\ n \in NsNicks /\ NsLocal(NsOther(s), c) /\ NickSyncTypeOK
    BY <1>1, <1>2, NsReadLine, NsLineType DEF NsIs, NsOwn, NsBase
  <1>4. CASE NsFind(s, n) # {}
    <2>1. NsTold(s, <<<<"KILL", n>>>>) /\ NsQueue(s, NsFind(s, n)) /\ UNCHANGED ns_nick
      BY <1>1, <1>4 DEF NsIntroduce
    <2>2. NsSays(s, <<<<"KILL", n>>>>)
      BY <1>3, NsSaysOne
    <2> QED BY <1>2, <1>3, <2>1, <2>2, NsOfFind, NsBaseToldQueue
  <1>5. CASE NsFind(s, n) = {}
    <2>1. ns_wire' = NsRead(s) /\ ns_nick' = [ns_nick EXCEPT ![s][c] = n] /\ UNCHANGED ns_culls
      BY <1>1, <1>5 DEF NsIntroduce
    <2>2. NsTold(s, <<>>) /\ NsSays(s, <<>>)
      BY <1>2, <2>1, NsReadIsTold
    <2>3. /\ ns_nick \in [NsServers -> [NsClients -> NsNicks \cup {NsNoNick, NsAbsent}]]
          /\ NsAbsent \notin NsNicks /\ NsNoNick \notin NsNicks
      BY <1>3, NsTypes
    <2>4. /\ ns_nick' \in [NsServers -> [NsClients -> NsNicks \cup {NsNoNick, NsAbsent}]]
          /\ ns_nick'[s][c] = n /\ \A d \in NsClients \ {c} : ns_nick'[s][d] = ns_nick[s][d]
          /\ \A t \in NsServers \ {s} : ns_nick'[t] = ns_nick[t]
      BY <1>3, <2>1, <2>3
    <2>5. \A d \in NsClients : ns_nick[s][d] # n
      BY <1>5 DEF NsFind
    <2>6. NsUnique'
      <3>1. NsUnique
        BY <1>3 DEF NickSyncTypeOK, NsUnique
      <3>2. ASSUME NEW t \in NsServers, NEW d \in NsClients, NEW e \in NsClients,
                   ns_nick'[t][d] = ns_nick'[t][e], ns_nick'[t][d] \in NsNicks
            PROVE  d = e
        <4>1. CASE t = s
          BY <2>4, <2>5, <3>1, <3>2, <4>1 DEF NsUnique
        <4>2. CASE t # s
          BY <2>4, <3>1, <3>2, <4>2 DEF NsUnique
        <4> QED BY <4>1, <4>2
      <3> QED BY <3>2 DEF NsUnique
    <2>7. NsHome[c] # s /\ \A d \in NsClients : NsHome[d] \in NsServers
      BY <1>3, NsPeers, NickSyncOK DEF NsLocal
    <2>8. \A d \in NsClients : ns_nick'[NsHome[d]][d] = ns_nick[NsHome[d]][d]
      BY <2>4, <2>7
    <2>9. \A t \in NsServers : NsDying(t)' = NsDying(t) /\ NsDying(t) \subseteq NsClients
      BY <1>3, <2>1, NsTypes DEF NsDying
    <2>10. ns_reg \subseteq NsClients /\ ns_new \subseteq NsClients /\ NsRecords
      BY <1>3, NsTypes DEF NsBase
    <2>11. \A t \in NsServers : \A d \in NsDying(t)' : ns_nick'[t][d] # NsAbsent
      BY <2>3, <2>4, <2>9, <2>10, <1>3 DEF NsRecords
    <2>12. \A t \in NsServers, d \in NsClients : ~NsLocal(t, d) => ns_nick'[t][d] # NsNoNick
      BY <2>3, <2>4, <2>10, <1>3 DEF NsRecords
    <2>13. NsRecords'
      BY <1>2, <2>8, <2>10, <2>11, <2>12 DEF NsRecords
    <2>14. ns_culls' \in [NsServers -> Seq(NsClients)] /\ ns_hasty' \subseteq NsClients
      BY <1>2, <1>3, <2>1, NsTypes
    <2> QED BY <1>2, <2>2, <2>4, <2>6, <2>13, <2>14, NsBaseTold
  <1> QED BY <1>4, <1>5

LEMMA NsOfSender ==
    ASSUME NickSyncTypeOK, NEW s \in NsServers, NEW n \in NsNicks
    PROVE  /\ NsSender(s, n) \subseteq NsClients
           /\ \A c \in NsSender(s, n) : ns_nick[s][c] = n /\ ns_nick[s][c] # NsAbsent /\ ~NsLocal(s, c)
  BY NsOfFind DEF NsSender

LEMMA NsBaseReadNick ==
    ASSUME NsBase, NEW s \in NsServers, NsReadNick(s)
    PROVE  NsBase'
  <1>1. PICK old, new : old = NsLine(s)[2] /\ new = NsLine(s)[3]
    OBVIOUS
  <1>2. NsReads(s, "NICK") /\ UNCHANGED <<ns_reg, ns_new, ns_up, ns_link, ns_left>>
    BY DEF NsReadNick
  <1>3. old \in NsNicks /\ new \in NsNicks /\ NickSyncTypeOK
    BY <1>1, <1>2, NsReadLine, NsLineType DEF NsIs, NsBase
  <1>4. CASE NsSender(s, old) = {}
    <2>1. ns_wire' = NsRead(s) /\ UNCHANGED <<ns_culls, ns_nick, ns_hasty>>
      BY <1>1, <1>4 DEF NsReadNick
    <2>2. NsTold(s, <<>>) /\ NsSays(s, <<>>)
      BY <1>2, <2>1, NsReadIsTold
    <2>3. /\ NsRecords' /\ NsUnique' /\ ns_nick' \in [NsServers -> [NsClients -> NsNicks \cup {NsNoNick, NsAbsent}]]
          /\ ns_culls' \in [NsServers -> Seq(NsClients)] /\ ns_hasty' \subseteq NsClients
      BY <1>2, <2>1 DEF NsBase, NickSyncTypeOK, NsUnique, NsRecords, NsDying
    <2> QED BY <1>2, <2>2, <2>3, NsBaseTold
  <1>5. CASE NsSender(s, old) # {} /\ NsFind(s, new) # {}
    <2>1. /\ NsTold(s, <<<<"KILL", new>>, <<"KILL", old>>>>) /\ NsQueue(s, NsFind(s, new) \cup NsSender(s, old))
          /\ UNCHANGED <<ns_nick, ns_hasty>>
      BY <1>1, <1>5 DEF NsReadNick
    <2>2. NsSays(s, <<<<"KILL", new>>, <<"KILL", old>>>>)
      BY <1>3, NsSaysOne
    <2>3. /\ NsFind(s, new) \cup NsSender(s, old) \subseteq NsClients
          /\ \A c \in NsFind(s, new) \cup NsSender(s, old) : ns_nick[s][c] # NsAbsent
      BY <1>3, NsOfFind, NsOfSender
    <2> QED BY <1>2, <2>1, <2>2, <2>3, NsBaseToldQueue
  <1>6. CASE NsSender(s, old) # {} /\ NsFind(s, new) = {}
    <2>1. PICK c \in NsSender(s, old) : ns_wire' = NsRead(s) /\ NsRename(s, c, new) /\ UNCHANGED ns_culls
      BY <1>1, <1>6 DEF NsReadNick
    <2>2. NsTold(s, <<>>) /\ NsSays(s, <<>>)
      BY <1>2, <2>1, NsReadIsTold
    <2>3. c \in NsClients /\ ~NsLocal(s, c) /\ ~NsTaken(s, c, new)
      BY <1>3, <1>6, <2>1, NsOfSender DEF NsTaken
    <2> QED BY <1>2, <1>3, <2>1, <2>2, <2>3, NsBaseToldRename
  <1> QED BY <1>4, <1>5, <1>6

LEMMA NsBaseReadQuit ==
    ASSUME NsBase, NEW s \in NsServers, NsReadQuit(s)
    PROVE  NsBase'
  <1>1. PICK n : n = NsLine(s)[2]
    OBVIOUS
  <1>2. /\ NsReads(s, "QUIT") /\ ns_wire' = NsRead(s) /\ NsQueue(s, NsSender(s, n))
        /\ UNCHANGED <<ns_nick, ns_reg, ns_new, ns_up, ns_link, ns_left, ns_hasty>>
    BY <1>1 DEF NsReadQuit
  <1>3. n \in NsNicks /\ NickSyncTypeOK
    BY <1>1, <1>2, NsReadLine, NsLineType DEF NsIs, NsBase
  <1>4. NsTold(s, <<>>) /\ NsSays(s, <<>>)
    BY <1>2, NsReadIsTold
  <1> QED BY <1>2, <1>3, <1>4, NsOfSender, NsBaseToldQueue

LEMMA NsBaseReadKill ==
    ASSUME NsBase, NEW s \in NsServers, NsReadKill(s)
    PROVE  NsBase'
  <1>1. PICK n : n = NsLine(s)[2]
    OBVIOUS
  <1>2. /\ NsReads(s, "KILL") /\ ns_wire' = NsRead(s) /\ NsQueue(s, NsFind(s, n))
        /\ UNCHANGED <<ns_nick, ns_reg, ns_new, ns_up, ns_link, ns_left, ns_hasty>>
    BY <1>1 DEF NsReadKill
  <1>3. n \in NsNicks /\ NickSyncTypeOK
    BY <1>1, <1>2, NsReadLine, NsLineType DEF NsIs, NsBase
  <1>4. NsTold(s, <<>>) /\ NsSays(s, <<>>)
    BY <1>2, NsReadIsTold
  <1> QED BY <1>2, <1>3, <1>4, NsOfFind, NsBaseToldQueue

LEMMA NsBaseForceNick ==
    ASSUME NsBase, NEW s \in NsServers, NsForceNick(s)
    PROVE  NsBase'
  <1>1. PICK old, new : old = NsLine(s)[2] /\ new = NsLine(s)[3]
    OBVIOUS
  <1>2. NsReads(s, "SVSNICK") /\ UNCHANGED <<ns_reg, ns_new, ns_up, ns_link, ns_left>>
    BY DEF NsForceNick
  <1>3. old \in NsNicks /\ new \in NsNicks /\ NickSyncTypeOK
    BY <1>1, <1>2, NsReadLine, NsLineType DEF NsIs, NsBase
  <1>4. CASE ns_wire' = NsRead(s) /\ UNCHANGED <<ns_culls, ns_nick, ns_hasty>>
    <2>2. NsTold(s, <<>>) /\ NsSays(s, <<>>)
      BY <1>2, <1>4, NsReadIsTold
    <2>3. /\ NsRecords' /\ NsUnique' /\ ns_nick' \in [NsServers -> [NsClients -> NsNicks \cup {NsNoNick, NsAbsent}]]
          /\ ns_culls' \in [NsServers -> Seq(NsClients)] /\ ns_hasty' \subseteq NsClients
      BY <1>2, <1>4 DEF NsBase, NickSyncTypeOK, NsUnique, NsRecords, NsDying
    <2> QED BY <1>2, <2>2, <2>3, NsBaseTold
  <1>5. ASSUME NEW c \in NsFind(s, old), NsLocal(s, c), c \in ns_reg, ~NsTaken(s, c, new),
               NsTold(s, NsChanged(s, c, new)), NsRename(s, c, new), UNCHANGED ns_culls
        PROVE  NsBase'
    <2>1. c \in NsClients
      BY <1>3, NsOfFind
    <2> QED BY <1>2, <1>3, <1>5, <2>1, NsChangedType, NsBaseToldRename
  <1>6. ASSUME NEW c \in NsFind(s, old), ns_wire' = NsRead(s), NsQueue(s, {c}), UNCHANGED <<ns_nick, ns_hasty>>
        PROVE  NsBase'
    <2>1. {c} \subseteq NsClients /\ \A d \in {c} : ns_nick[s][d] # NsAbsent
      BY <1>3, NsOfFind
    <2>2. NsTold(s, <<>>) /\ NsSays(s, <<>>)
      BY <1>2, <1>6, NsReadIsTold
    <2> QED BY <1>2, <1>6, <2>1, <2>2, NsBaseToldQueue
  <1> QED BY <1>1, <1>4, <1>5, <1>6 DEF NsForceNick

LEMMA NsBaseBreak ==
    ASSUME NsBase, NsBreak
    PROVE  NsBase'
  <1>1. /\ ns_link' = "broken" /\ ns_left' \in [acts : 0 .. NsActs, splits : 0 .. NsSplits]
        /\ UNCHANGED <<ns_nick, ns_culls, ns_reg, ns_new, ns_wire, ns_up, ns_hasty>>
    <2>1. ns_left \in [acts : 0 .. NsActs, splits : 0 .. NsSplits] /\ NsSplits \in Nat
      BY NickSyncOK, NsTypes DEF NsBase
    <2>2. ns_left.splits > 0 /\ ns_left' = [ns_left EXCEPT !.splits = ns_left.splits - 1]
      BY DEF NsBreak
    <2>3. ns_left' \in [acts : 0 .. NsActs, splits : 0 .. NsSplits]
      BY <2>1, <2>2
    <2> QED BY <2>3 DEF NsBreak
  <1>2. NickSyncTypeOK'
    BY <1>1 DEF NsBase, NickSyncTypeOK
  <1>3. NsRecords'
    BY <1>1 DEF NsBase, NsRecords, NsDying
  <1>4. NsWires' /\ NsTidied'
    BY <1>1 DEF NsBase, NsWires, NsTidied
  <1> QED BY <1>2, <1>3, <1>4 DEF NsBase

LEMMA NsBaseNotice ==
    ASSUME NsBase, NEW s \in NsServers, NsNotice(s)
    PROVE  NsBase'
  <1>1. PICK cs : cs = {c \in NsClients : ~NsLocal(s, c) /\ ns_nick[s][c] # NsAbsent}
    OBVIOUS
  <1>2. /\ NsQueue(s, cs) /\ ns_up' = [ns_up EXCEPT ![s] = FALSE]
        /\ ns_link' = (IF ns_up[NsOther(s)] THEN "broken" ELSE "down")
        /\ ns_wire' = (IF ns_up[NsOther(s)] THEN [ns_wire EXCEPT ![NsOther(s)] = <<>>] ELSE [t \in NsServers |-> <<>>])
        /\ UNCHANGED <<ns_nick, ns_reg, ns_new, ns_left, ns_hasty>>
    BY <1>1 DEF NsNotice
  <1>3. NsRecords' /\ ns_culls' \in [NsServers -> Seq(NsClients)]
    BY <1>1, <1>2, NsRecordsQueued DEF NsBase
  <1>4. /\ ns_wire \in [NsServers -> Seq(NsLines)] /\ ns_up \in [NsServers -> BOOLEAN]
        /\ NsOther(s) \in NsServers /\ \A t \in NsServers : t = s \/ t = NsOther(s)
    BY NsTypes, NsPeers DEF NsBase
  <1>5. ns_up' \in [NsServers -> BOOLEAN] /\ ns_link' \in {"broken", "down"}
    BY <1>2, <1>4
  <1>6. ns_wire' \in [NsServers -> Seq(NsLines)] /\ \A t \in NsServers : ns_wire'[t] = ns_wire[t] \/ ns_wire'[t] = <<>>
    <2>1. <<>> \in Seq(NsLines)
      OBVIOUS
    <2>2. CASE ns_up[NsOther(s)]
      BY <1>2, <1>4, <2>1, <2>2
    <2>3. CASE ~ns_up[NsOther(s)]
      BY <1>2, <1>4, <2>1, <2>3
    <2> QED BY <2>2, <2>3
  <1>7. NickSyncTypeOK'
    BY <1>2, <1>3, <1>5, <1>6 DEF NsBase, NickSyncTypeOK
  <1>8. \A t \in NsServers : \A i \in 1 .. Len(ns_wire'[t]) : NsOwn(t, ns_wire'[t][i])
    BY <1>6 DEF NsBase, NsWires
  <1>9. ns_link' = "down" => \A t \in NsServers : ~ns_up'[t] /\ ns_wire'[t] = <<>>
    <2>1. ASSUME ns_link' = "down" PROVE ~ns_up[NsOther(s)]
      BY <1>2, <2>1
    <2>2. ASSUME ns_link' = "down", NEW t \in NsServers PROVE ns_wire'[t] = <<>> /\ ~ns_up'[t]
      BY <1>2, <1>4, <2>1, <2>2
    <2> QED BY <2>2
  <1>10. NsWires' /\ NsTidied'
    BY <1>5, <1>8, <1>9 DEF NsWires, NsTidied
  <1> QED BY <1>3, <1>7, <1>10 DEF NsBase

LEMMA NsBaseLinkUp ==
    ASSUME NsBase, NEW s \in NsServers, NsLinkUp(s)
    PROVE  /\ NsBase' /\ ns_wire'[s] = <<<<"BURST">>>> \o NsUsers(s) /\ ns_wire'[NsOther(s)] = <<>>
           /\ ns_up'[s] /\ ~ns_up'[NsOther(s)]
  <1>1. /\ ns_link = "down" /\ NsTidy(s) /\ NsTidy(NsOther(s)) /\ ns_link' = "up" /\ ns_up' = [ns_up EXCEPT ![s] = TRUE]
        /\ ns_wire' = [ns_wire EXCEPT ![s] = <<<<"BURST">>>> \o NsUsers(s)]
        /\ UNCHANGED <<ns_nick, ns_culls, ns_reg, ns_new, ns_left, ns_hasty>>
    BY DEF NsLinkUp
  <1>2. /\ ns_wire \in [NsServers -> Seq(NsLines)] /\ ns_up \in [NsServers -> BOOLEAN]
        /\ NsOther(s) \in NsServers /\ NsOther(s) # s /\ NsOther(NsOther(s)) = s /\ \A t \in NsServers : t = s \/ t = NsOther(s)
    BY NsTypes, NsPeers DEF NsBase
  <1>3. PICK lines : lines = NsUsers(s)
    OBVIOUS
  <1>4. lines \in Seq(NsLines) /\ \A i \in 1 .. Len(lines) : ~NsIs(lines[i], "BURST") /\ NsOwn(s, lines[i])
    BY <1>3, NsUsersType DEF NsSays
  <1>5. PICK w : w = <<<<"BURST">>>> \o lines
    OBVIOUS
  <1>6. <<"BURST">> \in NsLines /\ NsOwn(s, <<"BURST">>)
    BY NsLineType DEF NsOwn, NsIs
  <1>7. /\ w \in Seq(NsLines) /\ w # <<>> /\ w[1] = <<"BURST">>
        /\ \A i \in 1 .. Len(w) : NsOwn(s, w[i]) /\ (NsIs(w[i], "BURST") => i = 1)
    <2>1. w \in Seq(NsLines) /\ Len(w) = 1 + Len(lines) /\ w[1] = <<"BURST">> /\ w # <<>>
      BY <1>4, <1>5, <1>6
    <2>2. \A i \in 1 .. Len(w) : i # 1 => i - 1 \in 1 .. Len(lines) /\ w[i] = lines[i - 1]
      BY <1>4, <1>5, <1>6, <2>1
    <2> QED BY <1>4, <1>6, <2>1, <2>2
  <1>8. /\ ns_wire' \in [NsServers -> Seq(NsLines)] /\ ns_wire'[s] = w /\ ns_wire'[NsOther(s)] = <<>>
        /\ ns_up'[s] /\ ~ns_up'[NsOther(s)] /\ ns_up' \in [NsServers -> BOOLEAN]
    BY <1>1, <1>2, <1>3, <1>5, <1>7 DEF NsBase, NsWires
  <1>9. NickSyncTypeOK'
    BY <1>1, <1>8 DEF NsBase, NickSyncTypeOK
  <1>10. NsRecords' /\ NsTidied'
    BY <1>1, <1>2 DEF NsBase, NsRecords, NsDying, NsTidied, NsTidy
  <1>11. \A t \in NsServers : \A i \in 1 .. Len(ns_wire'[t]) : NsOwn(t, ns_wire'[t][i]) /\ (NsIs(ns_wire'[t][i], "BURST") => i = 1 /\ t = s)
    BY <1>2, <1>7, <1>8
  <1>12. NsAwaits(NsOther(s))'
    BY <1>2, <1>7, <1>8 DEF NsAwaits
  <1>13. NsWires'
    BY <1>1, <1>2, <1>8, <1>11, <1>12 DEF NsWires
  <1> QED BY <1>3, <1>5, <1>8, <1>9, <1>10, <1>13 DEF NsBase

LEMMA NsBaseBurst ==
    ASSUME NsBase, NEW s \in NsServers, NsBurst(s)
    PROVE  /\ NsBase' /\ ns_wire'[s] = NsUsers(s) /\ ns_wire'[NsOther(s)] = Tail(ns_wire[NsOther(s)])
           /\ ns_link = "up" /\ ~ns_up[s] /\ ns_up'[s] /\ ns_up'[NsOther(s)] /\ ns_up[NsOther(s)]
           /\ NsTidy(s) /\ NsTidy(NsOther(s)) /\ ns_wire[NsOther(s)] # <<>> /\ ns_wire[NsOther(s)][1] = <<"BURST">>
  <1>1. /\ ns_link = "up" /\ ns_up' = [ns_up EXCEPT ![s] = TRUE] /\ ns_wire' = [NsRead(s) EXCEPT ![s] = NsRead(s)[s] \o NsUsers(s)]
        /\ UNCHANGED <<ns_nick, ns_culls, ns_reg, ns_new, ns_link, ns_left, ns_hasty>>
        /\ ns_wire[NsOther(s)] # <<>> /\ NsIs(NsLine(s), "BURST")
    BY DEF NsBurst, NsReads, NsIs, NsLine
  <1>2. /\ ns_wire \in [NsServers -> Seq(NsLines)] /\ ns_up \in [NsServers -> BOOLEAN]
        /\ NsOther(s) \in NsServers /\ NsOther(s) # s /\ NsOther(NsOther(s)) = s /\ \A t \in NsServers : t = s \/ t = NsOther(s)
    BY NsTypes, NsPeers DEF NsBase
  <1>3. /\ NsRead(s) \in [NsServers -> Seq(NsLines)] /\ NsRead(s)[s] = ns_wire[s]
        /\ NsRead(s)[NsOther(s)] = Tail(ns_wire[NsOther(s)]) /\ NsLine(s) = ns_wire[NsOther(s)][1]
    BY <1>1, <1>2, NsReadFrom
  <1>4. 1 \in 1 .. Len(ns_wire[NsOther(s)])
    BY <1>1, <1>2
  <1>5. ~ns_up[s]
    BY <1>1, <1>2, <1>3, <1>4 DEF NsBase, NsWires
  <1>6. NsAwaits(s) /\ NsTidy(s) /\ NsTidy(NsOther(s))
    BY <1>1, <1>5 DEF NsBase, NsWires, NsTidied
  <1>7. NsUsers(s) \in Seq(NsLines) /\ \A i \in 1 .. Len(NsUsers(s)) : ~NsIs(NsUsers(s)[i], "BURST") /\ NsOwn(s, NsUsers(s)[i])
    BY NsUsersType DEF NsSays
  <1>8. ns_wire[s] \o NsUsers(s) = NsUsers(s)
    BY <1>6, <1>7 DEF NsAwaits
  <1>9. /\ ns_wire' \in [NsServers -> Seq(NsLines)] /\ ns_wire'[s] = NsUsers(s) /\ ns_wire'[NsOther(s)] = Tail(ns_wire[NsOther(s)])
        /\ ns_up'[s] /\ ns_up'[NsOther(s)] /\ ns_up[NsOther(s)] /\ ns_up' \in [NsServers -> BOOLEAN]
    BY <1>1, <1>2, <1>3, <1>6, <1>7, <1>8 DEF NsAwaits
  <1>10. NickSyncTypeOK'
    BY <1>1, <1>9 DEF NsBase, NickSyncTypeOK
  <1>11. NsRecords' /\ NsTidied'
    BY <1>1, <1>2, <1>9 DEF NsBase, NsRecords, NsDying, NsTidied
  <1>13. \A t \in NsServers : \A i \in 1 .. Len(ns_wire[t]) :
            NsOwn(t, ns_wire[t][i]) /\ (NsIs(ns_wire[t][i], "BURST") => i = 1)
    BY <1>1 DEF NsBase, NsWires
  <1>14. \A t \in NsServers : \A i \in 1 .. Len(ns_wire'[t]) : NsOwn(t, ns_wire'[t][i]) /\ ~NsIs(ns_wire'[t][i], "BURST")
    <2>1. \A i \in 1 .. Len(ns_wire'[s]) : NsOwn(s, ns_wire'[s][i]) /\ ~NsIs(ns_wire'[s][i], "BURST")
      BY <1>7, <1>9
    <2>2. PICK r \in NsServers : r = NsOther(s)
      BY <1>2
    <2>3. ASSUME NEW i \in 1 .. Len(ns_wire'[r])
          PROVE  NsOwn(r, ns_wire'[r][i]) /\ ~NsIs(ns_wire'[r][i], "BURST")
      <3>1. ns_wire'[r] = Tail(ns_wire[r])
        BY <1>9, <2>2
      <3>2. i + 1 \in 1 .. Len(ns_wire[r]) /\ i + 1 # 1 /\ Tail(ns_wire[r])[i] = ns_wire[r][i + 1]
        <4>1. ns_wire[r] \in Seq(NsLines) /\ ns_wire[r] # <<>>
          BY <1>1, <1>2, <2>2
        <4>2. i \in 1 .. Len(Tail(ns_wire[r]))
          BY <2>3, <3>1
        <4> QED BY <4>1, <4>2
      <3>3. NsOwn(r, ns_wire[r][i + 1]) /\ ~NsIs(ns_wire[r][i + 1], "BURST")
        BY <1>13, <3>2
      <3> QED BY <3>1, <3>2, <3>3
    <2> QED BY <1>2, <2>1, <2>2, <2>3
  <1>15. NsWires'
    BY <1>1, <1>2, <1>9, <1>14 DEF NsWires
  <1> QED BY <1>1, <1>5, <1>6, <1>9, <1>10, <1>11, <1>15 DEF NsBase, NsAwaits

LEMMA NsBaseInit ==
    ASSUME NickSyncInit
    PROVE  NsBase
  <1>1. \A s \in NsServers : NsDying(s) = {}
    BY DEF NickSyncInit, NsDying, ToSet
  <1>2. NickSyncTypeOK
    BY NickSyncOK DEF NickSyncInit, NickSyncTypeOK, NsAbsent
  <1>3. NsRecords
    BY <1>1, NickSyncOK DEF NickSyncInit, NsRecords, NsAbsent, NsNoNick
  <1>4. NsWires /\ NsTidied
    BY NsPeers DEF NickSyncInit, NsWires, NsTidied
  <1> QED BY <1>2, <1>3, <1>4 DEF NsBase

-----------------------------------------------------------------------------
\* What a line says of the registered clients of the server that sent it: a and b are their nicknames before and after.
NsViews == [NsClients -> NsNicks \cup {NsAbsent}]
NsExplains(l, a, b) ==
    /\ NsIs(l, "INTRO") => a[l[2]] = NsAbsent /\ b = [a EXCEPT ![l[2]] = l[3]]
    /\ NsIs(l, "NICK") => \E c \in NsClients : a[c] = l[2] /\ b = [a EXCEPT ![c] = l[3]]
    /\ NsIs(l, "QUIT") => \E c \in NsClients : a[c] = l[2] /\ b = [a EXCEPT ![c] = NsAbsent]
    /\ NsIs(l, "KILL") \/ NsIs(l, "SVSNICK") \/ NsIs(l, "BURST") => b = a
NsOneName(a) == \A c, d \in NsClients : a[c] = a[d] /\ a[c] # NsAbsent => c = d

\* P[i] is what the sender had when it had sent the first i lines that are on the wire; now is what it has.
NsFits(P, w, now) ==
    /\ P \in [0 .. Len(w) -> NsViews] /\ P[Len(w)] = now
    /\ \A i \in 0 .. Len(w) : NsOneName(P[i])
    /\ \A i \in 1 .. Len(w) : NsExplains(w[i], P[i - 1], P[i])

NsIntros(l, c) == NsIs(l, "INTRO") /\ l[2] = c
\* A client of the sender: mine and theirs are the records of the sender and of the reader, hd and rd who is being
\* removed on each.
NsTale(c, w, P, mine, theirs, reg, new, hasty, hd, rd) ==
    /\ theirs[c] # NsAbsent /\ c \notin rd => theirs[c] = P[0][c]
    /\ \A i \in 1 .. Len(w) : NsIntros(w[i], c) => theirs[c] = NsAbsent /\ \A k \in 0 .. i - 1 : P[k][c] = NsAbsent
    /\ c \notin reg => \A i \in 0 .. Len(w) : (theirs[c] # NsAbsent \/ P[i][c] # NsAbsent) => mine[c] = NsAbsent /\ c \notin new
    /\ c \in reg => \A i \in 0 .. Len(w) : \A k \in i .. Len(w) : P[i][c] # NsAbsent => P[k][c] # NsAbsent
    /\ c \in reg \ hasty => \A i \in 0 .. Len(w) : P[i][c] \in {NsAbsent, mine[c]}
    /\ c \in reg \ (hasty \cup hd) => \A i \in 1 .. Len(w) : w[i] = <<"KILL", mine[c]>> => P[i][c] = NsAbsent
\* Unless he has changed his nickname: he is known, on the way or will be removed.
NsOn(l, w) == \E i \in 1 .. Len(w) : w[i] = l
NsReached(c, w, v, mine, theirs, reg, hasty, hd, rd) ==
    c \in reg \ (hasty \cup hd) =>
        \/ theirs[c] # NsAbsent /\ c \notin rd
        \/ NsOn(<<"INTRO", c, mine[c]>>, w)
        \/ NsOn(<<"KILL", mine[c]>>, v)

NsJoin(P, w, R, L) == [i \in 0 .. Len(w) + Len(L) |-> IF i <= Len(w) THEN P[i] ELSE R[i - Len(w)]]
NsShift(P, w) == [i \in 0 .. Len(w) - 1 |-> P[i + 1]]

LEMMA NsConcat ==
    ASSUME NEW w \in Seq(NsLines), NEW L \in Seq(NsLines)
    PROVE  /\ w \o L \in Seq(NsLines) /\ Len(w \o L) = Len(w) + Len(L) /\ Len(w) \in Nat /\ Len(L) \in Nat
           /\ \A i \in 1 .. Len(w) : (w \o L)[i] = w[i]
           /\ \A i \in 1 .. Len(w) + Len(L) : i > Len(w) => i - Len(w) \in 1 .. Len(L) /\ (w \o L)[i] = L[i - Len(w)]
           /\ \A i \in 1 .. Len(L) : Len(w) + i \in 1 .. Len(w) + Len(L) /\ (w \o L)[Len(w) + i] = L[i]
  OBVIOUS

LEMMA NsJoinAt ==
    ASSUME NEW w \in Seq(NsLines), NEW L \in Seq(NsLines), NEW P, NEW R, R[0] = P[Len(w)]
    PROVE  /\ DOMAIN NsJoin(P, w, R, L) = 0 .. Len(w) + Len(L)
           /\ \A i \in 0 .. Len(w) : NsJoin(P, w, R, L)[i] = P[i]
           /\ \A i \in 0 .. Len(w) + Len(L) : i >= Len(w) => i - Len(w) \in 0 .. Len(L) /\ NsJoin(P, w, R, L)[i] = R[i - Len(w)]
  <1>1. Len(w) \in Nat /\ Len(L) \in Nat
    OBVIOUS
  <1>2. \A i \in 0 .. Len(w) + Len(L) : NsJoin(P, w, R, L)[i] = IF i <= Len(w) THEN P[i] ELSE R[i - Len(w)]
    BY DEF NsJoin
  <1>3. DOMAIN NsJoin(P, w, R, L) = 0 .. Len(w) + Len(L)
    BY DEF NsJoin
  <1> QED BY <1>1, <1>2, <1>3

\* More lines, with what each says.
LEMMA NsFitsJoin ==
    ASSUME NEW w \in Seq(NsLines), NEW L \in Seq(NsLines), NEW P, NEW R, NEW now, NEW then,
           NsFits(P, w, now), NsFits(R, L, then), R[0] = now
    PROVE  NsFits(NsJoin(P, w, R, L), w \o L, then)
  <1> DEFINE J == NsJoin(P, w, R, L)  x == w \o L  n == Len(w)  m == Len(L)
  <1>1. /\ x \in Seq(NsLines) /\ Len(x) = n + m /\ n \in Nat /\ m \in Nat
        /\ \A i \in 1 .. n : x[i] = w[i]
        /\ \A i \in 1 .. n + m : i > n => i - n \in 1 .. m /\ x[i] = L[i - n]
    BY NsConcat
  <1>2. /\ DOMAIN J = 0 .. n + m /\ \A i \in 0 .. n : J[i] = P[i]
        /\ \A i \in 0 .. n + m : i >= n => i - n \in 0 .. m /\ J[i] = R[i - n]
    BY NsJoinAt DEF NsFits
  <1>3. J = [i \in 0 .. n + m |-> J[i]]
    BY DEF NsJoin
  <1> HIDE DEF J, x, n, m
  <1>4. /\ P \in [0 .. n -> NsViews] /\ P[n] = now /\ \A i \in 0 .. n : NsOneName(P[i])
        /\ \A i \in 1 .. n : NsExplains(w[i], P[i - 1], P[i])
        /\ R \in [0 .. m -> NsViews] /\ R[m] = then /\ \A i \in 0 .. m : NsOneName(R[i])
        /\ \A i \in 1 .. m : NsExplains(L[i], R[i - 1], R[i])
    BY DEF NsFits, n, m
  <1>5. ASSUME NEW i \in 0 .. n + m PROVE J[i] \in NsViews /\ NsOneName(J[i])
    <2>1. CASE i <= n
      <3>1. i \in 0 .. n
        BY <1>1, <1>5, <2>1
      <3> QED BY <1>2, <1>4, <3>1
    <2>2. CASE i > n
      <3>1. i >= n
        BY <1>1, <1>5, <2>2
      <3> QED BY <1>2, <1>4, <1>5, <3>1
    <2> QED BY <1>1, <1>5, <2>1, <2>2
  <1>6. J \in [0 .. n + m -> NsViews]
    BY <1>3, <1>5
  <1>7. J[n + m] = then
    <2>1. n + m \in 0 .. n + m /\ n + m >= n /\ (n + m) - n = m
      BY <1>1
    <2> QED BY <1>2, <1>4, <2>1
  <1>8. ASSUME NEW i \in 1 .. n + m PROVE NsExplains(x[i], J[i - 1], J[i])
    <2>1. CASE i <= n
      <3>1. i \in 1 .. n /\ i - 1 \in 0 .. n /\ i \in 0 .. n
        BY <1>1, <1>8, <2>1
      <3> QED BY <1>1, <1>2, <1>4, <3>1
    <2>2. CASE i > n
      <3>1. i - n \in 1 .. m /\ i - 1 \in 0 .. n + m /\ i - 1 >= n /\ i \in 0 .. n + m /\ i >= n /\ (i - 1) - n = (i - n) - 1
        BY <1>1, <1>8, <2>2
      <3>2. J[i - 1] = R[(i - n) - 1] /\ J[i] = R[i - n] /\ x[i] = L[i - n]
        BY <1>1, <1>2, <1>8, <2>2, <3>1
      <3> QED BY <1>4, <3>1, <3>2
    <2> QED BY <1>1, <1>8, <2>1, <2>2
  <1> QED BY <1>1, <1>5, <1>6, <1>7, <1>8 DEF NsFits, J, x

\* A client about whom the new lines say nothing.
LEMMA NsTaleSame ==
    ASSUME NEW c \in NsClients, NEW w \in Seq(NsLines), NEW L \in Seq(NsLines), NEW P, NEW R, R[0] = P[Len(w)],
           NEW mine, NEW theirs, NEW reg, NEW new, NEW hasty, NEW hd, NEW rd,
           NEW hd2, NsTale(c, w, P, mine, theirs, reg, new, hasty, hd, rd),
           \A k \in 0 .. Len(L) : R[k][c] = P[Len(w)][c], \A k \in 1 .. Len(L) : ~NsIntros(L[k], c),
           c \in hd => c \in hd2,
           \A k \in 1 .. Len(L) : L[k] = <<"KILL", mine[c]>> /\ c \in reg => c \in hasty \cup hd2
    PROVE  NsTale(c, w \o L, NsJoin(P, w, R, L), mine, theirs, reg, new, hasty, hd2, rd)
  <1> DEFINE J == NsJoin(P, w, R, L)  x == w \o L  n == Len(w)  m == Len(L)
  <1>1. /\ x \in Seq(NsLines) /\ Len(x) = n + m /\ n \in Nat /\ m \in Nat
        /\ \A i \in 1 .. n : x[i] = w[i]
        /\ \A i \in 1 .. n + m : i > n => i - n \in 1 .. m /\ x[i] = L[i - n]
    BY NsConcat
  <1>2. /\ \A i \in 0 .. n : J[i] = P[i]
        /\ \A i \in 0 .. n + m : i >= n => i - n \in 0 .. m /\ J[i] = R[i - n]
    BY NsJoinAt
  <1> HIDE DEF J, x, n, m
  <1>3. \A k \in 0 .. m : R[k][c] = P[n][c]
    BY DEF n, m
  <1>4. ASSUME NEW i \in 0 .. n + m
        PROVE  \E a \in 0 .. n : J[i][c] = P[a][c] /\ (i <= n => a = i) /\ (i > n => a = n)
    <2>1. CASE i <= n
      <3>1. i \in 0 .. n
        BY <1>1, <1>4, <2>1
      <3>2. J[i][c] = P[i][c]
        BY <1>2, <3>1
      <3>3. ~(i > n)
        BY <1>1, <1>4, <2>1
      <3> QED BY <3>1, <3>2, <3>3
    <2>2. CASE i > n
      <3>1. i >= n /\ n \in 0 .. n
        BY <1>1, <1>4, <2>2
      <3>2. J[i][c] = P[n][c]
        BY <1>2, <1>3, <1>4, <3>1
      <3> QED BY <1>1, <1>4, <2>2, <3>1, <3>2
    <2> QED BY <1>1, <1>4, <2>1, <2>2
  <1>5. \A i \in 1 .. n + m : i > n => ~NsIntros(x[i], c) /\ (x[i] = <<"KILL", mine[c]>> /\ c \in reg => c \in hasty \cup hd2)
    BY <1>1 DEF m
  <1>6. 0 \in 0 .. n /\ n \in 0 .. n
    BY <1>1
  <1>7. theirs[c] # NsAbsent /\ c \notin rd => theirs[c] = J[0][c]
    BY <1>2, <1>6 DEF NsTale, n
  <1>8. ASSUME NEW i \in 1 .. n + m, NsIntros(x[i], c)
        PROVE  theirs[c] = NsAbsent /\ \A k \in 0 .. i - 1 : J[k][c] = NsAbsent
    <2>1. i \in 1 .. n
      <3>1. ~(i > n)
        BY <1>5, <1>8
      <3>2. n \in Nat
        BY <1>1
      <3> QED BY <1>8, <3>1, <3>2
    <2>2. theirs[c] = NsAbsent /\ \A k \in 0 .. i - 1 : P[k][c] = NsAbsent
      BY <1>1, <1>8, <2>1 DEF NsTale, n
    <2>3. ASSUME NEW k \in 0 .. i - 1 PROVE J[k][c] = NsAbsent
      <3>1. k \in 0 .. n
        BY <1>1, <2>1, <2>3
      <3> QED BY <1>2, <2>2, <2>3, <3>1
    <2> QED BY <2>2, <2>3
  <1>9. ASSUME c \notin reg, NEW i \in 0 .. n + m, theirs[c] # NsAbsent \/ J[i][c] # NsAbsent
        PROVE  mine[c] = NsAbsent /\ c \notin new
    <2>1. \E k \in 0 .. n : theirs[c] # NsAbsent \/ P[k][c] # NsAbsent
      <3>1. PICK a \in 0 .. n : J[i][c] = P[a][c]
        BY <1>4, <1>9
      <3> QED BY <1>9, <3>1
    <2> QED BY <1>9, <2>1 DEF NsTale, n
  <1>10. ASSUME c \in reg, NEW i \in 0 .. n + m, NEW k \in i .. n + m, J[i][c] # NsAbsent
         PROVE  J[k][c] # NsAbsent
    <2>1. \A a \in 0 .. n : \A b \in a .. n : P[a][c] # NsAbsent => P[b][c] # NsAbsent
      BY <1>10 DEF NsTale, n
    <2>2. PICK a \in 0 .. n : J[i][c] = P[a][c] /\ (i <= n => a = i) /\ (i > n => a = n)
      BY <1>4, <1>10
    <2>3. k \in 0 .. n + m
      BY <1>1, <1>10
    <2>4. PICK b \in 0 .. n : J[k][c] = P[b][c] /\ (k <= n => b = k) /\ (k > n => b = n)
      BY <1>4, <2>3
    <2>5. b \in a .. n
      BY <1>1, <1>10, <2>2, <2>3, <2>4
    <2> QED BY <1>10, <2>1, <2>2, <2>4, <2>5
  <1>11. ASSUME c \in reg \ hasty, NEW i \in 0 .. n + m
         PROVE  J[i][c] \in {NsAbsent, mine[c]}
    <2>1. \A a \in 0 .. n : P[a][c] \in {NsAbsent, mine[c]}
      BY <1>11 DEF NsTale, n
    <2>2. PICK a \in 0 .. n : J[i][c] = P[a][c]
      BY <1>4, <1>11
    <2> QED BY <2>1, <2>2
  <1>12. ASSUME c \in reg \ (hasty \cup hd2), NEW i \in 1 .. n + m, x[i] = <<"KILL", mine[c]>>
         PROVE  J[i][c] = NsAbsent
    <2>1. c \in reg \ (hasty \cup hd)
      BY <1>12
    <2>2. i \in 1 .. n
      BY <1>1, <1>5, <1>12, <2>1
    <2>3. P[i][c] = NsAbsent
      BY <1>1, <1>12, <2>1, <2>2 DEF NsTale, n
    <2> QED BY <1>1, <1>2, <2>2, <2>3
  <1> QED BY <1>1, <1>7, <1>8, <1>9, <1>10, <1>11, <1>12 DEF NsTale, J, x

LEMMA NsOnMore ==
    ASSUME NEW w \in Seq(NsLines), NEW L \in Seq(NsLines), NEW l
    PROVE  /\ NsOn(l, w) => NsOn(l, w \o L)
           /\ NsOn(l, L) => NsOn(l, w \o L)
           /\ NsOn(l, w) /\ w[1] # l => NsOn(l, Tail(w))
  <1>1. /\ Len(w \o L) = Len(w) + Len(L) /\ Len(w) \in Nat /\ Len(L) \in Nat
        /\ \A i \in 1 .. Len(w) : (w \o L)[i] = w[i]
        /\ \A i \in 1 .. Len(L) : Len(w) + i \in 1 .. Len(w) + Len(L) /\ (w \o L)[Len(w) + i] = L[i]
    BY NsConcat
  <1>2. NsOn(l, w) => NsOn(l, w \o L)
    BY <1>1 DEF NsOn
  <1>3. NsOn(l, L) => NsOn(l, w \o L)
    BY <1>1 DEF NsOn
  <1>4. ASSUME NsOn(l, w), w[1] # l PROVE NsOn(l, Tail(w))
    <2>1. PICK i \in 1 .. Len(w) : w[i] = l
      BY <1>4 DEF NsOn
    <2>2. i # 1 /\ w # <<>>
      BY <1>4, <2>1
    <2>3. i - 1 \in 1 .. Len(Tail(w)) /\ Tail(w)[i - 1] = w[i]
      BY <2>1, <2>2
    <2> QED BY <2>1, <2>3 DEF NsOn
  <1> QED BY <1>2, <1>3, <1>4

LEMMA NsOnFew ==
    \A l, k : NsOn(l, <<l>>) /\ NsOn(l, <<l, k>>) /\ NsOn(k, <<l, k>>)
  <1>1. ASSUME NEW l, NEW k PROVE NsOn(l, <<l>>) /\ NsOn(l, <<l, k>>) /\ NsOn(k, <<l, k>>)
    <2>1. 1 \in 1 .. Len(<<l>>) /\ <<l>>[1] = l /\ 1 \in 1 .. Len(<<l, k>>) /\ <<l, k>>[1] = l
          /\ 2 \in 1 .. Len(<<l, k>>) /\ <<l, k>>[2] = k
      OBVIOUS
    <2> QED BY <2>1 DEF NsOn
  <1> QED BY <1>1

\* A client who has just registered.
LEMMA NsTaleIntro ==
    ASSUME NEW c \in NsClients, NEW w \in Seq(NsLines), NEW l \in NsLines, NEW P, NEW R, R[0] = P[Len(w)],
           NEW mine, NEW theirs, NEW reg, NEW new, NEW hasty, NEW hd, NEW rd, NEW reg2,
           NsTale(c, w, P, mine, theirs, reg, new, hasty, hd, rd), NsIntros(l, c),
           c \notin reg, c \in reg2, mine[c] # NsAbsent, R[1][c] = mine[c]
    PROVE  NsTale(c, w \o <<l>>, NsJoin(P, w, R, <<l>>), mine, theirs, reg2, new, hasty, hd, rd)
  <1> DEFINE J == NsJoin(P, w, R, <<l>>)  x == w \o <<l>>  n == Len(w)
  <1>1. <<l>> \in Seq(NsLines) /\ Len(<<l>>) = 1 /\ <<l>>[1] = l
    OBVIOUS
  <1>2. /\ x \in Seq(NsLines) /\ Len(x) = n + 1 /\ n \in Nat
        /\ \A i \in 1 .. n : x[i] = w[i]
        /\ \A i \in 1 .. n + 1 : i > n => x[i] = <<l>>[i - n]
    BY <1>1, NsConcat
  <1>3. /\ \A i \in 0 .. n : J[i] = P[i]
        /\ \A i \in 0 .. n + 1 : i >= n => J[i] = R[i - n]
    <2>1. <<l>> \in Seq(NsLines) /\ n + Len(<<l>>) = n + 1
      BY <1>1, <1>2
    <2>2. PICK L \in Seq(NsLines) : L = <<l>>
      BY <2>1
    <2>3. \A i \in 0 .. Len(w) : NsJoin(P, w, R, L)[i] = P[i]
      BY NsJoinAt
    <2>4. \A i \in 0 .. Len(w) + Len(L) : i >= Len(w) => NsJoin(P, w, R, L)[i] = R[i - Len(w)]
      BY NsJoinAt
    <2>5. J = NsJoin(P, w, R, L)
      BY <2>2
    <2> HIDE DEF J
    <2> QED BY <2>1, <2>2, <2>3, <2>4, <2>5
  <1> HIDE DEF J, x, n
  <1>4. x[n + 1] = l /\ J[n + 1][c] = mine[c]
    BY <1>1, <1>2, <1>3
  <1>5. theirs[c] = NsAbsent /\ \A i \in 0 .. n : P[i][c] = NsAbsent
    BY <1>2 DEF NsTale, n
  <1>6. \A i \in 0 .. n : J[i][c] = NsAbsent
    BY <1>3, <1>5
  <1>7. \A i \in 0 .. n + 1 : i \in 0 .. n \/ i = n + 1
    BY <1>2
  <1>8. \A i \in 1 .. n + 1 : i \in 0 .. n \/ i = n + 1
    BY <1>2
  <1>9. ~NsIs(<<"KILL", mine[c]>>, "INTRO") /\ l # <<"KILL", mine[c]>>
    BY DEF NsIs, NsIntros
  <1>10. ASSUME NEW i \in 1 .. n + 1, NEW k \in 0 .. i - 1
         PROVE  J[k][c] = NsAbsent
    BY <1>2, <1>6, <1>10
  <1>11. ASSUME NEW i \in 0 .. n + 1, NEW k \in i .. n + 1, J[i][c] # NsAbsent
         PROVE  J[k][c] # NsAbsent
    <2>1. i = n + 1 /\ k = n + 1
      BY <1>2, <1>6, <1>7, <1>11
    <2> QED BY <1>11, <2>1
  <1>12. \A i \in 0 .. n + 1 : J[i][c] \in {NsAbsent, mine[c]}
    BY <1>4, <1>6, <1>7
  <1>13. \A i \in 1 .. n + 1 : x[i] = <<"KILL", mine[c]>> => J[i][c] = NsAbsent
    BY <1>4, <1>6, <1>8, <1>9
  <1> QED BY <1>2, <1>5, <1>10, <1>11, <1>12, <1>13 DEF NsTale, J, x

\* A registered client who changes his nickname.
LEMMA NsTaleHasty ==
    ASSUME NEW c \in NsClients, NEW w \in Seq(NsLines), NEW L \in Seq(NsLines), NEW P, NEW R, R[0] = P[Len(w)],
           NEW mine, NEW theirs, NEW reg, NEW new, NEW hasty, NEW hd, NEW rd,
           NEW mine2, NEW new2, NEW hasty2, NEW hd2,
           NsTale(c, w, P, mine, theirs, reg, new, hasty, hd, rd),
           c \in reg, c \in hasty2, \A k \in 0 .. Len(L) : R[k][c] # NsAbsent, \A k \in 1 .. Len(L) : ~NsIntros(L[k], c)
    PROVE  NsTale(c, w \o L, NsJoin(P, w, R, L), mine2, theirs, reg, new2, hasty2, hd2, rd)
  <1> DEFINE J == NsJoin(P, w, R, L)  x == w \o L  n == Len(w)  m == Len(L)
  <1>1. /\ x \in Seq(NsLines) /\ Len(x) = n + m /\ n \in Nat /\ m \in Nat
        /\ \A i \in 1 .. n : x[i] = w[i]
        /\ \A i \in 1 .. n + m : i > n => i - n \in 1 .. m /\ x[i] = L[i - n]
    BY NsConcat
  <1>2. /\ \A i \in 0 .. n : J[i] = P[i]
        /\ \A i \in 0 .. n + m : i >= n => i - n \in 0 .. m /\ J[i] = R[i - n]
    BY NsJoinAt
  <1> HIDE DEF J, x, n, m
  <1>3. \A i \in 0 .. n + m : i >= n => J[i][c] # NsAbsent
    BY <1>2 DEF m
  <1>4. theirs[c] # NsAbsent /\ c \notin rd => theirs[c] = J[0][c]
    BY <1>1, <1>2 DEF NsTale, n
  <1>5. ASSUME NEW i \in 1 .. n + m, NsIntros(x[i], c)
        PROVE  theirs[c] = NsAbsent /\ \A k \in 0 .. i - 1 : J[k][c] = NsAbsent
    <2>1. i \in 1 .. n
      <3>1. CASE i > n
        <4>1. i - n \in 1 .. m /\ x[i] = L[i - n]
          BY <1>1, <3>1
        <4> QED BY <1>5, <4>1 DEF m
      <3> QED BY <1>1, <3>1
    <2>2. theirs[c] = NsAbsent /\ \A k \in 0 .. i - 1 : P[k][c] = NsAbsent
      BY <1>1, <1>5, <2>1 DEF NsTale, n
    <2>3. ASSUME NEW k \in 0 .. i - 1 PROVE J[k][c] = NsAbsent
      <3>1. k \in 0 .. n
        BY <1>1, <2>1, <2>3
      <3> QED BY <1>2, <2>2, <2>3, <3>1
    <2> QED BY <2>2, <2>3
  <1>6. ASSUME NEW i \in 0 .. n + m, NEW k \in i .. n + m, J[i][c] # NsAbsent
        PROVE  J[k][c] # NsAbsent
    <2>1. CASE k >= n
      <3>1. k \in 0 .. n + m
        BY <1>1, <1>6
      <3> QED BY <1>3, <2>1, <3>1
    <2>2. CASE k < n
      <3>1. i \in 0 .. n /\ k \in i .. n /\ k \in 0 .. n
        BY <1>1, <1>6, <2>2
      <3>2. \A a \in 0 .. n : \A b \in a .. n : P[a][c] # NsAbsent => P[b][c] # NsAbsent
        BY DEF NsTale, n
      <3> QED BY <1>2, <1>6, <3>1, <3>2
    <2> QED BY <1>1, <1>6, <2>1, <2>2
  <1> QED BY <1>1, <1>4, <1>5, <1>6 DEF NsTale, J, x

\* A client who has quit.
LEMMA NsTaleGone ==
    ASSUME NEW c \in NsClients, NEW w \in Seq(NsLines), NEW L \in Seq(NsLines), NEW P, NEW R, R[0] = P[Len(w)],
           NEW mine, NEW theirs, NEW reg, NEW new, NEW hasty, NEW hd, NEW rd,
           NEW mine2, NEW reg2, NEW new2, NEW hasty2, NEW hd2,
           NsTale(c, w, P, mine, theirs, reg, new, hasty, hd, rd),
           c \notin reg2, mine2[c] = NsAbsent, c \notin new2, \A k \in 1 .. Len(L) : ~NsIntros(L[k], c)
    PROVE  NsTale(c, w \o L, NsJoin(P, w, R, L), mine2, theirs, reg2, new2, hasty2, hd2, rd)
  <1> DEFINE J == NsJoin(P, w, R, L)  x == w \o L  n == Len(w)  m == Len(L)
  <1>1. /\ x \in Seq(NsLines) /\ Len(x) = n + m /\ n \in Nat /\ m \in Nat
        /\ \A i \in 1 .. n : x[i] = w[i]
        /\ \A i \in 1 .. n + m : i > n => i - n \in 1 .. m /\ x[i] = L[i - n]
    BY NsConcat
  <1>2. \A i \in 0 .. n : J[i] = P[i]
    BY NsJoinAt
  <1> HIDE DEF J, x, n, m
  <1>4. theirs[c] # NsAbsent /\ c \notin rd => theirs[c] = J[0][c]
    BY <1>1, <1>2 DEF NsTale, n
  <1>5. ASSUME NEW i \in 1 .. n + m, NsIntros(x[i], c)
        PROVE  theirs[c] = NsAbsent /\ \A k \in 0 .. i - 1 : J[k][c] = NsAbsent
    <2>1. i \in 1 .. n
      <3>1. CASE i > n
        <4>1. i - n \in 1 .. m /\ x[i] = L[i - n]
          BY <1>1, <3>1
        <4> QED BY <1>5, <4>1 DEF m
      <3> QED BY <1>1, <3>1
    <2>2. theirs[c] = NsAbsent /\ \A k \in 0 .. i - 1 : P[k][c] = NsAbsent
      BY <1>1, <1>5, <2>1 DEF NsTale, n
    <2>3. ASSUME NEW k \in 0 .. i - 1 PROVE J[k][c] = NsAbsent
      <3>1. k \in 0 .. n
        BY <1>1, <2>1, <2>3
      <3> QED BY <1>2, <2>2, <2>3, <3>1
    <2> QED BY <2>2, <2>3
  <1> QED BY <1>1, <1>4, <1>5 DEF NsTale, J, x

\* The reader has read a line.
LEMMA NsShiftAt ==
    ASSUME NEW w \in Seq(NsLines), w # <<>>, NEW P
    PROVE  /\ Len(w) - 1 \in Nat /\ Len(Tail(w)) = Len(w) - 1 /\ Tail(w) \in Seq(NsLines)
           /\ \A i \in 1 .. Len(w) - 1 : i + 1 \in 1 .. Len(w) /\ Tail(w)[i] = w[i + 1]
           /\ \A i \in 0 .. Len(w) - 1 : i + 1 \in 0 .. Len(w) /\ NsShift(P, w)[i] = P[i + 1]
           /\ DOMAIN NsShift(P, w) = 0 .. Len(w) - 1
  BY DEF NsShift

LEMMA NsFitsShift ==
    ASSUME NEW w \in Seq(NsLines), w # <<>>, NEW P, NEW now, NsFits(P, w, now)
    PROVE  NsFits(NsShift(P, w), Tail(w), now)
  <1> DEFINE S == NsShift(P, w)  n == Len(w)
  <1>1. /\ n - 1 \in Nat /\ Len(Tail(w)) = n - 1
        /\ \A i \in 1 .. n - 1 : i + 1 \in 1 .. n /\ Tail(w)[i] = w[i + 1]
        /\ \A i \in 0 .. n - 1 : i + 1 \in 0 .. n /\ S[i] = P[i + 1]
        /\ n \in Nat
    BY NsShiftAt
  <1>2. S = [i \in 0 .. n - 1 |-> S[i]]
    BY DEF NsShift
  <1>3. /\ P \in [0 .. n -> NsViews] /\ P[n] = now /\ \A i \in 0 .. n : NsOneName(P[i])
        /\ \A i \in 1 .. n : NsExplains(w[i], P[i - 1], P[i])
    BY DEF NsFits
  <1> HIDE DEF S, n
  <1>4. S \in [0 .. n - 1 -> NsViews] /\ \A i \in 0 .. n - 1 : NsOneName(S[i])
    BY <1>1, <1>2, <1>3
  <1>5. S[n - 1] = now
    BY <1>1, <1>3
  <1>6. ASSUME NEW i \in 1 .. n - 1 PROVE NsExplains(Tail(w)[i], S[i - 1], S[i])
    <2>1. i - 1 \in 0 .. n - 1 /\ i \in 0 .. n - 1 /\ (i - 1) + 1 = i /\ (i + 1) - 1 = i
      BY <1>1, <1>6
    <2>2. S[i - 1] = P[i] /\ S[i] = P[i + 1] /\ Tail(w)[i] = w[i + 1] /\ i + 1 \in 1 .. n
      BY <1>1, <1>6, <2>1
    <2>3. NsExplains(w[i + 1], P[(i + 1) - 1], P[i + 1])
      BY <1>3, <2>2
    <2> QED BY <2>1, <2>2, <2>3
  <1> QED BY <1>1, <1>4, <1>5, <1>6 DEF NsFits, S, n

LEMMA NsTaleShift ==
    ASSUME NEW c \in NsClients, NEW w \in Seq(NsLines), w # <<>>, NEW P,
           NEW mine, NEW theirs, NEW reg, NEW new, NEW hasty, NEW hd, NEW rd, NEW theirs2, NEW rd2,
           NsTale(c, w, P, mine, theirs, reg, new, hasty, hd, rd),
           theirs2[c] # NsAbsent /\ c \notin rd2 => theirs2[c] = P[1][c],
           theirs2[c] # NsAbsent => theirs[c] # NsAbsent \/ P[1][c] # NsAbsent
    PROVE  NsTale(c, Tail(w), NsShift(P, w), mine, theirs2, reg, new, hasty, hd, rd2)
  <1> DEFINE S == NsShift(P, w)  n == Len(w)
  <1>1. /\ n - 1 \in Nat /\ Len(Tail(w)) = n - 1 /\ n \in Nat
        /\ \A i \in 1 .. n - 1 : i + 1 \in 1 .. n /\ Tail(w)[i] = w[i + 1]
        /\ \A i \in 0 .. n - 1 : i + 1 \in 0 .. n /\ S[i] = P[i + 1]
    BY NsShiftAt
  <1> HIDE DEF S, n
  <1>2. theirs2[c] # NsAbsent /\ c \notin rd2 => theirs2[c] = S[0][c]
    BY <1>1
  <1>3. ASSUME NEW i \in 1 .. n - 1, NsIntros(Tail(w)[i], c)
        PROVE  theirs2[c] = NsAbsent /\ \A k \in 0 .. i - 1 : S[k][c] = NsAbsent
    <2>1. i + 1 \in 1 .. n /\ NsIntros(w[i + 1], c)
      BY <1>1, <1>3
    <2>2. theirs[c] = NsAbsent /\ \A k \in 0 .. (i + 1) - 1 : P[k][c] = NsAbsent
      BY <2>1 DEF NsTale, n
    <2>3. ASSUME NEW k \in 0 .. i - 1 PROVE S[k][c] = NsAbsent
      <3>1. k \in 0 .. n - 1 /\ k + 1 \in 0 .. (i + 1) - 1
        BY <1>1, <1>3, <2>3
      <3> QED BY <1>1, <2>2, <3>1
    <2>4. P[1][c] = NsAbsent
      BY <1>1, <1>3, <2>2
    <2> QED BY <2>2, <2>3, <2>4
  <1>4. ASSUME c \notin reg, NEW i \in 0 .. n - 1, theirs2[c] # NsAbsent \/ S[i][c] # NsAbsent
        PROVE  mine[c] = NsAbsent /\ c \notin new
    <2>1. \E k \in 0 .. n : theirs[c] # NsAbsent \/ P[k][c] # NsAbsent
      <3>1. 1 \in 0 .. n
        BY <1>1
      <3> QED BY <1>1, <1>4, <3>1
    <2> QED BY <1>4, <2>1 DEF NsTale, n
  <1>5. ASSUME c \in reg, NEW i \in 0 .. n - 1, NEW k \in i .. n - 1, S[i][c] # NsAbsent
        PROVE  S[k][c] # NsAbsent
    <2>1. i + 1 \in 0 .. n /\ k + 1 \in i + 1 .. n /\ k \in 0 .. n - 1
      BY <1>1, <1>5
    <2>2. \A a \in 0 .. n : \A b \in a .. n : P[a][c] # NsAbsent => P[b][c] # NsAbsent
      BY <1>5 DEF NsTale, n
    <2> QED BY <1>1, <1>5, <2>1, <2>2
  <1>6. ASSUME c \in reg \ hasty, NEW i \in 0 .. n - 1
        PROVE  S[i][c] \in {NsAbsent, mine[c]}
    <2>1. \A a \in 0 .. n : P[a][c] \in {NsAbsent, mine[c]}
      BY <1>6 DEF NsTale, n
    <2> QED BY <1>1, <1>6, <2>1
  <1>7. ASSUME c \in reg \ (hasty \cup hd), NEW i \in 1 .. n - 1, Tail(w)[i] = <<"KILL", mine[c]>>
        PROVE  S[i][c] = NsAbsent
    <2>1. \A a \in 1 .. n : w[a] = <<"KILL", mine[c]>> => P[a][c] = NsAbsent
      BY <1>7 DEF NsTale, n
    <2>2. i \in 0 .. n - 1
      BY <1>1, <1>7
    <2> QED BY <1>1, <1>7, <2>1, <2>2
  <1>8. Len(Tail(w)) = n - 1
    BY <1>1
  <1>9. PICK x, Q : x = Tail(w) /\ Q = S
    OBVIOUS
  <1>10. NsTale(c, x, Q, mine, theirs2, reg, new, hasty, hd, rd2)
    <2>1. Len(x) = n - 1
      BY <1>8, <1>9
    <2>2. theirs2[c] # NsAbsent /\ c \notin rd2 => theirs2[c] = Q[0][c]
      BY <1>2, <1>9
    <2>3. \A i \in 1 .. Len(x) : NsIntros(x[i], c) => theirs2[c] = NsAbsent /\ \A k \in 0 .. i - 1 : Q[k][c] = NsAbsent
      BY <1>3, <1>9, <2>1
    <2>4. c \notin reg => \A i \in 0 .. Len(x) : (theirs2[c] # NsAbsent \/ Q[i][c] # NsAbsent) => mine[c] = NsAbsent /\ c \notin new
      BY <1>4, <1>9, <2>1
    <2>5. c \in reg => \A i \in 0 .. Len(x) : \A k \in i .. Len(x) : Q[i][c] # NsAbsent => Q[k][c] # NsAbsent
      BY <1>5, <1>9, <2>1
    <2>6. c \in reg \ hasty => \A i \in 0 .. Len(x) : Q[i][c] \in {NsAbsent, mine[c]}
      BY <1>6, <1>9, <2>1
    <2>7. c \in reg \ (hasty \cup hd) => \A i \in 1 .. Len(x) : x[i] = <<"KILL", mine[c]>> => Q[i][c] = NsAbsent
      BY <1>7, <1>9, <2>1
    <2> QED BY <2>2, <2>3, <2>4, <2>5, <2>6, <2>7 DEF NsTale
  <1> QED BY <1>9, <1>10 DEF S

-----------------------------------------------------------------------------
\* The registered clients of h under their nicknames.
NsNow(h) == [c \in NsClients |-> IF NsLocal(h, c) /\ c \in ns_reg THEN ns_nick[h][c] ELSE NsAbsent]
NsNobody == [c \in NsClients |-> NsAbsent]

LEMMA NsNowViews ==
    ASSUME NsBase, NEW h \in NsServers
    PROVE  /\ NsNow(h) \in NsViews /\ NsOneName(NsNow(h)) /\ NsNobody \in NsViews /\ NsOneName(NsNobody)
           /\ \A c \in NsClients : NsLocal(h, c) /\ c \in ns_reg => NsNow(h)[c] = ns_nick[h][c] /\ NsNow(h)[c] \in NsNicks
           /\ \A c \in NsClients : ~(NsLocal(h, c) /\ c \in ns_reg) => NsNow(h)[c] = NsAbsent
           /\ \A c \in NsClients : NsNow(h)[c] # NsAbsent => NsNow(h)[c] \in NsNicks /\ NsNow(h)[c] = ns_nick[h][c]
  <1>1. NsAbsent \notin NsNicks /\ \A c, d \in NsClients : ns_nick[h][c] = ns_nick[h][d] /\ ns_nick[h][c] \in NsNicks => c = d
    BY NsTypes DEF NsBase, NickSyncTypeOK
  <1>2. \A c \in NsClients : NsLocal(h, c) /\ c \in ns_reg => ns_nick[h][c] \in NsNicks
    BY DEF NsBase, NsRecords, NsLocal
  <1>3. /\ \A c \in NsClients : NsLocal(h, c) /\ c \in ns_reg => NsNow(h)[c] = ns_nick[h][c] /\ NsNow(h)[c] \in NsNicks
        /\ \A c \in NsClients : ~(NsLocal(h, c) /\ c \in ns_reg) => NsNow(h)[c] = NsAbsent
    BY <1>2 DEF NsNow
  <1>4. NsNow(h) = [c \in NsClients |-> NsNow(h)[c]]
    BY DEF NsNow
  <1>5. \A c \in NsClients : NsNow(h)[c] # NsAbsent => NsNow(h)[c] \in NsNicks /\ NsNow(h)[c] = ns_nick[h][c]
    BY <1>3
  <1>6. NsNow(h) \in NsViews
    BY <1>4, <1>5 DEF NsViews
  <1>7. NsOneName(NsNow(h))
    BY <1>1, <1>5 DEF NsOneName
  <1>8. NsNobody \in NsViews /\ NsOneName(NsNobody)
    BY DEF NsNobody, NsViews, NsOneName
  <1> QED BY <1>3, <1>5, <1>6, <1>7, <1>8

LEMMA NsIsOne ==
    \A l : /\ NsIs(l, "INTRO") => ~NsIs(l, "NICK") /\ ~NsIs(l, "QUIT") /\ ~NsIs(l, "KILL") /\ ~NsIs(l, "SVSNICK") /\ ~NsIs(l, "BURST")
           /\ NsIs(l, "NICK") => ~NsIs(l, "QUIT") /\ ~NsIs(l, "KILL") /\ ~NsIs(l, "SVSNICK") /\ ~NsIs(l, "BURST")
           /\ NsIs(l, "QUIT") => ~NsIs(l, "KILL") /\ ~NsIs(l, "SVSNICK") /\ ~NsIs(l, "BURST")
           /\ NsIs(l, "KILL") => ~NsIs(l, "SVSNICK") /\ ~NsIs(l, "BURST")
           /\ NsIs(l, "SVSNICK") => ~NsIs(l, "BURST")
  BY DEF NsIs

LEMMA NsMade ==
    /\ \A c, n : /\ NsIs(<<"INTRO", c, n>>, "INTRO") /\ <<"INTRO", c, n>>[2] = c /\ <<"INTRO", c, n>>[3] = n
                 /\ NsIs(<<"NICK", c, n>>, "NICK") /\ <<"NICK", c, n>>[2] = c /\ <<"NICK", c, n>>[3] = n
                 /\ NsIs(<<"SVSNICK", c, n>>, "SVSNICK")
    /\ \A n : /\ NsIs(<<"QUIT", n>>, "QUIT") /\ <<"QUIT", n>>[2] = n
              /\ NsIs(<<"KILL", n>>, "KILL") /\ <<"KILL", n>>[2] = n
    /\ NsIs(<<"BURST">>, "BURST")
  BY DEF NsIs

LEMMA NsMembers ==
    ASSUME NEW S, NEW L \in Seq(S)
    PROVE  Len(L) \in Nat /\ \A i \in 1 .. Len(L) : L[i] \in S
  OBVIOUS

LEMMA NsIntroMade ==
    ASSUME NEW l, NEW c, NEW n, l = <<"INTRO", c, n>>
    PROVE  NsIs(l, "INTRO") /\ l[2] = c /\ l[3] = n
  BY DEF NsIs

LEMMA NsQuitMade ==
    ASSUME NEW l, NEW n, l = <<"QUIT", n>>
    PROVE  NsIs(l, "QUIT") /\ l[2] = n
  BY DEF NsIs

\* A burst: one client after the other.
LEMMA NsUsersTold ==
    ASSUME NsBase, NEW h \in NsServers
    PROVE  \E R : /\ NsFits(R, NsUsers(h), NsNow(h)) /\ R[0] = NsNobody
                  /\ \A c \in NsClients : \A i \in 0 .. Len(NsUsers(h)) :
                        /\ R[i][c] \in {NsAbsent, NsNow(h)[c]}
                        /\ \A k \in i .. Len(NsUsers(h)) : R[i][c] # NsAbsent => R[k][c] # NsAbsent
                  /\ \A i \in 1 .. Len(NsUsers(h)) :
                        /\ NsIs(NsUsers(h)[i], "INTRO")
                        /\ \A c \in NsClients : NsIntros(NsUsers(h)[i], c) => \A k \in 0 .. i - 1 : R[k][c] = NsAbsent
                  /\ \A c \in ns_reg : NsLocal(h, c) => NsOn(<<"INTRO", c, ns_nick[h][c]>>, NsUsers(h))
  <1> DEFINE G == {d \in ns_reg : NsLocal(h, d)}
             S == {<<"INTRO", c, ns_nick[h][c]>> : c \in G}
             L == SetToSeq(S)
             now == NsNow(h)
             R == [i \in 0 .. Len(L) |-> [c \in NsClients |-> IF \E k \in 1 .. i : L[k][2] = c THEN now[c] ELSE NsAbsent]]
  <1>1. IsFiniteSet(S) /\ NsUsers(h) = L /\ L \in Seq(NsLines)
    BY NsUsersType DEF NsUsers, NsSays
  <1>2. /\ L \in Seq(S) /\ \A x \in S : \E i \in 1 .. Len(L) : L[i] = x
        /\ \A i, j \in 1 .. Len(L) : L[i] = L[j] => i = j
    BY <1>1, SetListed
  <1>3. G \subseteq NsClients /\ ns_reg \subseteq NsClients
    BY NsTypes DEF NsBase
  <1>4. now \in NsViews /\ NsOneName(now) /\ \A c \in G : now[c] = ns_nick[h][c] /\ now[c] # NsAbsent
    BY <1>3, NsNowViews, NickSyncOK
  <1>5. \A c \in NsClients \ G : now[c] = NsAbsent
    BY NsNowViews
  <1>6. ASSUME NEW i \in 1 .. Len(L)
        PROVE  \E d \in G : NsIs(L[i], "INTRO") /\ L[i] = <<"INTRO", d, now[d]>> /\ L[i][2] = d /\ L[i][3] = now[d]
    <2>1. L[i] \in S
      <3> HIDE DEF L, S
      <3> QED BY <1>2, NsMembers
    <2>2. PICK d \in G : L[i] = <<"INTRO", d, ns_nick[h][d]>>
      <3> HIDE DEF L, G
      <3> QED BY <2>1
    <2>3. L[i] = <<"INTRO", d, now[d]>>
      BY <1>4, <2>2
    <2> HIDE DEF L, G, now
    <2>4. NsIs(L[i], "INTRO") /\ L[i][2] = d /\ L[i][3] = now[d]
      BY <2>3, NsIntroMade
    <2> QED BY <2>3, <2>4
  <1>7. Len(L) \in Nat
    BY <1>1
  <1>8. \A c \in G : NsOn(<<"INTRO", c, ns_nick[h][c]>>, L)
    BY <1>2 DEF NsOn
  <1> HIDE DEF L, S, G, now
  <1>9. \A i \in 0 .. Len(L) : R[i] = [c \in NsClients |-> IF \E k \in 1 .. i : L[k][2] = c THEN now[c] ELSE NsAbsent]
    OBVIOUS
  <1>10. R = [i \in 0 .. Len(L) |-> R[i]]
    OBVIOUS
  <1> HIDE DEF R
  <1>11. \A i \in 0 .. Len(L) : /\ R[i] \in NsViews
                                /\ \A c \in NsClients : R[i][c] = IF \E k \in 1 .. i : L[k][2] = c THEN now[c] ELSE NsAbsent
    <2>1. ASSUME NEW i \in 0 .. Len(L), NEW c \in NsClients
          PROVE  R[i][c] = IF \E k \in 1 .. i : L[k][2] = c THEN now[c] ELSE NsAbsent
      <3>1. R[i] = [x \in NsClients |-> IF \E k \in 1 .. i : L[k][2] = x THEN now[x] ELSE NsAbsent]
        BY <1>9
      <3> QED BY <3>1, Zenon
    <2>2. ASSUME NEW i \in 0 .. Len(L), NEW c \in NsClients
          PROVE  R[i][c] \in NsNicks \cup {NsAbsent}
      <3>1. now[c] \in NsNicks \cup {NsAbsent}
        BY <1>4 DEF NsViews
      <3>2. R[i][c] = now[c] \/ R[i][c] = NsAbsent
        BY <2>1
      <3> QED BY <3>1, <3>2
    <2>3. ASSUME NEW i \in 0 .. Len(L)
          PROVE  R[i] \in NsViews
      <3>1. R[i] = [c \in NsClients |-> R[i][c]]
        BY <1>9
      <3> QED BY <2>2, <3>1 DEF NsViews
    <2> QED BY <2>1, <2>3
  <1>12. \A i \in 0 .. Len(L) : NsOneName(R[i])
    BY <1>4, <1>11 DEF NsOneName
  <1>13. R[0] = NsNobody
    <2>1. 0 \in 0 .. Len(L)
      BY <1>7
    <2>2. R[0] = [c \in NsClients |-> IF \E k \in 1 .. 0 : L[k][2] = c THEN now[c] ELSE NsAbsent]
      BY <1>9, <2>1
    <2> QED BY <2>2 DEF NsNobody
  <1>14. R[Len(L)] = now
    <2>1. Len(L) \in 0 .. Len(L)
      BY <1>7
    <2>2. ASSUME NEW c \in NsClients PROVE R[Len(L)][c] = now[c]
      <3>1. CASE c \in G
        <4>1. PICK k \in 1 .. Len(L) : L[k] = <<"INTRO", c, ns_nick[h][c]>>
          BY <1>8, <3>1 DEF NsOn
        <4>2. L[k][2] = c
          BY <4>1
        <4> QED BY <1>11, <2>1, <4>2
      <3>2. CASE c \notin G
        BY <1>5, <1>11, <2>1, <3>2
      <3> QED BY <3>1, <3>2
    <2>3. R[Len(L)] \in NsViews
      BY <1>11, <2>1
    <2> QED BY <1>4, <2>2, <2>3 DEF NsViews
  <1>15. ASSUME NEW i \in 1 .. Len(L), NEW d \in G, L[i] = <<"INTRO", d, now[d]>>
         PROVE  \A k \in 0 .. i - 1 : R[k][d] = NsAbsent
    <2>1. ASSUME NEW k \in 0 .. i - 1 PROVE R[k][d] = NsAbsent
      <3>1. k \in 0 .. Len(L) /\ k < i
        BY <1>7, <2>1
      <3>2. ASSUME NEW j \in 1 .. k, L[j][2] = d PROVE FALSE
        <4>1. j \in 1 .. Len(L) /\ j # i
          BY <1>7, <3>1, <3>2
        <4>2. L[j] = L[i]
          BY <1>6, <1>15, <3>2, <4>1
        <4> QED BY <1>2, <4>1, <4>2
      <3> QED BY <1>3, <1>11, <3>1, <3>2
    <2> QED BY <2>1
  <1>16. ASSUME NEW i \in 1 .. Len(L) PROVE NsIs(L[i], "INTRO") /\ NsExplains(L[i], R[i - 1], R[i])
    <2>1. PICK d \in G : NsIs(L[i], "INTRO") /\ L[i] = <<"INTRO", d, now[d]>> /\ L[i][2] = d /\ L[i][3] = now[d]
      BY <1>6
    <2>2. NsIs(L[i], "INTRO")
      BY <2>1
    <2>3. i - 1 \in 0 .. i - 1 /\ i - 1 \in 0 .. Len(L) /\ i \in 0 .. Len(L) /\ d \in NsClients
      BY <1>3, <1>7
    <2>4. R[i - 1][d] = NsAbsent
      BY <1>15, <2>1, <2>3
    <2>5. R[i][d] = now[d]
      <3>1. i \in 1 .. i
        OBVIOUS
      <3> QED BY <1>11, <2>1, <2>3, <3>1
    <2>6. ASSUME NEW c \in NsClients, c # d PROVE R[i][c] = R[i - 1][c]
      <3>1. \A k \in 1 .. i : k \in 1 .. i - 1 \/ k = i
        OBVIOUS
      <3>2. \A k \in 1 .. i - 1 : k \in 1 .. i
        OBVIOUS
      <3>3. (\E k \in 1 .. i : L[k][2] = c) <=> (\E k \in 1 .. i - 1 : L[k][2] = c)
        BY <2>1, <2>6, <3>1, <3>2
      <3> QED BY <1>11, <2>3, <3>3
    <2>7. R[i] = [R[i - 1] EXCEPT ![d] = now[d]]
      <3>1. R[i] \in NsViews /\ R[i - 1] \in NsViews
        BY <1>11, <2>3
      <3> QED BY <2>3, <2>5, <2>6, <3>1 DEF NsViews
    <2> QED BY <2>1, <2>2, <2>4, <2>7, NsIsOne DEF NsExplains
  <1>17. R \in [0 .. Len(L) -> NsViews]
    BY <1>10, <1>11
  <1>18. NsFits(R, L, now)
    BY <1>12, <1>14, <1>16, <1>17 DEF NsFits
  <1>19. ASSUME NEW c \in NsClients, NEW i \in 0 .. Len(L)
         PROVE  /\ R[i][c] \in {NsAbsent, now[c]}
                /\ \A k \in i .. Len(L) : R[i][c] # NsAbsent => R[k][c] # NsAbsent
    <2>1. ASSUME NEW k \in i .. Len(L), R[i][c] # NsAbsent PROVE R[k][c] # NsAbsent
      <3>1. k \in 0 .. Len(L) /\ \A j \in 1 .. i : j \in 1 .. k
        BY <1>7, <1>19, <2>1
      <3> QED BY <1>11, <1>19, <2>1, <3>1
    <2> QED BY <1>11, <2>1
  <1>20. ASSUME NEW i \in 1 .. Len(L), NEW c \in NsClients, NsIntros(L[i], c)
         PROVE  \A k \in 0 .. i - 1 : R[k][c] = NsAbsent
    BY <1>6, <1>15, <1>20 DEF NsIntros
  <1>21. \A c \in ns_reg : NsLocal(h, c) => NsOn(<<"INTRO", c, ns_nick[h][c]>>, L)
    BY <1>8 DEF G
  <1>22. NsUsers(h) = L /\ NsNow(h) = now
    BY <1>1 DEF now
  <1> QED BY <1>13, <1>16, <1>18, <1>19, <1>20, <1>21, <1>22

\* Quits: one client after the other.
LEMMA NsQuitsTold ==
    ASSUME NsBase, NEW h \in NsServers, NEW then,
           then = [c \in NsClients |-> IF NsLocal(h, c) /\ c \in ns_reg \ NsDying(h) THEN ns_nick[h][c] ELSE NsAbsent]
    PROVE  \E R : /\ NsFits(R, NsQuits(h), then) /\ R[0] = NsNow(h)
                  /\ \A c \in NsClients \ NsDying(h) : \A i \in 0 .. Len(NsQuits(h)) : R[i][c] = NsNow(h)[c]
                  /\ \A i \in 1 .. Len(NsQuits(h)) : NsIs(NsQuits(h)[i], "QUIT")
  <1> DEFINE G == {d \in NsDying(h) \cap ns_reg : NsLocal(h, d)}
             S == {<<"QUIT", ns_nick[h][c]>> : c \in G}
             L == SetToSeq(S)
             now == NsNow(h)
             R == [i \in 0 .. Len(L) |-> [c \in NsClients |-> IF \E k \in 1 .. i : L[k][2] = now[c] THEN NsAbsent ELSE now[c]]]
  <1>1. IsFiniteSet(S) /\ NsQuits(h) = L /\ L \in Seq(NsLines)
    BY NsQuitsType DEF NsQuits, NsSays
  <1>2. /\ L \in Seq(S) /\ \A x \in S : \E i \in 1 .. Len(L) : L[i] = x
        /\ \A i, j \in 1 .. Len(L) : L[i] = L[j] => i = j
    BY <1>1, SetListed
  <1>3. G \subseteq NsClients /\ ns_reg \subseteq NsClients
    BY NsTypes DEF NsBase
  <1>4. now \in NsViews /\ NsOneName(now) /\ \A c \in G : now[c] = ns_nick[h][c] /\ now[c] # NsAbsent
    BY <1>3, NsNowViews, NickSyncOK
  <1>5. \A c \in NsClients : then[c] = IF c \in G THEN NsAbsent ELSE now[c]
    BY NsNowViews
  <1>6. ASSUME NEW i \in 1 .. Len(L)
        PROVE  \E d \in G : NsIs(L[i], "QUIT") /\ L[i] = <<"QUIT", now[d]>> /\ L[i][2] = now[d]
    <2>1. L[i] \in S
      <3> HIDE DEF L, S
      <3> QED BY <1>2, NsMembers
    <2>2. PICK d \in G : L[i] = <<"QUIT", ns_nick[h][d]>>
      <3> HIDE DEF L, G
      <3> QED BY <2>1
    <2>3. L[i] = <<"QUIT", now[d]>>
      BY <1>4, <2>2
    <2> HIDE DEF L, G, now
    <2>4. NsIs(L[i], "QUIT") /\ L[i][2] = now[d]
      BY <2>3, NsQuitMade
    <2> QED BY <2>3, <2>4
  <1>7. Len(L) \in Nat
    BY <1>1
  <1>8. \A c \in G : \E i \in 1 .. Len(L) : L[i] = <<"QUIT", now[c]>> /\ L[i][2] = now[c]
    <2>1. ASSUME NEW c \in G PROVE \E i \in 1 .. Len(L) : L[i] = <<"QUIT", now[c]>> /\ L[i][2] = now[c]
      <3>1. <<"QUIT", now[c]>> \in S
        BY <1>4
      <3> HIDE DEF L, S, G, now
      <3>2. PICK i \in 1 .. Len(L) : L[i] = <<"QUIT", now[c]>>
        BY <1>2, <3>1
      <3> QED BY <3>2, NsQuitMade
    <2> QED BY <2>1
  <1>9. G \subseteq NsDying(h)
    OBVIOUS
  <1> HIDE DEF L, S, G, now
  <1>10. \A i \in 0 .. Len(L) : R[i] = [c \in NsClients |-> IF \E k \in 1 .. i : L[k][2] = now[c] THEN NsAbsent ELSE now[c]]
    OBVIOUS
  <1>11. R = [i \in 0 .. Len(L) |-> R[i]]
    OBVIOUS
  <1> HIDE DEF R
  <1>12. \A i \in 0 .. Len(L) : /\ R[i] \in NsViews
                                /\ \A c \in NsClients : R[i][c] = IF \E k \in 1 .. i : L[k][2] = now[c] THEN NsAbsent ELSE now[c]
    <2>1. ASSUME NEW i \in 0 .. Len(L), NEW c \in NsClients
          PROVE  R[i][c] = IF \E k \in 1 .. i : L[k][2] = now[c] THEN NsAbsent ELSE now[c]
      <3>1. R[i] = [x \in NsClients |-> IF \E k \in 1 .. i : L[k][2] = now[x] THEN NsAbsent ELSE now[x]]
        BY <1>10
      <3> QED BY <3>1, Zenon
    <2>2. ASSUME NEW i \in 0 .. Len(L), NEW c \in NsClients
          PROVE  R[i][c] \in NsNicks \cup {NsAbsent}
      <3>1. now[c] \in NsNicks \cup {NsAbsent}
        BY <1>4 DEF NsViews
      <3>2. R[i][c] = now[c] \/ R[i][c] = NsAbsent
        BY <2>1
      <3> QED BY <3>1, <3>2
    <2>3. ASSUME NEW i \in 0 .. Len(L)
          PROVE  R[i] \in NsViews
      <3>1. R[i] = [c \in NsClients |-> R[i][c]]
        BY <1>10
      <3> QED BY <2>2, <3>1 DEF NsViews
    <2> QED BY <2>1, <2>3
  <1>13. \A i \in 0 .. Len(L) : NsOneName(R[i])
    BY <1>4, <1>12 DEF NsOneName
  <1>14. R[0] = now
    <2>1. 0 \in 0 .. Len(L)
      BY <1>7
    <2>2. R[0] = [c \in NsClients |-> IF \E k \in 1 .. 0 : L[k][2] = now[c] THEN NsAbsent ELSE now[c]]
      BY <1>10, <2>1
    <2>3. R[0] = [c \in NsClients |-> now[c]]
      BY <2>2
    <2> QED BY <1>4, <2>3 DEF NsViews
  <1>15. \A c \in NsClients \ G : \A k \in 1 .. Len(L) : L[k][2] # now[c]
    BY <1>3, <1>4, <1>6 DEF NsOneName
  <1>16. R[Len(L)] = then
    <2>1. Len(L) \in 0 .. Len(L)
      BY <1>7
    <2>2. ASSUME NEW c \in NsClients PROVE R[Len(L)][c] = then[c]
      <3>1. CASE c \in G
        BY <1>5, <1>8, <1>12, <2>1, <3>1
      <3>2. CASE c \notin G
        BY <1>5, <1>12, <1>15, <2>1, <3>2
      <3> QED BY <3>1, <3>2
    <2>3. R[Len(L)] \in NsViews
      BY <1>12, <2>1
    <2>4. then = [c \in NsClients |-> then[c]] /\ R[Len(L)] = [c \in NsClients |-> R[Len(L)][c]]
      BY <2>3 DEF NsViews
    <2> QED BY <2>2, <2>4
  <1>17. ASSUME NEW i \in 1 .. Len(L) PROVE NsIs(L[i], "QUIT") /\ NsExplains(L[i], R[i - 1], R[i])
    <2>1. PICK d \in G : NsIs(L[i], "QUIT") /\ L[i] = <<"QUIT", now[d]>> /\ L[i][2] = now[d]
      BY <1>6
    <2>2. NsIs(L[i], "QUIT")
      BY <2>1
    <2>3. i - 1 \in 0 .. Len(L) /\ i \in 0 .. Len(L) /\ d \in NsClients /\ now[d] # NsAbsent
      BY <1>3, <1>4, <1>7
    <2>4. R[i - 1][d] = now[d]
      <3>1. ASSUME NEW k \in 1 .. i - 1, L[k][2] = now[d] PROVE FALSE
        <4>1. k \in 1 .. Len(L) /\ k # i
          BY <1>7, <3>1
        <4>2. PICK e \in G : L[k] = <<"QUIT", now[e]>> /\ L[k][2] = now[e]
          BY <1>6, <4>1
        <4>3. L[k] = L[i]
          BY <2>1, <3>1, <4>2
        <4> QED BY <1>2, <4>1, <4>3
      <3> QED BY <1>12, <2>3, <3>1
    <2>5. R[i][d] = NsAbsent
      <3>1. i \in 1 .. i
        OBVIOUS
      <3> QED BY <1>12, <2>1, <2>3, <3>1
    <2>6. ASSUME NEW c \in NsClients, c # d PROVE R[i][c] = R[i - 1][c]
      <3>1. \A k \in 1 .. i : k \in 1 .. i - 1 \/ k = i
        OBVIOUS
      <3>2. \A k \in 1 .. i - 1 : k \in 1 .. i
        OBVIOUS
      <3>3. L[i][2] # now[c]
        BY <1>4, <2>1, <2>3, <2>6 DEF NsOneName
      <3>4. (\E k \in 1 .. i : L[k][2] = now[c]) <=> (\E k \in 1 .. i - 1 : L[k][2] = now[c])
        BY <3>1, <3>2, <3>3
      <3> QED BY <1>12, <2>3, <3>4
    <2>7. R[i] = [R[i - 1] EXCEPT ![d] = NsAbsent]
      <3>1. R[i] \in NsViews /\ R[i - 1] \in NsViews
        BY <1>12, <2>3
      <3> QED BY <2>3, <2>5, <2>6, <3>1 DEF NsViews
    <2> QED BY <2>1, <2>2, <2>3, <2>4, <2>7, NsIsOne DEF NsExplains
  <1>18. R \in [0 .. Len(L) -> NsViews]
    BY <1>11, <1>12
  <1>19. NsFits(R, L, then)
    BY <1>13, <1>16, <1>17, <1>18 DEF NsFits
  <1>20. ASSUME NEW c \in NsClients \ NsDying(h), NEW i \in 0 .. Len(L)
         PROVE  R[i][c] = now[c]
    <2>1. \A k \in 1 .. i : k \in 1 .. Len(L)
      BY <1>7
    <2> QED BY <1>9, <1>12, <1>15, <2>1
  <1>21. NsQuits(h) = L /\ NsNow(h) = now
    BY <1>1 DEF now
  <1> QED BY <1>14, <1>17, <1>19, <1>20, <1>21

-----------------------------------------------------------------------------
\* What each server is told of the clients of the other.
NsHears(h) ==
    \E P : /\ NsFits(P, ns_wire[h], NsNow(h))
           /\ \A c \in NsClients : NsLocal(h, c) =>
                 NsTale(c, ns_wire[h], P, ns_nick[h], ns_nick[NsOther(h)], ns_reg, ns_new, ns_hasty,
                        NsDying(h), NsDying(NsOther(h)))
NsHeeds(h) ==
    \A c \in NsClients : NsLocal(h, c) =>
        NsReached(c, ns_wire[h], ns_wire[NsOther(h)], ns_nick[h], ns_nick[NsOther(h)], ns_reg, ns_hasty,
                  NsDying(h), NsDying(NsOther(h)))
NsFollows == \A h \in NsServers : ns_link = "up" /\ ns_up[h] => NsHears(h) /\ NsHeeds(h)

LEMMA NsTaleKept ==
    ASSUME NEW c \in NsClients, NEW w, NEW P,
           NEW mine, NEW theirs, NEW reg, NEW new, NEW hasty, NEW hd, NEW rd,
           NEW mine2, NEW theirs2, NEW reg2, NEW new2, NEW hasty2, NEW hd2, NEW rd2,
           NsTale(c, w, P, mine, theirs, reg, new, hasty, hd, rd),
           c \in reg2 <=> c \in reg, c \in new2 => c \in new, c \in hasty => c \in hasty2,
           c \in reg => mine2[c] = mine[c] /\ (c \in hd => c \in hd2),
           mine[c] = NsAbsent /\ c \notin new => mine2[c] = NsAbsent,
           theirs2[c] # NsAbsent => theirs[c] # NsAbsent,
           theirs2[c] # NsAbsent /\ c \notin rd2 => theirs2[c] = theirs[c] /\ c \notin rd
    PROVE  NsTale(c, w, P, mine2, theirs2, reg2, new2, hasty2, hd2, rd2)
  <1>1. theirs2[c] # NsAbsent /\ c \notin rd2 => theirs2[c] = P[0][c]
    BY DEF NsTale
  <1>2. \A i \in 1 .. Len(w) : NsIntros(w[i], c) => theirs2[c] = NsAbsent /\ \A k \in 0 .. i - 1 : P[k][c] = NsAbsent
    BY DEF NsTale
  <1>3. c \notin reg2 => \A i \in 0 .. Len(w) : (theirs2[c] # NsAbsent \/ P[i][c] # NsAbsent) => mine2[c] = NsAbsent /\ c \notin new2
    BY DEF NsTale
  <1>4. c \in reg2 => \A i \in 0 .. Len(w) : \A k \in i .. Len(w) : P[i][c] # NsAbsent => P[k][c] # NsAbsent
    BY DEF NsTale
  <1>5. c \in reg2 \ hasty2 => \A i \in 0 .. Len(w) : P[i][c] \in {NsAbsent, mine2[c]}
    BY DEF NsTale
  <1>6. c \in reg2 \ (hasty2 \cup hd2) => \A i \in 1 .. Len(w) : w[i] = <<"KILL", mine2[c]>> => P[i][c] = NsAbsent
    BY DEF NsTale
  <1> QED BY <1>1, <1>2, <1>3, <1>4, <1>5, <1>6 DEF NsTale

\* Lines that say nothing of registered clients.
NsPlain(l) == NsIs(l, "KILL") \/ NsIs(l, "SVSNICK") \/ NsIs(l, "BURST")
LEMMA NsFitsStill ==
    ASSUME NEW L \in Seq(NsLines), \A i \in 1 .. Len(L) : NsPlain(L[i]),
           NEW now \in NsViews, NsOneName(now)
    PROVE  \E R : NsFits(R, L, now) /\ R[0] = now /\ \A k \in 0 .. Len(L) : R[k] = now
  <1>1. PICK R : R = [k \in 0 .. Len(L) |-> now]
    OBVIOUS
  <1>2. Len(L) \in Nat
    OBVIOUS
  <1>3. \A k \in 0 .. Len(L) : R[k] = now
    BY <1>1
  <1>4. 0 \in 0 .. Len(L) /\ Len(L) \in 0 .. Len(L)
    BY <1>2
  <1>5. R \in [0 .. Len(L) -> NsViews]
    BY <1>1
  <1>6. ASSUME NEW i \in 1 .. Len(L) PROVE NsExplains(L[i], R[i - 1], R[i])
    <2>1. i - 1 \in 0 .. Len(L) /\ i \in 0 .. Len(L)
      BY <1>2
    <2>2. R[i - 1] = now /\ R[i] = now
      BY <1>3, <2>1
    <2>3. NsExplains(L[i], now, now)
      BY NsIsOne DEF NsExplains, NsPlain
    <2> QED BY <2>2, <2>3
  <1>7. NsFits(R, L, now)
    BY <1>3, <1>4, <1>5, <1>6 DEF NsFits
  <1> QED BY <1>3, <1>4, <1>7

LEMMA NsFitsOne ==
    ASSUME NEW l \in NsLines, NEW now \in NsViews, NsOneName(now), NEW then \in NsViews, NsOneName(then),
           NsExplains(l, now, then)
    PROVE  \E R : NsFits(R, <<l>>, then) /\ R[0] = now /\ R[1] = then
  <1>1. PICK R : R = [k \in 0 .. 1 |-> IF k = 0 THEN now ELSE then]
    OBVIOUS
  <1>2. PICK L \in Seq(NsLines) : L = <<l>> /\ Len(L) = 1 /\ L[1] = l
    <2>1. <<l>> \in Seq(NsLines) /\ Len(<<l>>) = 1 /\ <<l>>[1] = l
      OBVIOUS
    <2> QED BY <2>1
  <1>3. R \in [0 .. 1 -> NsViews] /\ R[0] = now /\ R[1] = then
    BY <1>1
  <1>4. \A i \in 0 .. 1 : i = 0 \/ i = 1
    OBVIOUS
  <1>5. \A i \in 0 .. 1 : NsOneName(R[i])
    BY <1>3, <1>4
  <1>6. ASSUME NEW i \in 1 .. 1 PROVE NsExplains(L[i], R[i - 1], R[i])
    <2>1. i = 1 /\ i - 1 = 0
      OBVIOUS
    <2> QED BY <1>2, <1>3, <2>1
  <1>7. NsFits(R, L, then)
    BY <1>2, <1>3, <1>5, <1>6 DEF NsFits
  <1> QED BY <1>2, <1>3, <1>7

\* A server has said something.
LEMMA NsHearsSaid ==
    ASSUME NEW s \in NsServers, NEW P, NEW L \in Seq(NsLines), NEW R, ns_wire[s] \in Seq(NsLines),
           NsFits(P, ns_wire[s], NsNow(s)), R[0] = NsNow(s), NsFits(R, L, NsNow(s)'),
           ns_wire'[s] = ns_wire[s] \o L,
           \A c \in NsClients : NsLocal(s, c) =>
              NsTale(c, ns_wire[s] \o L, NsJoin(P, ns_wire[s], R, L), ns_nick'[s], ns_nick'[NsOther(s)], ns_reg', ns_new',
                     ns_hasty', NsDying(s)', NsDying(NsOther(s))')
    PROVE  NsHears(s)'
  <1>1. NsFits(NsJoin(P, ns_wire[s], R, L), ns_wire[s] \o L, NsNow(s)')
    BY NsFitsJoin
  <1>2. PICK J : J = NsJoin(P, ns_wire[s], R, L)
    OBVIOUS
  <1>3. NsFits(J, ns_wire'[s], NsNow(s)')
    BY <1>1, <1>2
  <1>4. \A c \in NsClients : NsLocal(s, c) =>
              NsTale(c, ns_wire'[s], J, ns_nick'[s], ns_nick'[NsOther(s)], ns_reg', ns_new',
                     ns_hasty', NsDying(s)', NsDying(NsOther(s))')
    BY <1>2
  <1> QED BY <1>3, <1>4 DEF NsHears

\* A server has read a line.
LEMMA NsHearsRead ==
    ASSUME NEW r \in NsServers, NEW P, ns_wire[r] \in Seq(NsLines), ns_wire[r] # <<>>,
           NsFits(P, ns_wire[r], NsNow(r)), ns_wire'[r] = Tail(ns_wire[r]),
           ns_nick'[r] = ns_nick[r], NsDying(r)' = NsDying(r), UNCHANGED <<ns_reg, ns_new>>,
           \A c \in NsClients : NsLocal(r, c) =>
              /\ NsTale(c, ns_wire[r], P, ns_nick[r], ns_nick[NsOther(r)], ns_reg, ns_new, ns_hasty,
                        NsDying(r), NsDying(NsOther(r)))
              /\ c \in ns_hasty' <=> c \in ns_hasty
              /\ ns_nick'[NsOther(r)][c] # NsAbsent /\ c \notin NsDying(NsOther(r))' => ns_nick'[NsOther(r)][c] = P[1][c]
              /\ ns_nick'[NsOther(r)][c] # NsAbsent => ns_nick[NsOther(r)][c] # NsAbsent \/ P[1][c] # NsAbsent
    PROVE  NsHears(r)'
  <1>1. NsNow(r)' = NsNow(r)
    BY DEF NsNow, NsLocal
  <1>2. NsFits(NsShift(P, ns_wire[r]), Tail(ns_wire[r]), NsNow(r)')
    BY <1>1, NsFitsShift
  <1>3. PICK J : J = NsShift(P, ns_wire[r])
    OBVIOUS
  <1>4. ASSUME NEW c \in NsClients, NsLocal(r, c)
        PROVE  NsTale(c, ns_wire'[r], J, ns_nick'[r], ns_nick'[NsOther(r)], ns_reg', ns_new', ns_hasty',
                      NsDying(r)', NsDying(NsOther(r))')
    <2>1. PICK mine, theirs, theirs2, rd, rd2, w : mine = ns_nick[r] /\ theirs = ns_nick[NsOther(r)]
             /\ theirs2 = ns_nick'[NsOther(r)] /\ rd = NsDying(NsOther(r)) /\ rd2 = NsDying(NsOther(r))' /\ w = ns_wire[r]
      OBVIOUS
    <2>2. NsTale(c, w, P, mine, theirs, ns_reg, ns_new, ns_hasty, NsDying(r), rd)
      BY <1>4, <2>1
    <2>3. /\ theirs2[c] # NsAbsent /\ c \notin rd2 => theirs2[c] = P[1][c]
          /\ theirs2[c] # NsAbsent => theirs[c] # NsAbsent \/ P[1][c] # NsAbsent
      BY <1>4, <2>1
    <2>4. NsTale(c, Tail(w), NsShift(P, w), mine, theirs2, ns_reg, ns_new, ns_hasty, NsDying(r), rd2)
      BY <2>1, <2>2, <2>3, NsTaleShift
    <2>5. NsTale(c, Tail(w), NsShift(P, w), mine, theirs2, ns_reg, ns_new, ns_hasty', NsDying(r), rd2)
      BY <1>4, <2>4, NsTaleKept
    <2> QED BY <1>3, <2>1, <2>5
  <1> QED BY <1>2, <1>3, <1>4 DEF NsHears

\* The reader has done something else.
LEMMA NsHearsStill ==
    ASSUME NEW r \in NsServers, NsHears(r), ns_wire'[r] = ns_wire[r], NsNow(r)' = NsNow(r),
           \A c \in NsClients : NsLocal(r, c) =>
              /\ c \in ns_reg' <=> c \in ns_reg
              /\ c \in ns_new' => c \in ns_new
              /\ c \in ns_hasty => c \in ns_hasty'
              /\ c \in NsDying(r) => c \in NsDying(r)'
              /\ c \in ns_reg => ns_nick'[r][c] = ns_nick[r][c]
              /\ ns_nick[r][c] = NsAbsent /\ c \notin ns_new => ns_nick'[r][c] = NsAbsent
              /\ ns_nick'[NsOther(r)][c] # NsAbsent => ns_nick[NsOther(r)][c] # NsAbsent
              /\ ns_nick'[NsOther(r)][c] # NsAbsent /\ c \notin NsDying(NsOther(r))' =>
                    ns_nick'[NsOther(r)][c] = ns_nick[NsOther(r)][c] /\ c \notin NsDying(NsOther(r))
    PROVE  NsHears(r)'
  <1>1. PICK P : /\ NsFits(P, ns_wire[r], NsNow(r))
                 /\ \A c \in NsClients : NsLocal(r, c) =>
                       NsTale(c, ns_wire[r], P, ns_nick[r], ns_nick[NsOther(r)], ns_reg, ns_new, ns_hasty,
                              NsDying(r), NsDying(NsOther(r)))
    BY DEF NsHears
  <1>2. ASSUME NEW c \in NsClients, NsLocal(r, c)
        PROVE  NsTale(c, ns_wire'[r], P, ns_nick'[r], ns_nick'[NsOther(r)], ns_reg', ns_new', ns_hasty',
                      NsDying(r)', NsDying(NsOther(r))')
    <2>1. NsTale(c, ns_wire[r], P, ns_nick[r], ns_nick[NsOther(r)], ns_reg, ns_new, ns_hasty,
                 NsDying(r), NsDying(NsOther(r)))
      BY <1>1, <1>2
    <2>2. NsTale(c, ns_wire[r], P, ns_nick'[r], ns_nick'[NsOther(r)], ns_reg', ns_new', ns_hasty',
                 NsDying(r)', NsDying(NsOther(r))')
      BY <1>2, <2>1, NsTaleKept
    <2> QED BY <2>2
  <1> QED BY <1>1, <1>2 DEF NsHears

\* Who has not changed his nickname is known by it.
LEMMA NsKnown ==
    ASSUME NEW r \in NsServers, NsHears(r), NEW c \in NsClients, NsLocal(r, c), c \in ns_reg \ ns_hasty,
           ns_nick[NsOther(r)][c] # NsAbsent, c \notin NsDying(NsOther(r))
    PROVE  ns_nick[NsOther(r)][c] = ns_nick[r][c]
  <1>1. PICK P : /\ NsFits(P, ns_wire[r], NsNow(r))
                 /\ \A d \in NsClients : NsLocal(r, d) =>
                       NsTale(d, ns_wire[r], P, ns_nick[r], ns_nick[NsOther(r)], ns_reg, ns_new, ns_hasty,
                              NsDying(r), NsDying(NsOther(r)))
    BY DEF NsHears
  <1>2. NsTale(c, ns_wire[r], P, ns_nick[r], ns_nick[NsOther(r)], ns_reg, ns_new, ns_hasty,
               NsDying(r), NsDying(NsOther(r)))
    BY <1>1
  <1>3. ns_nick[NsOther(r)][c] = P[0][c]
    BY <1>2 DEF NsTale
  <1>4. \A i \in 0 .. Len(ns_wire[r]) : P[i][c] \in {NsAbsent, ns_nick[r][c]}
    BY <1>2 DEF NsTale
  <1>5. P[Len(ns_wire[r])] = NsNow(r)
    BY <1>1 DEF NsFits
  <1> QED BY <1>3, <1>4

LEMMA NsLonely ==
    ASSUME NsBase, NEW s \in NsServers, ns_link = "up", ~ns_up[s], NEW c \in NsClients, ~NsLocal(s, c)
    PROVE  ns_nick[s][c] = NsAbsent
  BY DEF NsBase, NsTidied, NsTidy

LEMMA NsHomes ==
    ASSUME NEW s \in NsServers, NEW c \in NsClients
    PROVE  NsLocal(NsOther(s), c) <=> ~NsLocal(s, c)
  <1>1. NsHome[c] \in NsServers
    BY NickSyncOK
  <1> QED BY <1>1, NsPeers DEF NsLocal

LEMMA NsSaidTo ==
    ASSUME ns_wire \in [NsServers -> Seq(NsLines)], NEW s \in NsServers, NEW L \in Seq(NsLines),
           ns_wire' = NsSent(ns_wire, s, L)
    PROVE  /\ ns_up[s] /\ ns_link = "up" => ns_wire'[s] = ns_wire[s] \o L
           /\ ns_wire'[s] = ns_wire[s] \/ ns_wire'[s] = ns_wire[s] \o L
           /\ \A t \in NsServers : t # s => ns_wire'[t] = ns_wire[t]
  <1>1. CASE ns_up[s] /\ ns_link = "up"
    <2>1. ns_wire' = [ns_wire EXCEPT ![s] = ns_wire[s] \o L]
      BY <1>1, Zenon DEF NsSent
    <2>2. PICK x : x = ns_wire[s] \o L
      OBVIOUS
    <2>3. ns_wire'[s] = x /\ \A t \in NsServers : t # s => ns_wire'[t] = ns_wire[t]
      BY <2>1, <2>2
    <2> QED BY <2>2, <2>3
  <1>2. CASE ~(ns_up[s] /\ ns_link = "up")
    BY <1>2 DEF NsSent
  <1> QED BY <1>1, <1>2

\* More clients are to be removed on s, of which it tells the other.
LEMMA NsFollowsQueue ==
    ASSUME NsBase, NsFollows, NEW s \in NsServers, NEW cs,
           NsDying(s)' = NsDying(s) \cup cs, \A t \in NsServers : t # s => NsDying(t)' = NsDying(t),
           NEW L \in Seq(NsLines), \A i \in 1 .. Len(L) : NsPlain(L[i]),
           ns_wire' = NsSent(ns_wire, s, L), UNCHANGED <<ns_nick, ns_reg, ns_new, ns_up, ns_link, ns_hasty>>,
           \A c \in NsClients : NsLocal(s, c) =>
              \A i \in 1 .. Len(L) : L[i] = <<"KILL", ns_nick[s][c]>> => c \in cs,
           \A c \in NsClients \cap cs : ~NsLocal(s, c) => NsOn(<<"KILL", ns_nick[s][c]>>, L)
    PROVE  NsFollows'
  <1>0. PICK r \in NsServers : r = NsOther(s)
    BY NsPeers
  <1>1. r # s /\ NsOther(r) = s /\ \A t \in NsServers : t = s \/ t = r
    BY <1>0, NsPeers
  <1>2. ns_wire \in [NsServers -> Seq(NsLines)]
    BY NsTypes DEF NsBase
  <1>3. SUFFICES ASSUME NEW h \in NsServers, ns_link = "up", ns_up[h]
                 PROVE  NsHears(h)' /\ NsHeeds(h)'
    BY DEF NsFollows
  <1>4. NsHears(h) /\ NsHeeds(h)
    BY <1>3 DEF NsFollows
  <1>5. NsNow(h)' = NsNow(h)
    BY DEF NsNow, NsLocal
  <1>6. NsDying(r)' = NsDying(r)
    BY <1>1
  <1>7. CASE h = s
    <2>1. ns_wire'[s] = ns_wire[s] \o L /\ ns_wire'[r] = ns_wire[r]
      BY <1>1, <1>2, <1>3, <1>7, NsSaidTo
    <2>2. PICK P : /\ NsFits(P, ns_wire[s], NsNow(s))
                   /\ \A c \in NsClients : NsLocal(s, c) =>
                         NsTale(c, ns_wire[s], P, ns_nick[s], ns_nick[NsOther(s)], ns_reg, ns_new, ns_hasty,
                                NsDying(s), NsDying(NsOther(s)))
      BY <1>4, <1>7 DEF NsHears
    <2>3. PICK R : NsFits(R, L, NsNow(s)) /\ R[0] = NsNow(s) /\ \A k \in 0 .. Len(L) : R[k] = NsNow(s)
      BY NsFitsStill, NsNowViews
    <2>4. P[Len(ns_wire[s])] = NsNow(s)
      BY <2>2 DEF NsFits
    <2>5. ASSUME NEW c \in NsClients, NsLocal(s, c)
          PROVE  NsTale(c, ns_wire[s] \o L, NsJoin(P, ns_wire[s], R, L), ns_nick'[s], ns_nick'[NsOther(s)], ns_reg', ns_new',
                        ns_hasty', NsDying(s)', NsDying(NsOther(s))')
      <3>1. NsTale(c, ns_wire[s], P, ns_nick[s], ns_nick[r], ns_reg, ns_new, ns_hasty, NsDying(s), NsDying(r))
        BY <1>0, <2>2, <2>5
      <3>2. \A k \in 1 .. Len(L) : ~NsIntros(L[k], c)
        BY NsIsOne DEF NsPlain, NsIntros
      <3>3. PICK mine, theirs, hd, hd2, rd, w : mine = ns_nick[s] /\ theirs = ns_nick[r] /\ hd = NsDying(s) /\ hd2 = NsDying(s)'
                /\ rd = NsDying(r) /\ w = ns_wire[s]
        OBVIOUS
      <3>4. c \in hd => c \in hd2
        BY <3>3
      <3>5. \A k \in 1 .. Len(L) : L[k] = <<"KILL", mine[c]>> /\ c \in ns_reg => c \in ns_hasty \cup hd2
        BY <2>5, <3>3
      <3>6. R[0] = P[Len(w)] /\ \A k \in 0 .. Len(L) : R[k][c] = P[Len(w)][c]
        BY <2>3, <2>4, <3>3
      <3>7. NsTale(c, w \o L, NsJoin(P, w, R, L), mine, theirs, ns_reg, ns_new, ns_hasty, hd2, rd)
        <4>1. w \in Seq(NsLines) /\ NsTale(c, w, P, mine, theirs, ns_reg, ns_new, ns_hasty, hd, rd)
          BY <1>2, <3>1, <3>3
        <4> QED BY <3>2, <3>4, <3>5, <3>6, <4>1, NsTaleSame
      <3> QED BY <1>0, <1>6, <3>3, <3>7
    <2>6. NsHears(s)'
      BY <1>2, <1>5, <1>7, <2>1, <2>2, <2>3, <2>5, NsHearsSaid
    <2>7. ASSUME NEW c \in NsClients, NsLocal(s, c)
          PROVE  NsReached(c, ns_wire'[s], ns_wire'[r], ns_nick[s], ns_nick[r], ns_reg, ns_hasty, NsDying(s)', NsDying(r)')
      <3>1. NsReached(c, ns_wire[s], ns_wire[r], ns_nick[s], ns_nick[r], ns_reg, ns_hasty, NsDying(s), NsDying(r))
        BY <1>0, <1>4, <1>7, <2>7 DEF NsHeeds
      <3>2. \A l : NsOn(l, ns_wire[s]) => NsOn(l, ns_wire'[s])
        BY <1>2, <2>1, NsOnMore
      <3> QED BY <1>6, <2>1, <3>1, <3>2 DEF NsReached
    <2>8. NsHeeds(s)'
      BY <1>0, <2>7 DEF NsHeeds
    <2> QED BY <1>7, <2>6, <2>8
  <1>8. CASE h = r
    <2>1. ns_wire'[r] = ns_wire[r]
      BY <1>1, <1>2, NsSaidTo
    <2>2. NsHears(r)'
      <3>1. ASSUME NEW c \in NsClients, NsLocal(r, c), ns_nick[s][c] # NsAbsent, c \notin NsDying(s)'
            PROVE  c \notin NsDying(s)
        BY <3>1
      <3> QED BY <1>1, <1>4, <1>5, <1>6, <1>8, <2>1, <3>1, NsHearsStill
    <2>3. \A l : NsOn(l, ns_wire[s]) => NsOn(l, ns_wire'[s])
      <3>1. ns_wire'[s] = ns_wire[s] \/ ns_wire'[s] = ns_wire[s] \o L
        BY <1>2, NsSaidTo
      <3> QED BY <1>2, <3>1, NsOnMore
    <2>4. ASSUME NEW c \in NsClients, NsLocal(r, c)
          PROVE  NsReached(c, ns_wire'[r], ns_wire'[s], ns_nick[r], ns_nick[s], ns_reg, ns_hasty, NsDying(r)', NsDying(s)')
      <3>1. NsReached(c, ns_wire[r], ns_wire[s], ns_nick[r], ns_nick[s], ns_reg, ns_hasty, NsDying(r), NsDying(s))
        BY <1>1, <1>4, <1>8, <2>4 DEF NsHeeds
      <3>2. ASSUME c \in ns_reg \ (ns_hasty \cup NsDying(r)), ns_nick[s][c] # NsAbsent, c \notin NsDying(s), c \in cs
            PROVE  NsOn(<<"KILL", ns_nick[r][c]>>, ns_wire'[s])
        <4>1. ~NsLocal(s, c)
          BY <1>0, <2>4, NsHomes
        <4>2. ns_up[s]
          BY <1>3, <3>2, <4>1, NsLonely
        <4>3. ns_nick[s][c] = ns_nick[r][c]
          BY <1>1, <1>4, <1>8, <2>4, <3>2, NsKnown
        <4>4. NsOn(<<"KILL", ns_nick[r][c]>>, L)
          BY <3>2, <4>1, <4>3
        <4>5. ns_wire'[s] = ns_wire[s] \o L
          BY <1>2, <1>3, <4>2, NsSaidTo
        <4> QED BY <1>2, <4>4, <4>5, NsOnMore
      <3> QED BY <1>6, <2>1, <2>3, <3>1, <3>2 DEF NsReached
    <2>5. NsHeeds(r)'
      BY <1>1, <2>4 DEF NsHeeds
    <2> QED BY <1>8, <2>2, <2>5
  <1> QED BY <1>1, <1>7, <1>8

LEMMA NsPlainLines ==
    /\ \A n : NsPlain(<<"KILL", n>>) /\ \A m : NsPlain(<<"SVSNICK", n, m>>)
    /\ \A n, m, k : <<"SVSNICK", n, m>> # <<"KILL", k>>
    /\ \A n, k : <<"KILL", n>> = <<"KILL", k>> => n = k
  BY DEF NsPlain, NsIs

LEMMA NsFollowsQuit ==
    ASSUME NsBase, NsFollows, NEW s \in NsServers, NEW c \in NsClients, NsQuit(s, c)
    PROVE  NsFollows'
  <1>1. NsDying(s)' = NsDying(s) \cup {c} /\ \A t \in NsServers : t # s => NsDying(t)' = NsDying(t)
    BY NsTypes, NsQueued DEF NsBase, NsQuit
  <1>2. NsLocal(s, c) /\ UNCHANGED <<ns_nick, ns_wire, ns_reg, ns_new, ns_up, ns_link, ns_hasty>>
    BY DEF NsQuit
  <1>3. PICK L \in Seq(NsLines) : L = <<>> /\ Len(L) = 0
    <2>1. <<>> \in Seq(NsLines) /\ Len(<<>>) = 0
      OBVIOUS
    <2> QED BY <2>1
  <1>4. ns_wire' = NsSent(ns_wire, s, L)
    BY <1>2, <1>3, NsSentNothing DEF NsBase
  <1>5. \A i \in 1 .. Len(L) : FALSE
    BY <1>3
  <1> QED BY <1>1, <1>2, <1>4, <1>5, NsFollowsQueue

LEMMA NsFollowsKill ==
    ASSUME NsBase, NsFollows, NEW s \in NsServers, NEW n \in NsNicks, NsKill(s, n)
    PROVE  NsFollows'
  <1>1. NsFind(s, n) \subseteq NsClients /\ \A c \in NsFind(s, n) : ns_nick[s][c] = n
    BY NsOfFind DEF NsBase
  <1>2. NsDying(s)' = NsDying(s) \cup NsFind(s, n) /\ \A t \in NsServers : t # s => NsDying(t)' = NsDying(t)
    BY <1>1, NsTypes, NsQueued DEF NsBase, NsKill
  <1>3. PICK L \in Seq(NsLines) : L = NsKilled(s, n)
    BY NsKilledType DEF NsSays
  <1>4. ns_wire' = NsSent(ns_wire, s, L) /\ UNCHANGED <<ns_nick, ns_reg, ns_new, ns_up, ns_link, ns_hasty>>
    BY <1>3 DEF NsKill
  <1>5. \A i \in 1 .. Len(L) : L[i] = <<"KILL", n>>
    BY <1>3 DEF NsKilled
  <1>6. ASSUME NEW c \in NsClients \cap NsFind(s, n), ~NsLocal(s, c)
        PROVE  NsOn(<<"KILL", ns_nick[s][c]>>, L)
    <2>1. L = <<<<"KILL", n>>>> /\ ns_nick[s][c] = n
      BY <1>1, <1>3, <1>6 DEF NsKilled
    <2> QED BY <2>1, NsOnFew
  <1>7. ASSUME NEW c \in NsClients, NEW i \in 1 .. Len(L), L[i] = <<"KILL", ns_nick[s][c]>>
        PROVE  c \in NsFind(s, n)
    BY <1>5, <1>7, NsPlainLines DEF NsFind
  <1>8. \A i \in 1 .. Len(L) : NsPlain(L[i])
    BY <1>5, NsPlainLines
  <1> QED BY <1>2, <1>4, <1>6, <1>7, <1>8, NsFollowsQueue

LEMMA NsFollowsService ==
    ASSUME NsBase, NsFollows, NEW s \in NsServers, NEW n \in NsNicks, NEW m \in NsNicks, NsService(s, n, m)
    PROVE  NsFollows'
  <1>0. PICK cs : cs = {}
    OBVIOUS
  <1>1. NsDying(s)' = NsDying(s) \cup cs /\ \A t \in NsServers : t # s => NsDying(t)' = NsDying(t)
    BY <1>0 DEF NsService, NsDying
  <1>2. PICK l \in NsLines : l = <<"SVSNICK", n, m>>
    BY NsLineType
  <1>3. PICK L : L = <<l>>
    OBVIOUS
  <1>4. L \in Seq(NsLines) /\ \A i \in 1 .. Len(L) : L[i] = l
    BY <1>3
  <1>5. ns_wire' = NsSent(ns_wire, s, L) /\ UNCHANGED <<ns_nick, ns_reg, ns_new, ns_up, ns_link, ns_hasty>>
    BY <1>2, <1>3 DEF NsService
  <1>6. NsPlain(l) /\ \A k : l # <<"KILL", k>>
    BY <1>2, NsPlainLines, Zenon
  <1>7. \A i \in 1 .. Len(L) : NsPlain(L[i]) /\ \A k : L[i] # <<"KILL", k>>
    BY <1>4, <1>6
  <1>8. ASSUME NEW c \in NsClients PROVE \A i \in 1 .. Len(L) : L[i] = <<"KILL", ns_nick[s][c]>> => c \in cs
    BY <1>7
  <1>9. \A c \in NsClients \cap cs : FALSE
    BY <1>0
  <1>10. \A i \in 1 .. Len(L) : NsPlain(L[i])
    BY <1>7
  <1> QED BY <1>1, <1>4, <1>5, <1>8, <1>9, <1>10, NsFollowsQueue
LEMMA NsFirst ==
    ASSUME NEW w \in Seq(NsLines), w # <<>>, NEW P, NEW now, NsFits(P, w, now)
    PROVE  P[0] \in NsViews /\ P[1] \in NsViews /\ NsOneName(P[0]) /\ NsOneName(P[1]) /\ NsExplains(w[1], P[0], P[1])
  <1>1. Len(w) \in Nat /\ Len(w) > 0
    OBVIOUS
  <1>2. 0 \in 0 .. Len(w) /\ 1 \in 0 .. Len(w) /\ 1 \in 1 .. Len(w) /\ 1 - 1 = 0
    BY <1>1
  <1>3. P \in [0 .. Len(w) -> NsViews] /\ \A i \in 0 .. Len(w) : NsOneName(P[i])
    BY DEF NsFits
  <1>4. NsExplains(w[1], P[1 - 1], P[1])
    BY <1>2 DEF NsFits
  <1> QED BY <1>2, <1>3, <1>4

\* cs are removed and L is said upon the line l.
NsAnswers(s, l, cs, L) ==
    /\ \A c \in NsClients : NsLocal(s, c) =>
          /\ \A i \in 1 .. Len(L) : L[i] = <<"KILL", ns_nick[s][c]>> => c \in cs
          /\ l = <<"KILL", ns_nick[s][c]>> => c \in cs
    /\ \A c \in NsClients : ~NsLocal(s, c) /\ l = <<"INTRO", c, ns_nick[NsOther(s)][c]>> =>
          NsOn(<<"KILL", ns_nick[NsOther(s)][c]>>, L)
    /\ \A a, b \in NsViews : NsOneName(a) /\ NsOneName(b) /\ NsExplains(l, a, b) =>
          \A c \in NsClients : ~NsLocal(s, c) /\ ns_nick[s][c] # NsAbsent /\ ns_nick[s][c] = a[c] =>
             /\ c \notin cs => b[c] = a[c]
             /\ c \in cs /\ ns_nick[s][c] = ns_nick[NsOther(s)][c] /\ b[c] # NsAbsent
                   /\ (l = <<"KILL", ns_nick[s][c]>> => b[c] = NsAbsent) => NsOn(<<"KILL", ns_nick[s][c]>>, L)

\* s has read a line of the other server, upon which more clients are to be removed.
LEMMA NsFollowsTold ==
    ASSUME NsBase, NsFollows, NEW s \in NsServers, NEW command, command # "BURST", NsReads(s, command), NEW cs,
           NsDying(s)' = NsDying(s) \cup cs, \A t \in NsServers : t # s => NsDying(t)' = NsDying(t),
           NEW L, NsSays(s, L), NsTold(s, L), \A i \in 1 .. Len(L) : NsPlain(L[i]),
           UNCHANGED <<ns_nick, ns_reg, ns_new, ns_up, ns_link, ns_hasty>>,
           NEW l, l = NsLine(s),
           NsAnswers(s, l, cs, L)
    PROVE  NsFollows'
  <1>0. PICK r \in NsServers : r = NsOther(s)
    BY NsPeers
  <1>1. r # s /\ NsOther(r) = s /\ \A t \in NsServers : t = s \/ t = r
    BY <1>0, NsPeers
  <1>2. ns_wire \in [NsServers -> Seq(NsLines)]
    BY NsTypes DEF NsBase
  <1>3. SUFFICES ASSUME NEW h \in NsServers, ns_link = "up", ns_up[h]
                 PROVE  NsHears(h)' /\ NsHeeds(h)'
    BY DEF NsFollows
  <1>4. NsHears(h) /\ NsHeeds(h)
    BY <1>3 DEF NsFollows
  <1>5. NsNow(h)' = NsNow(h)
    BY DEF NsNow, NsLocal
  <1>6. NsDying(r)' = NsDying(r)
    BY <1>1
  <1>7. /\ ns_wire'[s] = ns_wire[s] \o L /\ ns_wire'[r] = Tail(ns_wire[r]) /\ l = ns_wire[r][1] /\ ns_wire[r] # <<>>
        /\ L \in Seq(NsLines)
    <2>1. ns_up[s] /\ ns_wire[r] # <<>> /\ l = ns_wire[r][1]
      BY <1>0, NsReadLine
    <2>2. ns_wire'[s] = ns_wire[s] \o L /\ ns_wire'[r] = Tail(ns_wire[r])
      BY <1>0, <1>3, NsToldType
    <2> QED BY <2>1, <2>2 DEF NsSays
  <1>8. CASE h = s
    <2>2. PICK P : /\ NsFits(P, ns_wire[s], NsNow(s))
                   /\ \A c \in NsClients : NsLocal(s, c) =>
                         NsTale(c, ns_wire[s], P, ns_nick[s], ns_nick[NsOther(s)], ns_reg, ns_new, ns_hasty,
                                NsDying(s), NsDying(NsOther(s)))
      BY <1>4, <1>8 DEF NsHears
    <2>3. PICK R : NsFits(R, L, NsNow(s)) /\ R[0] = NsNow(s) /\ \A k \in 0 .. Len(L) : R[k] = NsNow(s)
      BY <1>7, NsFitsStill, NsNowViews
    <2>4. P[Len(ns_wire[s])] = NsNow(s)
      BY <2>2 DEF NsFits
    <2>5. ASSUME NEW c \in NsClients, NsLocal(s, c)
          PROVE  NsTale(c, ns_wire[s] \o L, NsJoin(P, ns_wire[s], R, L), ns_nick'[s], ns_nick'[NsOther(s)], ns_reg', ns_new',
                        ns_hasty', NsDying(s)', NsDying(NsOther(s))')
      <3>1. NsTale(c, ns_wire[s], P, ns_nick[s], ns_nick[r], ns_reg, ns_new, ns_hasty, NsDying(s), NsDying(r))
        BY <1>0, <2>2, <2>5
      <3>2. \A k \in 1 .. Len(L) : ~NsIntros(L[k], c)
        BY NsIsOne DEF NsPlain, NsIntros
      <3>3. PICK mine, theirs, hd, hd2, rd, w : mine = ns_nick[s] /\ theirs = ns_nick[r] /\ hd = NsDying(s) /\ hd2 = NsDying(s)'
                /\ rd = NsDying(r) /\ w = ns_wire[s]
        OBVIOUS
      <3>4. c \in hd => c \in hd2
        BY <3>3
      <3>5. \A k \in 1 .. Len(L) : L[k] = <<"KILL", mine[c]>> /\ c \in ns_reg => c \in ns_hasty \cup hd2
        BY <2>5, <3>3 DEF NsAnswers
      <3>6. R[0] = P[Len(w)] /\ \A k \in 0 .. Len(L) : R[k][c] = P[Len(w)][c]
        BY <2>3, <2>4, <3>3
      <3>7. NsTale(c, w \o L, NsJoin(P, w, R, L), mine, theirs, ns_reg, ns_new, ns_hasty, hd2, rd)
        <4>1. w \in Seq(NsLines) /\ L \in Seq(NsLines) /\ NsTale(c, w, P, mine, theirs, ns_reg, ns_new, ns_hasty, hd, rd)
          BY <1>2, <1>7, <3>1, <3>3
        <4> QED BY <3>2, <3>4, <3>5, <3>6, <4>1, NsTaleSame
      <3> QED BY <1>0, <1>6, <3>3, <3>7
    <2>6. NsHears(s)'
      BY <1>2, <1>5, <1>7, <1>8, <2>2, <2>3, <2>5, NsHearsSaid
    <2>7. ASSUME NEW c \in NsClients, NsLocal(s, c)
          PROVE  NsReached(c, ns_wire'[s], ns_wire'[r], ns_nick[s], ns_nick[r], ns_reg, ns_hasty, NsDying(s)', NsDying(r)')
      <3>1. NsReached(c, ns_wire[s], ns_wire[r], ns_nick[s], ns_nick[r], ns_reg, ns_hasty, NsDying(s), NsDying(r))
        BY <1>0, <1>4, <1>8, <2>7 DEF NsHeeds
      <3>2. \A k : NsOn(k, ns_wire[s]) => NsOn(k, ns_wire'[s])
        BY <1>2, <1>7, NsOnMore
      <3>3. \A k : NsOn(k, ns_wire[r]) => NsOn(k, ns_wire'[r]) \/ k = l
        <4>1. <<>> \in Seq(NsLines)
          OBVIOUS
        <4> QED BY <1>2, <1>7, <4>1, NsOnMore
      <3>4. NsOn(<<"KILL", ns_nick[s][c]>>, ns_wire[r]) => NsOn(<<"KILL", ns_nick[s][c]>>, ns_wire'[r]) \/ c \in NsDying(s)'
        BY <2>7, <3>3 DEF NsAnswers
      <3> QED BY <1>6, <3>1, <3>2, <3>4 DEF NsReached
    <2>8. NsHeeds(s)'
      BY <1>0, <2>7 DEF NsHeeds
    <2> QED BY <1>8, <2>6, <2>8
  <1>9. CASE h = r
    <2>1. PICK P : /\ NsFits(P, ns_wire[r], NsNow(r))
                   /\ \A c \in NsClients : NsLocal(r, c) =>
                         NsTale(c, ns_wire[r], P, ns_nick[r], ns_nick[NsOther(r)], ns_reg, ns_new, ns_hasty,
                                NsDying(r), NsDying(NsOther(r)))
      BY <1>4, <1>9 DEF NsHears
    <2>2. PICK a \in NsViews, b \in NsViews : a = P[0] /\ b = P[1] /\ NsOneName(a) /\ NsOneName(b) /\ NsExplains(l, a, b)
      BY <1>2, <1>7, <2>1, NsFirst
    <2>3. ASSUME NEW c \in NsClients, NsLocal(r, c)
          PROVE  /\ NsTale(c, ns_wire[r], P, ns_nick[r], ns_nick[s], ns_reg, ns_new, ns_hasty, NsDying(r), NsDying(s))
                 /\ ns_nick[s][c] # NsAbsent /\ c \notin NsDying(s)' => ns_nick[s][c] = P[1][c]
      <3>1. NsTale(c, ns_wire[r], P, ns_nick[r], ns_nick[s], ns_reg, ns_new, ns_hasty, NsDying(r), NsDying(s))
        BY <1>1, <2>1, <2>3
      <3>2. ASSUME ns_nick[s][c] # NsAbsent, c \notin NsDying(s)'
            PROVE  ns_nick[s][c] = P[1][c]
        <4>1. ns_nick[s][c] = a[c] /\ c \notin cs
          BY <2>2, <3>1, <3>2 DEF NsTale
        <4>2. ~NsLocal(s, c)
          BY <1>0, <2>3, NsHomes
        <4> QED BY <2>2, <3>2, <4>1, <4>2 DEF NsAnswers
      <3> QED BY <3>1, <3>2
    <2>4. NsHears(r)'
      BY <1>1, <1>2, <1>6, <1>7, <2>1, <2>3, NsHearsRead
    <2>5. ASSUME NEW c \in NsClients, NsLocal(r, c)
          PROVE  NsReached(c, ns_wire'[r], ns_wire'[s], ns_nick[r], ns_nick[s], ns_reg, ns_hasty, NsDying(r)', NsDying(s)')
      <3>1. NsReached(c, ns_wire[r], ns_wire[s], ns_nick[r], ns_nick[s], ns_reg, ns_hasty, NsDying(r), NsDying(s))
        BY <1>1, <1>4, <1>9, <2>5 DEF NsHeeds
      <3>2. \A k : (NsOn(k, ns_wire[s]) => NsOn(k, ns_wire'[s])) /\ (NsOn(k, L) => NsOn(k, ns_wire'[s]))
        BY <1>2, <1>7, NsOnMore
      <3>3. \A k : NsOn(k, ns_wire[r]) => NsOn(k, ns_wire'[r]) \/ k = l
        <4>1. <<>> \in Seq(NsLines)
          OBVIOUS
        <4> QED BY <1>2, <1>7, <4>1, NsOnMore
      <3>4. ~NsLocal(s, c)
        BY <1>0, <2>5, NsHomes
      <3>5. l = <<"INTRO", c, ns_nick[r][c]>> => NsOn(<<"KILL", ns_nick[r][c]>>, ns_wire'[s])
        BY <1>0, <3>2, <3>4 DEF NsAnswers
      <3>6. ASSUME c \in ns_reg \ (ns_hasty \cup NsDying(r)), ns_nick[s][c] # NsAbsent, c \notin NsDying(s), c \in cs
            PROVE  NsOn(<<"KILL", ns_nick[r][c]>>, ns_wire'[s])
        <4>1. NsTale(c, ns_wire[r], P, ns_nick[r], ns_nick[s], ns_reg, ns_new, ns_hasty, NsDying(r), NsDying(s))
          BY <2>3, <2>5
        <4>2. ns_nick[s][c] = a[c] /\ ns_nick[s][c] = ns_nick[r][c]
          BY <1>1, <1>4, <1>9, <2>2, <2>5, <3>6, <4>1, NsKnown DEF NsTale
        <4>3. Len(ns_wire[r]) \in Nat /\ Len(ns_wire[r]) > 0
          BY <1>2, <1>7
        <4>4. b[c] # NsAbsent
          <5>1. 0 \in 0 .. Len(ns_wire[r]) /\ 1 \in 0 .. Len(ns_wire[r])
            BY <4>3
          <5>2. \A i \in 0 .. Len(ns_wire[r]) : \A k \in i .. Len(ns_wire[r]) : P[i][c] # NsAbsent => P[k][c] # NsAbsent
            BY <3>6, <4>1 DEF NsTale
          <5> QED BY <2>2, <3>6, <4>2, <4>3, <5>1, <5>2
        <4>5. l = <<"KILL", ns_nick[r][c]>> => b[c] = NsAbsent
          <5>1. 1 \in 1 .. Len(ns_wire[r])
            BY <4>3
          <5>2. \A i \in 1 .. Len(ns_wire[r]) : ns_wire[r][i] = <<"KILL", ns_nick[r][c]>> => P[i][c] = NsAbsent
            BY <3>6, <4>1 DEF NsTale
          <5> QED BY <1>7, <2>2, <5>1, <5>2
        <4>6. NsOn(<<"KILL", ns_nick[s][c]>>, L)
          BY <1>0, <2>2, <3>4, <3>6, <4>2, <4>4, <4>5 DEF NsAnswers
        <4> QED BY <3>2, <4>2, <4>6
      <3> QED BY <1>6, <3>1, <3>2, <3>3, <3>5, <3>6 DEF NsReached
    <2>6. NsHeeds(r)'
      BY <1>1, <2>5 DEF NsHeeds
    <2> QED BY <1>9, <2>4, <2>6
  <1> QED BY <1>1, <1>8, <1>9

\* The same, where nothing is answered.
LEMMA NsFollowsHeard ==
    ASSUME NsBase, NsFollows, NEW s \in NsServers, NEW command, command # "BURST", NsReads(s, command), NEW cs,
           NsDying(s)' = NsDying(s) \cup cs, \A t \in NsServers : t # s => NsDying(t)' = NsDying(t),
           ns_wire' = NsRead(s), command # "INTRO",
           UNCHANGED <<ns_nick, ns_reg, ns_new, ns_up, ns_link, ns_hasty>>,
           NEW l, l = NsLine(s),
           \A c \in NsClients : NsLocal(s, c) /\ l = <<"KILL", ns_nick[s][c]>> => c \in cs,
           \A a, b \in NsViews : NsOneName(a) /\ NsOneName(b) /\ NsExplains(l, a, b) =>
              \A c \in NsClients : ~NsLocal(s, c) /\ ns_nick[s][c] # NsAbsent /\ ns_nick[s][c] = a[c] =>
                 /\ c \notin cs => b[c] = a[c]
                 /\ c \in cs /\ (l = <<"KILL", ns_nick[s][c]>> => b[c] = NsAbsent) => b[c] = NsAbsent
    PROVE  NsFollows'
  <1>1. PICK L : L = <<>> /\ Len(L) = 0
    OBVIOUS
  <1>2. NsTold(s, L) /\ NsSays(s, L)
    BY <1>1, NsReadIsTold
  <1>3. \A i \in 1 .. Len(L) : FALSE
    BY <1>1
  <1>4. NsIs(l, command)
    BY NsReadLine
  <1>5. \A c, n : l # <<"INTRO", c, n>>
    <2>1. ASSUME NEW c, NEW n, l = <<"INTRO", c, n>> PROVE FALSE
      <3>1. l[1] = "INTRO"
        BY <2>1
      <3> QED BY <1>4, <3>1 DEF NsIs
    <2> QED BY <2>1
  <1>6. ASSUME NEW a \in NsViews, NEW b \in NsViews, NsOneName(a), NsOneName(b), NsExplains(l, a, b),
               NEW c \in NsClients, ~NsLocal(s, c), ns_nick[s][c] # NsAbsent, ns_nick[s][c] = a[c]
        PROVE  /\ c \notin cs => b[c] = a[c]
               /\ ~(c \in cs /\ b[c] # NsAbsent /\ (l = <<"KILL", ns_nick[s][c]>> => b[c] = NsAbsent))
    BY <1>6
  <1>7. NsAnswers(s, l, cs, L)
    BY <1>3, <1>5, <1>6 DEF NsAnswers
  <1> QED BY <1>2, <1>3, <1>7, NsFollowsTold

LEMMA NsExplained ==
    ASSUME NEW l \in NsLines, NEW a \in NsViews, NEW b \in NsViews, NsOneName(a), NsExplains(l, a, b), NEW c \in NsClients,
           a[c] # NsAbsent
    PROVE  /\ NsIs(l, "INTRO") => b[c] = a[c]
           /\ NsPlain(l) => b[c] = a[c]
           /\ NsIs(l, "QUIT") => b[c] = IF a[c] = l[2] THEN NsAbsent ELSE a[c]
           /\ NsIs(l, "NICK") => b[c] = IF a[c] = l[2] THEN l[3] ELSE a[c]
  <1>1. /\ a = [d \in NsClients |-> a[d]] /\ DOMAIN a = NsClients
    BY DEF NsViews
  <1>2. ASSUME NsIs(l, "INTRO") PROVE b[c] = a[c]
    <2>1. a[l[2]] = NsAbsent /\ b = [a EXCEPT ![l[2]] = l[3]]
      BY <1>2 DEF NsExplains
    <2> QED BY <1>1, <2>1
  <1>3. ASSUME NsPlain(l) PROVE b[c] = a[c]
    BY <1>3 DEF NsExplains, NsPlain
  <1>4. ASSUME NsIs(l, "QUIT") PROVE b[c] = IF a[c] = l[2] THEN NsAbsent ELSE a[c]
    <2>1. PICK d \in NsClients : a[d] = l[2] /\ b = [a EXCEPT ![d] = NsAbsent]
      BY <1>4 DEF NsExplains
    <2>2. a[c] = a[d] => c = d
      BY DEF NsOneName
    <2> QED BY <1>1, <2>1, <2>2
  <1>5. ASSUME NsIs(l, "NICK") PROVE b[c] = IF a[c] = l[2] THEN l[3] ELSE a[c]
    <2>1. PICK d \in NsClients : a[d] = l[2] /\ b = [a EXCEPT ![d] = l[3]]
      BY <1>5 DEF NsExplains
    <2>2. a[c] = a[d] => c = d
      BY DEF NsOneName
    <2> QED BY <1>1, <2>1, <2>2
  <1> QED BY <1>2, <1>3, <1>4, <1>5

LEMMA NsNoKill ==
    ASSUME NEW l, NEW command, NsIs(l, command), command # "KILL"
    PROVE  \A n : l # <<"KILL", n>>
  <1>1. ASSUME NEW n, l = <<"KILL", n>> PROVE FALSE
    <2>1. l[1] = "KILL"
      BY <1>1
    <2> QED BY <2>1 DEF NsIs
  <1> QED BY <1>1

LEMMA NsFollowsReadQuit ==
    ASSUME NsBase, NsFollows, NEW s \in NsServers, NsReadQuit(s)
    PROVE  NsFollows'
  <1>1. PICK l \in NsLines : l = NsLine(s) /\ NsIs(l, "QUIT")
    BY NsReadLine DEF NsReadQuit
  <1>2. PICK n \in NsNicks : n = l[2]
    BY <1>1, NsLineType DEF NsIs
  <1>3. /\ NsReads(s, "QUIT") /\ ns_wire' = NsRead(s) /\ NsQueue(s, NsSender(s, n))
        /\ UNCHANGED <<ns_nick, ns_reg, ns_new, ns_up, ns_link, ns_left, ns_hasty>>
    BY <1>1, <1>2 DEF NsReadQuit
  <1>4. NickSyncTypeOK
    BY DEF NsBase
  <1>5. PICK cs : cs = NsSender(s, n)
    OBVIOUS
  <1>6. cs \subseteq NsClients /\ \A c \in NsClients : ~NsLocal(s, c) => (c \in cs <=> ns_nick[s][c] = n)
    BY <1>5 DEF NsSender, NsFind
  <1>7. NsDying(s)' = NsDying(s) \cup cs /\ \A t \in NsServers : t # s => NsDying(t)' = NsDying(t)
    BY <1>3, <1>4, <1>5, <1>6, NsTypes, NsQueued
  <1>8. \A k : l # <<"KILL", k>>
    BY <1>1, NsNoKill
  <1>9. ASSUME NEW a \in NsViews, NEW b \in NsViews, NsOneName(a), NsOneName(b), NsExplains(l, a, b),
               NEW c \in NsClients, ~NsLocal(s, c), ns_nick[s][c] # NsAbsent, ns_nick[s][c] = a[c]
        PROVE  (c \notin cs => b[c] = a[c]) /\ (c \in cs => b[c] = NsAbsent)
    <2>1. b[c] = IF a[c] = n THEN NsAbsent ELSE a[c]
      BY <1>1, <1>2, <1>9, NsExplained
    <2> QED BY <1>6, <1>9, <2>1
  <1> QED BY <1>1, <1>3, <1>7, <1>8, <1>9, NsFollowsHeard

LEMMA NsFollowsReadKill ==
    ASSUME NsBase, NsFollows, NEW s \in NsServers, NsReadKill(s)
    PROVE  NsFollows'
  <1>1. PICK l \in NsLines : l = NsLine(s) /\ NsIs(l, "KILL")
    BY NsReadLine DEF NsReadKill
  <1>2. PICK n \in NsNicks : n = l[2] /\ l = <<"KILL", n>>
    BY <1>1, NsLineType DEF NsIs
  <1>3. /\ NsReads(s, "KILL") /\ ns_wire' = NsRead(s) /\ NsQueue(s, NsFind(s, n))
        /\ UNCHANGED <<ns_nick, ns_reg, ns_new, ns_up, ns_link, ns_left, ns_hasty>>
    BY <1>1, <1>2 DEF NsReadKill
  <1>4. NickSyncTypeOK
    BY DEF NsBase
  <1>5. PICK cs : cs = NsFind(s, n)
    OBVIOUS
  <1>6. cs \subseteq NsClients /\ \A c \in NsClients : c \in cs <=> ns_nick[s][c] = n
    BY <1>5 DEF NsFind
  <1>7. NsDying(s)' = NsDying(s) \cup cs /\ \A t \in NsServers : t # s => NsDying(t)' = NsDying(t)
    BY <1>3, <1>4, <1>5, <1>6, NsTypes, NsQueued
  <1>8. \A k : l = <<"KILL", k>> <=> k = n
    BY <1>2, NsPlainLines
  <1>9. ASSUME NEW a \in NsViews, NEW b \in NsViews, NsOneName(a), NsOneName(b), NsExplains(l, a, b),
               NEW c \in NsClients, ~NsLocal(s, c), ns_nick[s][c] # NsAbsent, ns_nick[s][c] = a[c]
        PROVE  (c \notin cs => b[c] = a[c]) /\ (c \in cs => l = <<"KILL", ns_nick[s][c]>>)
    <2>1. b[c] = a[c]
      BY <1>1, <1>9, NsExplained DEF NsPlain
    <2> QED BY <1>6, <1>8, <2>1
  <1>10. \A c \in NsClients : NsLocal(s, c) /\ l = <<"KILL", ns_nick[s][c]>> => c \in cs
    BY <1>6, <1>8
  <1> QED BY <1>1, <1>3, <1>7, <1>9, <1>10, NsFollowsHeard

\* s has read a line that says which nickname a client of the other server has.
LEMMA NsFollowsRecord ==
    ASSUME NsBase, NsFollows, NEW s \in NsServers, NEW command, command \notin {"BURST", "KILL"}, NsReads(s, command),
           ns_wire' = NsRead(s), UNCHANGED <<ns_culls, ns_reg, ns_new, ns_up, ns_link, ns_hasty>>,
           \A t \in NsServers : t # s => ns_nick'[t] = ns_nick[t],
           \A c \in NsClients : NsLocal(s, c) => ns_nick'[s][c] = ns_nick[s][c],
           NEW l, l = NsLine(s),
           \A c \in NsClients : ~NsLocal(s, c) /\ ns_nick[s][c] # NsAbsent => ns_nick'[s][c] # NsAbsent,
           \A c \in NsClients : ~NsLocal(s, c) /\ l = <<"INTRO", c, ns_nick[NsOther(s)][c]>> =>
              ns_nick'[s][c] # NsAbsent /\ (ns_nick[s][c] = NsAbsent => c \notin NsDying(s)),
           \A a, b \in NsViews : NsOneName(a) /\ NsOneName(b) /\ NsExplains(l, a, b) =>
              \A c \in NsClients : ~NsLocal(s, c) /\ ns_nick'[s][c] # NsAbsent =>
                 /\ c \notin NsDying(s) /\ (ns_nick[s][c] # NsAbsent => ns_nick[s][c] = a[c]) => ns_nick'[s][c] = b[c]
                 /\ ns_nick[s][c] # NsAbsent \/ b[c] # NsAbsent
    PROVE  NsFollows'
  <1>0. PICK r \in NsServers : r = NsOther(s)
    BY NsPeers
  <1>1. r # s /\ NsOther(r) = s /\ \A t \in NsServers : t = s \/ t = r
    BY <1>0, NsPeers
  <1>2. ns_wire \in [NsServers -> Seq(NsLines)]
    BY NsTypes DEF NsBase
  <1>3. SUFFICES ASSUME NEW h \in NsServers, ns_link = "up", ns_up[h]
                 PROVE  NsHears(h)' /\ NsHeeds(h)'
    BY DEF NsFollows
  <1>4. NsHears(h) /\ NsHeeds(h)
    BY <1>3 DEF NsFollows
  <1>5. \A t \in NsServers : NsDying(t)' = NsDying(t)
    BY DEF NsDying
  <1>6. ns_nick'[r] = ns_nick[r]
    BY <1>1
  <1>7. NsNow(h)' = NsNow(h)
    BY <1>1, <1>6 DEF NsNow, NsLocal
  <1>8. ns_wire'[s] = ns_wire[s] /\ ns_wire'[r] = Tail(ns_wire[r]) /\ l = ns_wire[r][1] /\ ns_wire[r] # <<>> /\ NsIs(l, command)
    <2>1. ns_wire[r] # <<>> /\ l = ns_wire[r][1] /\ NsIs(l, command)
      BY <1>0, NsReadLine
    <2>2. ns_wire'[s] = ns_wire[s] /\ ns_wire'[r] = Tail(ns_wire[r])
      BY <1>0, <1>1, <1>2, <2>1, NsReadFrom
    <2> QED BY <2>1, <2>2
  <1>9. \A k : NsOn(k, ns_wire[r]) => NsOn(k, ns_wire'[r]) \/ k = l
    <2>1. <<>> \in Seq(NsLines)
      OBVIOUS
    <2> QED BY <1>2, <1>8, <2>1, NsOnMore
  <1>10. CASE h = s
    <2>1. NsHears(s)'
      BY <1>0, <1>4, <1>5, <1>6, <1>7, <1>8, <1>10, NsHearsStill
    <2>2. ASSUME NEW c \in NsClients, NsLocal(s, c)
          PROVE  NsReached(c, ns_wire'[s], ns_wire'[r], ns_nick'[s], ns_nick'[r], ns_reg, ns_hasty, NsDying(s)', NsDying(r)')
      <3>1. NsReached(c, ns_wire[s], ns_wire[r], ns_nick[s], ns_nick[r], ns_reg, ns_hasty, NsDying(s), NsDying(r))
        BY <1>0, <1>4, <1>10, <2>2 DEF NsHeeds
      <3>2. \A n : l # <<"KILL", n>>
        BY <1>8, NsNoKill
      <3>3. ns_nick'[s][c] = ns_nick[s][c]
        BY <2>2
      <3>4. NsOn(<<"KILL", ns_nick[s][c]>>, ns_wire[r]) => NsOn(<<"KILL", ns_nick[s][c]>>, ns_wire'[r])
        BY <1>9, <3>2
      <3> QED BY <1>5, <1>6, <1>8, <3>1, <3>3, <3>4 DEF NsReached
    <2>3. NsHeeds(s)'
      BY <1>0, <2>2 DEF NsHeeds
    <2> QED BY <1>10, <2>1, <2>3
  <1>11. CASE h = r
    <2>1. PICK P : /\ NsFits(P, ns_wire[r], NsNow(r))
                   /\ \A c \in NsClients : NsLocal(r, c) =>
                         NsTale(c, ns_wire[r], P, ns_nick[r], ns_nick[NsOther(r)], ns_reg, ns_new, ns_hasty,
                                NsDying(r), NsDying(NsOther(r)))
      BY <1>4, <1>11 DEF NsHears
    <2>2. PICK a \in NsViews, b \in NsViews : a = P[0] /\ b = P[1] /\ NsOneName(a) /\ NsOneName(b) /\ NsExplains(l, a, b)
      BY <1>2, <1>8, <2>1, NsFirst
    <2>3. ASSUME NEW c \in NsClients, NsLocal(r, c)
          PROVE  /\ NsTale(c, ns_wire[r], P, ns_nick[r], ns_nick[s], ns_reg, ns_new, ns_hasty, NsDying(r), NsDying(s))
                 /\ ns_nick'[s][c] # NsAbsent /\ c \notin NsDying(s)' => ns_nick'[s][c] = P[1][c]
                 /\ ns_nick'[s][c] # NsAbsent => ns_nick[s][c] # NsAbsent \/ P[1][c] # NsAbsent
      <3>1. NsTale(c, ns_wire[r], P, ns_nick[r], ns_nick[s], ns_reg, ns_new, ns_hasty, NsDying(r), NsDying(s))
        BY <1>1, <2>1, <2>3
      <3>2. ~NsLocal(s, c)
        BY <1>0, <2>3, NsHomes
      <3>3. ns_nick[s][c] # NsAbsent /\ c \notin NsDying(s) => ns_nick[s][c] = a[c]
        BY <2>2, <3>1 DEF NsTale
      <3>4. ASSUME ns_nick'[s][c] # NsAbsent
            PROVE  (c \notin NsDying(s) => ns_nick'[s][c] = b[c]) /\ (ns_nick[s][c] # NsAbsent \/ b[c] # NsAbsent)
        BY <2>2, <3>2, <3>3, <3>4
      <3> QED BY <1>5, <2>2, <3>1, <3>4
    <2>4. NsHears(r)'
      <3>1. /\ ns_wire[r] \in Seq(NsLines) /\ ns_wire[r] # <<>> /\ ns_wire'[r] = Tail(ns_wire[r])
            /\ ns_nick'[r] = ns_nick[r] /\ NsDying(r)' = NsDying(r) /\ NsFits(P, ns_wire[r], NsNow(r))
        BY <1>2, <1>5, <1>6, <1>8, <2>1
      <3> QED BY <1>1, <2>3, <3>1, NsHearsRead
    <2>5. ASSUME NEW c \in NsClients, NsLocal(r, c)
          PROVE  NsReached(c, ns_wire'[r], ns_wire'[s], ns_nick'[r], ns_nick'[s], ns_reg, ns_hasty, NsDying(r)', NsDying(s)')
      <3>1. NsReached(c, ns_wire[r], ns_wire[s], ns_nick[r], ns_nick[s], ns_reg, ns_hasty, NsDying(r), NsDying(s))
        BY <1>1, <1>4, <1>11, <2>5 DEF NsHeeds
      <3>2. ~NsLocal(s, c)
        BY <1>0, <2>5, NsHomes
      <3>3. ns_nick[s][c] # NsAbsent => ns_nick'[s][c] # NsAbsent
        BY <3>2
      <3>4. ASSUME l = <<"INTRO", c, ns_nick[r][c]>>
            PROVE  ns_nick'[s][c] # NsAbsent /\ c \notin NsDying(s)
        <4>1. NsIntros(l, c)
          BY <3>4, NsIntroMade DEF NsIntros
        <4>2. 1 \in 1 .. Len(ns_wire[r])
          <5>1. ns_wire[r] \in Seq(NsLines)
            BY <1>2
          <5> QED BY <1>8, <5>1
        <4>3. NsTale(c, ns_wire[r], P, ns_nick[r], ns_nick[s], ns_reg, ns_new, ns_hasty, NsDying(r), NsDying(s))
          BY <2>3, <2>5
        <4>4. ns_nick[s][c] = NsAbsent
          BY <1>8, <4>1, <4>2, <4>3 DEF NsTale
        <4> QED BY <1>0, <3>2, <3>4, <4>4
      <3> QED BY <1>5, <1>6, <1>8, <1>9, <3>1, <3>3, <3>4 DEF NsReached
    <2>6. NsHeeds(r)'
      BY <1>1, <2>5 DEF NsHeeds
    <2> QED BY <1>11, <2>4, <2>6
  <1> QED BY <1>1, <1>10, <1>11

LEMMA NsFollowsIntroduce ==
    ASSUME NsBase, NsFollows, NEW s \in NsServers, NsIntroduce(s)
    PROVE  NsFollows'
  <1>1. PICK l \in NsLines : l = NsLine(s) /\ NsIs(l, "INTRO") /\ NsOwn(NsOther(s), l)
    BY NsReadLine DEF NsIntroduce
  <1>2. PICK c \in NsClients, n \in NsNicks : c = l[2] /\ n = l[3] /\ l = <<"INTRO", c, n>>
    BY <1>1, NsLineType DEF NsIs
  <1>3. NsReads(s, "INTRO") /\ UNCHANGED <<ns_reg, ns_new, ns_up, ns_link, ns_left, ns_hasty>>
    BY DEF NsIntroduce
  <1>4. NickSyncTypeOK /\ ~NsLocal(s, c)
    BY <1>1, <1>2, NsHomes DEF NsBase, NsOwn
  <1>5. \A d, m : l = <<"INTRO", d, m>> => d = c /\ m = n
    BY <1>2
  <1>6. ASSUME NEW a \in NsViews, NEW b \in NsViews, NsExplains(l, a, b)
        PROVE  a[c] = NsAbsent /\ b[c] = n /\ \A d \in NsClients : d # c => b[d] = a[d]
    <2>1. a[c] = NsAbsent /\ b = [a EXCEPT ![c] = n]
      BY <1>1, <1>2, <1>6 DEF NsExplains
    <2> QED BY <2>1 DEF NsViews
  <1>7. CASE NsFind(s, n) # {}
    <2>1. NsTold(s, <<<<"KILL", n>>>>) /\ NsQueue(s, NsFind(s, n)) /\ UNCHANGED ns_nick
      BY <1>1, <1>2, <1>7 DEF NsIntroduce
    <2>2. PICK k \in NsLines : k = <<"KILL", n>>
      BY NsLineType
    <2>3. PICK L : L = <<k>>
      OBVIOUS
    <2>4. NsSays(s, L) /\ NsTold(s, L)
      BY <1>2, <2>1, <2>2, <2>3, NsSaysOne
    <2>5. NsOn(k, L) /\ \A i \in 1 .. Len(L) : L[i] = k
      <3>1. \A i \in 1 .. Len(L) : L[i] = k
        BY <2>3
      <3> QED BY <2>3, <3>1, NsOnFew, Zenon
    <2>6. PICK cs : cs = NsFind(s, n)
      OBVIOUS
    <2>7. cs \subseteq NsClients /\ \A d \in NsClients : d \in cs <=> ns_nick[s][d] = n
      BY <2>6 DEF NsFind
    <2>8. NsDying(s)' = NsDying(s) \cup cs /\ \A t \in NsServers : t # s => NsDying(t)' = NsDying(t)
      BY <1>4, <2>1, <2>6, <2>7, NsTypes, NsQueued
    <2>9. NsPlain(k) /\ \A m : k = <<"KILL", m>> <=> m = n
      BY <2>2, NsPlainLines
    <2>10. \A m : l # <<"KILL", m>>
      BY <1>1, NsNoKill
    <2>11. ASSUME NEW d \in NsClients
           PROVE  /\ \A i \in 1 .. Len(L) : L[i] = <<"KILL", ns_nick[s][d]>> => d \in cs
                  /\ l # <<"KILL", ns_nick[s][d]>>
                  /\ l = <<"INTRO", d, ns_nick[NsOther(s)][d]>> => NsOn(<<"KILL", ns_nick[NsOther(s)][d]>>, L)
      BY <1>5, <2>5, <2>7, <2>9, <2>10
    <2>12. ASSUME NEW a \in NsViews, NEW b \in NsViews, NsOneName(a), NsOneName(b), NsExplains(l, a, b),
                  NEW d \in NsClients, ~NsLocal(s, d), ns_nick[s][d] # NsAbsent, ns_nick[s][d] = a[d]
           PROVE  /\ d \notin cs => b[d] = a[d]
                  /\ d \in cs => NsOn(<<"KILL", ns_nick[s][d]>>, L)
      BY <1>6, <2>5, <2>7, <2>9, <2>12
    <2>13. \A i \in 1 .. Len(L) : NsPlain(L[i])
      BY <2>5, <2>9
    <2>14. UNCHANGED <<ns_nick, ns_reg, ns_new, ns_up, ns_link, ns_hasty>>
      BY <1>3, <2>1
    <2>15. NsAnswers(s, l, cs, L)
      BY <2>11, <2>12 DEF NsAnswers
    <2> QED BY <1>1, <1>3, <2>4, <2>8, <2>13, <2>14, <2>15, NsFollowsTold
  <1>8. CASE NsFind(s, n) = {}
    <2>1. ns_wire' = NsRead(s) /\ ns_nick' = [ns_nick EXCEPT ![s][c] = n] /\ UNCHANGED ns_culls
      BY <1>1, <1>2, <1>8 DEF NsIntroduce
    <2>2. /\ ns_nick \in [NsServers -> [NsClients -> NsNicks \cup {NsNoNick, NsAbsent}]]
          /\ NsAbsent \notin NsNicks
      BY <1>4, NsTypes
    <2>3. /\ ns_nick'[s][c] = n /\ \A d \in NsClients : d # c => ns_nick'[s][d] = ns_nick[s][d]
          /\ \A t \in NsServers : t # s => ns_nick'[t] = ns_nick[t]
      BY <2>1, <2>2
    <2>4. \A d \in NsClients : NsLocal(s, d) => ns_nick'[s][d] = ns_nick[s][d]
      BY <1>4, <2>3
    <2>5. \A d \in NsClients : ns_nick[s][d] # NsAbsent => ns_nick'[s][d] # NsAbsent
      BY <2>2, <2>3
    <2>6. ASSUME NEW d \in NsClients, l = <<"INTRO", d, ns_nick[NsOther(s)][d]>>
          PROVE  ns_nick'[s][d] # NsAbsent /\ (ns_nick[s][d] = NsAbsent => d \notin NsDying(s))
      <3>1. d = c
        BY <1>5, <2>6
      <3>2. ns_nick[s][d] = NsAbsent => d \notin NsDying(s)
        BY DEF NsBase, NsRecords
      <3> QED BY <2>2, <2>3, <3>1, <3>2
    <2>7. ASSUME NEW a \in NsViews, NEW b \in NsViews, NsOneName(a), NsOneName(b), NsExplains(l, a, b),
                 NEW d \in NsClients, ~NsLocal(s, d), ns_nick'[s][d] # NsAbsent
          PROVE  /\ (ns_nick[s][d] # NsAbsent => ns_nick[s][d] = a[d]) => ns_nick'[s][d] = b[d]
                 /\ ns_nick[s][d] # NsAbsent \/ b[d] # NsAbsent
      <3>1. CASE d = c
        BY <1>6, <2>2, <2>3, <2>7, <3>1
      <3>2. CASE d # c
        BY <1>6, <2>3, <2>7, <3>2
      <3> QED BY <3>1, <3>2
    <2>8. UNCHANGED <<ns_culls, ns_reg, ns_new, ns_up, ns_link, ns_hasty>>
      BY <1>3, <2>1
    <2>9. \A d \in NsClients : ~NsLocal(s, d) /\ l = <<"INTRO", d, ns_nick[NsOther(s)][d]>> =>
              ns_nick'[s][d] # NsAbsent /\ (ns_nick[s][d] = NsAbsent => d \notin NsDying(s))
      BY <2>6
    <2>10. \A a, b \in NsViews : NsOneName(a) /\ NsOneName(b) /\ NsExplains(l, a, b) =>
              \A d \in NsClients : ~NsLocal(s, d) /\ ns_nick'[s][d] # NsAbsent =>
                 /\ d \notin NsDying(s) /\ (ns_nick[s][d] # NsAbsent => ns_nick[s][d] = a[d]) => ns_nick'[s][d] = b[d]
                 /\ ns_nick[s][d] # NsAbsent \/ b[d] # NsAbsent
      BY <2>7
    <2> QED BY <1>1, <1>3, <2>1, <2>3, <2>4, <2>5, <2>8, <2>9, <2>10, NsFollowsRecord
  <1> QED BY <1>7, <1>8

LEMMA NsFollowsReadNick ==
    ASSUME NsBase, NsFollows, NEW s \in NsServers, NsReadNick(s)
    PROVE  NsFollows'
  <1>1. PICK l \in NsLines : l = NsLine(s) /\ NsIs(l, "NICK")
    BY NsReadLine DEF NsReadNick
  <1>2. PICK old \in NsNicks, new \in NsNicks : old = l[2] /\ new = l[3]
    BY <1>1, NsLineType DEF NsIs
  <1>3. NsReads(s, "NICK") /\ UNCHANGED <<ns_reg, ns_new, ns_up, ns_link, ns_left>>
    BY DEF NsReadNick
  <1>4. NickSyncTypeOK
    BY DEF NsBase
  <1>5. \A k : l # <<"KILL", k>>
    BY <1>1, NsNoKill
  <1>6. ASSUME NEW a \in NsViews, NEW b \in NsViews, NsOneName(a), NsExplains(l, a, b),
               NEW c \in NsClients, a[c] # NsAbsent
        PROVE  b[c] = IF a[c] = old THEN new ELSE a[c]
    BY <1>1, <1>2, <1>6, NsExplained
  <1>7. \A c \in NsClients : ~NsLocal(s, c) => (c \in NsSender(s, old) <=> ns_nick[s][c] = old)
    BY DEF NsSender, NsFind
  <1>8. CASE NsSender(s, old) = {}
    <2>1. ns_wire' = NsRead(s) /\ UNCHANGED <<ns_culls, ns_nick, ns_hasty>>
      BY <1>1, <1>2, <1>8 DEF NsReadNick
    <2>2. PICK cs : cs = {}
      OBVIOUS
    <2>3. NsDying(s)' = NsDying(s) \cup cs /\ \A t \in NsServers : t # s => NsDying(t)' = NsDying(t)
      BY <2>1, <2>2 DEF NsDying
    <2>4. ASSUME NEW a \in NsViews, NEW b \in NsViews, NsOneName(a), NsOneName(b), NsExplains(l, a, b),
                 NEW c \in NsClients, ~NsLocal(s, c), ns_nick[s][c] # NsAbsent, ns_nick[s][c] = a[c]
          PROVE  b[c] = a[c] /\ c \notin cs
      BY <1>6, <1>7, <1>8, <2>2, <2>4
    <2>5. UNCHANGED <<ns_nick, ns_reg, ns_new, ns_up, ns_link, ns_hasty>>
      BY <1>3, <2>1
    <2> QED BY <1>1, <1>3, <1>5, <2>1, <2>3, <2>4, <2>5, NsFollowsHeard
  <1>9. CASE NsSender(s, old) # {} /\ NsFind(s, new) # {}
    <2>1. /\ NsTold(s, <<<<"KILL", new>>, <<"KILL", old>>>>) /\ NsQueue(s, NsFind(s, new) \cup NsSender(s, old))
          /\ UNCHANGED <<ns_nick, ns_hasty>>
      BY <1>1, <1>2, <1>9 DEF NsReadNick
    <2>2. PICK k \in NsLines, j \in NsLines : k = <<"KILL", new>> /\ j = <<"KILL", old>>
      BY NsLineType
    <2>3. PICK L : L = <<k, j>>
      OBVIOUS
    <2>4. NsSays(s, L) /\ NsTold(s, L)
      BY <1>2, <2>1, <2>2, <2>3, NsSaysOne
    <2>5. NsOn(k, L) /\ NsOn(j, L) /\ \A i \in 1 .. Len(L) : L[i] = k \/ L[i] = j
      <3>1. \A i \in 1 .. Len(L) : L[i] = k \/ L[i] = j
        BY <2>3
      <3> QED BY <2>3, <3>1, NsOnFew, Zenon
    <2>6. PICK cs : cs = NsFind(s, new) \cup NsSender(s, old)
      OBVIOUS
    <2>7. /\ cs \subseteq NsClients
          /\ \A c \in NsClients : ns_nick[s][c] = new \/ (ns_nick[s][c] = old /\ ~NsLocal(s, c)) <=> c \in cs
      BY <2>6 DEF NsSender, NsFind
    <2>8. NsDying(s)' = NsDying(s) \cup cs /\ \A t \in NsServers : t # s => NsDying(t)' = NsDying(t)
      BY <1>4, <2>1, <2>6, <2>7, NsTypes, NsQueued
    <2>9. NsPlain(k) /\ NsPlain(j) /\ (\A m : k = <<"KILL", m>> <=> m = new) /\ (\A m : j = <<"KILL", m>> <=> m = old)
      BY <2>2, NsPlainLines
    <2>10. \A c \in NsClients : NsLocal(s, c) => ns_nick[s][c] # old
      <3>1. PICK e \in NsClients : ns_nick[s][e] = old /\ ~NsLocal(s, e)
        BY <1>9 DEF NsSender, NsFind
      <3> QED BY <1>2, <1>4, <3>1 DEF NickSyncTypeOK
    <2>11. ASSUME NEW c \in NsClients, NsLocal(s, c)
           PROVE  /\ \A i \in 1 .. Len(L) : L[i] = <<"KILL", ns_nick[s][c]>> => c \in cs
                  /\ l # <<"KILL", ns_nick[s][c]>>
      BY <1>5, <2>5, <2>7, <2>9, <2>10, <2>11
    <2>12. ASSUME NEW a \in NsViews, NEW b \in NsViews, NsOneName(a), NsOneName(b), NsExplains(l, a, b),
                  NEW c \in NsClients, ~NsLocal(s, c), ns_nick[s][c] # NsAbsent, ns_nick[s][c] = a[c]
           PROVE  /\ c \notin cs => b[c] = a[c]
                  /\ c \in cs => NsOn(<<"KILL", ns_nick[s][c]>>, L)
      <3>1. c \notin cs => b[c] = a[c]
        BY <1>6, <2>7, <2>12
      <3>2. c \in cs => NsOn(<<"KILL", ns_nick[s][c]>>, L)
        BY <2>5, <2>7, <2>9, <2>12
      <3> QED BY <3>1, <3>2
    <2>13. \A i \in 1 .. Len(L) : NsPlain(L[i])
      BY <2>5, <2>9
    <2>14. UNCHANGED <<ns_nick, ns_reg, ns_new, ns_up, ns_link, ns_hasty>>
      BY <1>3, <2>1
    <2>15. \A c, n : l # <<"INTRO", c, n>>
      BY <1>1, NsIntroMade, NsIsOne
    <2>16. NsAnswers(s, l, cs, L)
      BY <2>11, <2>12, <2>15 DEF NsAnswers
    <2> QED BY <1>1, <1>3, <2>4, <2>8, <2>13, <2>14, <2>16, NsFollowsTold
  <1>10. CASE NsSender(s, old) # {} /\ NsFind(s, new) = {}
    <2>1. PICK e \in NsSender(s, old) : ns_wire' = NsRead(s) /\ NsRename(s, e, new) /\ UNCHANGED ns_culls
      BY <1>1, <1>2, <1>10 DEF NsReadNick
    <2>2. e \in NsClients /\ ~NsLocal(s, e) /\ ns_nick[s][e] = old /\ NsAbsent \notin NsNicks
      BY <1>2, <1>4, NsOfSender, NsTypes
    <2>3. \A c \in NsClients : ns_nick[s][c] # new
      BY <1>10 DEF NsFind
    <2>4. /\ \A t \in NsServers : t # s => ns_nick'[t] = ns_nick[t]
          /\ ns_nick'[s][e] = new /\ ns_hasty' = ns_hasty
          /\ \A c \in NsClients : c # e => ns_nick'[s][c] = ns_nick[s][c]
      <3>1. /\ \A t \in NsServers : t # s => ns_nick'[t] = ns_nick[t]
            /\ ns_nick'[s][e] = new
            /\ \A c \in NsClients : c # e => ns_nick'[s][c] = IF ns_nick[s][c] = new THEN NsNoNick ELSE ns_nick[s][c]
            /\ ns_hasty' = ns_hasty \cup {d \in {e} : NsLocal(s, d) /\ d \in ns_reg}
        <4>1. NsRename(s, e, new) /\ e \in NsClients
          BY <2>1, <2>2
        <4> QED BY <1>4, <4>1, NsRenamed
      <3>2. {d \in {e} : NsLocal(s, d) /\ d \in ns_reg} = {}
        BY <2>2
      <3> QED BY <2>3, <3>1, <3>2
    <2>5. \A c \in NsClients : NsLocal(s, c) => ns_nick'[s][c] = ns_nick[s][c]
      BY <2>2, <2>4
    <2>6. \A c \in NsClients : ~NsLocal(s, c) /\ ns_nick[s][c] # NsAbsent => ns_nick'[s][c] # NsAbsent
      BY <2>2, <2>4
    <2>7. ASSUME NEW a \in NsViews, NEW b \in NsViews, NsOneName(a), NsOneName(b), NsExplains(l, a, b),
                 NEW c \in NsClients, ~NsLocal(s, c), ns_nick'[s][c] # NsAbsent
          PROVE  /\ (ns_nick[s][c] # NsAbsent => ns_nick[s][c] = a[c]) => ns_nick'[s][c] = b[c]
                 /\ ns_nick[s][c] # NsAbsent \/ b[c] # NsAbsent
      <3>1. ns_nick[s][c] # NsAbsent
        BY <2>2, <2>4, <2>7
      <3>2. ASSUME ns_nick[s][c] = a[c] PROVE ns_nick'[s][c] = b[c]
        <4>1. b[c] = IF a[c] = old THEN new ELSE a[c]
          BY <1>6, <2>7, <3>1, <3>2
        <4>2. ns_nick[s][c] = old => c = e
          BY <1>2, <1>4, <2>2 DEF NickSyncTypeOK
        <4> QED BY <2>2, <2>4, <3>2, <4>1, <4>2
      <3> QED BY <3>1, <3>2
    <2>8. UNCHANGED <<ns_culls, ns_reg, ns_new, ns_up, ns_link, ns_hasty>>
      BY <1>3, <2>1, <2>4
    <2>9. \A c, n : l # <<"INTRO", c, n>>
      BY <1>1, NsIntroMade, NsIsOne
    <2>10. \A a, b \in NsViews : NsOneName(a) /\ NsOneName(b) /\ NsExplains(l, a, b) =>
              \A c \in NsClients : ~NsLocal(s, c) /\ ns_nick'[s][c] # NsAbsent =>
                 /\ c \notin NsDying(s) /\ (ns_nick[s][c] # NsAbsent => ns_nick[s][c] = a[c]) => ns_nick'[s][c] = b[c]
                 /\ ns_nick[s][c] # NsAbsent \/ b[c] # NsAbsent
      BY <2>7
    <2> QED BY <1>1, <1>3, <2>1, <2>4, <2>5, <2>6, <2>8, <2>9, <2>10, NsFollowsRecord
  <1> QED BY <1>8, <1>9, <1>10

\* A client of s has another nickname, which s says if he is registered.
LEMMA NsHearsChanged ==
    ASSUME NsBase, NEW s \in NsServers, NsHears(s), NEW c \in NsClients, NsLocal(s, c), NEW n \in NsNicks,
           NsRename(s, c, n), ~NsTaken(s, c, n), ns_nick[s][c] = NsAbsent => c \in ns_new,
           ns_wire'[s] = ns_wire[s] \o NsChanged(s, c, n), UNCHANGED <<ns_culls, ns_reg>>, ns_new' \subseteq ns_new
    PROVE  NsHears(s)'
  <1>0. PICK r \in NsServers : r = NsOther(s) /\ r # s
    BY NsPeers
  <1>1. /\ ns_wire \in [NsServers -> Seq(NsLines)] /\ NsAbsent \notin NsNicks /\ NsAbsent # NsNoNick
        /\ NickSyncTypeOK
    BY NsTypes DEF NsBase, NsAbsent, NsNoNick
  <1>2. /\ ns_nick'[r] = ns_nick[r] /\ ns_nick'[s][c] = n
        /\ \A d \in NsClients : d # c => ns_nick'[s][d] = IF ns_nick[s][d] = n THEN NsNoNick ELSE ns_nick[s][d]
        /\ ns_hasty' = ns_hasty \cup {d \in {c} : NsLocal(s, d) /\ d \in ns_reg}
    BY <1>0, <1>1, NsRenamed
  <1>3. \A d \in NsClients : NsLocal(s, d) /\ d # c /\ d \in ns_reg => ns_nick'[s][d] = ns_nick[s][d] /\ ns_nick[s][d] # n
    BY <1>2 DEF NsTaken, NsFind, NsRegistered
  <1>4. \A d \in NsClients : d # c /\ ns_nick[s][d] = NsAbsent => ns_nick'[s][d] = NsAbsent
    BY <1>1, <1>2
  <1>5. NsDying(s)' = NsDying(s) /\ NsDying(r)' = NsDying(r)
    BY DEF NsDying
  <1>6. CASE c \notin ns_reg
    <2>1. NsChanged(s, c, n) = <<>>
      BY <1>6 DEF NsChanged
    <2>2. ns_wire'[s] = ns_wire[s]
      BY <1>1, <2>1
    <2>3. NsNow(s)' = NsNow(s)
      BY <1>3, <1>6 DEF NsNow, NsLocal
    <2>4. ns_hasty' = ns_hasty
      BY <1>2, <1>6
    <2>5. ASSUME NEW d \in NsClients, NsLocal(s, d)
          PROVE  /\ d \in ns_reg => ns_nick'[s][d] = ns_nick[s][d]
                 /\ ns_nick[s][d] = NsAbsent /\ d \notin ns_new => ns_nick'[s][d] = NsAbsent
      BY <1>3, <1>4, <1>6, <2>5
    <2> QED BY <1>0, <1>2, <1>5, <2>2, <2>3, <2>4, <2>5, NsHearsStill
  <1>7. CASE c \in ns_reg
    <2>1. PICK old \in NsNicks : old = ns_nick[s][c]
      BY <1>7 DEF NsBase, NsRecords, NsLocal
    <2>2. PICK l \in NsLines : l = <<"NICK", old, n>>
      BY NsLineType
    <2>3. PICK L : L = <<l>>
      OBVIOUS
    <2>4. NsChanged(s, c, n) = L
      BY <1>7, <2>1, <2>2, <2>3 DEF NsChanged
    <2>5. L \in Seq(NsLines) /\ Len(L) = 1 /\ \A k \in 1 .. Len(L) : L[k] = l
      BY <2>3
    <2>6. NsIs(l, "NICK") /\ l[2] = old /\ l[3] = n
      BY <2>2, NsMade
    <2>7. PICK now, then : now = NsNow(s) /\ then = NsNow(s)'
      OBVIOUS
    <2>8. now \in NsViews /\ NsOneName(now) /\ now[c] = old /\ \A d \in NsClients : d # c => now[d] # n
      BY <1>1, <1>3, <1>7, <2>1, <2>7, NsNowViews
    <2>9. then = [now EXCEPT ![c] = n]
      <3>1. then = [d \in NsClients |-> IF NsLocal(s, d) /\ d \in ns_reg THEN ns_nick'[s][d] ELSE NsAbsent]
        BY <2>7 DEF NsNow, NsLocal
      <3>2. now = [d \in NsClients |-> IF NsLocal(s, d) /\ d \in ns_reg THEN ns_nick[s][d] ELSE NsAbsent]
        BY <2>7 DEF NsNow
      <3>3. then[c] = n
        BY <1>2, <1>7, <3>1
      <3>4. \A d \in NsClients : d # c => then[d] = now[d]
        BY <1>3, <3>1, <3>2
      <3> QED BY <3>1, <3>2, <3>3, <3>4
    <2>10. then \in NsViews /\ then[c] = n /\ \A d \in NsClients : d # c => then[d] = now[d]
      BY <2>8, <2>9 DEF NsViews
    <2>11. NsOneName(then)
      BY <2>8, <2>10 DEF NsOneName
    <2>12. NsExplains(l, now, then)
      <3>1. \E d \in NsClients : now[d] = l[2] /\ then = [now EXCEPT ![d] = l[3]]
        BY <2>6, <2>8, <2>9
      <3> QED BY <2>6, <3>1, NsIsOne DEF NsExplains
    <2>13. PICK R : NsFits(R, L, then) /\ R[0] = now /\ R[1] = then
      BY <2>3, <2>8, <2>10, <2>11, <2>12, NsFitsOne
    <2>14. PICK P : /\ NsFits(P, ns_wire[s], NsNow(s))
                    /\ \A d \in NsClients : NsLocal(s, d) =>
                          NsTale(d, ns_wire[s], P, ns_nick[s], ns_nick[NsOther(s)], ns_reg, ns_new, ns_hasty,
                                 NsDying(s), NsDying(NsOther(s)))
      BY DEF NsHears
    <2>15. R[0] = P[Len(ns_wire[s])]
      BY <2>7, <2>13, <2>14 DEF NsFits
    <2>16. \A k \in 0 .. Len(L) : R[k] = now \/ R[k] = then
      <3>1. \A k \in 0 .. 1 : k = 0 \/ k = 1
        OBVIOUS
      <3> QED BY <2>5, <2>13, <3>1
    <2>17. \A k \in 1 .. Len(L) : (\A d : ~NsIntros(L[k], d)) /\ (\A m : L[k] # <<"KILL", m>>)
      BY <2>5, <2>6, NsIsOne, NsNoKill DEF NsIntros
    <2>18. ASSUME NEW d \in NsClients, NsLocal(s, d)
           PROVE  NsTale(d, ns_wire[s] \o L, NsJoin(P, ns_wire[s], R, L), ns_nick'[s], ns_nick'[NsOther(s)], ns_reg', ns_new',
                         ns_hasty', NsDying(s)', NsDying(NsOther(s))')
      <3>1. NsTale(d, ns_wire[s], P, ns_nick[s], ns_nick[r], ns_reg, ns_new, ns_hasty, NsDying(s), NsDying(r))
        BY <1>0, <2>14, <2>18
      <3>2. PICK mine, mine2, theirs, hd, rd, w, hasty2, new2 : mine = ns_nick[s] /\ mine2 = ns_nick'[s] /\ theirs = ns_nick[r]
                /\ hd = NsDying(s) /\ rd = NsDying(r) /\ w = ns_wire[s] /\ hasty2 = ns_hasty' /\ new2 = ns_new'
        OBVIOUS
      <3>3. w \in Seq(NsLines) /\ L \in Seq(NsLines) /\ NsTale(d, w, P, mine, theirs, ns_reg, ns_new, ns_hasty, hd, rd)
            /\ R[0] = P[Len(w)]
        BY <1>1, <2>5, <2>15, <3>1, <3>2
      <3>4. NsTale(d, w \o L, NsJoin(P, w, R, L), mine2, theirs, ns_reg, new2, hasty2, hd, rd)
        <4>1. CASE d = c
          <5>1. c \in hasty2
            BY <1>2, <1>7, <2>18, <3>2, <4>1
          <5>2. \A k \in 0 .. Len(L) : R[k][c] # NsAbsent
            BY <1>1, <2>8, <2>10, <2>16
          <5> QED BY <1>7, <2>17, <3>3, <4>1, <5>1, <5>2, NsTaleHasty
        <4>2. CASE d # c
          <5>1. \A k \in 0 .. Len(L) : R[k][d] = P[Len(w)][d]
            BY <2>10, <2>13, <2>16, <3>3, <4>2
          <5>2. /\ d \in new2 => d \in ns_new
                /\ d \in ns_hasty => d \in hasty2
                /\ d \in ns_reg => mine2[d] = mine[d]
                /\ mine[d] = NsAbsent => mine2[d] = NsAbsent
            BY <1>2, <1>3, <1>4, <2>18, <3>2, <4>2
          <5>3. \A k \in 1 .. Len(L) : ~NsIntros(L[k], d) /\ L[k] # <<"KILL", mine[d]>>
            BY <2>17
          <5>4. /\ w \in Seq(NsLines) /\ L \in Seq(NsLines) /\ R[0] = P[Len(w)]
                /\ NsTale(d, w, P, mine, theirs, ns_reg, ns_new, ns_hasty, hd, rd)
            BY <3>3
          <5>5. \A k \in 1 .. Len(L) : ~NsIntros(L[k], d)
            BY <5>3
          <5>6. \A k \in 1 .. Len(L) : L[k] = <<"KILL", mine[d]>> /\ d \in ns_reg => d \in ns_hasty \cup hd
            BY <5>3
          <5>7. NsTale(d, w \o L, NsJoin(P, w, R, L), mine, theirs, ns_reg, ns_new, ns_hasty, hd, rd)
            BY <5>1, <5>4, <5>5, <5>6, NsTaleSame
          <5> QED BY <5>2, <5>7, NsTaleKept
        <4> QED BY <4>1, <4>2
      <3> QED BY <1>0, <1>2, <1>5, <3>2, <3>4
    <2>19. ns_wire'[s] = ns_wire[s] \o L /\ NsFits(R, L, NsNow(s)') /\ R[0] = NsNow(s)
      BY <2>4, <2>7, <2>13
    <2> QED BY <1>1, <2>5, <2>14, <2>18, <2>19, NsHearsSaid
  <1> QED BY <1>6, <1>7

LEMMA NsRenamedHere ==
    ASSUME NickSyncTypeOK, NEW s \in NsServers, NEW c \in NsClients, NsLocal(s, c), NEW n \in NsNicks,
           NsRename(s, c, n), ~NsTaken(s, c, n), UNCHANGED ns_reg
    PROVE  /\ ns_nick'[NsOther(s)] = ns_nick[NsOther(s)] /\ NsNow(NsOther(s))' = NsNow(NsOther(s))
           /\ \A d \in NsClients : NsLocal(NsOther(s), d) =>
                 ns_nick'[s][d] = ns_nick[s][d] /\ (d \in ns_hasty' <=> d \in ns_hasty)
           /\ \A d \in NsClients : NsLocal(s, d) /\ d \in ns_reg \ ns_hasty' =>
                 ns_nick'[s][d] = ns_nick[s][d] /\ d \notin ns_hasty
  <1>1. PICK r \in NsServers : r = NsOther(s) /\ r # s
    BY NsPeers
  <1>2. /\ \A t \in NsServers \ {s} : ns_nick'[t] = ns_nick[t]
        /\ \A d \in NsClients \ {c} : ns_nick'[s][d] = IF ns_nick[s][d] = n THEN NsNoNick ELSE ns_nick[s][d]
        /\ ns_hasty' = ns_hasty \cup {d \in {c} : NsLocal(s, d) /\ d \in ns_reg}
    BY NsRenamed
  <1>3. \A d \in NsClients : NsLocal(r, d) => d # c /\ ~NsLocal(s, d)
    BY <1>1, NsHomes
  <1>4. ns_nick'[r] = ns_nick[r]
    BY <1>1, <1>2
  <1>5. NsNow(r)' = NsNow(r)
    BY <1>4 DEF NsNow, NsLocal
  <1>6. \A d \in NsClients : d # c /\ NsRegistered(s, d) => ns_nick[s][d] # n
    BY DEF NsTaken, NsFind
  <1>7. \A d \in NsClients : NsLocal(r, d) => ns_nick'[s][d] = ns_nick[s][d] /\ (d \in ns_hasty' <=> d \in ns_hasty)
    BY <1>2, <1>3, <1>6 DEF NsRegistered
  <1>8. \A d \in NsClients : NsLocal(s, d) /\ d \in ns_reg \ ns_hasty' => ns_nick'[s][d] = ns_nick[s][d] /\ d \notin ns_hasty
    BY <1>2, <1>6 DEF NsRegistered
  <1> QED BY <1>1, <1>4, <1>5, <1>7, <1>8

LEMMA NsHeedsChanged ==
    ASSUME NsBase, NEW s \in NsServers, NsHeeds(s), NEW c \in NsClients, NsLocal(s, c), NEW n \in NsNicks,
           NsRename(s, c, n), ~NsTaken(s, c, n), UNCHANGED <<ns_culls, ns_reg>>,
           \A l : NsOn(l, ns_wire[s]) => NsOn(l, ns_wire'[s]),
           \A m : NsOn(<<"KILL", m>>, ns_wire[NsOther(s)]) => NsOn(<<"KILL", m>>, ns_wire'[NsOther(s)])
    PROVE  NsHeeds(s)'
  <1>1. PICK r \in NsServers : r = NsOther(s)
    BY NsPeers
  <1>2. ns_nick'[r] = ns_nick[r] /\ NsDying(s)' = NsDying(s) /\ NsDying(r)' = NsDying(r)
    BY <1>1, NsRenamedHere DEF NsDying, NsBase
  <1>3. ASSUME NEW d \in NsClients, NsLocal(s, d)
        PROVE  NsReached(d, ns_wire'[s], ns_wire'[r], ns_nick'[s], ns_nick'[r], ns_reg, ns_hasty', NsDying(s)', NsDying(r)')
    <2>1. NsReached(d, ns_wire[s], ns_wire[r], ns_nick[s], ns_nick[r], ns_reg, ns_hasty, NsDying(s), NsDying(r))
      BY <1>1, <1>3 DEF NsHeeds
    <2>2. d \in ns_reg \ ns_hasty' => ns_nick'[s][d] = ns_nick[s][d] /\ d \notin ns_hasty
      BY <1>3, NsRenamedHere DEF NsBase
    <2> QED BY <1>1, <1>2, <2>1, <2>2 DEF NsReached
  <1> QED BY <1>1, <1>3 DEF NsHeeds

LEMMA NsFollowsNick ==
    ASSUME NsBase, NsFollows, NEW s \in NsServers, NEW c \in NsClients, NEW n \in NsNicks, NsNick(s, c, n)
    PROVE  NsFollows'
  <1>0. PICK r \in NsServers : r = NsOther(s)
    BY NsPeers
  <1>1. r # s /\ NsOther(r) = s /\ \A t \in NsServers : t = s \/ t = r
    BY <1>0, NsPeers
  <1>2. ns_wire \in [NsServers -> Seq(NsLines)] /\ NickSyncTypeOK
    BY NsTypes DEF NsBase
  <1>3. /\ NsLocal(s, c) /\ ~NsTaken(s, c, n) /\ NsRename(s, c, n) /\ (ns_nick[s][c] = NsAbsent => c \in ns_new)
        /\ ns_new' = ns_new \ {c} /\ ns_wire' = NsSent(ns_wire, s, NsChanged(s, c, n))
        /\ UNCHANGED <<ns_culls, ns_reg, ns_up, ns_link>>
    BY DEF NsNick
  <1>4. PICK L \in Seq(NsLines) : L = NsChanged(s, c, n)
    BY NsChangedType DEF NsSays
  <1>5. /\ ns_up[s] /\ ns_link = "up" => ns_wire'[s] = ns_wire[s] \o L
        /\ ns_wire'[s] = ns_wire[s] \/ ns_wire'[s] = ns_wire[s] \o L
        /\ ns_wire'[r] = ns_wire[r]
    BY <1>1, <1>2, <1>3, <1>4, NsSaidTo
  <1>6. \A l : NsOn(l, ns_wire[s]) => NsOn(l, ns_wire'[s])
    BY <1>2, <1>5, NsOnMore
  <1>7. SUFFICES ASSUME NEW h \in NsServers, ns_link = "up", ns_up[h]
                 PROVE  NsHears(h)' /\ NsHeeds(h)'
    BY <1>3 DEF NsFollows
  <1>8. NsHears(h) /\ NsHeeds(h)
    BY <1>7 DEF NsFollows
  <1>9. CASE h = s
    <2>1. NsHears(s)'
      BY <1>3, <1>4, <1>5, <1>7, <1>8, <1>9, NsHearsChanged
    <2>2. NsHeeds(s)'
      BY <1>0, <1>3, <1>5, <1>6, <1>8, <1>9, NsHeedsChanged
    <2> QED BY <1>9, <2>1, <2>2
  <1>10. CASE h = r
    <2>1. /\ ns_nick'[r] = ns_nick[r] /\ NsNow(r)' = NsNow(r)
          /\ \A d \in NsClients : NsLocal(r, d) => ns_nick'[s][d] = ns_nick[s][d] /\ (d \in ns_hasty' <=> d \in ns_hasty)
      BY <1>0, <1>2, <1>3, NsRenamedHere
    <2>2. NsDying(s)' = NsDying(s) /\ NsDying(r)' = NsDying(r)
      BY <1>3 DEF NsDying
    <2>3. NsHears(r)'
      BY <1>1, <1>3, <1>5, <1>8, <1>10, <2>1, <2>2, NsHearsStill
    <2>4. ASSUME NEW d \in NsClients, NsLocal(r, d)
          PROVE  NsReached(d, ns_wire'[r], ns_wire'[s], ns_nick'[r], ns_nick'[s], ns_reg', ns_hasty', NsDying(r)', NsDying(s)')
      <3>1. NsReached(d, ns_wire[r], ns_wire[s], ns_nick[r], ns_nick[s], ns_reg, ns_hasty, NsDying(r), NsDying(s))
        BY <1>1, <1>8, <1>10, <2>4 DEF NsHeeds
      <3>2. ns_reg' = ns_reg /\ ns_nick'[s][d] = ns_nick[s][d] /\ (d \in ns_hasty' <=> d \in ns_hasty)
        BY <1>3, <2>1, <2>4
      <3> QED BY <1>5, <1>6, <2>1, <2>2, <3>1, <3>2 DEF NsReached
    <2>5. NsHeeds(r)'
      BY <1>1, <2>4 DEF NsHeeds
    <2> QED BY <1>10, <2>3, <2>5
  <1> QED BY <1>1, <1>9, <1>10

LEMMA NsFollowsForced ==
    ASSUME NsBase, NsFollows, NEW s \in NsServers, NsReads(s, "SVSNICK"), NEW c \in NsClients, NsLocal(s, c), c \in ns_reg,
           NEW n \in NsNicks, NsTold(s, NsChanged(s, c, n)), ~NsTaken(s, c, n), NsRename(s, c, n),
           UNCHANGED <<ns_culls, ns_reg, ns_new, ns_up, ns_link>>
    PROVE  NsFollows'
  <1>0. PICK r \in NsServers : r = NsOther(s)
    BY NsPeers
  <1>1. r # s /\ NsOther(r) = s /\ \A t \in NsServers : t = s \/ t = r
    BY <1>0, NsPeers
  <1>2. ns_wire \in [NsServers -> Seq(NsLines)] /\ NickSyncTypeOK
    BY NsTypes DEF NsBase
  <1>3. PICK L \in Seq(NsLines) : L = NsChanged(s, c, n) /\ NsSays(s, L)
    BY NsChangedType DEF NsSays
  <1>4. PICK l \in NsLines : l = NsLine(s) /\ l = ns_wire[r][1] /\ NsIs(l, "SVSNICK") /\ ns_wire[r] # <<>>
    BY <1>0, NsReadLine
  <1>5. /\ ns_link = "up" => ns_wire'[s] = ns_wire[s] \o L
        /\ ns_wire'[r] = Tail(ns_wire[r])
    BY <1>0, <1>3, NsToldType
  <1>6. \A k : NsOn(k, ns_wire[r]) => NsOn(k, ns_wire'[r]) \/ k = l
    <2>1. <<>> \in Seq(NsLines)
      OBVIOUS
    <2> QED BY <1>2, <1>4, <1>5, <2>1, NsOnMore
  <1>7. (\A m : l # <<"KILL", m>>) /\ (\A d, m : l # <<"INTRO", d, m>>)
    BY <1>4, NsNoKill, NsIntroMade, NsIsOne
  <1>8. SUFFICES ASSUME NEW h \in NsServers, ns_link = "up", ns_up[h]
                 PROVE  NsHears(h)' /\ NsHeeds(h)'
    BY DEF NsFollows
  <1>9. NsHears(h) /\ NsHeeds(h)
    BY <1>8 DEF NsFollows
  <1>10. \A k : NsOn(k, ns_wire[s]) => NsOn(k, ns_wire'[s])
    BY <1>2, <1>5, <1>8, NsOnMore
  <1>11. CASE h = s
    <2>1. ns_nick[s][c] # NsAbsent
      BY <1>2, NsTypes DEF NsBase, NsRecords, NsLocal
    <2>2. NsHears(s)'
      BY <1>3, <1>5, <1>8, <1>9, <1>11, <2>1, NsHearsChanged
    <2>3. \A m : NsOn(<<"KILL", m>>, ns_wire[r]) => NsOn(<<"KILL", m>>, ns_wire'[r])
      BY <1>6, <1>7
    <2>4. NsHeeds(s)'
      BY <1>0, <1>9, <1>10, <1>11, <2>3, NsHeedsChanged
    <2> QED BY <1>11, <2>2, <2>4
  <1>12. CASE h = r
    <2>1. /\ ns_nick'[r] = ns_nick[r] /\ NsNow(r)' = NsNow(r)
          /\ \A d \in NsClients : NsLocal(r, d) => ns_nick'[s][d] = ns_nick[s][d] /\ (d \in ns_hasty' <=> d \in ns_hasty)
      BY <1>0, <1>2, NsRenamedHere
    <2>2. NsDying(s)' = NsDying(s) /\ NsDying(r)' = NsDying(r)
      BY DEF NsDying
    <2>3. PICK P : /\ NsFits(P, ns_wire[r], NsNow(r))
                   /\ \A d \in NsClients : NsLocal(r, d) =>
                         NsTale(d, ns_wire[r], P, ns_nick[r], ns_nick[NsOther(r)], ns_reg, ns_new, ns_hasty,
                                NsDying(r), NsDying(NsOther(r)))
      BY <1>9, <1>12 DEF NsHears
    <2>4. PICK a \in NsViews, b \in NsViews : a = P[0] /\ b = P[1] /\ NsOneName(a) /\ NsOneName(b) /\ NsExplains(l, a, b)
      BY <1>2, <1>4, <2>3, NsFirst
    <2>5. b = a
      BY <1>4, <2>4 DEF NsExplains
    <2>6. ASSUME NEW d \in NsClients, NsLocal(r, d)
          PROVE  /\ NsTale(d, ns_wire[r], P, ns_nick[r], ns_nick[s], ns_reg, ns_new, ns_hasty, NsDying(r), NsDying(s))
                 /\ d \in ns_hasty' <=> d \in ns_hasty
                 /\ ns_nick'[s][d] = ns_nick[s][d]
                 /\ ns_nick[s][d] # NsAbsent /\ d \notin NsDying(s) => ns_nick[s][d] = P[1][d]
      <3>1. NsTale(d, ns_wire[r], P, ns_nick[r], ns_nick[s], ns_reg, ns_new, ns_hasty, NsDying(r), NsDying(s))
        BY <1>1, <2>3, <2>6
      <3>2. ns_nick[s][d] # NsAbsent /\ d \notin NsDying(s) => ns_nick[s][d] = P[0][d]
        BY <3>1 DEF NsTale
      <3> QED BY <2>1, <2>4, <2>5, <2>6, <3>1, <3>2
    <2>7. NsHears(r)'
      <3>1. /\ ns_wire[r] \in Seq(NsLines) /\ ns_wire[r] # <<>> /\ ns_wire'[r] = Tail(ns_wire[r])
            /\ ns_nick'[r] = ns_nick[r] /\ NsDying(r)' = NsDying(r) /\ NsFits(P, ns_wire[r], NsNow(r))
        BY <1>2, <1>4, <1>5, <2>1, <2>2, <2>3
      <3> QED BY <1>1, <2>2, <2>6, <3>1, NsHearsRead
    <2>8. ASSUME NEW d \in NsClients, NsLocal(r, d)
          PROVE  NsReached(d, ns_wire'[r], ns_wire'[s], ns_nick'[r], ns_nick'[s], ns_reg, ns_hasty', NsDying(r)', NsDying(s)')
      <3>1. NsReached(d, ns_wire[r], ns_wire[s], ns_nick[r], ns_nick[s], ns_reg, ns_hasty, NsDying(r), NsDying(s))
        BY <1>1, <1>9, <1>12, <2>8 DEF NsHeeds
      <3>2. ns_nick'[s][d] = ns_nick[s][d] /\ (d \in ns_hasty' <=> d \in ns_hasty)
        BY <2>1, <2>8
      <3>3. NsOn(<<"INTRO", d, ns_nick[r][d]>>, ns_wire[r]) => NsOn(<<"INTRO", d, ns_nick[r][d]>>, ns_wire'[r])
        BY <1>6, <1>7
      <3> QED BY <1>10, <2>1, <2>2, <3>1, <3>2, <3>3 DEF NsReached
    <2>9. NsHeeds(r)'
      BY <1>1, <2>8 DEF NsHeeds
    <2> QED BY <1>12, <2>7, <2>9
  <1> QED BY <1>1, <1>11, <1>12

LEMMA NsFollowsForceNick ==
    ASSUME NsBase, NsFollows, NEW s \in NsServers, NsForceNick(s)
    PROVE  NsFollows'
  <1>1. PICK l \in NsLines : l = NsLine(s) /\ NsIs(l, "SVSNICK")
    BY NsReadLine DEF NsForceNick
  <1>2. PICK old \in NsNicks, new \in NsNicks : old = l[2] /\ new = l[3]
    BY <1>1, NsLineType DEF NsIs
  <1>3. NsReads(s, "SVSNICK") /\ UNCHANGED <<ns_reg, ns_new, ns_up, ns_link, ns_left>>
    BY DEF NsForceNick
  <1>4. NickSyncTypeOK
    BY DEF NsBase
  <1>5. \A k : l # <<"KILL", k>>
    BY <1>1, NsNoKill
  <1>6. ASSUME NEW cs, NsDying(s)' = NsDying(s) \cup cs, \A t \in NsServers : t # s => NsDying(t)' = NsDying(t),
               \A c \in cs : NsLocal(s, c), ns_wire' = NsRead(s), UNCHANGED <<ns_nick, ns_hasty>>
        PROVE  NsFollows'
    <2>1. ASSUME NEW a \in NsViews, NEW b \in NsViews, NsOneName(a), NsOneName(b), NsExplains(l, a, b),
                 NEW c \in NsClients, ~NsLocal(s, c), ns_nick[s][c] # NsAbsent, ns_nick[s][c] = a[c]
          PROVE  (c \notin cs => b[c] = a[c]) /\ c \notin cs
      <3>1. b[c] = a[c]
        BY <1>1, <2>1, NsExplained DEF NsPlain
      <3> QED BY <1>6, <2>1, <3>1
    <2> QED BY <1>1, <1>3, <1>5, <1>6, <2>1, NsFollowsHeard
  <1>7. CASE ns_wire' = NsRead(s) /\ UNCHANGED <<ns_culls, ns_nick, ns_hasty>>
    <2>1. PICK cs : cs = {}
      OBVIOUS
    <2>2. NsDying(s)' = NsDying(s) \cup cs /\ \A t \in NsServers : t # s => NsDying(t)' = NsDying(t)
      BY <1>7, <2>1 DEF NsDying
    <2> QED BY <1>6, <1>7, <2>1, <2>2
  <1>8. ASSUME NEW c \in NsFind(s, old), NsLocal(s, c), ns_wire' = NsRead(s), NsQueue(s, {c}), UNCHANGED <<ns_nick, ns_hasty>>
        PROVE  NsFollows'
    <2>1. {c} \subseteq NsClients
      BY <1>4, NsOfFind
    <2>2. NsDying(s)' = NsDying(s) \cup {c} /\ \A t \in NsServers : t # s => NsDying(t)' = NsDying(t)
      BY <1>4, <1>8, <2>1, NsTypes, NsQueued
    <2> QED BY <1>6, <1>8, <2>2
  <1>9. ASSUME NEW c \in NsFind(s, old), NsLocal(s, c), c \in ns_reg, ~NsTaken(s, c, new),
               NsTold(s, NsChanged(s, c, new)), NsRename(s, c, new), UNCHANGED ns_culls
        PROVE  NsFollows'
    <2>1. c \in NsClients
      BY <1>4, NsOfFind
    <2> QED BY <1>3, <1>9, <2>1, NsFollowsForced
  <1>10. \/ ns_wire' = NsRead(s) /\ UNCHANGED <<ns_culls, ns_nick, ns_hasty>>
         \/ \E c \in NsFind(s, old) : NsLocal(s, c) /\
               \/ c \in ns_reg /\ ~NsTaken(s, c, new) /\ NsTold(s, NsChanged(s, c, new)) /\ NsRename(s, c, new) /\ UNCHANGED ns_culls
               \/ ns_wire' = NsRead(s) /\ NsQueue(s, {c}) /\ UNCHANGED <<ns_nick, ns_hasty>>
    <2>1. \/ ns_wire' = NsRead(s) /\ UNCHANGED <<ns_culls, ns_nick, ns_hasty>>
          \/ \E c \in {d \in NsFind(s, old) : NsLocal(s, d)} :
               IF c \in ns_reg /\ ~NsTaken(s, c, new)
               THEN NsTold(s, NsChanged(s, c, new)) /\ NsRename(s, c, new) /\ UNCHANGED ns_culls
               ELSE ns_wire' = NsRead(s) /\ NsQueue(s, {c}) /\ UNCHANGED <<ns_nick, ns_hasty>>
      BY <1>1, <1>2 DEF NsForceNick
    <2> QED BY <2>1
  <1> QED BY <1>7, <1>8, <1>9, <1>10

LEMMA NsFollowsRegister ==
    ASSUME NsBase, NsFollows, NEW s \in NsServers, NEW c \in NsClients, NsRegister(s, c)
    PROVE  NsFollows'
  <1>0. PICK r \in NsServers : r = NsOther(s)
    BY NsPeers
  <1>1. r # s /\ NsOther(r) = s /\ \A t \in NsServers : t = s \/ t = r
    BY <1>0, NsPeers
  <1>2. ns_wire \in [NsServers -> Seq(NsLines)] /\ NickSyncTypeOK
    BY NsTypes DEF NsBase
  <1>3. PICK n \in NsNicks : n = ns_nick[s][c]
    BY DEF NsRegister
  <1>4. PICK l \in NsLines : l = <<"INTRO", c, n>>
    BY NsLineType
  <1>5. PICK L \in Seq(NsLines) : L = <<l>> /\ Len(L) = 1 /\ \A k \in 1 .. Len(L) : L[k] = l
    <2>1. <<l>> \in Seq(NsLines) /\ Len(<<l>>) = 1 /\ \A k \in 1 .. Len(<<l>>) : <<l>>[k] = l
      OBVIOUS
    <2> QED BY <2>1
  <1>6. /\ NsLocal(s, c) /\ c \notin ns_reg /\ ns_reg' = ns_reg \cup {c} /\ ns_wire' = NsSent(ns_wire, s, L)
        /\ UNCHANGED <<ns_nick, ns_culls, ns_new, ns_up, ns_link, ns_left, ns_hasty>>
    BY <1>3, <1>4, <1>5 DEF NsRegister
  <1>7. NsDying(s)' = NsDying(s) /\ NsDying(r)' = NsDying(r)
    BY <1>6 DEF NsDying
  <1>8. NsIs(l, "INTRO") /\ l[2] = c /\ l[3] = n /\ (\A m : l # <<"KILL", m>>) /\ NsIntros(l, c)
    BY <1>4, NsIntroMade, NsNoKill DEF NsIntros
  <1>9. /\ ns_up[s] /\ ns_link = "up" => ns_wire'[s] = ns_wire[s] \o L
        /\ ns_wire'[s] = ns_wire[s] \/ ns_wire'[s] = ns_wire[s] \o L
        /\ ns_wire'[r] = ns_wire[r]
    BY <1>1, <1>2, <1>6, NsSaidTo
  <1>10. \A k : NsOn(k, ns_wire[s]) => NsOn(k, ns_wire'[s])
    BY <1>2, <1>9, NsOnMore
  <1>11. SUFFICES ASSUME NEW h \in NsServers, ns_link = "up", ns_up[h]
                  PROVE  NsHears(h)' /\ NsHeeds(h)'
    BY <1>6 DEF NsFollows
  <1>12. NsHears(h) /\ NsHeeds(h)
    BY <1>11 DEF NsFollows
  <1>13. CASE h = s
    <2>1. PICK now, then : now = NsNow(s) /\ then = NsNow(s)'
      OBVIOUS
    <2>2. now \in NsViews /\ NsOneName(now) /\ now[c] = NsAbsent
      BY <1>6, <2>1, NsNowViews
    <2>3. \A d \in NsClients : d # c => now[d] # n
      <3>1. NsAbsent \notin NsNicks /\ \A d \in NsClients : ns_nick[s][c] = ns_nick[s][d] /\ ns_nick[s][c] \in NsNicks => c = d
        BY <1>2, NsTypes DEF NickSyncTypeOK
      <3> QED BY <1>3, <2>1, <3>1, NsNowViews
    <2>4. then = [now EXCEPT ![c] = n]
      <3>1. then = [d \in NsClients |-> IF NsLocal(s, d) /\ d \in ns_reg' THEN ns_nick[s][d] ELSE NsAbsent]
        BY <1>6, <2>1 DEF NsNow, NsLocal
      <3>2. now = [d \in NsClients |-> IF NsLocal(s, d) /\ d \in ns_reg THEN ns_nick[s][d] ELSE NsAbsent]
        BY <2>1 DEF NsNow
      <3>3. then[c] = n
        BY <1>3, <1>6, <3>1
      <3>4. \A d \in NsClients : d # c => then[d] = now[d]
        BY <1>6, <3>1, <3>2
      <3> QED BY <3>1, <3>2, <3>3, <3>4
    <2>5. then \in NsViews /\ then[c] = n /\ \A d \in NsClients : d # c => then[d] = now[d]
      BY <2>2, <2>4 DEF NsViews
    <2>6. NsOneName(then)
      BY <2>2, <2>3, <2>5 DEF NsOneName
    <2>7. NsExplains(l, now, then)
      BY <1>8, <2>2, <2>4, NsIsOne DEF NsExplains
    <2>8. PICK R : NsFits(R, L, then) /\ R[0] = now /\ R[1] = then
      BY <1>5, <2>2, <2>5, <2>6, <2>7, NsFitsOne
    <2>9. PICK P : /\ NsFits(P, ns_wire[s], NsNow(s))
                   /\ \A d \in NsClients : NsLocal(s, d) =>
                         NsTale(d, ns_wire[s], P, ns_nick[s], ns_nick[NsOther(s)], ns_reg, ns_new, ns_hasty,
                                NsDying(s), NsDying(NsOther(s)))
      BY <1>12, <1>13 DEF NsHears
    <2>10. R[0] = P[Len(ns_wire[s])]
      BY <2>1, <2>8, <2>9 DEF NsFits
    <2>11. \A k \in 0 .. Len(L) : R[k] = now \/ R[k] = then
      <3>1. \A k \in 0 .. 1 : k = 0 \/ k = 1
        OBVIOUS
      <3> QED BY <1>5, <2>8, <3>1
    <2>12. ASSUME NEW d \in NsClients, NsLocal(s, d)
           PROVE  NsTale(d, ns_wire[s] \o L, NsJoin(P, ns_wire[s], R, L), ns_nick[s], ns_nick[r], ns_reg', ns_new,
                         ns_hasty, NsDying(s), NsDying(r))
      <3>1. NsTale(d, ns_wire[s], P, ns_nick[s], ns_nick[r], ns_reg, ns_new, ns_hasty, NsDying(s), NsDying(r))
        BY <1>0, <2>9, <2>12
      <3>2. PICK mine, theirs, hd, rd, w, reg2 : mine = ns_nick[s] /\ theirs = ns_nick[r]
                /\ hd = NsDying(s) /\ rd = NsDying(r) /\ w = ns_wire[s] /\ reg2 = ns_reg'
        OBVIOUS
      <3>3. w \in Seq(NsLines) /\ L \in Seq(NsLines) /\ NsTale(d, w, P, mine, theirs, ns_reg, ns_new, ns_hasty, hd, rd)
            /\ R[0] = P[Len(w)]
        BY <1>2, <1>5, <2>10, <3>1, <3>2
      <3>4. NsTale(d, w \o L, NsJoin(P, w, R, L), mine, theirs, reg2, ns_new, ns_hasty, hd, rd)
        <4>1. CASE d = c
          <5>1. c \notin ns_reg /\ c \in reg2 /\ mine[c] # NsAbsent /\ R[1][c] = mine[c]
            <6>1. n # NsAbsent
              BY NickSyncOK
            <6> QED BY <1>3, <1>6, <2>5, <2>8, <3>2, <6>1
          <5>2. NsTale(c, w, P, mine, theirs, ns_reg, ns_new, ns_hasty, hd, rd) /\ NsIntros(l, c)
            BY <1>8, <3>3, <4>1
          <5>3. NsTale(c, w \o <<l>>, NsJoin(P, w, R, <<l>>), mine, theirs, reg2, ns_new, ns_hasty, hd, rd)
            BY <3>3, <5>1, <5>2, NsTaleIntro
          <5> QED BY <1>5, <4>1, <5>3
        <4>2. CASE d # c
          <5>1. \A k \in 0 .. Len(L) : R[k][d] = P[Len(w)][d]
            BY <2>5, <2>8, <2>11, <3>3, <4>2
          <5>2. d \in reg2 <=> d \in ns_reg
            BY <1>6, <3>2, <4>2
          <5>3. \A k \in 1 .. Len(L) : ~NsIntros(L[k], d)
            BY <1>5, <1>8, <4>2 DEF NsIntros
          <5>4. /\ w \in Seq(NsLines) /\ L \in Seq(NsLines) /\ R[0] = P[Len(w)]
                /\ NsTale(d, w, P, mine, theirs, ns_reg, ns_new, ns_hasty, hd, rd)
            BY <3>3
          <5>5. \A k \in 1 .. Len(L) : L[k] = <<"KILL", mine[d]>> /\ d \in ns_reg => d \in ns_hasty \cup hd
            BY <1>5, <1>8
          <5>6. NsTale(d, w \o L, NsJoin(P, w, R, L), mine, theirs, ns_reg, ns_new, ns_hasty, hd, rd)
            BY <5>1, <5>3, <5>4, <5>5, NsTaleSame
          <5> QED BY <5>2, <5>6, NsTaleKept
        <4> QED BY <4>1, <4>2
      <3> QED BY <3>2, <3>4
    <2>13. NsHears(s)'
      <3>1. ns_wire'[s] = ns_wire[s] \o L /\ NsFits(R, L, NsNow(s)') /\ R[0] = NsNow(s)
        BY <1>9, <1>11, <1>13, <2>1, <2>8
      <3>2. \A d \in NsClients : NsLocal(s, d) =>
              NsTale(d, ns_wire[s] \o L, NsJoin(P, ns_wire[s], R, L), ns_nick'[s], ns_nick'[NsOther(s)], ns_reg', ns_new',
                     ns_hasty', NsDying(s)', NsDying(NsOther(s))')
        BY <1>0, <1>6, <1>7, <2>12
      <3> QED BY <1>2, <2>9, <3>1, <3>2, NsHearsSaid
    <2>14. ASSUME NEW d \in NsClients, NsLocal(s, d)
           PROVE  NsReached(d, ns_wire'[s], ns_wire'[r], ns_nick[s], ns_nick[r], ns_reg', ns_hasty, NsDying(s), NsDying(r))
      <3>1. NsReached(d, ns_wire[s], ns_wire[r], ns_nick[s], ns_nick[r], ns_reg, ns_hasty, NsDying(s), NsDying(r))
        BY <1>0, <1>12, <1>13, <2>14 DEF NsHeeds
      <3>2. CASE d = c
        <4>1. ns_wire'[s] = ns_wire[s] \o L
          BY <1>9, <1>11, <1>13
        <4>2. NsOn(l, ns_wire'[s])
          BY <1>2, <1>5, <4>1, NsOnFew, NsOnMore
        <4> QED BY <1>3, <1>4, <3>2, <4>2 DEF NsReached
      <3>3. CASE d # c
        <4>1. d \in ns_reg' <=> d \in ns_reg
          BY <1>6, <3>3
        <4> QED BY <1>9, <1>10, <3>1, <4>1 DEF NsReached
      <3> QED BY <3>2, <3>3
    <2>15. NsHeeds(s)'
      BY <1>0, <1>6, <1>7, <2>14 DEF NsHeeds
    <2> QED BY <1>13, <2>13, <2>15
  <1>14. CASE h = r
    <2>1. \A d \in NsClients : NsLocal(r, d) => d # c
      BY <1>0, <1>6, NsHomes
    <2>2. NsNow(r)' = NsNow(r)
      BY <1>6, <2>1 DEF NsNow, NsLocal
    <2>3. \A d \in NsClients : NsLocal(r, d) => (d \in ns_reg' <=> d \in ns_reg)
      BY <1>6, <2>1
    <2>4. NsHears(r)'
      BY <1>1, <1>6, <1>7, <1>9, <1>12, <1>14, <2>2, <2>3, NsHearsStill
    <2>5. ASSUME NEW d \in NsClients, NsLocal(r, d)
          PROVE  NsReached(d, ns_wire'[r], ns_wire'[s], ns_nick[r], ns_nick[s], ns_reg', ns_hasty, NsDying(r), NsDying(s))
      <3>1. NsReached(d, ns_wire[r], ns_wire[s], ns_nick[r], ns_nick[s], ns_reg, ns_hasty, NsDying(r), NsDying(s))
        BY <1>1, <1>12, <1>14, <2>5 DEF NsHeeds
      <3> QED BY <1>9, <1>10, <2>3, <2>5, <3>1 DEF NsReached
    <2>6. NsHeeds(r)'
      BY <1>1, <1>6, <1>7, <2>5 DEF NsHeeds
    <2> QED BY <1>14, <2>4, <2>6
  <1> QED BY <1>1, <1>13, <1>14

LEMMA NsFollowsApply ==
    ASSUME NsBase, NsFollows, NEW s \in NsServers, NsApply(s)
    PROVE  NsFollows'
  <1>0. PICK r \in NsServers : r = NsOther(s)
    BY NsPeers
  <1>1. r # s /\ NsOther(r) = s /\ \A t \in NsServers : t = s \/ t = r
    BY <1>0, NsPeers
  <1>2. ns_wire \in [NsServers -> Seq(NsLines)] /\ NickSyncTypeOK
    BY NsTypes DEF NsBase
  <1>3. PICK D : D = NsDying(s)
    OBVIOUS
  <1>4. PICK L \in Seq(NsLines) : L = NsQuits(s)
    BY NsQuitsType DEF NsSays
  <1>5. /\ ns_nick'[r] = ns_nick[r] /\ NsDying(r)' = NsDying(r) /\ NsDying(s)' = {}
        /\ \A c \in NsClients : ns_nick'[s][c] = IF c \in D THEN NsAbsent ELSE ns_nick[s][c]
        /\ ns_reg' = ns_reg \ {c \in D : NsLocal(s, c)} /\ ns_wire' = NsSent(ns_wire, s, L)
        /\ UNCHANGED <<ns_new, ns_up, ns_link, ns_left, ns_hasty>>
    BY <1>1, <1>2, <1>3, <1>4, NsApplied
  <1>6. /\ ns_up[s] /\ ns_link = "up" => ns_wire'[s] = ns_wire[s] \o L
        /\ ns_wire'[s] = ns_wire[s] \/ ns_wire'[s] = ns_wire[s] \o L
        /\ ns_wire'[r] = ns_wire[r]
    BY <1>1, <1>2, <1>5, NsSaidTo
  <1>7. \A k : NsOn(k, ns_wire[s]) => NsOn(k, ns_wire'[s])
    BY <1>2, <1>6, NsOnMore
  <1>8. SUFFICES ASSUME NEW h \in NsServers, ns_link = "up", ns_up[h]
                 PROVE  NsHears(h)' /\ NsHeeds(h)'
    BY <1>5 DEF NsFollows
  <1>9. NsHears(h) /\ NsHeeds(h)
    BY <1>8 DEF NsFollows
  <1>10. CASE h = s
    <2>1. PICK then : then = NsNow(s)'
      OBVIOUS
    <2>2. then = [c \in NsClients |-> IF NsLocal(s, c) /\ c \in ns_reg \ NsDying(s) THEN ns_nick[s][c] ELSE NsAbsent]
      <3>1. then = [c \in NsClients |-> IF NsLocal(s, c) /\ c \in ns_reg' THEN ns_nick'[s][c] ELSE NsAbsent]
        BY <2>1 DEF NsNow, NsLocal
      <3>2. \A c \in NsClients : NsLocal(s, c) => (c \in ns_reg' <=> c \in ns_reg \ NsDying(s))
        BY <1>3, <1>5
      <3>3. \A c \in NsClients : c \in ns_reg \ NsDying(s) => ns_nick'[s][c] = ns_nick[s][c]
        BY <1>3, <1>5
      <3> QED BY <3>1, <3>2, <3>3
    <2>3. PICK R : /\ NsFits(R, L, then) /\ R[0] = NsNow(s)
                   /\ \A c \in NsClients \ D : \A i \in 0 .. Len(L) : R[i][c] = NsNow(s)[c]
                   /\ \A i \in 1 .. Len(L) : NsIs(L[i], "QUIT")
      BY <1>3, <1>4, <2>2, NsQuitsTold
    <2>4. PICK P : /\ NsFits(P, ns_wire[s], NsNow(s))
                   /\ \A c \in NsClients : NsLocal(s, c) =>
                         NsTale(c, ns_wire[s], P, ns_nick[s], ns_nick[NsOther(s)], ns_reg, ns_new, ns_hasty,
                                NsDying(s), NsDying(NsOther(s)))
      BY <1>9, <1>10 DEF NsHears
    <2>5. R[0] = P[Len(ns_wire[s])] /\ P[Len(ns_wire[s])] = NsNow(s)
      BY <2>3, <2>4 DEF NsFits
    <2>6. \A k \in 1 .. Len(L) : (\A c : ~NsIntros(L[k], c)) /\ (\A m : L[k] # <<"KILL", m>>)
      BY <2>3, NsIsOne, NsNoKill DEF NsIntros
    <2>7. ASSUME NEW c \in NsClients, NsLocal(s, c)
          PROVE  NsTale(c, ns_wire[s] \o L, NsJoin(P, ns_wire[s], R, L), ns_nick'[s], ns_nick[r], ns_reg', ns_new,
                        ns_hasty, NsDying(s)', NsDying(r))
      <3>1. NsTale(c, ns_wire[s], P, ns_nick[s], ns_nick[r], ns_reg, ns_new, ns_hasty, NsDying(s), NsDying(r))
        BY <1>0, <2>4, <2>7
      <3>2. PICK mine, mine2, theirs, hd2, rd, w, reg2 : mine = ns_nick[s] /\ mine2 = ns_nick'[s] /\ theirs = ns_nick[r]
                /\ hd2 = NsDying(s)' /\ rd = NsDying(r) /\ w = ns_wire[s] /\ reg2 = ns_reg'
        OBVIOUS
      <3>3. w \in Seq(NsLines) /\ L \in Seq(NsLines) /\ NsTale(c, w, P, mine, theirs, ns_reg, ns_new, ns_hasty, D, rd)
            /\ R[0] = P[Len(w)]
        BY <1>2, <1>3, <2>5, <3>1, <3>2
      <3>4. \A k \in 1 .. Len(L) : ~NsIntros(L[k], c)
        BY <2>6
      <3>5. CASE c \in D
        <4>1. c \notin reg2 /\ mine2[c] = NsAbsent
          BY <1>5, <2>7, <3>2, <3>5
        <4>2. c \notin ns_new
          BY <1>3, <2>7, <3>5 DEF NsBase, NsRecords, NsLocal
        <4>3. NsTale(c, w \o L, NsJoin(P, w, R, L), mine2, theirs, reg2, ns_new, ns_hasty, hd2, rd)
          BY <3>3, <3>4, <4>1, <4>2, NsTaleGone
        <4> QED BY <3>2, <4>3
      <3>6. CASE c \notin D
        <4>1. \A k \in 0 .. Len(L) : R[k][c] = P[Len(w)][c]
          BY <2>3, <2>5, <3>2, <3>6
        <4>2. \A k \in 1 .. Len(L) : L[k] = <<"KILL", mine[c]>> /\ c \in ns_reg => c \in ns_hasty \cup D
          BY <2>6
        <4>3. NsTale(c, w \o L, NsJoin(P, w, R, L), mine, theirs, ns_reg, ns_new, ns_hasty, D, rd)
          BY <3>3, <3>4, <4>1, <4>2, NsTaleSame
        <4>4. mine2[c] = mine[c] /\ (c \in reg2 <=> c \in ns_reg)
          BY <1>5, <3>2, <3>6
        <4>5. NsTale(c, w \o L, NsJoin(P, w, R, L), mine2, theirs, reg2, ns_new, ns_hasty, hd2, rd)
          BY <3>6, <4>3, <4>4, NsTaleKept
        <4> QED BY <3>2, <4>5
      <3> QED BY <3>5, <3>6
    <2>8. NsHears(s)'
      <3>1. ns_wire'[s] = ns_wire[s] \o L /\ NsFits(R, L, NsNow(s)') /\ R[0] = NsNow(s)
        BY <1>6, <1>8, <1>10, <2>1, <2>3
      <3>2. \A c \in NsClients : NsLocal(s, c) =>
              NsTale(c, ns_wire[s] \o L, NsJoin(P, ns_wire[s], R, L), ns_nick'[s], ns_nick'[NsOther(s)], ns_reg', ns_new',
                     ns_hasty', NsDying(s)', NsDying(NsOther(s))')
        BY <1>0, <1>5, <2>7
      <3> QED BY <1>2, <2>4, <3>1, <3>2, NsHearsSaid
    <2>9. ASSUME NEW c \in NsClients, NsLocal(s, c)
          PROVE  NsReached(c, ns_wire'[s], ns_wire'[r], ns_nick'[s], ns_nick[r], ns_reg', ns_hasty, NsDying(s)', NsDying(r))
      <3>1. NsReached(c, ns_wire[s], ns_wire[r], ns_nick[s], ns_nick[r], ns_reg, ns_hasty, NsDying(s), NsDying(r))
        BY <1>0, <1>9, <1>10, <2>9 DEF NsHeeds
      <3>2. c \in ns_reg' => c \in ns_reg /\ c \notin NsDying(s) /\ ns_nick'[s][c] = ns_nick[s][c]
        BY <1>3, <1>5, <2>9
      <3> QED BY <1>6, <1>7, <3>1, <3>2 DEF NsReached
    <2>10. NsHeeds(s)'
      BY <1>0, <1>5, <2>9 DEF NsHeeds
    <2> QED BY <1>10, <2>8, <2>10
  <1>11. CASE h = r
    <2>1. \A c \in NsClients : NsLocal(r, c) => ~NsLocal(s, c)
      BY <1>0, NsHomes
    <2>2. NsNow(r)' = NsNow(r)
      BY <1>5, <2>1 DEF NsNow, NsLocal
    <2>3. \A c \in NsClients : NsLocal(r, c) => (c \in ns_reg' <=> c \in ns_reg)
      BY <1>5, <2>1
    <2>4. \A c \in NsClients : ns_nick'[s][c] # NsAbsent => ns_nick'[s][c] = ns_nick[s][c] /\ c \notin NsDying(s)
      BY <1>3, <1>5
    <2>5. \A c \in NsClients : NsLocal(r, c) =>
              /\ c \in ns_reg' <=> c \in ns_reg
              /\ c \in ns_new' => c \in ns_new
              /\ c \in ns_hasty => c \in ns_hasty'
              /\ c \in NsDying(r) => c \in NsDying(r)'
              /\ c \in ns_reg => ns_nick'[r][c] = ns_nick[r][c]
              /\ ns_nick[r][c] = NsAbsent /\ c \notin ns_new => ns_nick'[r][c] = NsAbsent
              /\ ns_nick'[s][c] # NsAbsent => ns_nick[s][c] # NsAbsent
              /\ ns_nick'[s][c] # NsAbsent /\ c \notin NsDying(s)' =>
                    ns_nick'[s][c] = ns_nick[s][c] /\ c \notin NsDying(s)
      BY <1>5, <2>3, <2>4
    <2>6. NsHears(r)'
      BY <1>1, <1>6, <1>9, <1>11, <2>2, <2>5, NsHearsStill
    <2>7. ASSUME NEW c \in NsClients, NsLocal(r, c)
          PROVE  NsReached(c, ns_wire'[r], ns_wire'[s], ns_nick[r], ns_nick'[s], ns_reg', ns_hasty, NsDying(r), NsDying(s)')
      <3>1. NsReached(c, ns_wire[r], ns_wire[s], ns_nick[r], ns_nick[s], ns_reg, ns_hasty, NsDying(r), NsDying(s))
        BY <1>1, <1>9, <1>11, <2>7 DEF NsHeeds
      <3>2. c \notin NsDying(s) => ns_nick'[s][c] = ns_nick[s][c]
        BY <1>3, <1>5
      <3> QED BY <1>5, <1>6, <1>7, <2>3, <2>7, <3>1, <3>2 DEF NsReached
    <2>8. NsHeeds(r)'
      BY <1>1, <1>5, <2>7 DEF NsHeeds
    <2> QED BY <1>11, <2>6, <2>8
  <1> QED BY <1>1, <1>10, <1>11

\* A new link: the clients of s are on their way behind the BURST.
LEMMA NsFollowsUsers ==
    ASSUME NsBase, NEW s \in NsServers, NEW L \in Seq(NsLines), \A i \in 1 .. Len(L) : NsIs(L[i], "BURST"),
           UNCHANGED <<ns_nick, ns_culls, ns_reg, ns_new, ns_hasty>>, ns_wire'[s] = L \o NsUsers(s), NsTidy(NsOther(s))
    PROVE  NsHears(s)' /\ NsHeeds(s)'
  <1>0. PICK r \in NsServers : r = NsOther(s)
    BY NsPeers
  <1>1. PICK U \in Seq(NsLines) : U = NsUsers(s)
    BY NsUsersType DEF NsSays
  <1>2. \A c \in NsClients : NsLocal(s, c) => ns_nick[r][c] = NsAbsent
    BY <1>0, NsHomes DEF NsTidy
  <1>3. NsNow(s)' = NsNow(s) /\ NsDying(s)' = NsDying(s) /\ NsDying(r)' = NsDying(r)
    BY DEF NsNow, NsLocal, NsDying
  <1>4. PICK now : now = NsNow(s)
    OBVIOUS
  <1>5. PICK R : /\ NsFits(R, U, now) /\ R[0] = NsNobody
                 /\ \A c \in NsClients : \A i \in 0 .. Len(U) :
                       /\ R[i][c] \in {NsAbsent, now[c]}
                       /\ \A k \in i .. Len(U) : R[i][c] # NsAbsent => R[k][c] # NsAbsent
                 /\ \A i \in 1 .. Len(U) :
                       /\ NsIs(U[i], "INTRO")
                       /\ \A c \in NsClients : NsIntros(U[i], c) => \A k \in 0 .. i - 1 : R[k][c] = NsAbsent
                 /\ \A c \in ns_reg : NsLocal(s, c) => NsOn(<<"INTRO", c, ns_nick[s][c]>>, U)
    BY <1>1, <1>4, NsUsersTold
  <1>6. NsNobody \in NsViews /\ NsOneName(NsNobody) /\ \A c \in NsClients : NsNobody[c] = NsAbsent
    BY DEF NsNobody, NsViews, NsOneName
  <1>7. \A i \in 1 .. Len(L) : NsPlain(L[i])
    BY DEF NsPlain
  <1>8. PICK Q : NsFits(Q, L, NsNobody) /\ Q[0] = NsNobody /\ \A k \in 0 .. Len(L) : Q[k] = NsNobody
    BY <1>6, <1>7, NsFitsStill
  <1>9. PICK P : P = NsJoin(Q, L, R, U)
    OBVIOUS
  <1>10. NsFits(P, L \o U, now)
    BY <1>5, <1>8, <1>9, NsFitsJoin
  <1>11. PICK n \in Nat, m \in Nat : n = Len(L) /\ m = Len(U)
    OBVIOUS
  <1>12. PICK x : /\ x = L \o U /\ x \in Seq(NsLines) /\ Len(x) = n + m
                  /\ \A i \in 1 .. n : x[i] = L[i]
                  /\ \A i \in 1 .. n + m : i > n => i - n \in 1 .. m /\ x[i] = U[i - n]
    <2>1. PICK x : x = L \o U
      OBVIOUS
    <2>2. x \in Seq(NsLines) /\ Len(x) = n + m /\ \A i \in 1 .. n : x[i] = L[i]
      BY <1>11, <2>1, NsConcat
    <2>3. \A i \in 1 .. n + m : i > n => i - n \in 1 .. m /\ x[i] = U[i - n]
      BY <1>11, <2>1, NsConcat
    <2> QED BY <2>1, <2>2, <2>3
  <1>13. R[0] = Q[Len(L)]
    BY <1>5, <1>8 DEF NsFits
  <1>14. /\ \A i \in 0 .. n : P[i] = Q[i]
         /\ \A i \in 0 .. n + m : i >= n => i - n \in 0 .. m /\ P[i] = R[i - n]
    BY <1>9, <1>11, <1>13, NsJoinAt
  <1>15. ASSUME NEW c \in NsClients, NsLocal(s, c)
         PROVE  NsTale(c, x, P, ns_nick[s], ns_nick[r], ns_reg, ns_new, ns_hasty, NsDying(s), NsDying(r))
    <2>1. ns_nick[r][c] = NsAbsent
      BY <1>2, <1>15
    <2>2. \A i \in 0 .. n : P[i][c] = NsAbsent
      BY <1>6, <1>8, <1>11, <1>14
    <2>3. ASSUME NEW i \in 1 .. Len(x), NsIntros(x[i], c)
          PROVE  \A k \in 0 .. i - 1 : P[k][c] = NsAbsent
      <3>1. i > n
        <4>1. CASE i \in 1 .. n
          BY <1>11, <1>12, <2>3, <4>1, NsIsOne DEF NsIntros
        <4> QED BY <1>12, <2>3, <4>1
      <3>2. i - n \in 1 .. m /\ NsIntros(U[i - n], c)
        BY <1>12, <2>3, <3>1
      <3>3. \A k \in 0 .. (i - n) - 1 : R[k][c] = NsAbsent
        BY <1>5, <1>11, <3>2
      <3>4. ASSUME NEW k \in 0 .. i - 1 PROVE P[k][c] = NsAbsent
        <4>1. CASE k <= n
          <5>1. k \in 0 .. n
            BY <3>4, <4>1
          <5> QED BY <2>2, <5>1
        <4>2. CASE k > n
          <5>1. k \in 0 .. n + m /\ k >= n /\ k - n \in 0 .. (i - n) - 1
            BY <1>12, <2>3, <3>2, <3>4, <4>2
          <5> QED BY <1>14, <3>3, <5>1
        <4> QED BY <3>4, <4>1, <4>2
      <3> QED BY <3>4
    <2>4. ASSUME NEW i \in 0 .. Len(x) PROVE P[i][c] \in {NsAbsent, now[c]}
      <3>1. CASE i <= n
        <4>1. i \in 0 .. n
          BY <2>4, <3>1
        <4> QED BY <2>2, <4>1
      <3>2. CASE i > n
        <4>1. i \in 0 .. n + m /\ i >= n
          BY <1>12, <2>4, <3>2
        <4> QED BY <1>5, <1>11, <1>14, <4>1
      <3> QED BY <2>4, <3>1, <3>2
    <2>5. ASSUME NEW i \in 0 .. Len(x), NEW k \in i .. Len(x), P[i][c] # NsAbsent PROVE P[k][c] # NsAbsent
      <3>1. i > n
        <4>1. CASE i <= n
          <5>1. i \in 0 .. n
            BY <2>5, <4>1
          <5> QED BY <2>2, <2>5, <5>1
        <4> QED BY <2>5, <4>1
      <3>2. i \in 0 .. n + m /\ k \in 0 .. n + m /\ i >= n /\ k >= n /\ i - n \in 0 .. m /\ k - n \in i - n .. m
        BY <1>12, <2>5, <3>1
      <3>3. P[i] = R[i - n] /\ P[k] = R[k - n]
        BY <1>14, <3>2
      <3> QED BY <1>5, <1>11, <2>5, <3>2, <3>3
    <2>6. c \notin ns_reg => now[c] = NsAbsent
      BY <1>4, NsNowViews
    <2>7. c \in ns_reg => now[c] = ns_nick[s][c]
      BY <1>4, <1>15, NsNowViews
    <2>8. ASSUME NEW i \in 1 .. Len(x) PROVE \A k : x[i] # <<"KILL", k>>
      <3>1. NsIs(x[i], "BURST") \/ NsIs(x[i], "INTRO")
        <4>1. CASE i <= n
          <5>1. i \in 1 .. n
            BY <2>8, <4>1
          <5> QED BY <1>11, <1>12, <5>1
        <4>2. CASE i > n
          BY <1>5, <1>11, <1>12, <2>8, <4>2
        <4> QED BY <2>8, <4>1, <4>2
      <3> QED BY <3>1, NsNoKill
    <2>9. c \notin ns_reg => \A i \in 0 .. Len(x) : P[i][c] = NsAbsent
      BY <2>4, <2>6
    <2>10. c \in ns_reg => \A i \in 0 .. Len(x) : P[i][c] \in {NsAbsent, ns_nick[s][c]}
      BY <2>4, <2>7
    <2> QED BY <2>1, <2>3, <2>5, <2>8, <2>9, <2>10 DEF NsTale
  <1>16. NsHears(s)'
    <2>1. NsFits(P, ns_wire'[s], NsNow(s)')
      BY <1>1, <1>3, <1>4, <1>10
    <2>2. \A c \in NsClients : NsLocal(s, c) =>
             NsTale(c, ns_wire'[s], P, ns_nick'[s], ns_nick'[NsOther(s)], ns_reg', ns_new', ns_hasty',
                    NsDying(s)', NsDying(NsOther(s))')
      BY <1>0, <1>1, <1>3, <1>12, <1>15
    <2> QED BY <2>1, <2>2 DEF NsHears
  <1>17. ASSUME NEW c \in NsClients, NsLocal(s, c), c \in ns_reg
         PROVE  NsOn(<<"INTRO", c, ns_nick[s][c]>>, ns_wire'[s])
    BY <1>1, <1>5, <1>17, NsOnMore
  <1>18. NsHeeds(s)'
    BY <1>3, <1>17 DEF NsHeeds, NsReached
  <1> QED BY <1>16, <1>18

LEMMA NsFollowsLinkUp ==
    ASSUME NsBase, NEW s \in NsServers, NsLinkUp(s)
    PROVE  NsFollows'
  <1>1. /\ ns_wire'[s] = <<<<"BURST">>>> \o NsUsers(s) /\ ~ns_up'[NsOther(s)]
        /\ NsTidy(NsOther(s)) /\ UNCHANGED <<ns_nick, ns_culls, ns_reg, ns_new, ns_hasty>>
    BY NsBaseLinkUp DEF NsLinkUp
  <1>2. PICK l \in NsLines : l = <<"BURST">> /\ NsIs(l, "BURST")
    BY NsLineType, NsMade
  <1>3. PICK L \in Seq(NsLines) : L = <<l>> /\ \A i \in 1 .. Len(L) : L[i] = l
    <2>1. <<l>> \in Seq(NsLines) /\ \A i \in 1 .. Len(<<l>>) : <<l>>[i] = l
      OBVIOUS
    <2> QED BY <2>1
  <1>4. NsHears(s)' /\ NsHeeds(s)'
    BY <1>1, <1>2, <1>3, NsFollowsUsers
  <1> QED BY <1>1, <1>4, NsPeers DEF NsFollows

LEMMA NsFollowsBurst ==
    ASSUME NsBase, NsFollows, NEW s \in NsServers, NsBurst(s)
    PROVE  NsFollows'
  <1>0. PICK r \in NsServers : r = NsOther(s)
    BY NsPeers
  <1>1. r # s /\ NsOther(r) = s /\ \A t \in NsServers : t = s \/ t = r
    BY <1>0, NsPeers
  <1>2. ns_wire \in [NsServers -> Seq(NsLines)]
    BY NsTypes DEF NsBase
  <1>3. /\ ns_wire'[s] = NsUsers(s) /\ ns_wire'[r] = Tail(ns_wire[r])
        /\ ns_link = "up" /\ ~ns_up[s] /\ ns_up[r] /\ NsTidy(s) /\ NsTidy(r)
        /\ ns_wire[r] # <<>> /\ ns_wire[r][1] = <<"BURST">>
        /\ UNCHANGED <<ns_nick, ns_culls, ns_reg, ns_new, ns_link, ns_hasty>>
    BY <1>0, NsBaseBurst DEF NsBurst
  <1>4. NsHears(s)' /\ NsHeeds(s)'
    <2>1. PICK L \in Seq(NsLines) : L = <<>> /\ Len(L) = 0
      <3>1. <<>> \in Seq(NsLines) /\ Len(<<>>) = 0
        OBVIOUS
      <3> QED BY <3>1
    <2>2. ns_wire'[s] = L \o NsUsers(s)
      <3>1. NsUsers(s) \in Seq(NsLines)
        BY NsUsersType DEF NsSays
      <3>2. PICK U \in Seq(NsLines) : U = NsUsers(s)
        BY <3>1
      <3>3. L \o U = U
        BY <2>1
      <3> QED BY <1>3, <3>2, <3>3
    <2>3. \A i \in 1 .. Len(L) : NsIs(L[i], "BURST")
      BY <2>1
    <2> QED BY <1>0, <1>3, <2>2, <2>3, NsFollowsUsers
  <1>5. NsHears(r) /\ NsHeeds(r)
    BY <1>3 DEF NsFollows
  <1>6. NsDying(s)' = NsDying(s) /\ NsDying(r)' = NsDying(r) /\ NsNow(r)' = NsNow(r)
    BY <1>3 DEF NsDying, NsNow, NsLocal
  <1>7. PICK l \in NsLines : l = <<"BURST">> /\ l = ns_wire[r][1] /\ NsIs(l, "BURST")
    BY <1>3, NsLineType, NsMade
  <1>8. PICK P : /\ NsFits(P, ns_wire[r], NsNow(r))
                 /\ \A d \in NsClients : NsLocal(r, d) =>
                       NsTale(d, ns_wire[r], P, ns_nick[r], ns_nick[NsOther(r)], ns_reg, ns_new, ns_hasty,
                              NsDying(r), NsDying(NsOther(r)))
    BY <1>5 DEF NsHears
  <1>9. \A d \in NsClients : NsLocal(r, d) => ns_nick[s][d] = NsAbsent
    BY <1>0, <1>3, NsHomes DEF NsTidy
  <1>10. NsHears(r)'
    <2>1. /\ ns_wire[r] \in Seq(NsLines) /\ ns_wire[r] # <<>> /\ ns_wire'[r] = Tail(ns_wire[r])
          /\ ns_nick'[r] = ns_nick[r] /\ NsDying(r)' = NsDying(r) /\ NsFits(P, ns_wire[r], NsNow(r))
      BY <1>2, <1>3, <1>6, <1>8
    <2>2. ASSUME NEW d \in NsClients, NsLocal(r, d)
          PROVE  /\ NsTale(d, ns_wire[r], P, ns_nick[r], ns_nick[s], ns_reg, ns_new, ns_hasty, NsDying(r), NsDying(s))
                 /\ d \in ns_hasty' <=> d \in ns_hasty
                 /\ ns_nick'[s][d] = NsAbsent
      BY <1>1, <1>3, <1>8, <1>9, <2>2
    <2> QED BY <1>1, <1>3, <2>1, <2>2, NsHearsRead
  <1>11. ASSUME NEW d \in NsClients, NsLocal(r, d)
         PROVE  NsReached(d, ns_wire'[r], ns_wire'[s], ns_nick[r], ns_nick[s], ns_reg, ns_hasty, NsDying(r), NsDying(s))
    <2>1. NsReached(d, ns_wire[r], ns_wire[s], ns_nick[r], ns_nick[s], ns_reg, ns_hasty, NsDying(r), NsDying(s))
      BY <1>1, <1>5, <1>11 DEF NsHeeds
    <2>2. ns_wire[s] = <<>>
      BY <1>3 DEF NsBase, NsWires, NsAwaits
    <2>3. \A k : ~NsOn(k, ns_wire[s])
      BY <2>2 DEF NsOn
    <2>4. \A m : <<"INTRO", d, m>> # l
      BY <1>7, NsMade, NsIsOne
    <2>5. \A m : NsOn(<<"INTRO", d, m>>, ns_wire[r]) => NsOn(<<"INTRO", d, m>>, ns_wire'[r])
      <3>1. <<>> \in Seq(NsLines)
        OBVIOUS
      <3> QED BY <1>2, <1>3, <1>7, <2>4, <3>1, NsOnMore
    <2> QED BY <2>1, <2>3, <2>5 DEF NsReached
  <1>12. NsHeeds(r)'
    BY <1>1, <1>3, <1>6, <1>11 DEF NsHeeds
  <1> QED BY <1>1, <1>4, <1>10, <1>12 DEF NsFollows

-----------------------------------------------------------------------------
LEMMA NsFollowsInit ==
    ASSUME NickSyncInit
    PROVE  NsFollows
  <1> DEFINE none == [i \in 0 .. 0 |-> NsNobody]
  <1>1. NsNobody \in NsViews /\ NsOneName(NsNobody) /\ \A c \in NsClients : NsNobody[c] = NsAbsent
    BY DEF NsNobody, NsViews, NsOneName
  <1>2. none \in [0 .. 0 -> NsViews] /\ none[0] = NsNobody /\ \A i \in 0 .. 0 : none[i] = NsNobody
    BY <1>1
  <1> HIDE DEF none
  <1>3. ASSUME NEW h \in NsServers PROVE NsHears(h) /\ NsHeeds(h)
    <2>1. ns_wire[h] = <<>> /\ Len(ns_wire[h]) = 0 /\ ns_reg = {} /\ NsOther(h) \in NsServers
      BY NsPeers DEF NickSyncInit
    <2>2. NsNow(h) = NsNobody
      BY <2>1 DEF NsNow, NsNobody
    <2>3. NsFits(none, ns_wire[h], NsNow(h))
      BY <1>1, <1>2, <2>1, <2>2 DEF NsFits
    <2>4. ASSUME NEW c \in NsClients
          PROVE  NsTale(c, ns_wire[h], none, ns_nick[h], ns_nick[NsOther(h)], ns_reg, ns_new, ns_hasty,
                        NsDying(h), NsDying(NsOther(h)))
      <3>1. ns_nick[NsOther(h)][c] = NsAbsent
        BY <2>1 DEF NickSyncInit
      <3>2. \A i \in 0 .. 0 : none[i][c] = NsAbsent
        BY <1>1, <1>2
      <3> QED BY <2>1, <3>1, <3>2 DEF NsTale
    <2>5. NsHears(h)
      BY <2>3, <2>4 DEF NsHears
    <2>6. NsHeeds(h)
      BY <2>1 DEF NsHeeds, NsReached
    <2> QED BY <2>5, <2>6
  <1> QED BY <1>3 DEF NsFollows

LEMMA NsBaseNext ==
    ASSUME NsBase, [NickSyncNext]_ns_vars
    PROVE  NsBase'
  <1>1. CASE UNCHANGED ns_vars
    BY <1>1 DEF ns_vars, NsBase, NickSyncTypeOK, NsRecords, NsWires, NsTidied, NsTidy, NsDying, NsAwaits
  <1>2. ASSUME NEW s \in NsServers, NEW c \in NsClients, NsRegister(s, c) \/ NsQuit(s, c) \/ \E n \in NsNicks : NsNick(s, c, n)
        PROVE  NsBase'
    BY <1>2, NsBaseRegister, NsBaseQuit, NsBaseNick
  <1>3. ASSUME NEW s \in NsServers, NEW n \in NsNicks, NsKill(s, n) \/ \E m \in NsNicks : NsService(s, n, m)
        PROVE  NsBase'
    BY <1>3, NsBaseKill, NsBaseService
  <1>4. ASSUME NEW s \in NsServers,
               NsApply(s) \/ NsIntroduce(s) \/ NsReadNick(s) \/ NsReadQuit(s) \/ NsReadKill(s) \/ NsForceNick(s)
        PROVE  NsBase'
    BY <1>4, NsBaseApply, NsBaseIntroduce, NsBaseReadNick, NsBaseReadQuit, NsBaseReadKill, NsBaseForceNick
  <1>5. ASSUME NEW s \in NsServers, NsNotice(s) \/ NsLinkUp(s) \/ NsBurst(s)
        PROVE  NsBase'
    BY <1>5, NsBaseNotice, NsBaseLinkUp, NsBaseBurst
  <1>6. CASE NsBreak
    BY <1>6, NsBaseBreak
  <1> QED BY <1>1, <1>2, <1>3, <1>4, <1>5, <1>6 DEF NickSyncNext

LEMMA NsFollowsNext ==
    ASSUME NsBase, NsFollows, [NickSyncNext]_ns_vars
    PROVE  NsFollows'
  <1>1. CASE UNCHANGED ns_vars
    BY <1>1 DEF ns_vars, NsFollows, NsHears, NsHeeds, NsNow, NsLocal, NsDying
  <1>2. ASSUME NEW s \in NsServers, NEW c \in NsClients, NsRegister(s, c) \/ NsQuit(s, c) \/ \E n \in NsNicks : NsNick(s, c, n)
        PROVE  NsFollows'
    BY <1>2, NsFollowsRegister, NsFollowsQuit, NsFollowsNick
  <1>3. ASSUME NEW s \in NsServers, NEW n \in NsNicks, NsKill(s, n) \/ \E m \in NsNicks : NsService(s, n, m)
        PROVE  NsFollows'
    BY <1>3, NsFollowsKill, NsFollowsService
  <1>4. ASSUME NEW s \in NsServers,
               NsApply(s) \/ NsIntroduce(s) \/ NsReadNick(s) \/ NsReadQuit(s) \/ NsReadKill(s) \/ NsForceNick(s)
        PROVE  NsFollows'
    BY <1>4, NsFollowsApply, NsFollowsIntroduce, NsFollowsReadNick, NsFollowsReadQuit, NsFollowsReadKill, NsFollowsForceNick
  <1>5. ASSUME NEW s \in NsServers, NsLinkUp(s) \/ NsBurst(s)
        PROVE  NsFollows'
    BY <1>5, NsFollowsLinkUp, NsFollowsBurst
  <1>6. ASSUME NEW s \in NsServers, NsNotice(s)
        PROVE  NsFollows'
    BY <1>6 DEF NsNotice, NsFollows
  <1>7. CASE NsBreak
    BY <1>7 DEF NsBreak, NsFollows
  <1> QED BY <1>1, <1>2, <1>3, <1>4, <1>5, <1>6, <1>7 DEF NickSyncNext

LEMMA NsAgreed ==
    ASSUME NsBase, NsFollows
    PROVE  NsAgree
  <1>1. SUFFICES ASSUME NsQuiet, NEW c \in NsClients
                 PROVE  \/ ns_nick[NsOther(NsHome[c])][c] = (IF c \in ns_reg THEN ns_nick[NsHome[c]][c] ELSE NsAbsent)
                        \/ ns_nick[NsOther(NsHome[c])][c] = NsAbsent /\ c \in ns_hasty
    BY DEF NsAgree
  <1>2. PICK h \in NsServers, r \in NsServers : h = NsHome[c] /\ r = NsOther(h)
    BY NickSyncOK, NsPeers
  <1>3. NsLocal(h, c) /\ NsHears(h) /\ NsHeeds(h)
    BY <1>1, <1>2 DEF NsLocal, NsQuiet, NsFollows
  <1>4. ns_wire[h] = <<>> /\ ns_wire[r] = <<>> /\ NsDying(h) = {} /\ NsDying(r) = {}
    BY <1>1, <1>2 DEF NsQuiet, NsDying, ToSet
  <1>5. PICK P : /\ NsFits(P, ns_wire[h], NsNow(h))
                 /\ NsTale(c, ns_wire[h], P, ns_nick[h], ns_nick[r], ns_reg, ns_new, ns_hasty, NsDying(h), NsDying(r))
    BY <1>2, <1>3 DEF NsHears
  <1>6. P[0] = NsNow(h)
    BY <1>4, <1>5 DEF NsFits
  <1>7. ns_nick[r][c] # NsAbsent => ns_nick[r][c] = NsNow(h)[c]
    BY <1>4, <1>5, <1>6 DEF NsTale
  <1>8. NsNow(h)[c] = IF c \in ns_reg THEN ns_nick[h][c] ELSE NsAbsent
    BY <1>3 DEF NsNow
  <1>9. c \in ns_reg \ ns_hasty => ns_nick[r][c] # NsAbsent
    <2>1. NsReached(c, ns_wire[h], ns_wire[r], ns_nick[h], ns_nick[r], ns_reg, ns_hasty, NsDying(h), NsDying(r))
      BY <1>2, <1>3 DEF NsHeeds
    <2>2. \A l : ~NsOn(l, ns_wire[h]) /\ ~NsOn(l, ns_wire[r])
      BY <1>4 DEF NsOn
    <2> QED BY <1>4, <2>1, <2>2 DEF NsReached
  <1> QED BY <1>2, <1>7, <1>8, <1>9

\* Nicknames (m_spanningtree, users.cpp, cull_list.cpp): once everything is read and removed, the two servers have the
\* same clients under the same nicknames, but for those who had changed their nickname and were killed elsewhere under
\* the old one.
THEOREM NicknamesAlwaysAgree == NickSyncSpec => []NsAgree
  <1>1. NickSyncInit => NsBase /\ NsFollows
    BY NsBaseInit, NsFollowsInit
  <1>2. NsBase /\ NsFollows /\ [NickSyncNext]_ns_vars => (NsBase /\ NsFollows)'
    BY NsBaseNext, NsFollowsNext
  <1>3. NsBase /\ NsFollows => NsAgree
    BY NsAgreed
  <1> QED BY <1>1, <1>2, <1>3, PTL DEF NickSyncSpec
=============================================================================

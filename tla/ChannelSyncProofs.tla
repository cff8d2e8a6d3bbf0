-------------------------- MODULE ChannelSyncProofs -------------------------
(***************************************************************************)
(* Proofs about ChannelSync for any clients, keys, topics, clock and any   *)
(* number of netsplits.                                                    *)
(*                                                                         *)
(* NoGhosts and the types need one more fact to be inductive: a topic has  *)
(* a time, which the burst sends.                                          *)
(*                                                                         *)
(* That the two servers agree once every line is read rests on what the    *)
(* lines on their way make of the reader: they lead it, one by one, to     *)
(* what the writer has.  That is shown of the members wherever nobody is   *)
(* kicked by the other server (Mending), of the whole channel where its    *)
(* members are all of one server (Following), and of two halves merged by  *)
(* their bursts alone (Halves).                                            *)
(***************************************************************************)
EXTENDS ChannelSync, SequenceTheorems, TLAPS

\* A topic is never without the time it was set.
Stamped == \A s \in Servers : topic[s] # None => topicset[s] # 0

\* The chanrec of each server is well-formed.
ChanOK ==
    /\ age \in [Servers -> 0 .. MaxTime]
    /\ members \in [Servers -> SUBSET Users]
    /\ ops \in [Servers -> SUBSET Users]
    /\ key \in [Servers -> KeyState]
    /\ topic \in [Servers -> Topics \cup {None}]
    /\ topicset \in [Servers -> 0 .. MaxTime]

WireOK == wire \in [Servers -> Seq(Line)]

Tidy == TypeOK /\ NoGhosts /\ Stamped

LEMMA PeerType ==
    \A s \in Servers : /\ Peer(s) \in Servers /\ Peer(s) # s
                       /\ Servers = {s, Peer(s)}
  BY SyncOK DEF Peer

LEMMA HomeType ==
    /\ \A u \in Users : Home[u] \in Servers /\ u \in Clients(Home[u])
    /\ \A s \in Servers : Users \ Clients(Peer(s)) \subseteq Clients(s)
  BY SyncOK, PeerType DEF Clients

-----------------------------------------------------------------------------
(* The helpers *)

\* Whoever leaves a chanrec leaves it well-formed, and deletes the last.
LEMMA LeaveTidy ==
  ASSUME Tidy, NEW s \in Servers, NEW gone \in SUBSET Users, Leave(s, gone)
  PROVE  /\ ChanOK' /\ Stamped'
         /\ \A t \in Servers : ops'[t] \subseteq members'[t] /\ (age'[t] # 0 <=> members'[t] # {})
         /\ members' = [members EXCEPT ![s] = @ \ gone]
<1> DEFINE left == members[s] \ gone
<1>1. /\ members' = [members EXCEPT ![s] = left]
      /\ ops' = [ops EXCEPT ![s] = @ \ gone]
  BY DEF Leave
<1>2. age' = [age EXCEPT ![s] = IF left = {} THEN 0 ELSE @]
  BY DEF Leave
<1>3. ChanOK'
  <2>1. age' \in [Servers -> 0 .. MaxTime]
    BY <1>2, SyncOK DEF Tidy, TypeOK
  <2>2. members' \in [Servers -> SUBSET Users] /\ ops' \in [Servers -> SUBSET Users]
    BY <1>1 DEF Tidy, TypeOK
  <2>3. key' \in [Servers -> KeyState]
    BY DEF Leave, Tidy, TypeOK, KeyState
  <2>4. topic' \in [Servers -> Topics \cup {None}]
    BY DEF Leave, Tidy, TypeOK
  <2>5. topicset' \in [Servers -> 0 .. MaxTime]
    BY SyncOK DEF Leave, Tidy, TypeOK
  <2> QED  BY <2>1, <2>2, <2>3, <2>4, <2>5 DEF ChanOK
<1>4. Stamped'
  <2>1. CASE left = {}
    BY <2>1 DEF Leave, Stamped, Tidy, TypeOK
  <2>2. CASE left # {}
    BY <2>2 DEF Leave, Stamped, Tidy, TypeOK
  <2> QED  BY <2>1, <2>2
<1>5. \A t \in Servers : ops'[t] \subseteq members'[t] /\ (age'[t] # 0 <=> members'[t] # {})
  <2> TAKE t \in Servers
  <2>0. ops[t] \subseteq members[t] /\ (age[t] # 0 <=> members[t] # {})
    BY DEF Tidy, NoGhosts, Exists
  <2>1. CASE t = s
    <3>1. members'[t] = left /\ ops'[t] = ops[t] \ gone /\ age'[t] = (IF left = {} THEN 0 ELSE age[t])
      BY <1>1, <1>2, <2>1 DEF Tidy, TypeOK
    <3> QED  BY <2>0, <2>1, <3>1
  <2>2. CASE t # s
    BY <1>1, <1>2, <2>0, <2>2 DEF Tidy, TypeOK
  <2> QED  BY <2>1, <2>2
<1> QED  BY <1>1, <1>3, <1>4, <1>5

\* Whoever enters one that is not there creates it with a timestamp.
LEMMA EnterTidy ==
  ASSUME Tidy, NEW s \in Servers, NEW u \in Users, NEW ts \in 1 .. MaxTime,
         NEW status \in SUBSET {u}, Enter(s, u, ts, status)
  PROVE  /\ ChanOK' /\ Stamped'
         /\ \A t \in Servers : ops'[t] \subseteq members'[t] /\ (age'[t] # 0 <=> members'[t] # {})
         /\ members' = [members EXCEPT ![s] = @ \cup {u}]
<1>1. PICK x \in {ts, age[s]} :
        /\ age' = [age EXCEPT ![s] = x] /\ x = (IF age[s] # 0 THEN age[s] ELSE ts)
  BY DEF Enter, Exists
<1>2. /\ members' = [members EXCEPT ![s] = @ \cup {u}]
      /\ ops' = [ops EXCEPT ![s] = @ \cup status]
      /\ UNCHANGED <<key, topic, topicset>>
  BY DEF Enter
<1>3. ChanOK'
  BY <1>1, <1>2, SyncOK DEF ChanOK, Tidy, TypeOK
<1>4. Stamped'
  BY <1>2 DEF Stamped, Tidy
<1>5. \A t \in Servers : ops'[t] \subseteq members'[t] /\ (age'[t] # 0 <=> members'[t] # {})
  <2> TAKE t \in Servers
  <2>0. ops[t] \subseteq members[t] /\ (age[t] # 0 <=> members[t] # {})
    BY DEF Tidy, NoGhosts, Exists
  <2>1. CASE t = s
    <3>1. members'[t] = members[t] \cup {u} /\ ops'[t] = ops[t] \cup status /\ age'[t] = x
      BY <1>1, <1>2, <2>1 DEF Tidy, TypeOK
    <3>2. x # 0
      BY <1>1
    <3> QED  BY <2>0, <3>1, <3>2
  <2>2. CASE t # s
    BY <1>1, <1>2, <2>0, <2>2 DEF Tidy, TypeOK
  <2> QED  BY <2>1, <2>2
<1> QED  BY <1>2, <1>3, <1>4, <1>5

\* What Sent and Read put on the wire are lines.
LEMMA SentType ==
  ASSUME TypeOK, NEW s \in Servers, NEW lines \in Seq(Line)
  PROVE  Sent(s, lines) \in [Servers -> Seq(Line)]
<1>1. wire[Peer(s)] \o lines \in Seq(Line)
  BY PeerType DEF TypeOK
<1> QED  BY <1>1, PeerType DEF Sent, TypeOK

LEMMA HeardType ==
  ASSUME TypeOK, NEW s \in Servers, NEW cmds, Heard(s, cmds)
  PROVE  /\ Head(wire[s]) \in Line /\ Head(wire[s]).cmd \in cmds
         /\ Tail(wire[s]) \in Seq(Line)
         /\ [wire EXCEPT ![s] = Tail(@)] \in [Servers -> Seq(Line)]
<1>1. wire[s] \in Seq(Line) /\ wire[s] # <<>>
  BY DEF Heard, TypeOK
<1>2. Head(wire[s]) \in Line /\ Tail(wire[s]) \in Seq(Line)
  BY <1>1
<1> QED  BY <1>2 DEF Heard, TypeOK

\* The burst of a channel is made of lines with timestamps.
LEMMA BurstType ==
  ASSUME Tidy, NEW s \in Servers
  PROVE  Burst(s) \in Seq(Line)
<1>1. CASE ~Exists(s)
  BY <1>1 DEF Burst
<1>2. CASE Exists(s)
  <2>1. age[s] \in 1 .. MaxTime
    BY <1>2, SyncOK DEF Exists, Tidy, TypeOK
  <2>2. FJoin(s) \in Line
    BY <2>1 DEF FJoin, Line, Tidy, TypeOK
  <2>3. key[s].shown => [cmd |-> "+k", ts |-> age[s], key |-> key[s].str] \in Line
    <3>1. key[s] \in KeyState
      BY DEF Tidy, TypeOK
    <3>2. key[s].shown => key[s].str \in Keys
      BY <3>1 DEF KeyState, NoKey
    <3> QED  BY <2>1, <3>2 DEF Line
  <2>4. topic[s] # None => [cmd |-> "FTOPIC", ts |-> topicset[s], topic |-> topic[s]] \in Line
    <3>1. topic[s] # None => topicset[s] \in 1 .. MaxTime /\ topic[s] \in Topics
      BY SyncOK DEF Tidy, TypeOK, Stamped
    <3> QED  BY <3>1 DEF Line
  <2>5. (IF key[s].shown THEN <<[cmd |-> "+k", ts |-> age[s], key |-> key[s].str]>> ELSE <<>>) \in Seq(Line)
    BY <2>3
  <2>6. (IF topic[s] = None THEN <<>>
         ELSE <<[cmd |-> "FTOPIC", ts |-> topicset[s], topic |-> topic[s]]>>) \in Seq(Line)
    BY <2>4
  <2>7. <<FJoin(s)>> \in Seq(Line)
    BY <2>2
  <2> HIDE DEF Tidy
  <2> QED  BY <1>2, <2>5, <2>6, <2>7 DEF Burst
<1> QED  BY <1>1, <1>2

-----------------------------------------------------------------------------
(* Every step keeps Tidy, part by part *)

NetOK == now \in 1 .. MaxTime /\ up \subseteq Servers /\ connected \in BOOLEAN /\ links \in 0 .. MaxLinks
Full == \A t \in Servers : ops[t] \subseteq members[t] /\ (age[t] # 0 <=> members[t] # {})
Apart == \A t \in Servers : t \notin up => members[t] \subseteq Clients(t)

LEMMA Parts == Tidy <=> ChanOK /\ Stamped /\ Full /\ Apart /\ WireOK /\ NetOK
  BY DEF Tidy, TypeOK, NoGhosts, Exists, ChanOK, Full, Apart, WireOK, NetOK

LEMMA PartsNext == (ChanOK /\ Stamped /\ Full /\ Apart /\ WireOK /\ NetOK)' => Tidy'
  BY DEF Tidy, TypeOK, NoGhosts, Exists, ChanOK, Full, Apart, WireOK, NetOK

\* A client's command tells the other server in well-formed lines.
LEMMA CommandTidy ==
  ASSUME Tidy, ClientCommand
  PROVE  Tidy'
<1>0. ChanOK /\ Stamped /\ Full /\ Apart /\ WireOK /\ NetOK /\ TypeOK
  BY Parts DEF Tidy
<1>00. UNCHANGED <<now, net>> /\ NetOK'
  BY <1>0 DEF ClientCommand, Join, Part, Kick, ChangeStatus, ChangeKey, SetTopic, net, NetOK
<1>1. ASSUME NEW u \in Users, Join(u) PROVE Tidy'
  <2> DEFINE s == Home[u]
             status == IF Exists(s) THEN {} ELSE {u}
             lines == IF Exists(s) THEN <<[cmd |-> "JOIN", user |-> u]>>
                      ELSE <<[cmd |-> "FJOIN", ts |-> now, users |-> {u}, ops |-> {u}]>>
  <2>1. s \in Servers /\ status \in SUBSET {u} /\ now \in 1 .. MaxTime /\ Enter(s, u, now, status)
    BY <1>0, <1>1, HomeType DEF Join, NetOK
  <2>2. lines \in Seq(Line)
    <3>1. [cmd |-> "JOIN", user |-> u] \in Line
      BY DEF Line
    <3>2. [cmd |-> "FJOIN", ts |-> now, users |-> {u}, ops |-> {u}] \in Line
      BY <2>1 DEF Line
    <3> QED  BY <3>1, <3>2
  <2>3. wire' = Sent(s, lines)
    BY <1>1 DEF Join
  <2> HIDE DEF s, status, lines
  <2>4. WireOK'
    BY <1>0, <2>1, <2>2, <2>3, SentType DEF WireOK
  <2>5. /\ ChanOK' /\ Stamped' /\ Full'
        /\ members' = [members EXCEPT ![s] = @ \cup {u}]
    BY <2>1, EnterTidy DEF Full
  <2>6. Apart'
    BY <1>0, <1>00, <2>1, <2>5, HomeType DEF Apart, ChanOK, net, s
  <2> QED  BY <1>00, <2>4, <2>5, <2>6, PartsNext
<1>2. ASSUME NEW u \in Users, NEW v \in Users, NEW line \in Line,
             Leave(Home[u], {v}), wire' = Sent(Home[u], <<line>>)
      PROVE  Tidy'
  <2>1. Home[u] \in Servers /\ {v} \in SUBSET Users
    BY HomeType
  <2>2. WireOK'
    <3>1. <<line>> \in Seq(Line)
      OBVIOUS
    <3> QED  BY <1>0, <1>2, <2>1, <3>1, SentType DEF WireOK
  <2>3. /\ ChanOK' /\ Stamped' /\ Full'
        /\ members' = [members EXCEPT ![Home[u]] = @ \ {v}]
    BY <1>2, <2>1, LeaveTidy DEF Full
  <2>4. Apart'
    BY <1>0, <1>00, <2>3 DEF Apart, ChanOK, net
  <2> QED  BY <1>00, <2>2, <2>3, <2>4, PartsNext
<1>3. ASSUME NEW u \in Users, Part(u) PROVE Tidy'
  <2>1. [cmd |-> "PART", user |-> u] \in Line
    BY DEF Line
  <2> QED  BY <1>2, <1>3, <2>1 DEF Part
<1>4. ASSUME NEW u \in Users, NEW v \in Users, Kick(u, v) PROVE Tidy'
  <2>1. [cmd |-> "KICK", user |-> v] \in Line
    BY DEF Line
  <2> QED  BY <1>2, <1>4, <2>1 DEF Kick
<1>5. ASSUME NEW u \in Users, NEW v \in Users, ChangeStatus(u, v) PROVE Tidy'
  <2> DEFINE s == Home[u]
             line == [cmd |-> IF v \in ops[s] THEN "-o" ELSE "+o", ts |-> age[s], user |-> v]
  <2>1. s \in Servers /\ age[s] \in 1 .. MaxTime /\ v \in members[s]
    BY <1>0, <1>5, HomeType, SyncOK DEF ChangeStatus, Full, ChanOK
  <2>2. <<line>> \in Seq(Line) /\ wire' = Sent(s, <<line>>)
    BY <1>5, <2>1 DEF Line, ChangeStatus
  <2> HIDE DEF line
  <2>3. WireOK'
    BY <1>0, <2>1, <2>2, SentType DEF WireOK
  <2>4. /\ ops' = [ops EXCEPT ![s] = IF v \in @ THEN @ \ {v} ELSE @ \cup {v}]
        /\ UNCHANGED <<age, members, key, topic, topicset>>
    BY <1>5 DEF ChangeStatus
  <2>5. ChanOK' /\ Stamped' /\ Apart'
    BY <1>0, <1>00, <2>4 DEF ChanOK, Stamped, Apart, net
  <2>6. Full'
    BY <1>0, <2>1, <2>4 DEF Full, ChanOK
  <2> QED  BY <1>00, <2>3, <2>5, <2>6, PartsNext
<1>6. ASSUME NEW u \in Users, NEW k \in Keys, ChangeKey(u, k) PROVE Tidy'
  <2> DEFINE s == Home[u]
             lines == <<[cmd |-> IF key[s].shown THEN "-k" ELSE "+k", ts |-> age[s], key |-> k]>>
  <2>1. s \in Servers /\ age[s] \in 1 .. MaxTime
    BY <1>0, <1>6, HomeType, SyncOK DEF ChangeKey, Full, ChanOK
  <2>2. lines \in Seq(Line) /\ wire' = Sent(s, lines)
    <3>1. [cmd |-> IF key[s].shown THEN "-k" ELSE "+k", ts |-> age[s], key |-> k] \in Line
      BY <2>1 DEF Line
    <3> QED  BY <1>6, <3>1 DEF ChangeKey
  <2> HIDE DEF lines
  <2>3. WireOK'
    BY <1>0, <2>1, <2>2, SentType DEF WireOK
  <2>4. /\ key' = [key EXCEPT ![s] = IF @.shown THEN NoKey ELSE [str |-> k, shown |-> TRUE]]
        /\ UNCHANGED <<age, members, ops, topic, topicset>>
    BY <1>6 DEF ChangeKey
  <2>5. ChanOK' /\ Stamped' /\ Apart' /\ Full'
    BY <1>0, <1>00, <2>4 DEF ChanOK, KeyState, Stamped, Apart, Full, net
  <2> QED  BY <1>00, <2>3, <2>5, PartsNext
<1>7. ASSUME NEW u \in Users, NEW t \in Topics, SetTopic(u, t) PROVE Tidy'
  <2> DEFINE s == Home[u]
             line == [cmd |-> "TOPIC", topic |-> t]
  <2>1. s \in Servers /\ now \in 0 .. MaxTime /\ now # 0
    BY <1>0, HomeType, SyncOK DEF NetOK
  <2>2. <<line>> \in Seq(Line) /\ wire' = Sent(s, <<line>>)
    BY <1>7 DEF Line, SetTopic
  <2> HIDE DEF line
  <2>3. WireOK'
    BY <1>0, <2>1, <2>2, SentType DEF WireOK
  <2>4. /\ topic' = [topic EXCEPT ![s] = t] /\ topicset' = [topicset EXCEPT ![s] = now]
        /\ UNCHANGED <<age, members, ops, key>>
    BY <1>7 DEF SetTopic
  <2>5. ChanOK' /\ Stamped' /\ Apart' /\ Full'
    BY <1>0, <1>00, <2>1, <2>4 DEF ChanOK, Stamped, Apart, Full, net
  <2> QED  BY <1>00, <2>3, <2>5, PartsNext
<1> QED  BY <1>1, <1>3, <1>4, <1>5, <1>6, <1>7 DEF ClientCommand

\* So does what a server makes of the other's lines.
LEMMA LineTidy ==
  ASSUME Tidy, NEW s \in Servers, ProcessLine(s)
  PROVE  Tidy'
<1> DEFINE line == Head(wire[s])
<1>0. ChanOK /\ Stamped /\ Full /\ Apart /\ WireOK /\ NetOK /\ TypeOK
  BY Parts DEF Tidy
<1>1. CASE HearBurst(s)
  <2>1. Tail(wire[s]) \in Seq(Line) /\ Burst(s) \in Seq(Line)
    BY <1>0, <1>1, HeardType, BurstType DEF HearBurst
  <2>2. wire[Peer(s)] \in Seq(Line) /\ wire[Peer(s)] \o Burst(s) \in Seq(Line)
    BY <1>0, <2>1, PeerType DEF WireOK
  <2>3. WireOK'
    BY <1>0, <1>1, <2>1, <2>2, PeerType DEF WireOK, HearBurst
  <2>4. ChanOK' /\ Stamped' /\ Full' /\ Apart' /\ NetOK'
    BY <1>0, <1>1 DEF HearBurst, chan, ChanOK, Stamped, Full, Apart, NetOK
  <2> QED  BY <2>3, <2>4, PartsNext
<1>2. CASE ForceJoin(s)
  <2> DEFINE users == line.users \cap Clients(Peer(s))
             status == line.ops \cap users
  <2>1. line \in Line /\ line.cmd = "FJOIN" /\ WireOK' /\ s \in up
    BY <1>0, <1>2, HeardType DEF ForceJoin, Heard, Read, WireOK
  <2>2. line.ts \in 1 .. MaxTime /\ users \in SUBSET Users
    BY <2>1 DEF Line
  <2>3. /\ age' = [age EXCEPT ![s] = Aged(s, line.ts, users)]
        /\ members' = [members EXCEPT ![s] = @ \cup users]
        /\ ops'[s] \subseteq ops[s] \cup users
        /\ ops' \in [Servers -> SUBSET Users]
        /\ \A t \in Servers : t # s => ops'[t] = ops[t]
    BY <1>0, <1>2, <2>2 DEF ForceJoin, ChanOK
  <2>4. key' = [key EXCEPT ![s] = IF Loses(s, line.ts) /\ @.shown THEN NoKey ELSE @]
    BY <1>2 DEF ForceJoin
  <2>5. UNCHANGED <<now, topic, topicset, net>>
    BY <1>2 DEF ForceJoin
  <2> HIDE DEF line, users
  <2>6. /\ Aged(s, line.ts, users) \in 0 .. MaxTime
        /\ Aged(s, line.ts, users) # 0 <=> members[s] \cup users # {}
    BY <1>0, <2>2 DEF Aged, Loses, Exists, ChanOK, Full
  <2>7. ChanOK'
    BY <1>0, <2>2, <2>3, <2>4, <2>5, <2>6 DEF ChanOK, KeyState
  <2>8. Full'
    BY <1>0, <2>3, <2>6 DEF Full, ChanOK
  <2>9. Stamped' /\ Apart' /\ NetOK'
    BY <1>0, <2>1, <2>3, <2>5 DEF Stamped, Apart, NetOK, net, ChanOK
  <2> QED  BY <2>1, <2>7, <2>8, <2>9, PartsNext
<1>3. CASE ForceStatus(s)
  <2>1. line \in Line /\ line.cmd \in {"+o", "-o"} /\ WireOK'
    BY <1>0, <1>3, HeardType DEF ForceStatus, Read, WireOK
  <2>2. line.user \in Users
    BY <2>1 DEF Line
  <2>3. PICK new \in SUBSET Users :
          ops' = [ops EXCEPT ![s] = new] /\ new \subseteq members[s]
    <3> DEFINE new == IF ~Accepts(s, line.ts) \/ line.user \notin members[s] THEN ops[s]
                      ELSE IF line.cmd = "+o" THEN ops[s] \cup {line.user} ELSE ops[s] \ {line.user}
    <3>1. ops' = [ops EXCEPT ![s] = new]
      BY <1>3 DEF ForceStatus
    <3>2. new \in SUBSET Users /\ new \subseteq members[s]
      BY <1>0, <2>2 DEF ChanOK, Full
    <3> QED  BY <3>1, <3>2
  <2>4. UNCHANGED <<now, age, members, key, topic, topicset, net>>
    BY <1>3 DEF ForceStatus
  <2>5. ChanOK' /\ Stamped' /\ Full' /\ Apart' /\ NetOK'
    BY <1>0, <2>3, <2>4 DEF ChanOK, Stamped, Full, Apart, NetOK, net
  <2> QED  BY <2>1, <2>5, PartsNext
<1>4. CASE ForceKey(s)
  <2>1. line \in Line /\ line.cmd \in {"+k", "-k"} /\ WireOK'
    BY <1>0, <1>4, HeardType DEF ForceKey, Read, WireOK
  <2>2. line.key \in Keys
    BY <2>1 DEF Line
  <2>3. PICK new \in KeyState : key' = [key EXCEPT ![s] = new]
    <3> DEFINE new == IF ~Accepts(s, line.ts) THEN key[s]
                      ELSE IF line.cmd = "-k" /\ key[s].shown THEN NoKey
                      ELSE [str |-> line.key, shown |-> line.cmd = "+k"]
    <3>1. key' = [key EXCEPT ![s] = new]
      BY <1>4 DEF ForceKey
    <3>2. new \in KeyState
      BY <1>0, <2>2 DEF ChanOK, KeyState
    <3> QED  BY <3>1, <3>2
  <2>4. UNCHANGED <<now, age, members, ops, topic, topicset, net>>
    BY <1>4 DEF ForceKey
  <2>5. ChanOK' /\ Stamped' /\ Full' /\ Apart' /\ NetOK'
    BY <1>0, <2>3, <2>4 DEF ChanOK, Stamped, Full, Apart, NetOK, net
  <2> QED  BY <2>1, <2>5, PartsNext
<1>5. CASE ForceTopic(s)
  <2> DEFINE takes == Exists(s) /\ (line.ts >= topicset[s] \/ topic[s] = None)
  <2>1. line \in Line /\ line.cmd = "FTOPIC" /\ WireOK'
    BY <1>0, <1>5, HeardType DEF ForceTopic, Read, WireOK
  <2>2. line.ts \in 1 .. MaxTime /\ line.topic \in Topics
    BY <2>1 DEF Line
  <2>3. /\ topic' = [topic EXCEPT ![s] = IF takes THEN line.topic ELSE @]
        /\ topicset' = [topicset EXCEPT ![s] = IF takes THEN line.ts ELSE @]
        /\ UNCHANGED <<now, age, members, ops, key, net>>
    BY <1>5 DEF ForceTopic
  <2> HIDE DEF takes, line
  <2>4. topic' \in [Servers -> Topics \cup {None}] /\ topicset' \in [Servers -> 0 .. MaxTime]
    BY <1>0, <2>2, <2>3 DEF ChanOK
  <2>5. Stamped'
    BY <1>0, <2>2, <2>3 DEF Stamped, ChanOK
  <2>6. ChanOK' /\ Full' /\ Apart' /\ NetOK'
    BY <1>0, <2>3, <2>4 DEF ChanOK, Full, Apart, NetOK, net
  <2> QED  BY <2>1, <2>5, <2>6, PartsNext
<1>6. CASE RemoteJoin(s)
  <2>1. line \in Line /\ line.cmd = "JOIN" /\ WireOK' /\ s \in up
    BY <1>0, <1>6, HeardType DEF RemoteJoin, Heard, Read, WireOK
  <2>2. line.user \in Users /\ now \in 1 .. MaxTime /\ {} \in SUBSET {line.user}
    BY <1>0, <2>1 DEF Line, NetOK
  <2>3. Enter(s, line.user, now, {}) /\ UNCHANGED <<now, net>>
    BY <1>6 DEF RemoteJoin
  <2> HIDE DEF line
  <2>4. /\ ChanOK' /\ Stamped' /\ Full'
        /\ members' = [members EXCEPT ![s] = @ \cup {line.user}]
    BY <2>2, <2>3, EnterTidy DEF Full
  <2>5. Apart' /\ NetOK'
    BY <1>0, <2>1, <2>3, <2>4 DEF Apart, NetOK, net, ChanOK
  <2> QED  BY <2>1, <2>4, <2>5, PartsNext
<1>7. CASE RemoteLeave(s)
  <2>1. line \in Line /\ line.cmd \in {"PART", "KICK"} /\ WireOK'
    BY <1>0, <1>7, HeardType DEF RemoteLeave, Read, WireOK
  <2>2. {line.user} \in SUBSET Users
    BY <2>1 DEF Line
  <2>3. UNCHANGED <<now, net>> /\ (Leave(s, {line.user}) \/ UNCHANGED chan)
    BY <1>7 DEF RemoteLeave
  <2> HIDE DEF line
  <2>4. CASE Leave(s, {line.user})
    <3>1. /\ ChanOK' /\ Stamped' /\ Full'
          /\ members' = [members EXCEPT ![s] = @ \ {line.user}]
      BY <2>2, <2>4, LeaveTidy DEF Full
    <3>2. Apart' /\ NetOK'
      BY <1>0, <2>3, <3>1 DEF Apart, NetOK, net, ChanOK
    <3> QED  BY <2>1, <3>1, <3>2, PartsNext
  <2>5. CASE UNCHANGED chan
    <3>1. ChanOK' /\ Stamped' /\ Full' /\ Apart' /\ NetOK'
      BY <1>0, <2>3, <2>5 DEF chan, net, ChanOK, Stamped, Full, Apart, NetOK
    <3> QED  BY <2>1, <3>1, PartsNext
  <2> QED  BY <2>3, <2>4, <2>5
<1>8. CASE RemoteTopic(s)
  <2>1. line \in Line /\ line.cmd = "TOPIC" /\ WireOK'
    BY <1>0, <1>8, HeardType DEF RemoteTopic, Read, WireOK
  <2>2. line.topic \in Topics /\ now \in 0 .. MaxTime /\ now # 0
    BY <1>0, <2>1, SyncOK DEF Line, NetOK
  <2>3. /\ topic' = [topic EXCEPT ![s] = IF Exists(s) THEN line.topic ELSE @]
        /\ topicset' = [topicset EXCEPT ![s] = IF Exists(s) THEN now ELSE @]
        /\ UNCHANGED <<now, age, members, ops, key, net>>
    BY <1>8 DEF RemoteTopic
  <2> HIDE DEF line
  <2>4. topic' \in [Servers -> Topics \cup {None}] /\ topicset' \in [Servers -> 0 .. MaxTime]
    BY <1>0, <2>2, <2>3 DEF ChanOK
  <2>5. Stamped'
    BY <1>0, <2>2, <2>3 DEF Stamped, ChanOK
  <2>6. ChanOK' /\ Full' /\ Apart' /\ NetOK'
    BY <1>0, <2>3, <2>4 DEF ChanOK, Full, Apart, NetOK, net
  <2> QED  BY <2>1, <2>5, <2>6, PartsNext
<1> QED  BY <1>1, <1>2, <1>3, <1>4, <1>5, <1>6, <1>7, <1>8 DEF ProcessLine

\* A netsplit takes the other server's clients with it.
LEMMA LinkTidy ==
  ASSUME Tidy, NEW s \in Servers, LinkUp(s) \/ Netsplit(s)
  PROVE  Tidy'
<1>0. ChanOK /\ Stamped /\ Full /\ Apart /\ WireOK /\ NetOK /\ TypeOK
  BY Parts DEF Tidy
<1>1. CASE LinkUp(s)
  <2>1. <<[cmd |-> "BURST"]>> \o Burst(s) \in Seq(Line)
    <3>1. [cmd |-> "BURST"] \in Line
      BY DEF Line
    <3>2. <<[cmd |-> "BURST"]>> \in Seq(Line)
      BY <3>1
    <3> QED  BY <3>2, BurstType
  <2>2. WireOK'
    BY <1>0, <1>1, <2>1 DEF WireOK, LinkUp
  <2>3. up = {} /\ up' = {s} /\ now' = now /\ connected' = TRUE /\ links' \in 0 .. MaxLinks
    BY <1>0, <1>1, SyncOK DEF LinkUp, NetOK
  <2>4. UNCHANGED <<age, members, ops, key, topic, topicset>>
    BY <1>1 DEF LinkUp, chan
  <2>5. ChanOK' /\ Stamped' /\ Full' /\ Apart' /\ NetOK'
    BY <1>0, <2>3, <2>4 DEF ChanOK, Stamped, Full, Apart, NetOK
  <2> QED  BY <2>2, <2>5, PartsNext
<1>2. CASE Netsplit(s)
  <2>1. Clients(Peer(s)) \in SUBSET Users /\ Leave(s, Clients(Peer(s)))
    BY <1>2 DEF Netsplit, Clients
  <2>2. /\ ChanOK' /\ Stamped' /\ Full'
        /\ members' = [members EXCEPT ![s] = @ \ Clients(Peer(s))]
    BY <2>1, LeaveTidy DEF Full
  <2>3. WireOK'
    BY <1>0, <1>2 DEF Netsplit, WireOK
  <2>4. NetOK'
    BY <1>0, <1>2 DEF Netsplit, NetOK
  <2>5. Apart'
    <3>1. members[s] \ Clients(Peer(s)) \subseteq Clients(s)
      BY <1>0, HomeType DEF ChanOK
    <3>2. up' = up \ {s}
      BY <1>2 DEF Netsplit
    <3> QED  BY <1>0, <2>2, <3>1, <3>2 DEF Apart, ChanOK
  <2> QED  BY <2>2, <2>3, <2>4, <2>5, PartsNext
<1> QED  BY <1>1, <1>2

LEMMA TidyAlways == Spec => []Tidy
<1>1. Init => Tidy
  <2> SUFFICES ASSUME Init PROVE Tidy
    OBVIOUS
  <2>1. TypeOK
    <3>1. 0 \in 0 .. MaxTime /\ 1 \in 1 .. MaxTime /\ 0 \in 0 .. MaxLinks /\ <<>> \in Seq(Line)
      BY SyncOK
    <3> QED  BY <3>1 DEF Init, TypeOK, KeyState
  <2>2. NoGhosts /\ Stamped
    BY DEF Init, NoGhosts, Exists, Stamped
  <2> QED  BY <2>1, <2>2 DEF Tidy
<1>2. Tidy /\ [Next]_vars => Tidy'
  <2> SUFFICES ASSUME Tidy, [Next]_vars PROVE Tidy'
    OBVIOUS
  <2>0. ChanOK /\ Stamped /\ Full /\ Apart /\ WireOK /\ NetOK
    BY Parts
  <2>1. CASE Tick \/ Break \/ UNCHANGED vars
    <3>1. now' \in 1 .. MaxTime
      BY <2>0, <2>1, SyncOK DEF Tick, Break, vars, NetOK
    <3>2. UNCHANGED chan /\ UNCHANGED <<up, links, wire>> /\ connected' \in BOOLEAN
      BY <2>0, <2>1 DEF Tick, Break, vars, net, NetOK
    <3>3. ChanOK' /\ Stamped' /\ Full' /\ Apart' /\ WireOK' /\ NetOK'
      BY <2>0, <3>1, <3>2 DEF chan, ChanOK, Stamped, Full, Apart, WireOK, NetOK
    <3> QED  BY <3>3, PartsNext
  <2>2. CASE ClientCommand
    BY <2>2, CommandTidy
  <2>3. ASSUME NEW s \in Servers, ProcessLine(s) PROVE Tidy'
    BY <2>3, LineTidy
  <2>4. ASSUME NEW s \in Servers, LinkUp(s) \/ Netsplit(s) PROVE Tidy'
    BY <2>4, LinkTidy
  <2> QED  BY <2>1, <2>2, <2>3, <2>4 DEF Next
<1> QED  BY <1>1, <1>2, PTL DEF Spec

-----------------------------------------------------------------------------
\* Channel records, link states and the lines on their way have their types.
THEOREM SyncTypeCorrect == Spec => []TypeOK
<1>1. Tidy => TypeOK
  BY DEF Tidy
<1> QED  BY <1>1, TidyAlways, PTL

\* However the two servers' lines cross, and whenever the link breaks: no client
\* of the other server stays past the netsplit, no status without membership,
\* and a channel record on either server exactly while it has members there.
THEOREM NeverGhosts == Spec => []NoGhosts
<1>1. Tidy => NoGhosts
  BY DEF Tidy
<1> QED  BY <1>1, TidyAlways, PTL

-----------------------------------------------------------------------------
(* What a server becomes by the lines on their way to it *)

\* step, a function of a state and a line, leads by the lines from x to y, through states of S.
Leads(step, S, x, lines, y) ==
    \E run \in [1 .. Len(lines) + 1 -> S] :
        /\ run[1] = x /\ run[Len(lines) + 1] = y
        /\ \A i \in 1 .. Len(lines) : run[i + 1] = step[<<run[i], lines[i]>>]

LEMMA LeadsIn ==
  ASSUME NEW step, NEW S, NEW x, NEW y, NEW lines \in Seq(Line), Leads(step, S, x, lines, y)
  PROVE  x \in S /\ y \in S /\ (lines = <<>> => x = y)
<1>1. PICK run \in [1 .. Len(lines) + 1 -> S] : run[1] = x /\ run[Len(lines) + 1] = y
  BY DEF Leads
<1>2. Len(lines) \in Nat /\ (lines = <<>> => Len(lines) = 0)
  OBVIOUS
<1> QED  BY <1>1, <1>2

LEMMA LeadsNowhere ==
  ASSUME NEW step, NEW S, NEW x \in S
  PROVE  Leads(step, S, x, <<>>, x)
<1> DEFINE run == [i \in 1 .. 1 |-> x]
<1>1. Len(<<>>) = 0
  OBVIOUS
<1>2. run \in [1 .. 0 + 1 -> S] /\ run[1] = x /\ run[0 + 1] = x
  OBVIOUS
<1> HIDE DEF run
<1> QED  BY <1>1, <1>2 DEF Leads

LEMMA LeadsByOne ==
  ASSUME NEW step, NEW S, NEW x \in S, NEW line \in Line, step[<<x, line>>] \in S
  PROVE  Leads(step, S, x, <<line>>, step[<<x, line>>])
<1> DEFINE y == step[<<x, line>>]
           run == [i \in 1 .. 2 |-> IF i = 1 THEN x ELSE y]
<1>1. Len(<<line>>) = 1 /\ <<line>>[1] = line
  OBVIOUS
<1>2. run \in [1 .. 1 + 1 -> S] /\ run[1] = x /\ run[1 + 1] = y
  OBVIOUS
<1> HIDE DEF run, y
<1>3. \A i \in 1 .. 1 : run[i + 1] = step[<<run[i], <<line>>[i]>>]
  BY <1>1, <1>2 DEF y
<1> QED  BY <1>1, <1>2, <1>3 DEF Leads, y

LEMMA LeadsRead ==
  ASSUME NEW step, NEW S, NEW x, NEW y, NEW lines \in Seq(Line), lines # <<>>, Leads(step, S, x, lines, y)
  PROVE  Leads(step, S, step[<<x, Head(lines)>>], Tail(lines), y)
<1> DEFINE n == Len(lines)
<1>1. PICK run \in [1 .. n + 1 -> S] :
        /\ run[1] = x /\ run[n + 1] = y /\ \A i \in 1 .. n : run[i + 1] = step[<<run[i], lines[i]>>]
  BY DEF Leads
<1>2. n \in Nat \ {0} /\ Head(lines) = lines[1] /\ Len(Tail(lines)) = n - 1
  OBVIOUS
<1>3. \A i \in 1 .. n - 1 : Tail(lines)[i] = lines[i + 1]
  OBVIOUS
<1> HIDE DEF n
<1> DEFINE rest == [i \in 1 .. (n - 1) + 1 |-> run[i + 1]]
<1>4. rest \in [1 .. (n - 1) + 1 -> S]
  BY <1>2
<1>5. rest[1] = step[<<x, Head(lines)>>] /\ rest[(n - 1) + 1] = y
  BY <1>1, <1>2
<1>6. \A i \in 1 .. n - 1 : rest[i + 1] = step[<<rest[i], Tail(lines)[i]>>]
  <2> TAKE i \in 1 .. n - 1
  <2>1. i + 1 \in 1 .. n /\ i + 1 \in 1 .. (n - 1) + 1 /\ i \in 1 .. (n - 1) + 1
    BY <1>2
  <2>2. rest[i + 1] = run[(i + 1) + 1] /\ rest[i] = run[i + 1]
    BY <2>1
  <2>3. run[(i + 1) + 1] = step[<<run[i + 1], lines[i + 1]>>]
    BY <1>1, <2>1
  <2> QED  BY <1>3, <2>2, <2>3
<1> HIDE DEF rest
<1> QED  BY <1>2, <1>4, <1>5, <1>6 DEF Leads

LEMMA LeadsOn ==
  ASSUME NEW step, NEW S, NEW x, NEW y, NEW z, NEW some \in Seq(Line), NEW more \in Seq(Line),
         Leads(step, S, x, some, y), Leads(step, S, y, more, z)
  PROVE  Leads(step, S, x, some \o more, z)
<1> DEFINE n == Len(some)
           m == Len(more)
<1>1. PICK first \in [1 .. n + 1 -> S] :
        /\ first[1] = x /\ first[n + 1] = y /\ \A i \in 1 .. n : first[i + 1] = step[<<first[i], some[i]>>]
  BY DEF Leads
<1>2. PICK next \in [1 .. m + 1 -> S] :
        /\ next[1] = y /\ next[m + 1] = z /\ \A i \in 1 .. m : next[i + 1] = step[<<next[i], more[i]>>]
  BY DEF Leads
<1>3. n \in Nat /\ m \in Nat /\ Len(some \o more) = n + m
  OBVIOUS
<1>4. \A i \in 1 .. n : (some \o more)[i] = some[i]
  OBVIOUS
<1>5. \A i \in 1 .. m : (some \o more)[n + i] = more[i]
  OBVIOUS
<1> DEFINE all == some \o more
           run == [i \in 1 .. n + m + 1 |-> IF i <= n THEN first[i] ELSE next[i - n]]
<1>6. \A i \in 1 .. n + m + 1 : run[i] = IF i <= n THEN first[i] ELSE next[i - n]
  OBVIOUS
<1>7. run \in [1 .. n + m + 1 -> S]
  <2> SUFFICES ASSUME NEW i \in 1 .. n + m + 1 PROVE run[i] \in S
    OBVIOUS
  <2> HIDE DEF n, m, run
  <2>1. CASE i <= n
    BY <1>3, <1>6, <2>1
  <2>2. CASE ~(i <= n)
    <3>1. i - n \in 1 .. m + 1
      BY <1>3, <2>2
    <3> QED  BY <1>6, <2>2, <3>1
  <2> QED  BY <2>1, <2>2
<1> HIDE DEF n, m, run, all
<1>8. \A i \in 1 .. n + 1 : run[i] = first[i]
  <2> TAKE i \in 1 .. n + 1
  <2>0. i \in 1 .. n + m + 1
    BY <1>3
  <2>1. CASE i <= n
    BY <1>6, <2>0, <2>1
  <2>2. CASE i = n + 1
    <3>1. ~(i <= n) /\ i - n = 1
      BY <1>3, <2>2
    <3>2. run[i] = next[i - n]
      BY <1>6, <2>0, <3>1
    <3> QED  BY <1>1, <1>2, <2>2, <3>1, <3>2
  <2> QED  BY <1>3, <2>1, <2>2
<1>9. \A i \in 1 .. m + 1 : run[n + i] = next[i]
  <2> TAKE i \in 1 .. m + 1
  <2>1. n + i \in 1 .. n + m + 1 /\ ~(n + i <= n) /\ (n + i) - n = i
    BY <1>3
  <2> QED  BY <1>6, <2>1
<1>10. \A i \in 1 .. n + m : run[i + 1] = step[<<run[i], all[i]>>]
  <2> TAKE i \in 1 .. n + m
  <2>1. CASE i <= n
    <3>1. i \in 1 .. n /\ i \in 1 .. n + 1 /\ i + 1 \in 1 .. n + 1
      BY <1>3, <2>1
    <3>2. run[i] = first[i] /\ run[i + 1] = first[i + 1] /\ all[i] = some[i]
      BY <1>4, <1>8, <3>1 DEF all
    <3> QED  BY <1>1, <3>1, <3>2
  <2>2. CASE ~(i <= n)
    <3> DEFINE j == i - n
    <3>1. j \in 1 .. m /\ j \in 1 .. m + 1 /\ j + 1 \in 1 .. m + 1 /\ i = n + j /\ i + 1 = n + (j + 1)
      BY <1>3, <2>2
    <3> HIDE DEF j
    <3>2. run[i] = next[j] /\ run[i + 1] = next[j + 1] /\ all[i] = more[j]
      BY <1>5, <1>9, <3>1 DEF all
    <3> QED  BY <1>2, <3>1, <3>2
  <2> QED  BY <2>1, <2>2
<1>11. run[1] = x /\ run[(n + m) + 1] = z /\ run \in [1 .. (n + m) + 1 -> S]
  <2>1. 1 \in 1 .. n + 1 /\ m + 1 \in 1 .. m + 1 /\ (n + m) + 1 = n + (m + 1)
    BY <1>3
  <2> QED  BY <1>1, <1>2, <1>7, <1>8, <1>9, <2>1
<1>12. Len(all) = n + m
  BY <1>3 DEF all
<1>13. \E r \in [1 .. Len(all) + 1 -> S] :
         r[1] = x /\ r[Len(all) + 1] = z /\ \A i \in 1 .. Len(all) : r[i + 1] = step[<<r[i], all[i]>>]
  <2>1. run \in [1 .. Len(all) + 1 -> S] /\ run[Len(all) + 1] = z
    BY <1>11, <1>12
  <2> QED  BY <1>10, <1>11, <1>12, <2>1
<1> QED  BY <1>13 DEF Leads, all

-----------------------------------------------------------------------------
(* The other server's clients, through any netsplits *)

\* Which of the clients C are on the channel, after a line is read by who knows r of them to be.
RosterOf(C, r, line) ==
    IF line.cmd = "FJOIN" THEN r \cup (line.users \cap C)
    ELSE IF line.cmd = "JOIN" THEN r \cup ({line.user} \cap C)
    ELSE IF line.cmd = "PART" THEN r \ {line.user}
    ELSE r
RosterStep(C) == [p \in (SUBSET C) \X Line |-> RosterOf(C, p[1], p[2])]

Roster(t) == members[t] \cap Clients(Peer(t))
Theirs(t) == members[Peer(t)] \cap Clients(Peer(t))

\* While the link is up, what is on its way to t makes up the difference between who t thinks is on the channel,
\* of the other server's clients, and who is.
InTouch(t) ==
    connected /\ Peer(t) \in up =>
        Leads(RosterStep(Clients(Peer(t))), SUBSET Clients(Peer(t)), Roster(t), wire[t], Theirs(t))

\* Whoever has yet to read BURST has told nothing, and nobody knows its clients.
Untold(t) == connected /\ Peer(t) \notin up => Roster(t) = {} /\ wire[t] = <<>>

\* A server tells who joins and parts of its own clients only, and, where nobody kicks, never of a kick.
Said(p) ==
    {line \in Line : line.cmd # "KICK" /\ (line.cmd \in {"JOIN", "PART"} => line.user \in Clients(p))}
Honest(t) == wire[t] \in Seq(Said(Peer(t)))

Mending == \A t \in Servers : InTouch(t) /\ Untold(t) /\ Honest(t)

NoKicks == \A s \in Servers : "KICK" \notin Linked[s]

LEMMA PeersPeer ==
    \A s \in Servers : /\ Peer(s) \in Servers /\ Peer(Peer(s)) = s /\ Peer(s) # s
                       /\ Clients(s) \cap Clients(Peer(s)) = {}
                       /\ \A t \in Servers : t = s \/ t = Peer(s)
<1>1. \A s \in Servers : Peer(s) \in Servers /\ Peer(s) # s /\ Servers = {s, Peer(s)}
  BY PeerType
<1> TAKE s \in Servers
<1>2. Peer(Peer(s)) = s
  BY <1>1
<1>3. Clients(s) \cap Clients(Peer(s)) = {}
  BY <1>1 DEF Clients
<1> QED  BY <1>1, <1>2, <1>3

LEMMA RosterStepIs ==
  ASSUME NEW C, NEW r \in SUBSET C, NEW line \in Line
  PROVE  /\ RosterStep(C)[<<r, line>>] = RosterOf(C, r, line)
         /\ RosterOf(C, r, line) \in SUBSET C
<1>1. <<r, line>> \in (SUBSET C) \X Line
  OBVIOUS
<1>2. RosterOf(C, r, line) \in SUBSET C
  BY DEF RosterOf
<1> QED  BY <1>1, <1>2 DEF RosterStep

LEMMA RosterLeads ==
  ASSUME NEW C, NEW r \in SUBSET C, NEW line \in Line, NEW q, RosterOf(C, r, line) = q
  PROVE  Leads(RosterStep(C), SUBSET C, r, <<line>>, q)
<1>1. RosterStep(C)[<<r, line>>] = q /\ q \in SUBSET C
  BY RosterStepIs
<1> DEFINE step == RosterStep(C)
           S == SUBSET C
<1>2. step[<<r, line>>] = q /\ step[<<r, line>>] \in S /\ r \in S
  BY <1>1
<1> HIDE DEF step, S
<1>3. Leads(step, S, r, <<line>>, q)
  BY <1>2, LeadsByOne
<1> QED  BY <1>3 DEF step, S

\* A server's own clients come and go as it tells.
LEMMA ToldMends ==
  ASSUME Tidy, Mending, NEW s \in Servers, NEW m \in SUBSET Users, NEW lines \in Seq(Said(s)),
         members' = [members EXCEPT ![s] = m], wire' = Sent(s, lines), UNCHANGED net,
         m \cap Clients(Peer(s)) = Roster(s),
         s \in up => Leads(RosterStep(Clients(s)), SUBSET Clients(s), members[s] \cap Clients(s), lines,
                           m \cap Clients(s))
  PROVE  Mending'
<1>1. PICK p \in Servers : p = Peer(s) /\ Peer(p) = s /\ p # s /\ \A t \in Servers : t = s \/ t = p
  BY PeersPeer
<1>2. /\ wire \in [Servers -> Seq(Line)] /\ members \in [Servers -> SUBSET Users]
      /\ up' = up /\ connected' = connected
  BY DEF Tidy, TypeOK, net
<1>3. Said(s) \subseteq Line
  BY DEF Said
<1>4. lines \in Seq(Line)
  BY <1>3
<1>5. wire'[s] = wire[s] /\ members'[s] = m /\ members'[p] = members[p]
  BY <1>1, <1>2 DEF Sent
<1>6. Roster(s)' = Roster(s) /\ Theirs(s)' = Theirs(s)
  BY <1>1, <1>5 DEF Roster, Theirs
<1>7. InTouch(s)' /\ Untold(s)' /\ Honest(s)'
  BY <1>2, <1>5, <1>6 DEF Mending, InTouch, Untold, Honest
<1>8. Roster(p)' = Roster(p) /\ Theirs(p) = members[s] \cap Clients(s) /\ Theirs(p)' = m \cap Clients(s)
  BY <1>1, <1>5 DEF Roster, Theirs
<1>9. InTouch(p)' /\ Untold(p)' /\ Honest(p)'
  <2>1. CASE s \in up /\ connected
    <3>1. wire'[p] = wire[p] \o lines
      BY <1>1, <1>2, <2>1 DEF Sent
    <3>2. Leads(RosterStep(Clients(s)), SUBSET Clients(s), Roster(p), wire[p], Theirs(p))
      BY <1>1, <2>1 DEF Mending, InTouch
    <3>3. Leads(RosterStep(Clients(s)), SUBSET Clients(s), Roster(p), wire[p] \o lines, m \cap Clients(s))
      BY <1>1, <1>2, <1>4, <1>8, <2>1, <3>2, LeadsOn
    <3>4. InTouch(p)'
      BY <1>1, <1>8, <3>1, <3>3 DEF InTouch
    <3>5. Untold(p)'
      BY <1>1, <1>2, <2>1 DEF Untold
    <3>6. wire[p] \in Seq(Said(s))
      BY <1>1 DEF Mending, Honest
    <3>7. Honest(p)'
      BY <1>1, <3>1, <3>6 DEF Honest
    <3> QED  BY <3>4, <3>5, <3>7
  <2>2. CASE ~(s \in up /\ connected)
    <3>1. wire'[p] = wire[p]
      BY <2>2 DEF Sent
    <3> QED  BY <1>1, <1>2, <1>8, <2>2, <3>1 DEF Mending, InTouch, Untold, Honest
  <2> QED  BY <2>1, <2>2
<1> QED  BY <1>1, <1>7, <1>9 DEF Mending

\* Whoever reads a line of the link follows it.
LEMMA ReadMends ==
  ASSUME Tidy, Mending, NEW s \in Servers, NEW m \in SUBSET Users, wire[s] # <<>>,
         members' = [members EXCEPT ![s] = m], wire' = [wire EXCEPT ![s] = Tail(@)], UNCHANGED net,
         m \cap Clients(s) = members[s] \cap Clients(s),
         m \cap Clients(Peer(s)) = RosterOf(Clients(Peer(s)), Roster(s), Head(wire[s]))
  PROVE  Mending'
<1> DEFINE C == Clients(Peer(s))
<1>1. PICK p \in Servers : p = Peer(s) /\ Peer(p) = s /\ p # s /\ \A t \in Servers : t = s \/ t = p
  BY PeersPeer
<1>2. /\ wire \in [Servers -> Seq(Line)] /\ members \in [Servers -> SUBSET Users]
      /\ up' = up /\ connected' = connected
  BY DEF Tidy, TypeOK, net
<1>3. /\ wire'[s] = Tail(wire[s]) /\ wire'[p] = wire[p]
      /\ members'[s] = m /\ members'[p] = members[p]
  BY <1>1, <1>2
<1>4. Roster(p)' = Roster(p) /\ Theirs(p)' = Theirs(p) /\ Theirs(s)' = Theirs(s)
  BY <1>1, <1>3 DEF Roster, Theirs
<1>5. InTouch(p)' /\ Untold(p)' /\ Honest(p)'
  BY <1>2, <1>3, <1>4 DEF Mending, InTouch, Untold, Honest
<1>6. Head(wire[s]) \in Line /\ wire[s] \in Seq(Line)
  BY <1>2
<1>7. Roster(s) \in SUBSET C
  BY DEF Roster
<1>8. Roster(s)' = RosterStep(C)[<<Roster(s), Head(wire[s])>>]
  <2>1. RosterStep(C)[<<Roster(s), Head(wire[s])>>] = RosterOf(C, Roster(s), Head(wire[s]))
    BY <1>6, <1>7, RosterStepIs
  <2> QED  BY <1>3, <2>1 DEF Roster
<1>9. InTouch(s)'
  <2>1. CASE connected /\ p \in up
    <3>1. Leads(RosterStep(C), SUBSET C, Roster(s), wire[s], Theirs(s))
      BY <1>1, <2>1 DEF Mending, InTouch
    <3>2. Leads(RosterStep(C), SUBSET C, RosterStep(C)[<<Roster(s), Head(wire[s])>>], Tail(wire[s]), Theirs(s))
      BY <1>6, <3>1, LeadsRead
    <3> QED  BY <1>1, <1>3, <1>4, <1>8, <3>2 DEF InTouch
  <2> QED  BY <1>1, <1>2, <2>1 DEF InTouch
<1>10. Untold(s)'
  BY <1>2 DEF Mending, Untold
<1>11. Honest(s)'
  <2>1. wire[s] \in Seq(Said(p))
    BY <1>1 DEF Mending, Honest
  <2>2. Tail(wire[s]) \in Seq(Said(p))
    BY <2>1
  <2> QED  BY <1>1, <1>3, <2>2 DEF Honest
<1> QED  BY <1>1, <1>5, <1>9, <1>10, <1>11 DEF Mending

\* A burst is the members, the key if the channel shows one, and the topic if it has one.
KeyLine(s) == [cmd |-> "+k", ts |-> age[s], key |-> key[s].str]
TopicLine(s) == [cmd |-> "FTOPIC", ts |-> topicset[s], topic |-> topic[s]]
KeyPart(s) == IF key[s].shown THEN <<KeyLine(s)>> ELSE <<>>
TopicPart(s) == IF topic[s] = None THEN <<>> ELSE <<TopicLine(s)>>

LEMMA BurstParts ==
  ASSUME Tidy, NEW s \in Servers
  PROVE  /\ ~Exists(s) => Burst(s) = <<>> /\ members[s] = {}
         /\ Exists(s) => /\ Burst(s) = (<<FJoin(s)>> \o KeyPart(s)) \o TopicPart(s)
                         /\ FJoin(s) \in Line
                         /\ key[s].shown => KeyLine(s) \in Line
                         /\ topic[s] # None => TopicLine(s) \in Line
<1>1. CASE ~Exists(s)
  BY <1>1 DEF Burst, Tidy, NoGhosts
<1>2. CASE Exists(s)
  <2>1. age[s] \in 1 .. MaxTime
    BY <1>2, SyncOK DEF Exists, Tidy, TypeOK
  <2>2. FJoin(s) \in Line
    BY <2>1 DEF FJoin, Line, Tidy, TypeOK
  <2>3. key[s].shown => KeyLine(s) \in Line
    <3>1. key[s] \in KeyState
      BY DEF Tidy, TypeOK
    <3>2. key[s].shown => key[s].str \in Keys
      BY <3>1 DEF KeyState, NoKey
    <3> QED  BY <2>1, <3>2 DEF Line, KeyLine
  <2>4. topic[s] # None => TopicLine(s) \in Line
    <3>1. topic[s] # None => topicset[s] \in 1 .. MaxTime /\ topic[s] \in Topics
      BY SyncOK DEF Tidy, TypeOK, Stamped
    <3> QED  BY <3>1 DEF Line, TopicLine
  <2>5. KeyPart(s) \in Seq(Line) /\ TopicPart(s) \in Seq(Line) /\ <<FJoin(s)>> \in Seq(Line)
    BY <2>2, <2>3, <2>4 DEF KeyPart, TopicPart
  <2>6. Burst(s) = <<FJoin(s)>> \o KeyPart(s) \o TopicPart(s)
    BY <1>2 DEF Burst, KeyPart, TopicPart, KeyLine, TopicLine
  <2> QED  BY <1>2, <2>2, <2>3, <2>4, <2>6
<1> QED  BY <1>1, <1>2

\* A line that is not about members changes nothing of them.
LEMMA NoNews ==
  ASSUME NEW C, NEW r \in SUBSET C, NEW line \in Line, line.cmd \notin {"FJOIN", "JOIN", "PART"}
  PROVE  Leads(RosterStep(C), SUBSET C, r, <<line>>, r)
<1>1. RosterOf(C, r, line) = r
  BY DEF RosterOf
<1> QED  BY <1>1, RosterLeads

\* By a burst the other server learns who is on the channel.
LEMMA BurstTells ==
  ASSUME Tidy, NEW s \in Servers, NEW r \in SUBSET Clients(s)
  PROVE  /\ Leads(RosterStep(Clients(s)), SUBSET Clients(s), r, Burst(s), r \cup (members[s] \cap Clients(s)))
         /\ Burst(s) \in Seq(Said(s))
<1> DEFINE C == Clients(s)
           S == SUBSET Clients(s)
           q == r \cup (members[s] \cap Clients(s))
<1>1. CASE ~Exists(s)
  <2>1. Burst(s) = <<>> /\ q = r
    BY <1>1, BurstParts
  <2>2. Leads(RosterStep(C), S, r, <<>>, r) /\ <<>> \in Seq(Said(s))
    BY LeadsNowhere
  <2> HIDE DEF q
  <2>3. Leads(RosterStep(C), S, r, Burst(s), q) /\ Burst(s) \in Seq(Said(s))
    BY <2>1, <2>2
  <2> QED  BY <2>3 DEF q
<1>2. CASE Exists(s)
  <2>1. FJoin(s) \in Line /\ FJoin(s).cmd = "FJOIN" /\ FJoin(s).users = members[s]
    BY <1>2, BurstParts DEF FJoin
  <2>2. q \in S
    OBVIOUS
  <2> HIDE DEF q
  <2>3. Leads(RosterStep(C), S, r, <<FJoin(s)>>, q)
    <3>1. RosterOf(C, r, FJoin(s)) = q
      BY <2>1 DEF RosterOf, q
    <3> QED  BY <2>1, <3>1, RosterLeads
  <2>4. Leads(RosterStep(C), S, q, KeyPart(s), q) /\ KeyPart(s) \in Seq(Said(s))
    <3>1. CASE key[s].shown
      <4>1. KeyLine(s) \in Line /\ KeyLine(s).cmd = "+k" /\ KeyPart(s) = <<KeyLine(s)>>
        BY <1>2, <3>1, BurstParts DEF KeyLine, KeyPart
      <4>2. KeyLine(s) \in Said(s)
        BY <4>1 DEF Said
      <4> QED  BY <2>2, <4>1, <4>2, NoNews
    <3>2. CASE ~key[s].shown
      <4>1. KeyPart(s) = <<>>
        BY <3>2 DEF KeyPart
      <4> QED  BY <2>2, <4>1, LeadsNowhere
    <3> QED  BY <3>1, <3>2
  <2>5. Leads(RosterStep(C), S, q, TopicPart(s), q) /\ TopicPart(s) \in Seq(Said(s))
    <3>1. CASE topic[s] # None
      <4>1. TopicLine(s) \in Line /\ TopicLine(s).cmd = "FTOPIC" /\ TopicPart(s) = <<TopicLine(s)>>
        BY <1>2, <3>1, BurstParts DEF TopicLine, TopicPart
      <4>2. TopicLine(s) \in Said(s)
        BY <4>1 DEF Said
      <4> QED  BY <2>2, <4>1, <4>2, NoNews
    <3>2. CASE topic[s] = None
      <4>1. TopicPart(s) = <<>>
        BY <3>2 DEF TopicPart
      <4> QED  BY <2>2, <4>1, LeadsNowhere
    <3> QED  BY <3>1, <3>2
  <2>6. <<FJoin(s)>> \in Seq(Said(s)) /\ Said(s) \subseteq Line
    BY <2>1 DEF Said
  <2>7. /\ <<FJoin(s)>> \in Seq(Line) /\ KeyPart(s) \in Seq(Line) /\ TopicPart(s) \in Seq(Line)
        /\ <<FJoin(s)>> \o KeyPart(s) \in Seq(Line)
    BY <2>4, <2>5, <2>6
  <2>8. Leads(RosterStep(C), S, r, <<FJoin(s)>> \o KeyPart(s), q)
    BY <2>3, <2>4, <2>7, LeadsOn
  <2>9. Leads(RosterStep(C), S, r, (<<FJoin(s)>> \o KeyPart(s)) \o TopicPart(s), q)
    BY <2>5, <2>7, <2>8, LeadsOn
  <2>10. (<<FJoin(s)>> \o KeyPart(s)) \o TopicPart(s) \in Seq(Said(s))
    BY <2>4, <2>5, <2>6
  <2>11. Burst(s) = (<<FJoin(s)>> \o KeyPart(s)) \o TopicPart(s)
    BY <1>2, BurstParts
  <2> QED  BY <2>9, <2>10, <2>11 DEF q
<1> QED  BY <1>1, <1>2

\* A client's command, where nobody kicks while the servers are linked.
LEMMA CommandMends ==
  ASSUME NoKicks, Tidy, Mending, ClientCommand
  PROVE  Mending'
<1>0. /\ members \in [Servers -> SUBSET Users] /\ age \in [Servers -> 0 .. MaxTime] /\ now \in 1 .. MaxTime
      /\ \A s \in Servers : s \notin up => members[s] \subseteq Clients(s)
  BY DEF Tidy, TypeOK, NoGhosts
<1>1. ASSUME NEW u \in Users, Join(u) PROVE Mending'
  <2>1. PICK s \in Servers : s = Home[u]
    BY HomeType
  <2>2. u \in Clients(s) /\ u \notin Clients(Peer(s))
    BY <2>1, HomeType, PeersPeer
  <2>3. PICK line : /\ line \in Said(s) /\ line.cmd \in {"JOIN", "FJOIN"}
                    /\ line.cmd = "JOIN" => line.user = u
                    /\ line.cmd = "FJOIN" => line.users = {u}
                    /\ wire' = Sent(s, <<line>>)
    <3>1. CASE Exists(s)
      <4> DEFINE line == [cmd |-> "JOIN", user |-> u]
      <4>1. line \in Said(s)
        BY <2>2 DEF Said, Line
      <4> QED  BY <1>1, <2>1, <3>1, <4>1 DEF Join
    <3>2. CASE ~Exists(s)
      <4> DEFINE line == [cmd |-> "FJOIN", ts |-> now, users |-> {u}, ops |-> {u}]
      <4>1. line \in Said(s)
        BY <1>0 DEF Said, Line
      <4> QED  BY <1>1, <2>1, <3>2, <4>1 DEF Join
    <3> QED  BY <3>1, <3>2
  <2>4. members' = [members EXCEPT ![s] = members[s] \cup {u}] /\ UNCHANGED net
    BY <1>1, <2>1 DEF Join, Enter
  <2> DEFINE m == members[s] \cup {u}
             C == Clients(s)
             r == members[s] \cap Clients(s)
  <2>5. m \in SUBSET Users /\ m \cap Clients(Peer(s)) = Roster(s) /\ <<line>> \in Seq(Said(s))
    BY <1>0, <2>2, <2>3 DEF Roster
  <2>6. Leads(RosterStep(C), SUBSET C, r, <<line>>, m \cap C)
    <3>1. line \in Line
      BY <2>3 DEF Said
    <3>2. RosterOf(C, r, line) = m \cap C
      BY <2>2, <2>3 DEF RosterOf
    <3>3. r \in SUBSET C
      OBVIOUS
    <3> HIDE DEF r, m, C
    <3> QED  BY <3>1, <3>2, <3>3, RosterLeads
  <2> QED  BY <2>3, <2>4, <2>5, <2>6, ToldMends
<1>2. ASSUME NEW u \in Users, Part(u) PROVE Mending'
  <2>1. PICK s \in Servers : s = Home[u]
    BY HomeType
  <2>2. u \in Clients(s) /\ u \notin Clients(Peer(s))
    BY <2>1, HomeType, PeersPeer
  <2> DEFINE line == [cmd |-> "PART", user |-> u]
             m == members[s] \ {u}
             C == Clients(s)
             r == members[s] \cap Clients(s)
  <2>3. line \in Said(s) /\ line \in Line
    BY <2>2 DEF Said, Line
  <2>4. members' = [members EXCEPT ![s] = m] /\ UNCHANGED net /\ wire' = Sent(s, <<line>>)
    BY <1>2, <2>1 DEF Part, Leave
  <2>5. m \in SUBSET Users /\ m \cap Clients(Peer(s)) = Roster(s) /\ <<line>> \in Seq(Said(s))
    BY <1>0, <2>2, <2>3 DEF Roster
  <2>6. RosterOf(C, r, line) = m \cap C /\ r \in SUBSET C
    BY DEF RosterOf
  <2> HIDE DEF line
  <2>7. Leads(RosterStep(C), SUBSET C, r, <<line>>, m \cap C)
    <3> HIDE DEF r, m, C
    <3> QED  BY <2>3, <2>6, RosterLeads
  <2> QED  BY <2>4, <2>5, <2>7, ToldMends
<1>3. ASSUME NEW u \in Users, NEW v \in Users, Kick(u, v) PROVE Mending'
  <2>1. PICK s \in Servers : s = Home[u]
    BY HomeType
  <2>2. s \notin up /\ v \in members[s]
    BY <1>3, <2>1 DEF Kick, May, NoKicks
  <2>3. v \in Clients(s) /\ v \notin Clients(Peer(s))
    BY <1>0, <2>2, PeersPeer
  <2> DEFINE m == members[s] \ {v}
  <2>4. members' = [members EXCEPT ![s] = m] /\ UNCHANGED net
    BY <1>3, <2>1 DEF Kick, Leave
  <2>5. wire' = Sent(s, <<>>)
    BY <1>3, <2>1, <2>2 DEF Kick, Sent
  <2>6. m \in SUBSET Users /\ m \cap Clients(Peer(s)) = Roster(s) /\ <<>> \in Seq(Said(s))
    BY <1>0, <2>3 DEF Roster
  <2> HIDE DEF m
  <2> QED  BY <2>2, <2>4, <2>5, <2>6, ToldMends
<1>4. ASSUME NEW s \in Servers, NEW line \in Line, line.cmd \notin {"FJOIN", "JOIN", "PART", "KICK"},
             members' = members, UNCHANGED net, wire' = Sent(s, <<line>>)
      PROVE  Mending'
  <2>1. members' = [members EXCEPT ![s] = members[s]] /\ members[s] \in SUBSET Users
    BY <1>0, <1>4
  <2>2. line \in Said(s)
    BY <1>4 DEF Said
  <2>3. <<line>> \in Seq(Said(s))
    BY <2>2
  <2>4. members[s] \cap Clients(s) \in SUBSET Clients(s)
    OBVIOUS
  <2>5. Leads(RosterStep(Clients(s)), SUBSET Clients(s), members[s] \cap Clients(s), <<line>>,
              members[s] \cap Clients(s))
    BY <1>4, <2>4, NoNews
  <2> QED  BY <1>4, <2>1, <2>3, <2>5, ToldMends DEF Roster
<1>5. ASSUME NEW u \in Users, NEW v \in Users, ChangeStatus(u, v) PROVE Mending'
  <2> DEFINE line == [cmd |-> IF v \in ops[Home[u]] THEN "-o" ELSE "+o", ts |-> age[Home[u]], user |-> v]
  <2>1. Home[u] \in Servers /\ age[Home[u]] \in 1 .. MaxTime
    BY <1>0, <1>5, HomeType, SyncOK DEF ChangeStatus, Tidy, NoGhosts, Exists
  <2>2. line \in Line /\ line.cmd \in {"+o", "-o"}
    BY <2>1 DEF Line
  <2>3. members' = members /\ UNCHANGED net /\ wire' = Sent(Home[u], <<line>>)
    BY <1>5 DEF ChangeStatus
  <2> HIDE DEF line
  <2> QED  BY <1>4, <2>1, <2>2, <2>3
<1>6. ASSUME NEW u \in Users, NEW k \in Keys, ChangeKey(u, k) PROVE Mending'
  <2> DEFINE line == [cmd |-> IF key[Home[u]].shown THEN "-k" ELSE "+k", ts |-> age[Home[u]], key |-> k]
  <2>1. Home[u] \in Servers /\ age[Home[u]] \in 1 .. MaxTime
    BY <1>0, <1>6, HomeType, SyncOK DEF ChangeKey, Tidy, NoGhosts, Exists
  <2>2. line \in Line /\ line.cmd \in {"+k", "-k"}
    BY <2>1 DEF Line
  <2>3. members' = members /\ UNCHANGED net /\ wire' = Sent(Home[u], <<line>>)
    BY <1>6 DEF ChangeKey
  <2> HIDE DEF line
  <2> QED  BY <1>4, <2>1, <2>2, <2>3
<1>7. ASSUME NEW u \in Users, NEW t \in Topics, SetTopic(u, t) PROVE Mending'
  <2> DEFINE line == [cmd |-> "TOPIC", topic |-> t]
  <2>1. Home[u] \in Servers
    BY HomeType
  <2>2. line \in Line /\ line.cmd = "TOPIC"
    BY DEF Line
  <2>3. members' = members /\ UNCHANGED net /\ wire' = Sent(Home[u], <<line>>)
    BY <1>7 DEF SetTopic
  <2> HIDE DEF line
  <2> QED  BY <1>4, <2>1, <2>2, <2>3
<1> QED  BY <1>1, <1>2, <1>3, <1>5, <1>6, <1>7 DEF ClientCommand

\* What a server reads of the other's clients.
LEMMA LineMends ==
  ASSUME Tidy, Mending, NEW s \in Servers, ProcessLine(s)
  PROVE  Mending'
<1> DEFINE line == Head(wire[s])
           C == Clients(Peer(s))
<1>0. /\ wire \in [Servers -> Seq(Line)] /\ members \in [Servers -> SUBSET Users]
      /\ \A u \in C : u \notin Clients(s)
  BY PeersPeer DEF Tidy, TypeOK
<1>1. ASSUME wire[s] # <<>> PROVE line \in Line /\ line \in Said(Peer(s))
  <2>1. wire[s] \in Seq(Said(Peer(s)))
    BY DEF Mending, Honest
  <2> QED  BY <1>0, <1>1, <2>1
<1> HIDE DEF C
<1>2. CASE HearBurst(s)
  <2>1. PICK p \in Servers : p = Peer(s) /\ Peer(p) = s /\ p # s /\ \A t \in Servers : t = s \/ t = p
    BY PeersPeer
  <2>2. /\ wire[s] # <<>> /\ line.cmd = "BURST" /\ up' = up \cup {s} /\ UNCHANGED <<members, connected>>
        /\ wire' = [wire EXCEPT ![s] = Tail(@), ![p] = IF connected THEN @ \o Burst(s) ELSE @]
    BY <1>2, <2>1 DEF HearBurst, Heard, chan
  <2>3. wire'[s] = Tail(wire[s]) /\ wire'[p] = IF connected THEN wire[p] \o Burst(s) ELSE wire[p]
    BY <1>0, <2>1, <2>2
  <2>4. /\ Roster(s)' = Roster(s) /\ Theirs(s)' = Theirs(s)
        /\ Roster(p)' = Roster(p) /\ Theirs(p)' = Theirs(p)
    BY <2>2 DEF Roster, Theirs
  <2>5. InTouch(s)' /\ Untold(s)'
    <3>1. CASE connected /\ p \in up
      <4>1. Leads(RosterStep(C), SUBSET C, Roster(s), wire[s], Theirs(s))
        BY <2>1, <3>1 DEF Mending, InTouch, C
      <4>2. Leads(RosterStep(C), SUBSET C, RosterStep(C)[<<Roster(s), line>>], Tail(wire[s]), Theirs(s))
        BY <1>0, <2>2, <4>1, LeadsRead
      <4>3. RosterOf(C, Roster(s), line) = Roster(s) /\ Roster(s) \in SUBSET C
        BY <2>2 DEF RosterOf, Roster, C
      <4>4. RosterStep(C)[<<Roster(s), line>>] = Roster(s)
        BY <1>1, <2>2, <4>3, RosterStepIs
      <4>5. InTouch(s)'
        BY <2>3, <2>4, <4>2, <4>4 DEF InTouch, C
      <4> QED  BY <2>1, <2>2, <3>1, <4>5 DEF Untold
    <3>2. CASE connected /\ p \notin up
      <4>1. wire[s] = <<>>
        BY <2>1, <3>2 DEF Mending, Untold
      <4> QED  BY <2>2, <4>1
    <3>3. CASE ~connected
      BY <2>2, <3>3 DEF InTouch, Untold
    <3> QED  BY <3>1, <3>2, <3>3
  <2>6. Honest(s)'
    <3>1. wire[s] \in Seq(Said(p))
      BY <2>1 DEF Mending, Honest
    <3>2. wire[s] # <<>> /\ wire'[s] = Tail(wire[s])
      BY <2>2, <2>3
    <3>3. Tail(wire[s]) \in Seq(Said(p))
      BY <3>1, <3>2
    <3> QED  BY <2>1, <3>2, <3>3 DEF Honest
  <2>7. InTouch(p)' /\ Untold(p)'
    <3>1. CASE connected
      <4> DEFINE D == Clients(s)
                 r == Theirs(p)
      <4>1. Theirs(p) = members[s] \cap Clients(s)
        BY <2>1 DEF Theirs
      <4>2. Leads(RosterStep(D), SUBSET D, Roster(p), wire[p] \o Burst(s), r)
        <5>1. Burst(s) \in Seq(Line)
          BY BurstType
        <5>2. CASE s \in up
          <6>1. Leads(RosterStep(D), SUBSET D, Roster(p), wire[p], r)
            BY <2>1, <3>1, <5>2 DEF Mending, InTouch
          <6>2. r \in SUBSET D /\ r = r \cup (members[s] \cap D)
            BY <4>1
          <6> HIDE DEF r, D
          <6>3. Leads(RosterStep(D), SUBSET D, r, Burst(s), r \cup (members[s] \cap D))
            BY <6>2, BurstTells DEF D
          <6> QED  BY <1>0, <5>1, <6>1, <6>2, <6>3, LeadsOn
        <5>3. CASE s \notin up
          <6>1. Roster(p) = {} /\ wire[p] = <<>>
            BY <2>1, <3>1, <5>3 DEF Mending, Untold
          <6>2. {} \in SUBSET D /\ {} \cup (members[s] \cap D) = r
            BY <4>1
          <6>3. wire[p] \o Burst(s) = Burst(s)
            BY <5>1, <6>1
          <6> HIDE DEF r
          <6>4. Leads(RosterStep(D), SUBSET D, {}, Burst(s), {} \cup (members[s] \cap D))
            BY <6>2, BurstTells
          <6> HIDE DEF D
          <6> QED  BY <6>1, <6>2, <6>3, <6>4
        <5> QED  BY <5>2, <5>3
      <4> HIDE DEF r, D
      <4>3. InTouch(p)'
        BY <2>1, <2>3, <2>4, <3>1, <4>2 DEF InTouch, r, D
      <4> QED  BY <2>1, <2>2, <4>3 DEF Untold
    <3>2. CASE ~connected
      BY <2>2, <3>2 DEF InTouch, Untold
    <3> QED  BY <3>1, <3>2
  <2>8. Honest(p)'
    <3>1. wire[p] \in Seq(Said(s)) /\ Burst(s) \in Seq(Said(s))
      <4>1. {} \in SUBSET Clients(s)
        OBVIOUS
      <4> QED  BY <2>1, <4>1, BurstTells DEF Mending, Honest
    <3>2. wire'[p] \in Seq(Said(s))
      BY <2>3, <3>1
    <3> QED  BY <2>1, <3>2 DEF Honest
  <2> QED  BY <2>1, <2>5, <2>6, <2>7, <2>8 DEF Mending
<1>3. ASSUME wire[s] # <<>>, Read(s), members' = members, UNCHANGED net,
             line.cmd \notin {"FJOIN", "JOIN", "PART"}
      PROVE  Mending'
  <2>1. members' = [members EXCEPT ![s] = members[s]] /\ members[s] \in SUBSET Users
    BY <1>0, <1>3
  <2>2. members[s] \cap C = RosterOf(C, Roster(s), line)
    BY <1>3 DEF RosterOf, Roster, C
  <2> QED  BY <1>3, <2>1, <2>2, ReadMends DEF Read, C
<1>4. CASE ForceJoin(s)
  <2>1. /\ wire[s] # <<>> /\ Read(s) /\ UNCHANGED net /\ line.cmd = "FJOIN"
        /\ members' = [members EXCEPT ![s] = members[s] \cup (line.users \cap C)]
    BY <1>4 DEF ForceJoin, Heard, C
  <2>2. line.users \subseteq Users
    BY <1>1, <2>1 DEF Line
  <2> DEFINE m == members[s] \cup (line.users \cap C)
  <2>3. m \in SUBSET Users /\ m \cap Clients(s) = members[s] \cap Clients(s)
    BY <1>0, <2>2
  <2>4. m \cap C = RosterOf(C, Roster(s), line)
    BY <2>1 DEF RosterOf, Roster, C
  <2> HIDE DEF m
  <2> QED  BY <2>1, <2>3, <2>4, ReadMends DEF Read, C, m
<1>5. CASE RemoteJoin(s)
  <2>1. /\ wire[s] # <<>> /\ Read(s) /\ UNCHANGED net /\ line.cmd = "JOIN"
        /\ members' = [members EXCEPT ![s] = members[s] \cup {line.user}]
    BY <1>5 DEF RemoteJoin, Heard, Enter
  <2>2. line.user \in Users /\ line.user \in C
    BY <1>1, <2>1 DEF Line, Said, C
  <2> DEFINE m == members[s] \cup {line.user}
  <2>3. m \in SUBSET Users /\ m \cap Clients(s) = members[s] \cap Clients(s)
    BY <1>0, <2>2
  <2>4. m \cap C = RosterOf(C, Roster(s), line)
    BY <2>1 DEF RosterOf, Roster, C
  <2> HIDE DEF m
  <2> QED  BY <2>1, <2>3, <2>4, ReadMends DEF Read, C, m
<1>6. CASE RemoteLeave(s)
  <2>1. wire[s] # <<>> /\ Read(s) /\ UNCHANGED net /\ line.cmd = "PART"
    BY <1>1, <1>6 DEF RemoteLeave, Heard, Said
  <2>2. line.user \in Users /\ line.user \in C
    BY <1>1, <2>1 DEF Line, Said, C
  <2> DEFINE m == members[s] \ {line.user}
  <2>3. members' = [members EXCEPT ![s] = m]
    BY <1>0, <1>6 DEF RemoteLeave, Leave, chan
  <2>4. m \in SUBSET Users /\ m \cap Clients(s) = members[s] \cap Clients(s)
    BY <1>0, <2>2
  <2>5. m \cap C = RosterOf(C, Roster(s), line)
    BY <2>1 DEF RosterOf, Roster, C
  <2> HIDE DEF m
  <2> QED  BY <2>1, <2>3, <2>4, <2>5, ReadMends DEF Read, C
<1>7. CASE ForceStatus(s) \/ ForceKey(s) \/ ForceTopic(s) \/ RemoteTopic(s)
  <2>1. /\ wire[s] # <<>> /\ Read(s) /\ members' = members /\ UNCHANGED net
        /\ line.cmd \in {"+o", "-o", "+k", "-k", "FTOPIC", "TOPIC"}
    BY <1>7 DEF ForceStatus, ForceKey, ForceTopic, RemoteTopic, Heard
  <2> QED  BY <1>3, <2>1
<1> QED  BY <1>2, <1>4, <1>5, <1>6, <1>7 DEF ProcessLine

\* The link comes up and breaks.
LEMMA LinkMends ==
  ASSUME Tidy, Mending, NEW s \in Servers, LinkUp(s) \/ Netsplit(s)
  PROVE  Mending'
<1>0. /\ wire \in [Servers -> Seq(Line)] /\ members \in [Servers -> SUBSET Users]
      /\ \A t \in Servers : t \notin up => members[t] \subseteq Clients(t)
  BY DEF Tidy, TypeOK, NoGhosts
<1>1. PICK p \in Servers : p = Peer(s) /\ Peer(p) = s /\ p # s /\ \A t \in Servers : t = s \/ t = p
  BY PeersPeer
<1>2. CASE LinkUp(s)
  <2>1. /\ up = {} /\ up' = {s} /\ connected' /\ members' = members /\ wire[s] = <<>>
        /\ wire' = [wire EXCEPT ![p] = <<[cmd |-> "BURST"]>> \o Burst(s)]
    BY <1>1, <1>2 DEF LinkUp, chan
  <2>2. Roster(s) = {} /\ Roster(p) = {} /\ Theirs(p) = members[s] \cap Clients(s)
    BY <1>0, <1>1, <2>1, PeersPeer DEF Roster, Theirs
  <2>3. wire'[s] = <<>> /\ wire'[p] = <<[cmd |-> "BURST"]>> \o Burst(s)
    BY <1>0, <1>1, <2>1
  <2>4. InTouch(s)' /\ Untold(s)' /\ Honest(s)'
    <3>1. Roster(s)' = {}
      BY <2>1, <2>2 DEF Roster
    <3>2. p \notin up'
      BY <1>1, <2>1
    <3> QED  BY <1>1, <2>3, <3>1, <3>2 DEF InTouch, Untold, Honest
  <2> DEFINE C == Clients(s)
             line == [cmd |-> "BURST"]
             q == members[s] \cap Clients(s)
  <2>5. line \in Line /\ line \in Said(s) /\ line.cmd = "BURST"
    BY DEF Line, Said
  <2>6. {} \in SUBSET C /\ {} \cup (members[s] \cap C) = q
    OBVIOUS
  <2>7. Leads(RosterStep(C), SUBSET C, {}, Burst(s), q) /\ Burst(s) \in Seq(Said(s))
    <3>1. Leads(RosterStep(C), SUBSET C, {}, Burst(s), {} \cup (members[s] \cap C)) /\ Burst(s) \in Seq(Said(s))
      BY <2>6, BurstTells
    <3> HIDE DEF q
    <3> QED  BY <2>6, <3>1
  <2> HIDE DEF line, q, C
  <2>8. Leads(RosterStep(C), SUBSET C, {}, <<line>>, {})
    BY <2>5, <2>6, NoNews
  <2>9. <<line>> \in Seq(Line) /\ Burst(s) \in Seq(Line)
    BY <2>5, BurstType
  <2>10. Leads(RosterStep(C), SUBSET C, {}, <<line>> \o Burst(s), q)
    BY <2>7, <2>8, <2>9, LeadsOn
  <2>11. Roster(p)' = {} /\ Theirs(p)' = q
    BY <2>1, <2>2 DEF Roster, Theirs, q
  <2>12. wire'[p] = <<line>> \o Burst(s)
    BY <2>3 DEF line
  <2>13. InTouch(p)'
    BY <1>1, <2>10, <2>11, <2>12 DEF InTouch, C
  <2>14. Untold(p)'
    BY <1>1, <2>1 DEF Untold
  <2>15. Honest(p)'
    <3>1. <<line>> \o Burst(s) \in Seq(Said(s))
      BY <2>5, <2>7
    <3> QED  BY <1>1, <2>12, <3>1 DEF Honest
  <2> QED  BY <1>1, <2>4, <2>13, <2>14, <2>15 DEF Mending
<1>3. CASE Netsplit(s)
  <2>1. ~connected /\ connected' = connected /\ wire' = [wire EXCEPT ![s] = <<>>]
    BY <1>3 DEF Netsplit
  <2>2. \A t \in Servers : wire'[t] = <<>> \/ wire'[t] = wire[t]
    BY <1>0, <2>1
  <2>3. \A t \in Servers : Honest(t)'
    <3> TAKE t \in Servers
    <3>1. wire[t] \in Seq(Said(Peer(t))) /\ <<>> \in Seq(Said(Peer(t)))
      BY DEF Mending, Honest
    <3> QED  BY <2>2, <3>1 DEF Honest
  <2> QED  BY <2>1, <2>3 DEF Mending, InTouch, Untold
<1> QED  BY <1>2, <1>3

-----------------------------------------------------------------------------
\* Where nobody kicks while the servers are linked (a kick can cross the victim's own part and join): whenever
\* the link is up and all lines are read, both servers list the same members, however often it has split and
\* however the lines crossed, and a split leaves nobody behind.
THEOREM SplitsAlwaysHeal == NoKicks /\ Spec => []SplitsHeal
<1> SUFFICES ASSUME NoKicks PROVE Spec => []SplitsHeal
  OBVIOUS
<1>1. Init => Mending
  <2> SUFFICES ASSUME Init PROVE Mending
    OBVIOUS
  <2>1. ~connected /\ \A t \in Servers : wire[t] = <<>>
    BY DEF Init
  <2>2. \A t \in Servers : <<>> \in Seq(Said(Peer(t)))
    OBVIOUS
  <2> QED  BY <2>1, <2>2 DEF Mending, InTouch, Untold, Honest
<1>2. Tidy /\ Mending /\ [Next]_vars => Mending'
  <2> SUFFICES ASSUME Tidy, Mending, [Next]_vars PROVE Mending'
    OBVIOUS
  <2>1. CASE Tick \/ UNCHANGED vars
    <3>1. UNCHANGED <<members, up, connected, wire>>
      BY <2>1 DEF Tick, vars, chan, net
    <3> QED  BY <3>1 DEF Mending, InTouch, Untold, Honest, Roster, Theirs
  <2>2. CASE Break
    <3>1. ~connected' /\ wire' = wire
      BY <2>2 DEF Break
    <3> QED  BY <3>1 DEF Mending, InTouch, Untold, Honest
  <2>3. CASE ClientCommand
    BY <2>3, CommandMends
  <2>4. ASSUME NEW s \in Servers, ProcessLine(s) PROVE Mending'
    BY <2>4, LineMends
  <2>5. ASSUME NEW s \in Servers, LinkUp(s) \/ Netsplit(s) PROVE Mending'
    BY <2>5, LinkMends
  <2> QED  BY <2>1, <2>2, <2>3, <2>4, <2>5 DEF Next
<1>3. Tidy /\ Mending => SplitsHeal
  <2> SUFFICES ASSUME Tidy, Mending, Merged, NEW s \in Servers, NEW t \in Servers
               PROVE  members[s] = members[t]
    BY DEF SplitsHeal, MembersAgree, Same, Tidy
  <2>0. \A x \in Servers : members[x] \in SUBSET Users /\ wire[x] = <<>> /\ wire[x] \in Seq(Line)
    BY DEF Merged, Tidy, TypeOK
  <2>1. ASSUME NEW x \in Servers PROVE Roster(x) = Theirs(x)
    <3>1. connected /\ Peer(x) \in up
      BY PeersPeer DEF Merged
    <3>2. Leads(RosterStep(Clients(Peer(x))), SUBSET Clients(Peer(x)), Roster(x), wire[x], Theirs(x))
      BY <3>1 DEF Mending, InTouch
    <3> QED  BY <2>0, <3>2, LeadsIn
  <2>2. \A u \in Users, x \in Servers : u \in Clients(x) \/ u \in Clients(Peer(x))
    BY HomeType
  <2>3. members[s] \cap Clients(Peer(s)) = members[Peer(s)] \cap Clients(Peer(s))
    BY <2>1 DEF Roster, Theirs
  <2>4. members[Peer(s)] \cap Clients(s) = members[s] \cap Clients(s)
    BY <2>1, PeersPeer DEF Roster, Theirs
  <2>5. members[s] = members[Peer(s)]
    <3>1. Peer(s) \in Servers
      BY PeersPeer
    <3>2. members[s] \subseteq Users /\ members[Peer(s)] \subseteq Users
      BY <2>0, <3>1
    <3>3. \A u \in Users : u \in members[s] <=> u \in members[Peer(s)]
      BY <2>2, <2>3, <2>4
    <3> QED  BY <3>2, <3>3
  <2> QED  BY <2>5, PeersPeer
<1> QED  BY <1>1, <1>2, <1>3, TidyAlways, PTL DEF Spec

-----------------------------------------------------------------------------
(* What a channel is apart from its topic, and what lines make of it *)

Copy(t) == [age |-> age[t], members |-> members[t], ops |-> ops[t], key |-> key[t]]
Copies ==
    {x \in [age : 0 .. MaxTime, members : SUBSET Users, ops : SUBSET Users, key : KeyState] :
        /\ x.age # 0 <=> x.members # {}
        /\ x.ops \subseteq x.members
        /\ x.age = 0 => x.key = NoKey
        /\ x.key = NoKey \/ x.key.shown}

\* The channel x of a server after a line, where the other server's clients are C.  A JOIN makes nothing sound of a
\* channel that is not there.
Yields(x, line) == x.age # 0 /\ x.age > line.ts
Obeys(x, line) == x.age # 0 /\ line.ts <= x.age
Ends(x, line) == line.cmd \in {"PART", "KICK"} /\ line.user \in x.members /\ x.members \ {line.user} = {}
AgeBy(C, x, line) ==
    IF line.cmd = "FJOIN"
    THEN IF Yields(x, line) \/ (x.age = 0 /\ line.users \cap C # {}) THEN line.ts ELSE x.age
    ELSE IF Ends(x, line) THEN 0 ELSE x.age
MembersBy(C, x, line) ==
    IF line.cmd = "FJOIN" THEN x.members \cup (line.users \cap C)
    ELSE IF line.cmd = "JOIN" THEN x.members \cup {line.user}
    ELSE IF line.cmd \in {"PART", "KICK"} THEN x.members \ {line.user}
    ELSE x.members
OpsBy(C, x, line) ==
    IF line.cmd = "FJOIN"
    THEN (IF Yields(x, line) THEN {} ELSE x.ops)
         \cup (IF x.age # 0 /\ x.age < line.ts THEN {} ELSE line.ops \cap (line.users \cap C))
    ELSE IF line.cmd \in {"PART", "KICK"} THEN x.ops \ {line.user}
    ELSE IF line.cmd \in {"+o", "-o"} /\ Obeys(x, line) /\ line.user \in x.members
    THEN IF line.cmd = "+o" THEN x.ops \cup {line.user} ELSE x.ops \ {line.user}
    ELSE x.ops
KeyBy(C, x, line) ==
    IF line.cmd = "FJOIN" THEN IF Yields(x, line) /\ x.key.shown THEN NoKey ELSE x.key
    ELSE IF Ends(x, line) THEN NoKey
    ELSE IF line.cmd \in {"+k", "-k"} /\ Obeys(x, line)
    THEN IF line.cmd = "-k" /\ x.key.shown THEN NoKey ELSE [str |-> line.key, shown |-> line.cmd = "+k"]
    ELSE x.key
CopyBy(C, x, line) ==
    [age |-> AgeBy(C, x, line), members |-> MembersBy(C, x, line),
     ops |-> OpsBy(C, x, line), key |-> KeyBy(C, x, line)]
CopyStep(C) == [p \in Copies \X Line |-> CopyBy(C, p[1], p[2])]

LEMMA CopyStepIs ==
  ASSUME NEW C, NEW x \in Copies, NEW line \in Line
  PROVE  CopyStep(C)[<<x, line>>] = CopyBy(C, x, line)
<1>1. <<x, line>> \in Copies \X Line
  OBVIOUS
<1> QED  BY <1>1 DEF CopyStep

LEMMA CopyLeads ==
  ASSUME NEW C, NEW x \in Copies, NEW line \in Line, NEW y \in Copies, CopyBy(C, x, line) = y
  PROVE  Leads(CopyStep(C), Copies, x, <<line>>, y)
<1> DEFINE step == CopyStep(C)
<1>1. step[<<x, line>>] = y
  BY CopyStepIs
<1> HIDE DEF step
<1>2. Leads(step, Copies, x, <<line>>, y)
  BY <1>1, LeadsByOne
<1> QED  BY <1>2 DEF step

\* Two copies are one when each part is.
LEMMA CopiesEqual ==
  ASSUME NEW x \in Copies, NEW y \in Copies,
         x.age = y.age, x.members = y.members, x.ops = y.ops, x.key = y.key
  PROVE  x = y
  BY DEF Copies

\* Every server's channel is one of them as long as its key is shown and goes with the channel.
LEMMA CopyIs ==
  ASSUME Tidy, NEW t \in Servers
  PROVE  /\ Copy(t).age = age[t] /\ Copy(t).members = members[t]
         /\ Copy(t).ops = ops[t] /\ Copy(t).key = key[t]
         /\ Copy(t) \in Copies <=> (age[t] = 0 => key[t] = NoKey) /\ (key[t] = NoKey \/ key[t].shown)
<1>1. /\ age[t] \in 0 .. MaxTime /\ members[t] \in SUBSET Users /\ ops[t] \in SUBSET Users /\ key[t] \in KeyState
      /\ ops[t] \subseteq members[t] /\ (age[t] # 0 <=> members[t] # {})
  BY DEF Tidy, TypeOK, NoGhosts, Exists
<1> DEFINE x == Copy(t)
<1>2. x.age = age[t] /\ x.members = members[t] /\ x.ops = ops[t] /\ x.key = key[t]
  BY DEF Copy
<1>3. x \in [age : 0 .. MaxTime, members : SUBSET Users, ops : SUBSET Users, key : KeyState]
  BY <1>1 DEF Copy
<1> HIDE DEF x
<1>4. x \in Copies <=> (x.age = 0 => x.key = NoKey) /\ (x.key = NoKey \/ x.key.shown)
  BY <1>1, <1>2, <1>3 DEF Copies
<1> QED  BY <1>2, <1>4 DEF x

\* What a server makes of a line it reads is what the lemmas above say, but for a JOIN that finds no channel.
LEMMA ReadCopies ==
  ASSUME Tidy, NEW s \in Servers, ProcessLine(s), Copy(s) \in Copies,
         CopyBy(Clients(Peer(s)), Copy(s), Head(wire[s])) \in Copies
  PROVE  Copy(s)' = CopyBy(Clients(Peer(s)), Copy(s), Head(wire[s]))
<1> DEFINE line == Head(wire[s])
           C == Clients(Peer(s))
           x == Copy(s)
           y == CopyBy(C, x, line)
<1>0. /\ age \in [Servers -> 0 .. MaxTime] /\ members \in [Servers -> SUBSET Users]
      /\ ops \in [Servers -> SUBSET Users] /\ key \in [Servers -> KeyState]
      /\ ops[s] \subseteq members[s] /\ (age[s] # 0 <=> members[s] # {})
  BY DEF Tidy, TypeOK, NoGhosts, Exists
<1>1. x.age = age[s] /\ x.members = members[s] /\ x.ops = ops[s] /\ x.key = key[s]
  BY DEF Copy
<1>2. /\ y.age = AgeBy(C, x, line) /\ y.members = MembersBy(C, x, line)
      /\ y.ops = OpsBy(C, x, line) /\ y.key = KeyBy(C, x, line)
  BY DEF CopyBy
<1>3. wire[s] # <<>> /\ line \in Line
  <2>1. wire[s] # <<>>
    BY DEF ProcessLine, HearBurst, ForceJoin, ForceStatus, ForceKey, ForceTopic, RemoteJoin, RemoteLeave,
           RemoteTopic, Heard
  <2>2. wire[s] \in Seq(Line)
    BY DEF Tidy, TypeOK
  <2> QED  BY <2>1, <2>2
<1>4. SUFFICES /\ age'[s] = AgeBy(C, x, line) /\ members'[s] = MembersBy(C, x, line)
               /\ ops'[s] = OpsBy(C, x, line) /\ key'[s] = KeyBy(C, x, line)
  BY DEF Copy, CopyBy
<1>5. x.age # 0 <=> Exists(s)
  BY <1>1 DEF Exists
<1>6. y \in Copies
  OBVIOUS
<1> HIDE DEF x, y, C
<1>7. CASE HearBurst(s) \/ ForceTopic(s) \/ RemoteTopic(s)
  <2>1. UNCHANGED <<age, members, ops, key>> /\ line.cmd \in {"BURST", "FTOPIC", "TOPIC"}
    BY <1>7 DEF HearBurst, ForceTopic, RemoteTopic, Heard, chan
  <2> QED  BY <1>1, <2>1 DEF AgeBy, MembersBy, OpsBy, KeyBy, Ends
<1>8. CASE ForceJoin(s)
  <2>1. line.cmd = "FJOIN" /\ (Loses(s, line.ts) <=> Yields(x, line))
    BY <1>1, <1>8 DEF ForceJoin, Heard, Loses, Exists, Yields
  <2>2. age'[s] = AgeBy(C, x, line)
    BY <1>0, <1>1, <1>5, <1>8, <2>1 DEF ForceJoin, Aged, AgeBy, C
  <2>3. members'[s] = MembersBy(C, x, line)
    BY <1>0, <1>1, <1>8, <2>1 DEF ForceJoin, MembersBy, C
  <2>4. ops'[s] = OpsBy(C, x, line)
    BY <1>0, <1>1, <1>5, <1>8, <2>1 DEF ForceJoin, OpsBy, C
  <2>5. key'[s] = KeyBy(C, x, line)
    BY <1>0, <1>1, <1>8, <2>1 DEF ForceJoin, KeyBy
  <2> QED  BY <2>2, <2>3, <2>4, <2>5
<1>9. CASE ForceStatus(s)
  <2>1. line.cmd \in {"+o", "-o"} /\ UNCHANGED <<age, members, key>> /\ (Accepts(s, line.ts) <=> Obeys(x, line))
    BY <1>1, <1>5, <1>9 DEF ForceStatus, Heard, Accepts, Obeys
  <2>2. ops'[s] = OpsBy(C, x, line)
    BY <1>0, <1>1, <1>9, <2>1 DEF ForceStatus, OpsBy
  <2> QED  BY <1>1, <2>1, <2>2 DEF AgeBy, MembersBy, KeyBy, Ends
<1>10. CASE ForceKey(s)
  <2>1. line.cmd \in {"+k", "-k"} /\ UNCHANGED <<age, members, ops>> /\ (Accepts(s, line.ts) <=> Obeys(x, line))
    BY <1>1, <1>5, <1>10 DEF ForceKey, Heard, Accepts, Obeys
  <2>2. key'[s] = KeyBy(C, x, line)
    BY <1>0, <1>1, <1>10, <2>1 DEF ForceKey, KeyBy, Ends
  <2> QED  BY <1>1, <2>1, <2>2 DEF AgeBy, MembersBy, OpsBy, Ends
<1>11. CASE RemoteJoin(s)
  <2>1. line.cmd = "JOIN" /\ Enter(s, line.user, now, {})
    BY <1>11 DEF RemoteJoin, Heard
  <2>2. y.members = members[s] \cup {line.user} /\ y.age = age[s]
    BY <1>1, <1>2, <2>1 DEF MembersBy, AgeBy, Ends
  <2>3. Exists(s)
    BY <1>6, <2>2 DEF Copies, Exists
  <2> QED  BY <1>0, <1>1, <2>1, <2>3 DEF Enter, AgeBy, MembersBy, OpsBy, KeyBy, Ends
<1>12. CASE RemoteLeave(s)
  <2>1. line.cmd \in {"PART", "KICK"}
    BY <1>12 DEF RemoteLeave, Heard
  <2>2. CASE line.user \in members[s]
    <3>1. Leave(s, {line.user}) /\ (Ends(x, line) <=> members[s] \ {line.user} = {})
      BY <1>1, <1>12, <2>1, <2>2 DEF RemoteLeave, Ends
    <3>2. age'[s] = AgeBy(C, x, line)
      BY <1>0, <1>1, <2>1, <3>1 DEF Leave, AgeBy
    <3>3. members'[s] = MembersBy(C, x, line) /\ ops'[s] = OpsBy(C, x, line)
      BY <1>0, <1>1, <2>1, <3>1 DEF Leave, MembersBy, OpsBy
    <3>4. key'[s] = KeyBy(C, x, line)
      BY <1>0, <1>1, <2>1, <3>1 DEF Leave, KeyBy
    <3> QED  BY <3>2, <3>3, <3>4
  <2>3. CASE line.user \notin members[s]
    <3>1. UNCHANGED <<age, members, ops, key>> /\ ~Ends(x, line) /\ line.user \notin ops[s]
      BY <1>0, <1>1, <1>12, <2>3 DEF RemoteLeave, chan, Ends
    <3> QED  BY <1>0, <1>1, <2>1, <2>3, <3>1 DEF AgeBy, MembersBy, OpsBy, KeyBy
  <2> QED  BY <2>2, <2>3
<1> QED  BY <1>7, <1>8, <1>9, <1>10, <1>11, <1>12 DEF ProcessLine

\* What comes of a line is a channel again, but for a JOIN to none and a key removed where there is none.
LEMMA CopyByIn ==
  ASSUME NEW C, NEW x \in Copies, NEW line \in Line,
         line.cmd = "JOIN" => x.age # 0, line.cmd = "-k" /\ Obeys(x, line) => x.key.shown
  PROVE  CopyBy(C, x, line) \in Copies
<1> DEFINE a == AgeBy(C, x, line)
           m == MembersBy(C, x, line)
           o == OpsBy(C, x, line)
           k == KeyBy(C, x, line)
<1>0. /\ x.age \in 0 .. MaxTime /\ x.members \in SUBSET Users /\ x.ops \in SUBSET Users /\ x.key \in KeyState
      /\ (x.age # 0 <=> x.members # {}) /\ x.ops \subseteq x.members
      /\ (x.age = 0 => x.key = NoKey) /\ (x.key = NoKey \/ x.key.shown)
  BY DEF Copies
<1>1. /\ line.cmd = "FJOIN" => line.ts \in 1 .. MaxTime /\ line.users \in SUBSET Users
      /\ line.cmd \in {"JOIN", "PART", "KICK", "+o", "-o"} => line.user \in Users
      /\ line.cmd \in {"+k", "-k"} => line.key \in Keys
      /\ line.cmd \in {"+k", "-k", "+o", "-o"} => line.ts \in 1 .. MaxTime
  BY DEF Line
<1>2. a \in 0 .. MaxTime /\ m \in SUBSET Users /\ o \in SUBSET Users
  BY <1>0, <1>1, SyncOK DEF AgeBy, MembersBy, OpsBy
<1>3. k \in KeyState
  BY <1>0, <1>1 DEF KeyBy, KeyState
<1>4. (a # 0 <=> m # {}) /\ o \subseteq m
  <2>1. CASE line.cmd = "FJOIN"
    BY <1>0, <1>1, <2>1 DEF AgeBy, MembersBy, OpsBy, Yields
  <2>2. CASE line.cmd = "JOIN"
    BY <1>0, <1>1, <2>2 DEF AgeBy, MembersBy, OpsBy, Ends
  <2>3. CASE line.cmd \in {"PART", "KICK"}
    BY <1>0, <1>1, <2>3 DEF AgeBy, MembersBy, OpsBy, Ends
  <2>4. CASE line.cmd \notin {"FJOIN", "JOIN", "PART", "KICK"}
    BY <1>0, <1>1, <2>4 DEF AgeBy, MembersBy, OpsBy, Ends
  <2> QED  BY <2>1, <2>2, <2>3, <2>4
<1>5. (a = 0 => k = NoKey) /\ (k = NoKey \/ k.shown)
  <2>1. CASE line.cmd = "FJOIN"
    BY <1>0, <1>1, <2>1 DEF AgeBy, KeyBy, Yields
  <2>2. CASE line.cmd \in {"JOIN", "PART", "KICK"}
    BY <1>0, <1>1, <2>2 DEF AgeBy, KeyBy, Ends
  <2>3. CASE line.cmd \in {"+k", "-k"}
    BY <1>0, <1>1, <2>3 DEF AgeBy, KeyBy, Ends, Obeys
  <2>4. CASE line.cmd \notin {"FJOIN", "JOIN", "PART", "KICK", "+k", "-k"}
    BY <1>0, <1>1, <2>4 DEF AgeBy, KeyBy, Ends
  <2> QED  BY <2>1, <2>2, <2>3, <2>4
<1> DEFINE y == CopyBy(C, x, line)
<1> HIDE DEF a, m, o, k
<1>6. y = [age |-> a, members |-> m, ops |-> o, key |-> k]
  BY DEF CopyBy, a, m, o, k
<1> HIDE DEF y
<1>7. /\ y \in [age : 0 .. MaxTime, members : SUBSET Users, ops : SUBSET Users, key : KeyState]
      /\ y.age = a /\ y.members = m /\ y.ops = o /\ y.key = k
  BY <1>2, <1>3, <1>6
<1>8. y \in Copies
  BY <1>4, <1>5, <1>7 DEF Copies
<1> QED  BY <1>8 DEF y

\* A burst leads by the members and the key.
LEMMA BurstCopies ==
  ASSUME Tidy, NEW s \in Servers, NEW C, NEW x \in Copies, NEW x1 \in Copies, NEW x2 \in Copies,
         Exists(s), CopyBy(C, x, FJoin(s)) = x1,
         x2 = (IF key[s].shown THEN CopyBy(C, x1, KeyLine(s)) ELSE x1)
  PROVE  Leads(CopyStep(C), Copies, x, Burst(s), x2)
<1>1. FJoin(s) \in Line /\ Burst(s) = (<<FJoin(s)>> \o KeyPart(s)) \o TopicPart(s)
  BY BurstParts
<1>2. Leads(CopyStep(C), Copies, x, <<FJoin(s)>>, x1) /\ <<FJoin(s)>> \in Seq(Line)
  BY <1>1, CopyLeads
<1>3. Leads(CopyStep(C), Copies, x1, KeyPart(s), x2) /\ KeyPart(s) \in Seq(Line)
  <2>1. CASE key[s].shown
    <3>1. KeyLine(s) \in Line /\ KeyPart(s) = <<KeyLine(s)>> /\ x2 = CopyBy(C, x1, KeyLine(s))
      BY <2>1, BurstParts DEF KeyPart
    <3> QED  BY <3>1, CopyLeads
  <2>2. CASE ~key[s].shown
    <3>1. KeyPart(s) = <<>> /\ x2 = x1
      BY <2>2 DEF KeyPart
    <3> QED  BY <3>1, LeadsNowhere
  <2> QED  BY <2>1, <2>2
<1>4. Leads(CopyStep(C), Copies, x2, TopicPart(s), x2) /\ TopicPart(s) \in Seq(Line)
  <2>1. CASE topic[s] # None
    <3>1. TopicLine(s) \in Line /\ TopicLine(s).cmd = "FTOPIC" /\ TopicPart(s) = <<TopicLine(s)>>
      BY <2>1, BurstParts DEF TopicLine, TopicPart
    <3> DEFINE y == CopyBy(C, x2, TopicLine(s))
    <3>2. y \in Copies
      BY <3>1, CopyByIn
    <3>3. y.age = x2.age /\ y.members = x2.members /\ y.ops = x2.ops /\ y.key = x2.key
      BY <3>1 DEF CopyBy, AgeBy, MembersBy, OpsBy, KeyBy, Ends
    <3> HIDE DEF y
    <3>4. y = x2
      BY <3>2, <3>3, CopiesEqual
    <3> QED  BY <3>1, <3>4, CopyLeads DEF y
  <2>2. CASE topic[s] = None
    <3>1. TopicPart(s) = <<>>
      BY <2>2 DEF TopicPart
    <3> QED  BY <3>1, LeadsNowhere
  <2> QED  BY <2>1, <2>2
<1>5. Leads(CopyStep(C), Copies, x, <<FJoin(s)>> \o KeyPart(s), x2)
  BY <1>2, <1>3, LeadsOn
<1>6. <<FJoin(s)>> \o KeyPart(s) \in Seq(Line)
  BY <1>2, <1>3
<1>7. Leads(CopyStep(C), Copies, x, (<<FJoin(s)>> \o KeyPart(s)) \o TopicPart(s), x2)
  BY <1>4, <1>5, <1>6, LeadsOn
<1> QED  BY <1>1, <1>7

-----------------------------------------------------------------------------
(* All clients on one server *)

OneHome(a) == \A u \in Users : Home[u] = a

\* What is on its way to the other server leads it, by sound channels, to the channel of a.
Told(a) ==
    \E y \in Copies :
        /\ Leads(CopyStep(Clients(a)), Copies, Copy(Peer(a)), wire[Peer(a)], y)
        /\ connected /\ a \in up => y = Copy(a)
\* The other server has nothing to tell but that it is there.
Quiet(a) == wire[a] \in Seq([cmd : {"BURST"}])
Unheard(a) == connected /\ a \notin up => wire[Peer(a)] = <<>> /\ members[Peer(a)] = {}
\* BURST is read first and before the reader is CONNECTED.
BurstFirst(a) ==
    \A i \in 1 .. Len(wire[Peer(a)]) : wire[Peer(a)][i].cmd = "BURST" => i = 1 /\ Peer(a) \notin up
Following(a) == Copy(a) \in Copies /\ Told(a) /\ Quiet(a) /\ Unheard(a) /\ BurstFirst(a)

LEMMA HomeOfAll ==
  ASSUME NEW a \in Servers, OneHome(a)
  PROVE  Clients(a) = Users /\ Clients(Peer(a)) = {}
  BY PeersPeer DEF OneHome, Clients

\* A command of a's clients makes of a's channel what its line will make of the other's.
LEMMA ToldFollows ==
  ASSUME Tidy, NEW a \in Servers, OneHome(a), Following(a), NEW line \in Line, line.cmd # "BURST",
         wire' = Sent(a, <<line>>), UNCHANGED net, Copy(Peer(a))' = Copy(Peer(a)),
         members'[Peer(a)] = members[Peer(a)],
         CopyBy(Clients(a), Copy(a), line) \in Copies, Copy(a)' = CopyBy(Clients(a), Copy(a), line)
  PROVE  Following(a)'
<1>1. PICK b \in Servers : b = Peer(a) /\ Peer(b) = a /\ b # a
  BY PeersPeer
<1>2. wire \in [Servers -> Seq(Line)] /\ up' = up /\ connected' = connected
  BY DEF Tidy, TypeOK, net
<1>3. /\ Copy(a) \in Copies /\ Quiet(a) /\ Unheard(a) /\ BurstFirst(a)
      /\ Copy(b)' = Copy(b) /\ members'[b] = members[b]
  BY <1>1 DEF Following
<1>4. PICK y \in Copies : /\ Leads(CopyStep(Clients(a)), Copies, Copy(b), wire[b], y)
                          /\ connected /\ a \in up => y = Copy(a)
  BY <1>1 DEF Following, Told
<1>5. wire'[a] = wire[a]
  BY <1>1, <1>2 DEF Sent
<1>6. Copy(a)' \in Copies /\ Quiet(a)'
  BY <1>3, <1>5 DEF Quiet
<1>7. Told(a)' /\ Unheard(a)' /\ BurstFirst(a)'
  <2>1. CASE a \in up /\ connected
    <3>1. wire'[b] = wire[b] \o <<line>> /\ y = Copy(a)
      BY <1>1, <1>2, <1>4, <2>1 DEF Sent
    <3> DEFINE z == CopyBy(Clients(a), Copy(a), line)
    <3>2. Leads(CopyStep(Clients(a)), Copies, y, <<line>>, z)
      BY <1>3, <3>1, CopyLeads
    <3>3. <<line>> \in Seq(Line) /\ wire[b] \in Seq(Line)
      BY <1>2
    <3>4. Leads(CopyStep(Clients(a)), Copies, Copy(b), wire[b] \o <<line>>, z)
      BY <1>4, <3>2, <3>3, LeadsOn
    <3>5. Told(a)'
      <4>1. z \in Copies /\ z = Copy(a)'
        OBVIOUS
      <4> HIDE DEF z
      <4> QED  BY <1>1, <1>3, <3>1, <3>4, <4>1 DEF Told
    <3>6. Unheard(a)'
      BY <1>2, <2>1 DEF Unheard
    <3>7. BurstFirst(a)'
      <4>1. Len(wire[b] \o <<line>>) = Len(wire[b]) + 1 /\ Len(wire[b]) \in Nat
        BY <3>3
      <4>2. \A i \in 1 .. Len(wire[b]) : (wire[b] \o <<line>>)[i] = wire[b][i]
        BY <3>3
      <4>3. (wire[b] \o <<line>>)[Len(wire[b]) + 1] = line
        BY <3>3
      <4>4. \A i \in 1 .. Len(wire[b]) + 1 : i \in 1 .. Len(wire[b]) \/ i = Len(wire[b]) + 1
        BY <4>1
      <4>5. \A i \in 1 .. Len(wire[b]) : wire[b][i].cmd = "BURST" => i = 1 /\ b \notin up
        BY <1>1, <1>3 DEF BurstFirst
      <4>6. \A i \in 1 .. Len(wire'[b]) : wire'[b][i].cmd = "BURST" => i = 1 /\ b \notin up'
        BY <1>2, <3>1, <4>1, <4>2, <4>3, <4>4, <4>5
      <4> QED  BY <1>1, <4>6 DEF BurstFirst
    <3> QED  BY <3>5, <3>6, <3>7
  <2>2. CASE ~(a \in up /\ connected)
    <3>1. wire'[b] = wire[b]
      BY <2>2 DEF Sent
    <3> QED  BY <1>1, <1>2, <1>3, <1>4, <2>2, <3>1 DEF Told, Unheard, BurstFirst
  <2> QED  BY <2>1, <2>2
<1> QED  BY <1>6, <1>7 DEF Following

LEMMA CommandFollows ==
  ASSUME Tidy, NEW a \in Servers, OneHome(a), Following(a), ClientCommand
  PROVE  Following(a)'
<1> DEFINE x == Copy(a)
           C == Clients(a)
<1>0. /\ age \in [Servers -> 0 .. MaxTime] /\ members \in [Servers -> SUBSET Users] /\ now \in 1 .. MaxTime
      /\ ops \in [Servers -> SUBSET Users] /\ key \in [Servers -> KeyState]
      /\ ops[a] \subseteq members[a] /\ (age[a] # 0 <=> members[a] # {})
  BY DEF Tidy, TypeOK, NoGhosts, Exists
<1>1. x.age = age[a] /\ x.members = members[a] /\ x.ops = ops[a] /\ x.key = key[a]
  BY DEF Copy
<1>2. PICK b \in Servers : b = Peer(a) /\ b # a
  BY PeersPeer
<1>3. x \in Copies /\ C = Users /\ (key[a] = NoKey \/ key[a].shown)
  <2>1. x \in Copies
    BY DEF Following
  <2> QED  BY <1>1, <2>1, HomeOfAll DEF Copies
\* What is left to show of each command: its line, and that the line says what was done.
<1>4. ASSUME NEW line \in Line, line.cmd # "BURST", wire' = Sent(a, <<line>>), UNCHANGED net,
             age'[b] = age[b], members'[b] = members[b], ops'[b] = ops[b], key'[b] = key[b],
             age'[a] = AgeBy(C, x, line), members'[a] = MembersBy(C, x, line),
             ops'[a] = OpsBy(C, x, line), key'[a] = KeyBy(C, x, line),
             line.cmd = "JOIN" => age[a] # 0, line.cmd = "-k" => key[a].shown
      PROVE  Following(a)'
  <2>1. CopyBy(C, x, line) \in Copies
    BY <1>1, <1>3, <1>4, CopyByIn
  <2>2. Copy(a)' = CopyBy(C, x, line)
    BY <1>4 DEF Copy, CopyBy
  <2>3. Copy(Peer(a))' = Copy(Peer(a)) /\ members'[Peer(a)] = members[Peer(a)]
    BY <1>2, <1>4 DEF Copy
  <2> QED  BY <1>4, <2>1, <2>2, <2>3, ToldFollows
<1> HIDE DEF x
<1>5. ASSUME NEW u \in Users, Join(u) PROVE Following(a)'
  <2>1. Home[u] = a
    BY DEF OneHome
  <2>2. CASE Exists(a)
    <3> DEFINE line == [cmd |-> "JOIN", user |-> u]
    <3>1. line \in Line /\ line.cmd = "JOIN" /\ line.user = u
      BY DEF Line
    <3>2. wire' = Sent(a, <<line>>) /\ UNCHANGED net /\ UNCHANGED key
      BY <1>5, <2>1, <2>2 DEF Join, Enter
    <3>3. /\ age' = [age EXCEPT ![a] = age[a]] /\ members' = [members EXCEPT ![a] = @ \cup {u}]
          /\ ops' = [ops EXCEPT ![a] = @ \cup {}]
      BY <1>5, <2>1, <2>2 DEF Join, Enter
    <3> HIDE DEF line
    <3>4. /\ age'[a] = AgeBy(C, x, line) /\ members'[a] = MembersBy(C, x, line)
          /\ ops'[a] = OpsBy(C, x, line) /\ key'[a] = KeyBy(C, x, line)
      BY <1>0, <1>1, <3>1, <3>2, <3>3 DEF AgeBy, MembersBy, OpsBy, KeyBy, Ends
    <3>5. age'[b] = age[b] /\ members'[b] = members[b] /\ ops'[b] = ops[b] /\ key'[b] = key[b] /\ age[a] # 0
      BY <1>0, <1>2, <2>2, <3>2, <3>3 DEF Exists
    <3> QED  BY <1>4, <3>1, <3>2, <3>4, <3>5
  <2>3. CASE ~Exists(a)
    <3> DEFINE line == [cmd |-> "FJOIN", ts |-> now, users |-> {u}, ops |-> {u}]
    <3>1. line \in Line /\ line.cmd = "FJOIN" /\ line.ts = now /\ line.users = {u} /\ line.ops = {u}
      BY <1>0 DEF Line
    <3>2. wire' = Sent(a, <<line>>) /\ UNCHANGED net /\ UNCHANGED key
      BY <1>5, <2>1, <2>3 DEF Join, Enter
    <3>3. /\ age' = [age EXCEPT ![a] = now] /\ members' = [members EXCEPT ![a] = @ \cup {u}]
          /\ ops' = [ops EXCEPT ![a] = @ \cup {u}]
      BY <1>5, <2>1, <2>3 DEF Join, Enter
    <3> HIDE DEF line
    <3>4. age[a] = 0 /\ u \in C
      BY <1>3, <2>3 DEF Exists
    <3>5. /\ age'[a] = AgeBy(C, x, line) /\ members'[a] = MembersBy(C, x, line)
          /\ ops'[a] = OpsBy(C, x, line) /\ key'[a] = KeyBy(C, x, line)
      BY <1>0, <1>1, <3>1, <3>2, <3>3, <3>4 DEF AgeBy, MembersBy, OpsBy, KeyBy, Ends, Yields
    <3>6. age'[b] = age[b] /\ members'[b] = members[b] /\ ops'[b] = ops[b] /\ key'[b] = key[b]
      BY <1>0, <1>2, <3>2, <3>3
    <3> QED  BY <1>4, <3>1, <3>2, <3>5, <3>6
  <2> QED  BY <2>2, <2>3
<1>6. ASSUME NEW v \in Users, v \in members[a], Leave(a, {v}), UNCHANGED net,
             NEW line \in Line, line.cmd \in {"PART", "KICK"}, line.user = v, wire' = Sent(a, <<line>>)
      PROVE  Following(a)'
  <2>1. /\ members' = [members EXCEPT ![a] = members[a] \ {v}] /\ ops' = [ops EXCEPT ![a] = @ \ {v}]
        /\ age' = [age EXCEPT ![a] = IF members[a] \ {v} = {} THEN 0 ELSE @]
        /\ key' = [key EXCEPT ![a] = IF members[a] \ {v} = {} THEN NoKey ELSE @]
    BY <1>6 DEF Leave
  <2>2. Ends(x, line) <=> members[a] \ {v} = {}
    BY <1>1, <1>6 DEF Ends
  <2>3. age'[a] = AgeBy(C, x, line) /\ key'[a] = KeyBy(C, x, line)
    BY <1>0, <1>1, <1>6, <2>1, <2>2 DEF AgeBy, KeyBy
  <2>4. members'[a] = MembersBy(C, x, line) /\ ops'[a] = OpsBy(C, x, line)
    BY <1>0, <1>1, <1>6, <2>1 DEF MembersBy, OpsBy
  <2>5. age'[b] = age[b] /\ members'[b] = members[b] /\ ops'[b] = ops[b] /\ key'[b] = key[b]
    BY <1>0, <1>2, <2>1
  <2> QED  BY <1>4, <1>6, <2>3, <2>4, <2>5
<1>7. ASSUME NEW u \in Users, Part(u) PROVE Following(a)'
  <2> DEFINE line == [cmd |-> "PART", user |-> u]
  <2>1. line \in Line /\ line.cmd = "PART" /\ line.user = u
    BY DEF Line
  <2>2. u \in members[a] /\ Leave(a, {u}) /\ UNCHANGED net /\ wire' = Sent(a, <<line>>)
    BY <1>7 DEF Part, OneHome
  <2> HIDE DEF line
  <2> QED  BY <1>6, <2>1, <2>2
<1>8. ASSUME NEW u \in Users, NEW v \in Users, Kick(u, v) PROVE Following(a)'
  <2> DEFINE line == [cmd |-> "KICK", user |-> v]
  <2>1. line \in Line /\ line.cmd = "KICK" /\ line.user = v
    BY DEF Line
  <2>2. v \in members[a] /\ Leave(a, {v}) /\ UNCHANGED net /\ wire' = Sent(a, <<line>>)
    BY <1>8 DEF Kick, OneHome
  <2> HIDE DEF line
  <2> QED  BY <1>6, <2>1, <2>2
<1>9. ASSUME NEW u \in Users, NEW v \in Users, ChangeStatus(u, v) PROVE Following(a)'
  <2> DEFINE line == [cmd |-> IF v \in ops[a] THEN "-o" ELSE "+o", ts |-> age[a], user |-> v]
  <2>1. v \in members[a] /\ age[a] \in 1 .. MaxTime
    BY <1>0, <1>9, SyncOK DEF ChangeStatus, OneHome
  <2>2. /\ line \in Line /\ line.cmd \in {"+o", "-o"} /\ line.user = v /\ line.ts = age[a]
        /\ line.cmd = "-o" <=> v \in ops[a]
    BY <2>1 DEF Line
  <2>3. /\ ops' = [ops EXCEPT ![a] = IF v \in @ THEN @ \ {v} ELSE @ \cup {v}]
        /\ UNCHANGED <<age, members, key, net>> /\ wire' = Sent(a, <<line>>)
    BY <1>9 DEF ChangeStatus, OneHome
  <2> HIDE DEF line
  <2>4. Obeys(x, line)
    BY <1>1, <2>1, <2>2 DEF Obeys
  <2>5. ops'[a] = OpsBy(C, x, line)
    BY <1>0, <1>1, <2>1, <2>2, <2>3, <2>4 DEF OpsBy
  <2>6. age'[a] = AgeBy(C, x, line) /\ members'[a] = MembersBy(C, x, line) /\ key'[a] = KeyBy(C, x, line)
    BY <1>1, <2>2, <2>3 DEF AgeBy, MembersBy, KeyBy, Ends
  <2>7. ops'[b] = ops[b]
    BY <1>0, <1>2, <2>3
  <2> QED  BY <1>4, <2>2, <2>3, <2>5, <2>6, <2>7
<1>10. ASSUME NEW u \in Users, NEW k \in Keys, ChangeKey(u, k) PROVE Following(a)'
  <2> DEFINE line == [cmd |-> IF key[a].shown THEN "-k" ELSE "+k", ts |-> age[a], key |-> k]
  <2>1. age[a] \in 1 .. MaxTime
    BY <1>0, <1>10, SyncOK DEF ChangeKey, OneHome
  <2>2. /\ line \in Line /\ line.cmd \in {"+k", "-k"} /\ line.key = k /\ line.ts = age[a]
        /\ line.cmd = (IF key[a].shown THEN "-k" ELSE "+k")
    BY <2>1 DEF Line
  <2>3. /\ key' = [key EXCEPT ![a] = IF @.shown THEN NoKey ELSE [str |-> k, shown |-> TRUE]]
        /\ UNCHANGED <<age, members, ops, net>> /\ wire' = Sent(a, <<line>>)
    BY <1>10 DEF ChangeKey, OneHome
  <2> HIDE DEF line
  <2>4. Obeys(x, line) /\ ~Ends(x, line)
    BY <1>1, <2>1, <2>2 DEF Obeys, Ends
  <2>5. key'[a] = KeyBy(C, x, line)
    BY <1>0, <1>1, <2>1, <2>2, <2>3, <2>4 DEF KeyBy
  <2>6. age'[a] = AgeBy(C, x, line) /\ members'[a] = MembersBy(C, x, line) /\ ops'[a] = OpsBy(C, x, line)
    BY <1>1, <2>2, <2>3 DEF AgeBy, MembersBy, OpsBy, Ends
  <2>7. key'[b] = key[b]
    BY <1>0, <1>2, <2>3
  <2>8. line.cmd = "-k" => key[a].shown
    BY <2>2
  <2> QED  BY <1>4, <2>2, <2>3, <2>5, <2>6, <2>7, <2>8
<1>11. ASSUME NEW u \in Users, NEW t \in Topics, SetTopic(u, t) PROVE Following(a)'
  <2> DEFINE line == [cmd |-> "TOPIC", topic |-> t]
  <2>1. line \in Line /\ line.cmd = "TOPIC"
    BY DEF Line
  <2>2. UNCHANGED <<age, members, ops, key, net>> /\ wire' = Sent(a, <<line>>)
    BY <1>11 DEF SetTopic, OneHome
  <2> HIDE DEF line
  <2>3. /\ age'[a] = AgeBy(C, x, line) /\ members'[a] = MembersBy(C, x, line)
        /\ ops'[a] = OpsBy(C, x, line) /\ key'[a] = KeyBy(C, x, line)
    BY <1>1, <2>1, <2>2 DEF AgeBy, MembersBy, OpsBy, KeyBy, Ends
  <2> QED  BY <1>4, <2>1, <2>2, <2>3
<1> QED  BY <1>5, <1>7, <1>8, <1>9, <1>10, <1>11 DEF ClientCommand

\* A burst says nothing of BURST itself.
LEMMA BurstSays ==
  ASSUME Tidy, NEW s \in Servers
  PROVE  Burst(s) \in Seq(Line) /\ \A i \in 1 .. Len(Burst(s)) : Burst(s)[i].cmd # "BURST"
<1> DEFINE Other == {line \in Line : line.cmd # "BURST"}
<1>1. Burst(s) \in Seq(Other)
  <2>1. CASE ~Exists(s)
    <3>1. Burst(s) = <<>>
      BY <2>1, BurstParts
    <3> QED  BY <3>1
  <2>2. CASE Exists(s)
    <3>1. FJoin(s) \in Other
      BY <2>2, BurstParts DEF FJoin
    <3>2. KeyPart(s) \in Seq(Other)
      <4>1. key[s].shown => KeyLine(s) \in Other
        BY <2>2, BurstParts DEF KeyLine
      <4> HIDE DEF Other
      <4> QED  BY <4>1 DEF KeyPart
    <3>3. TopicPart(s) \in Seq(Other)
      <4>1. topic[s] # None => TopicLine(s) \in Other
        BY <2>2, BurstParts DEF TopicLine
      <4> HIDE DEF Other
      <4> QED  BY <4>1 DEF TopicPart
    <3> HIDE DEF Other
    <3>4. (<<FJoin(s)>> \o KeyPart(s)) \o TopicPart(s) \in Seq(Other)
      BY <3>1, <3>2, <3>3
    <3> QED  BY <2>2, <3>4, BurstParts
  <2> QED  BY <2>1, <2>2
<1>2. \A i \in 1 .. Len(Burst(s)) : Burst(s)[i] \in Other
  <2> HIDE DEF Other
  <2> QED  BY <1>1
<1> QED  BY <1>2, BurstType

\* The burst of a leads the other server to the channel of a, from none and from the same.
LEMMA BurstFollows ==
  ASSUME Tidy, NEW a \in Servers, OneHome(a), Following(a), NEW x \in Copies,
         (members[Peer(a)] = {} /\ x = Copy(Peer(a))) \/ x = Copy(a)
  PROVE  Leads(CopyStep(Clients(a)), Copies, x, Burst(a), Copy(a))
<1> DEFINE y == Copy(a)
           C == Clients(a)
<1>1. /\ y.age = age[a] /\ y.members = members[a] /\ y.ops = ops[a] /\ y.key = key[a]
      /\ y \in Copies /\ members[a] \subseteq C
  BY HomeOfAll DEF Copy, Following, Tidy, TypeOK
<1>2. x = y \/ (x.members = {} /\ x.age = 0 /\ x.ops = {} /\ x.key = NoKey)
  <2>1. CASE x = Copy(Peer(a)) /\ members[Peer(a)] = {}
    <3>1. x.members = {}
      BY <2>1 DEF Copy
    <3> QED  BY <3>1 DEF Copies
  <2> QED  BY <2>1
<1>3. CASE ~Exists(a)
  <2>1. Burst(a) = <<>> /\ members[a] = {} /\ age[a] = 0
    BY <1>3, BurstParts DEF Exists
  <2>2. y.age = 0 /\ y.members = {} /\ y.ops = {} /\ y.key = NoKey
    BY <1>1, <2>1 DEF Copies
  <2> HIDE DEF y
  <2>3. x = y
    BY <1>1, <1>2, <2>2, CopiesEqual
  <2> QED  BY <2>1, <2>3, LeadsNowhere DEF y
<1>4. CASE Exists(a)
  <2> DEFINE line == FJoin(a)
             x1 == CopyBy(C, x, line)
             x2 == IF key[a].shown THEN CopyBy(C, x1, KeyLine(a)) ELSE x1
  <2>1. /\ line \in Line /\ line.cmd = "FJOIN" /\ line.ts = age[a]
        /\ line.users = members[a] /\ line.ops = ops[a]
    BY <1>4, BurstParts DEF FJoin
  <2>2. x1 \in Copies
    BY <2>1, CopyByIn
  <2>3. age[a] \in 1 .. MaxTime /\ members[a] # {} /\ ops[a] \subseteq members[a] /\ (key[a] = NoKey \/ key[a].shown)
    BY <1>1, <1>4, SyncOK DEF Exists, Tidy, TypeOK, NoGhosts, Copies
  <2>4. /\ x1.age = AgeBy(C, x, line) /\ x1.members = MembersBy(C, x, line)
        /\ x1.ops = OpsBy(C, x, line) /\ x1.key = KeyBy(C, x, line)
    BY DEF CopyBy
  <2> HIDE DEF line, x1, y
  <2>5. x1.age = y.age /\ x1.members = y.members /\ x1.ops = y.ops
    BY <1>1, <1>2, <2>1, <2>3, <2>4 DEF AgeBy, MembersBy, OpsBy, Yields
  <2>6. x1.key = NoKey \/ x1.key = y.key
    BY <1>1, <1>2, <2>1, <2>3, <2>4 DEF KeyBy, Yields
  <2>7. x2 = y
    <3>1. CASE key[a].shown
      <4> DEFINE z == CopyBy(C, x1, KeyLine(a))
      <4>1. /\ KeyLine(a) \in Line /\ KeyLine(a).cmd = "+k" /\ KeyLine(a).ts = age[a]
            /\ KeyLine(a).key = key[a].str
        BY <1>4, <3>1, BurstParts DEF KeyLine
      <4>2. z \in Copies
        BY <2>2, <4>1, CopyByIn
      <4>3. /\ z.age = AgeBy(C, x1, KeyLine(a)) /\ z.members = MembersBy(C, x1, KeyLine(a))
            /\ z.ops = OpsBy(C, x1, KeyLine(a)) /\ z.key = KeyBy(C, x1, KeyLine(a))
        BY DEF CopyBy
      <4> HIDE DEF z
      <4>4. Obeys(x1, KeyLine(a)) /\ ~Ends(x1, KeyLine(a))
        BY <1>1, <2>3, <2>5, <4>1 DEF Obeys, Ends
      <4>5. key[a] = [str |-> key[a].str, shown |-> TRUE]
        <5>1. key[a] \in KeyState
          BY DEF Tidy, TypeOK
        <5> QED  BY <3>1, <5>1 DEF KeyState, NoKey
      <4>6. z.key = y.key
        BY <1>1, <4>1, <4>3, <4>4, <4>5 DEF KeyBy
      <4>7. z.age = y.age /\ z.members = y.members /\ z.ops = y.ops
        BY <2>5, <4>1, <4>3, <4>4 DEF AgeBy, MembersBy, OpsBy
      <4>8. z = y
        BY <1>1, <4>2, <4>6, <4>7, CopiesEqual
      <4> QED  BY <3>1, <4>8 DEF z
    <3>2. CASE ~key[a].shown
      <4>1. x1.key = y.key
        BY <1>1, <2>3, <2>6, <3>2
      <4>2. x1 = y
        BY <1>1, <2>2, <2>5, <4>1, CopiesEqual
      <4> QED  BY <3>2, <4>2
    <3> QED  BY <3>1, <3>2
  <2>8. CopyBy(C, x, FJoin(a)) = x1
    BY DEF x1, line
  <2>9. x2 \in Copies
    BY <1>1, <2>7
  <2>10. x2 = IF key[a].shown THEN CopyBy(C, x1, KeyLine(a)) ELSE x1
    OBVIOUS
  <2> HIDE DEF x2, C
  <2>11. Leads(CopyStep(C), Copies, x, Burst(a), x2)
    BY <1>4, <2>2, <2>8, <2>9, <2>10, BurstCopies
  <2> QED  BY <2>7, <2>11 DEF y, C
<1> QED  BY <1>3, <1>4

LEMMA LineFollows ==
  ASSUME Tidy, NEW a \in Servers, OneHome(a), Following(a), NEW s \in Servers, ProcessLine(s)
  PROVE  Following(a)'
<1>1. PICK b \in Servers : b = Peer(a) /\ Peer(b) = a /\ b # a /\ \A t \in Servers : t = a \/ t = b
  BY PeersPeer
<1>2. /\ wire \in [Servers -> Seq(Line)]
      /\ age \in [Servers -> 0 .. MaxTime] /\ members \in [Servers -> SUBSET Users]
      /\ ops \in [Servers -> SUBSET Users] /\ key \in [Servers -> KeyState]
      /\ \A t \in Servers : t \notin up => members[t] \subseteq Clients(t)
  BY DEF Tidy, TypeOK, NoGhosts
<1>3. Copy(a) \in Copies /\ Quiet(a) /\ Unheard(a) /\ BurstFirst(a)
  BY DEF Following
<1>4. PICK y \in Copies : /\ Leads(CopyStep(Clients(a)), Copies, Copy(b), wire[b], y)
                          /\ connected /\ a \in up => y = Copy(a)
  BY <1>1 DEF Following, Told
<1>5. Copy(b) \in Copies
  BY <1>2, <1>4, LeadsIn
<1>6. wire[s] # <<>>
  BY DEF ProcessLine, HearBurst, ForceJoin, ForceStatus, ForceKey, ForceTopic, RemoteJoin, RemoteLeave,
         RemoteTopic, Heard
<1>7. CASE s = a
  <2>1. Head(wire[a]).cmd = "BURST" /\ Tail(wire[a]) \in Seq([cmd : {"BURST"}])
    <3>1. wire[a] \in Seq([cmd : {"BURST"}]) /\ wire[a] # <<>>
      BY <1>3, <1>6, <1>7 DEF Quiet
    <3> DEFINE Only == [cmd : {"BURST"}]
    <3>2. Head(wire[a]) \in Only /\ Tail(wire[a]) \in Seq(Only)
      <4>1. wire[a] \in Seq(Only) /\ wire[a] # <<>>
        BY <3>1
      <4> HIDE DEF Only
      <4> QED  BY <4>1
    <3> QED  BY <3>2
  <2>2. HearBurst(a)
    BY <1>7, <2>1 DEF ProcessLine, ForceJoin, ForceStatus, ForceKey, ForceTopic, RemoteJoin, RemoteLeave,
                      RemoteTopic, Heard
  <2>3. /\ up' = up \cup {a} /\ UNCHANGED <<age, members, ops, key, connected>>
        /\ wire' = [wire EXCEPT ![a] = Tail(@), ![b] = IF connected THEN @ \o Burst(a) ELSE @]
    BY <1>1, <2>2 DEF HearBurst, chan
  <2>4. wire'[a] = Tail(wire[a]) /\ wire'[b] = IF connected THEN wire[b] \o Burst(a) ELSE wire[b]
    BY <1>1, <1>2, <2>3
  <2>5. Copy(a)' = Copy(a) /\ Copy(b)' = Copy(b)
    BY <2>3 DEF Copy
  <2>6. Copy(a)' \in Copies /\ Quiet(a)' /\ Unheard(a)'
    BY <1>3, <2>1, <2>3, <2>4, <2>5 DEF Quiet, Unheard
  <2>7. Told(a)'
    <3>1. CASE connected
      <4>1. Leads(CopyStep(Clients(a)), Copies, Copy(b), wire[b] \o Burst(a), Copy(a))
        <5>1. Burst(a) \in Seq(Line)
          BY BurstType
        <5>2. CASE a \in up
          <6>1. Leads(CopyStep(Clients(a)), Copies, Copy(a), Burst(a), Copy(a))
            BY <1>3, BurstFollows
          <6> QED  BY <1>2, <1>4, <3>1, <5>1, <5>2, <6>1, LeadsOn
        <5>3. CASE a \notin up
          <6>1. wire[b] = <<>> /\ members[b] = {}
            BY <1>1, <1>3, <3>1, <5>3 DEF Unheard
          <6>2. Leads(CopyStep(Clients(a)), Copies, Copy(b), Burst(a), Copy(a))
            BY <1>1, <1>5, <6>1, BurstFollows
          <6>3. wire[b] \o Burst(a) = Burst(a)
            BY <5>1, <6>1
          <6> QED  BY <6>2, <6>3
        <5> QED  BY <5>2, <5>3
      <4> QED  BY <1>1, <1>3, <2>3, <2>4, <2>5, <3>1, <4>1 DEF Told
    <3>2. CASE ~connected
      BY <1>1, <1>4, <2>3, <2>4, <2>5, <3>2 DEF Told
    <3> QED  BY <3>1, <3>2
  <2>8. BurstFirst(a)'
    <3>1. b \in up' => b \in up
      BY <1>1, <2>3
    <3>2. \A i \in 1 .. Len(wire'[b]) : wire'[b][i].cmd = "BURST" => i = 1 /\ b \notin up
      <4>0. \A i \in 1 .. Len(wire[b]) : wire[b][i].cmd = "BURST" => i = 1 /\ b \notin up
        BY <1>1, <1>3 DEF BurstFirst
      <4>1. Burst(a) \in Seq(Line) /\ \A i \in 1 .. Len(Burst(a)) : Burst(a)[i].cmd # "BURST"
        BY BurstSays
      <4>2. CASE connected
        <5> DEFINE n == Len(wire[b])
                   m == Len(Burst(a))
                   all == wire[b] \o Burst(a)
        <5>1. n \in Nat /\ m \in Nat /\ Len(all) = n + m
          BY <1>2, <4>1
        <5>2. (\A i \in 1 .. n : all[i] = wire[b][i]) /\ (\A i \in 1 .. m : all[n + i] = Burst(a)[i])
          BY <1>2, <4>1
        <5>3. wire'[b] = all
          BY <2>4, <4>2
        <5> HIDE DEF n, m, all
        <5>4. ASSUME NEW i \in 1 .. n + m, all[i].cmd = "BURST" PROVE i = 1 /\ b \notin up
          <6>1. CASE i <= n
            <7>1. i \in 1 .. n
              BY <5>1, <6>1
            <7> QED  BY <4>0, <5>2, <5>4, <7>1 DEF n
          <6>2. CASE ~(i <= n)
            <7>1. i - n \in 1 .. m /\ i = n + (i - n)
              BY <5>1, <6>2
            <7>2. all[i] = Burst(a)[i - n]
              BY <5>2, <7>1
            <7> QED  BY <4>1, <5>4, <7>1, <7>2 DEF m
          <6> QED  BY <6>1, <6>2
        <5> QED  BY <5>1, <5>3, <5>4
      <4>3. CASE ~connected
        BY <2>4, <4>0, <4>3
      <4> QED  BY <4>2, <4>3
    <3> QED  BY <1>1, <3>1, <3>2 DEF BurstFirst
  <2> QED  BY <2>6, <2>7, <2>8 DEF Following
<1>8. CASE s = b
  <2> DEFINE line == Head(wire[b])
             C == Clients(a)
  <2>1. wire[b] # <<>> /\ wire[b] \in Seq(Line) /\ line \in Line /\ Tail(wire[b]) \in Seq(Line)
    BY <1>2, <1>6, <1>8
  <2>2. Leads(CopyStep(C), Copies, CopyStep(C)[<<Copy(b), line>>], Tail(wire[b]), y)
    BY <1>4, <2>1, LeadsRead
  <2>3. CopyStep(C)[<<Copy(b), line>>] = CopyBy(C, Copy(b), line)
    BY <1>5, <2>1, CopyStepIs
  <2>4. CopyBy(C, Copy(b), line) \in Copies
    <3> DEFINE next == CopyStep(C)[<<Copy(b), line>>]
               rest == Tail(wire[b])
    <3>1. Leads(CopyStep(C), Copies, next, rest, y) /\ rest \in Seq(Line)
      BY <2>1, <2>2
    <3> HIDE DEF next, rest, C
    <3>2. next \in Copies
      BY <3>1, LeadsIn
    <3> QED  BY <2>3, <3>2 DEF next
  <2>5. Copy(b)' = CopyBy(C, Copy(b), line)
    BY <1>1, <1>5, <1>8, <2>4, ReadCopies
  <2>6. ~(connected /\ a \notin up)
    BY <1>1, <1>3, <2>1 DEF Unheard
  <2>7. CASE HearBurst(b)
    <3>1. /\ up' = up \cup {b} /\ UNCHANGED <<age, members, ops, key, connected>> /\ line.cmd = "BURST"
          /\ wire' = [wire EXCEPT ![b] = Tail(@), ![a] = IF connected THEN @ \o Burst(b) ELSE @]
      BY <1>1, <2>7 DEF HearBurst, chan, Heard
    <3>2. b \notin up
      <4>1. 1 \in 1 .. Len(wire[b]) /\ wire[b][1] = line
        BY <2>1
      <4> QED  BY <1>1, <1>3, <3>1, <4>1 DEF BurstFirst
    <3>3. members[b] = {}
      BY <1>1, <1>2, <3>2, HomeOfAll
    <3>4. Burst(b) = <<>>
      BY <3>3, BurstParts DEF Exists, Tidy, NoGhosts
    <3>5. wire'[b] = Tail(wire[b]) /\ wire'[a] = wire[a]
      <4>1. wire[a] \o <<>> = wire[a]
        BY <1>2
      <4> QED  BY <1>1, <1>2, <3>1, <3>4, <4>1
    <3>6. Copy(a)' = Copy(a) /\ (a \in up' <=> a \in up)
      BY <1>1, <3>1 DEF Copy
    <3>7. Told(a)'
      BY <1>1, <1>4, <2>2, <2>3, <2>5, <3>1, <3>5, <3>6 DEF Told
    <3>8. BurstFirst(a)'
      <4>1. \A i \in 1 .. Len(Tail(wire[b])) :
              i + 1 \in 1 .. Len(wire[b]) /\ i + 1 # 1 /\ Tail(wire[b])[i] = wire[b][i + 1]
        BY <2>1
      <4>2. \A i \in 1 .. Len(wire[b]) : wire[b][i].cmd = "BURST" => i = 1
        BY <1>1, <1>3 DEF BurstFirst
      <4>3. \A i \in 1 .. Len(Tail(wire[b])) : Tail(wire[b])[i].cmd # "BURST"
        BY <4>1, <4>2
      <4> QED  BY <1>1, <3>5, <4>3 DEF BurstFirst
    <3>9. Copy(a)' \in Copies /\ Quiet(a)' /\ Unheard(a)'
      BY <1>3, <2>6, <3>1, <3>5, <3>6 DEF Quiet, Unheard
    <3> QED  BY <3>7, <3>8, <3>9 DEF Following
  <2>8. CASE ~HearBurst(b)
    <3>1. UNCHANGED <<up, connected>> /\ Read(b)
      BY <1>8, <2>8 DEF ProcessLine, ForceJoin, ForceStatus, ForceKey, ForceTopic, RemoteJoin, RemoteLeave,
                        RemoteTopic, net
    <3>2. /\ age'[a] = age[a] /\ members'[a] = members[a] /\ ops'[a] = ops[a] /\ key'[a] = key[a]
      <4>1. CASE ForceJoin(b)
        BY <1>1, <1>2, <4>1 DEF ForceJoin
      <4>2. CASE ForceStatus(b) \/ ForceKey(b) \/ ForceTopic(b) \/ RemoteTopic(b)
        BY <1>1, <1>2, <4>2 DEF ForceStatus, ForceKey, ForceTopic, RemoteTopic
      <4>3. CASE RemoteJoin(b)
        BY <1>1, <1>2, <4>3 DEF RemoteJoin, Enter
      <4>4. CASE RemoteLeave(b)
        BY <1>1, <1>2, <4>4 DEF RemoteLeave, Leave, chan
      <4> QED  BY <1>8, <2>8, <4>1, <4>2, <4>3, <4>4 DEF ProcessLine
    <3>3. Copy(a)' = Copy(a)
      BY <3>2 DEF Copy
    <3>4. wire'[b] = Tail(wire[b]) /\ wire'[a] = wire[a]
      BY <1>1, <1>2, <3>1 DEF Read
    <3>5. Told(a)'
      BY <1>1, <1>4, <2>2, <2>3, <2>5, <3>1, <3>3, <3>4 DEF Told
    <3>6. BurstFirst(a)'
      <4>1. \A i \in 1 .. Len(Tail(wire[b])) :
              i + 1 \in 1 .. Len(wire[b]) /\ i + 1 # 1 /\ Tail(wire[b])[i] = wire[b][i + 1]
        BY <2>1
      <4>2. \A i \in 1 .. Len(wire[b]) : wire[b][i].cmd = "BURST" => i = 1
        BY <1>1, <1>3 DEF BurstFirst
      <4>3. \A i \in 1 .. Len(Tail(wire[b])) : Tail(wire[b])[i].cmd # "BURST"
        BY <4>1, <4>2
      <4> QED  BY <1>1, <3>4, <4>3 DEF BurstFirst
    <3>7. Copy(a)' \in Copies /\ Quiet(a)' /\ Unheard(a)'
      BY <1>3, <2>6, <3>1, <3>3, <3>4 DEF Quiet, Unheard
    <3> QED  BY <3>5, <3>6, <3>7 DEF Following
  <2> QED  BY <2>7, <2>8
<1> QED  BY <1>1, <1>7, <1>8

LEMMA LinkFollows ==
  ASSUME Tidy, NEW a \in Servers, OneHome(a), Following(a), NEW s \in Servers, LinkUp(s) \/ Netsplit(s)
  PROVE  Following(a)'
<1>1. PICK b \in Servers : b = Peer(a) /\ Peer(b) = a /\ b # a /\ \A t \in Servers : t = a \/ t = b
  BY PeersPeer
<1>2. /\ wire \in [Servers -> Seq(Line)]
      /\ age \in [Servers -> 0 .. MaxTime] /\ members \in [Servers -> SUBSET Users]
      /\ ops \in [Servers -> SUBSET Users] /\ key \in [Servers -> KeyState]
      /\ \A t \in Servers : /\ t \notin up => members[t] \subseteq Clients(t)
                            /\ ops[t] \subseteq members[t] /\ (age[t] # 0 <=> members[t] # {})
  BY DEF Tidy, TypeOK, NoGhosts, Exists
<1>3. Copy(a) \in Copies /\ Quiet(a) /\ Unheard(a) /\ BurstFirst(a)
  BY DEF Following
<1>4. PICK y \in Copies : /\ Leads(CopyStep(Clients(a)), Copies, Copy(b), wire[b], y)
                          /\ connected /\ a \in up => y = Copy(a)
  BY <1>1 DEF Following, Told
<1>5. Copy(b) \in Copies
  BY <1>2, <1>4, LeadsIn
<1> DEFINE burst == [cmd |-> "BURST"]
<1>6. burst \in Line /\ burst.cmd = "BURST" /\ <<burst>> \in Seq(Line) /\ <<burst>> \in Seq([cmd : {"BURST"}])
  <2>1. burst \in Line /\ burst \in [cmd : {"BURST"}]
    BY DEF Line
  <2> HIDE DEF burst
  <2>2. <<burst>> \in Seq(Line) /\ <<burst>> \in Seq([cmd : {"BURST"}])
    BY <2>1
  <2> QED  BY <2>2 DEF burst, Line
<1> HIDE DEF burst
<1>7. CASE LinkUp(s)
  <2>1. /\ up = {} /\ up' = {s} /\ connected' /\ UNCHANGED <<age, members, ops, key>>
        /\ \A t \in Servers : wire[t] = <<>>
        /\ wire' = [wire EXCEPT ![Peer(s)] = <<burst>> \o Burst(s)]
    BY <1>7 DEF LinkUp, chan, burst
  <2>2. Copy(a)' = Copy(a) /\ Copy(b)' = Copy(b)
    BY <2>1 DEF Copy
  <2>3. members[b] = {}
    BY <1>1, <1>2, <2>1, HomeOfAll
  <2>4. CASE s = a
    <3>1. wire'[a] = <<>> /\ wire'[b] = <<burst>> \o Burst(a)
      BY <1>1, <1>2, <2>1, <2>4
    <3>2. Told(a)'
      <4> DEFINE C == Clients(a)
                 x == Copy(b)
                 z == CopyBy(C, x, burst)
      <4>1. z \in Copies
        BY <1>5, <1>6, CopyByIn
      <4>2. z.age = x.age /\ z.members = x.members /\ z.ops = x.ops /\ z.key = x.key
        BY <1>6 DEF CopyBy, AgeBy, MembersBy, OpsBy, KeyBy, Ends
      <4> HIDE DEF z
      <4>3. z = x
        BY <1>5, <4>1, <4>2, CopiesEqual
      <4>4. Leads(CopyStep(C), Copies, x, <<burst>>, x)
        BY <1>5, <1>6, <4>3, CopyLeads DEF z
      <4>5. Leads(CopyStep(C), Copies, x, Burst(a), Copy(a))
        BY <1>1, <1>5, <2>3, BurstFollows
      <4>6. Leads(CopyStep(C), Copies, x, <<burst>> \o Burst(a), Copy(a))
        BY <1>6, <4>4, <4>5, BurstType, LeadsOn
      <4> QED  BY <1>1, <1>3, <2>2, <3>1, <4>6 DEF Told
    <3>3. BurstFirst(a)'
      <4>0. Burst(a) \in Seq(Line) /\ \A i \in 1 .. Len(Burst(a)) : Burst(a)[i].cmd # "BURST"
        BY BurstSays
      <4> DEFINE all == <<burst>> \o Burst(a)
                 m == Len(Burst(a))
      <4>1. m \in Nat /\ Len(all) = m + 1 /\ \A i \in 1 .. m : all[1 + i] = Burst(a)[i]
        BY <1>6, <4>0
      <4>2. wire'[b] = all
        BY <3>1
      <4> HIDE DEF all, m
      <4>3. \A i \in 1 .. m + 1 : i = 1 \/ (i - 1 \in 1 .. m /\ i = 1 + (i - 1))
        BY <4>1
      <4>4. \A i \in 1 .. m + 1 : all[i].cmd = "BURST" => i = 1
        BY <4>0, <4>1, <4>3 DEF m
      <4>5. b \notin up'
        BY <1>1, <2>1, <2>4
      <4> QED  BY <1>1, <4>1, <4>2, <4>4, <4>5 DEF BurstFirst
    <3>4. Quiet(a)'
      BY <3>1 DEF Quiet
    <3>5. Unheard(a)'
      BY <2>1, <2>4 DEF Unheard
    <3> QED  BY <1>3, <2>2, <3>2, <3>3, <3>4, <3>5 DEF Following
  <2>5. CASE s = b
    <3>0. ~Exists(b)
      BY <1>2, <2>3 DEF Exists
    <3>1. Burst(b) = <<>> /\ <<burst>> \o <<>> = <<burst>>
      <4>1. Burst(b) = <<>>
        BY <3>0, BurstParts
      <4>2. <<burst>> \o <<>> = <<burst>>
        OBVIOUS
      <4> QED  BY <4>1, <4>2
    <3>2. wire'[a] = <<burst>> /\ wire'[b] = <<>> /\ wire[b] = <<>>
      BY <1>1, <1>2, <2>1, <2>5, <3>1
    <3>3. Told(a)'
      BY <1>1, <1>4, <2>1, <2>2, <2>5, <3>2 DEF Told
    <3>4. Quiet(a)'
      BY <1>6, <3>2 DEF Quiet
    <3>5. Unheard(a)'
      BY <1>1, <2>1, <2>3, <3>2 DEF Unheard
    <3>6. BurstFirst(a)'
      BY <1>1, <3>2 DEF BurstFirst
    <3> QED  BY <1>3, <2>2, <3>3, <3>4, <3>5, <3>6 DEF Following
  <2> QED  BY <1>1, <2>4, <2>5
<1>8. CASE Netsplit(s)
  <2>1. /\ ~connected' /\ up' = up \ {s} /\ wire' = [wire EXCEPT ![s] = <<>>]
        /\ Leave(s, Clients(Peer(s)))
    BY <1>8 DEF Netsplit
  <2> DEFINE left == members[s] \ Clients(Peer(s))
  <2>2. /\ members' = [members EXCEPT ![s] = left] /\ ops' = [ops EXCEPT ![s] = @ \ Clients(Peer(s))]
        /\ age' = [age EXCEPT ![s] = IF left = {} THEN 0 ELSE @]
        /\ key' = [key EXCEPT ![s] = IF left = {} THEN NoKey ELSE @]
    BY <2>1 DEF Leave
  <2> HIDE DEF left
  <2>3. Quiet(a)' /\ Unheard(a)' /\ BurstFirst(a)'
    <3>1. \A t \in Servers : wire'[t] = wire[t] \/ wire'[t] = <<>>
      BY <1>2, <2>1
    <3>2. wire[a] \in Seq([cmd : {"BURST"}]) /\ <<>> \in Seq([cmd : {"BURST"}])
      BY <1>3 DEF Quiet
    <3>3. Quiet(a)'
      BY <3>1, <3>2 DEF Quiet
    <3> QED  BY <1>1, <1>3, <2>1, <3>1, <3>3 DEF Unheard, BurstFirst
  <2>4. CASE s = a
    <3>1. left = members[a] /\ ops[a] \ Clients(Peer(a)) = ops[a]
      BY <2>4, HomeOfAll DEF left
    <3>2. age'[a] = age[a] /\ members'[a] = members[a] /\ ops'[a] = ops[a] /\ key'[a] = key[a]
      <4>1. members[a] = {} => age[a] = 0 /\ key[a] = NoKey
        BY <1>2, <1>3, CopyIs
      <4> QED  BY <1>2, <2>2, <2>4, <3>1, <4>1
    <3>3. Copy(a)' = Copy(a)
      BY <3>2 DEF Copy
    <3>4. Copy(b)' = Copy(b) /\ wire'[b] = wire[b]
      BY <1>1, <1>2, <2>1, <2>2, <2>4 DEF Copy
    <3>5. Told(a)'
      BY <1>1, <1>4, <2>1, <3>4 DEF Told
    <3> QED  BY <1>3, <2>3, <3>3, <3>5 DEF Following
  <2>5. CASE s = b
    <3>1. left = {} /\ ops[b] \ Clients(Peer(b)) = {}
      BY <1>1, <1>2, <2>5, HomeOfAll DEF left
    <3>2. /\ age'[b] = 0 /\ members'[b] = {} /\ ops'[b] = {} /\ key'[b] = NoKey /\ wire'[b] = <<>>
      BY <1>1, <1>2, <2>1, <2>2, <2>5, <3>1
    <3>3. Copy(a)' = Copy(a)
      BY <1>1, <1>2, <2>2, <2>5 DEF Copy
    <3> DEFINE x == [age |-> 0, members |-> {}, ops |-> {}, key |-> NoKey]
    <3>4. Copy(b)' = x
      BY <3>2 DEF Copy
    <3>5. x \in Copies
      BY SyncOK DEF Copies, KeyState
    <3> HIDE DEF x
    <3>6. Leads(CopyStep(Clients(a)), Copies, x, <<>>, x)
      BY <3>5, LeadsNowhere
    <3>7. Told(a)'
      BY <1>1, <2>1, <3>2, <3>4, <3>5, <3>6 DEF Told
    <3> QED  BY <1>3, <2>3, <3>3, <3>7 DEF Following
  <2> QED  BY <1>1, <2>4, <2>5
<1> QED  BY <1>7, <1>8

-----------------------------------------------------------------------------
\* With all clients on one server, whatever they do and however often the link breaks: once all lines are read the
\* other server has the same channel, its members, age, operators and key, and no relayed JOIN finds it gone.
THEOREM AlwaysFollows ==
  ASSUME NEW a \in Servers, OneHome(a)
  PROVE  Spec => []FollowsExactly
<1>0. PICK b \in Servers : b = Peer(a) /\ Peer(b) = a /\ b # a /\ \A t \in Servers : t = a \/ t = b
  BY PeersPeer
<1>1. Init => Following(a)
  <2> SUFFICES ASSUME Init PROVE Following(a)
    OBVIOUS
  <2>1. \A t \in Servers : /\ age[t] = 0 /\ members[t] = {} /\ ops[t] = {} /\ key[t] = NoKey
                           /\ wire[t] = <<>> /\ ~connected
    BY DEF Init
  <2> DEFINE x == [age |-> 0, members |-> {}, ops |-> {}, key |-> NoKey]
  <2>2. x \in Copies
    BY SyncOK DEF Copies, KeyState
  <2>3. Copy(a) = x /\ Copy(b) = x
    BY <2>1 DEF Copy
  <2> HIDE DEF x
  <2>4. Leads(CopyStep(Clients(a)), Copies, x, <<>>, x)
    BY <2>2, LeadsNowhere
  <2>5. Told(a)
    BY <1>0, <2>1, <2>2, <2>3, <2>4 DEF Told
  <2>6. Unheard(a) /\ BurstFirst(a)
    BY <1>0, <2>1 DEF Unheard, BurstFirst
  <2>7. Quiet(a)
    <3>1. <<>> \in Seq([cmd : {"BURST"}])
      OBVIOUS
    <3> QED  BY <2>1, <3>1 DEF Quiet
  <2> QED  BY <2>2, <2>3, <2>5, <2>6, <2>7 DEF Following
<1>2. Tidy /\ Following(a) /\ [Next]_vars => Following(a)'
  <2> SUFFICES ASSUME Tidy, Following(a), [Next]_vars PROVE Following(a)'
    OBVIOUS
  <2>1. CASE Tick \/ UNCHANGED vars
    <3>1. UNCHANGED <<age, members, ops, key, up, connected, wire>>
      BY <2>1 DEF Tick, vars, chan, net
    <3> QED  BY <3>1 DEF Following, Told, Quiet, Unheard, BurstFirst, Copy
  <2>2. CASE Break
    <3>1. ~connected' /\ UNCHANGED <<age, members, ops, key, up, wire>>
      BY <2>2 DEF Break, chan
    <3> QED  BY <3>1 DEF Following, Told, Quiet, Unheard, BurstFirst, Copy
  <2>3. CASE ClientCommand
    BY <2>3, CommandFollows
  <2>4. ASSUME NEW s \in Servers, ProcessLine(s) PROVE Following(a)'
    BY <2>4, LineFollows
  <2>5. ASSUME NEW s \in Servers, LinkUp(s) \/ Netsplit(s) PROVE Following(a)'
    BY <2>5, LinkFollows
  <2> QED  BY <2>1, <2>2, <2>3, <2>4, <2>5 DEF Next
<1>3. Tidy /\ Following(a) => FollowsExactly
  <2> SUFFICES ASSUME Tidy, Following(a) PROVE FollowsExactly
    OBVIOUS
  <2>0. wire \in [Servers -> Seq(Line)]
    BY DEF Tidy, TypeOK
  <2>1. PICK y \in Copies : /\ Leads(CopyStep(Clients(a)), Copies, Copy(b), wire[b], y)
                            /\ connected /\ a \in up => y = Copy(a)
    BY <1>0 DEF Following, Told
  <2>2. Copy(b) \in Copies
    BY <2>0, <2>1, LeadsIn
  <2>3. ASSUME Merged PROVE age[a] = age[b] /\ members[a] = members[b] /\ ops[a] = ops[b] /\ key[a] = key[b]
    <3>1. wire[b] = <<>> /\ y = Copy(a)
      BY <2>1, <2>3 DEF Merged
    <3>2. Copy(b) = Copy(a)
      BY <2>0, <2>1, <3>1, LeadsIn
    <3> QED  BY <3>2 DEF Copy
  <2>4. MembersAgree /\ AgesAgree /\ StatusAgree /\ KeysAgree
    BY <1>0, <2>3 DEF MembersAgree, AgesAgree, StatusAgree, KeysAgree, Same
  <2>5. ASSUME NEW s \in up, wire[s] # <<>>, Head(wire[s]).cmd = "JOIN" PROVE Exists(s)
    <3>0. s = a \/ s = b
      BY <1>0 DEF Tidy, TypeOK
    <3>1. s # a
      <4> DEFINE Only == [cmd : {"BURST"}]
      <4>1. wire[a] \in Seq(Only)
        BY DEF Following, Quiet
      <4>2. wire[a] # <<>> => Head(wire[a]) \in Only
        <5> HIDE DEF Only
        <5> QED  BY <4>1
      <4> QED  BY <2>5, <4>2
    <3> DEFINE line == Head(wire[b])
               C == Clients(a)
               x == Copy(b)
    <3>2. line \in Line /\ line.cmd = "JOIN" /\ wire[b] # <<>> /\ wire[b] \in Seq(Line) /\ Tail(wire[b]) \in Seq(Line)
      BY <2>0, <2>5, <3>0, <3>1
    <3>3. Leads(CopyStep(C), Copies, CopyStep(C)[<<x, line>>], Tail(wire[b]), y)
      BY <2>1, <3>2, LeadsRead
    <3>4. CopyStep(C)[<<x, line>>] \in Copies
      <4> DEFINE next == CopyStep(C)[<<x, line>>]
                 rest == Tail(wire[b])
      <4>1. Leads(CopyStep(C), Copies, next, rest, y) /\ rest \in Seq(Line)
        BY <3>2, <3>3
      <4> HIDE DEF next, rest, C
      <4>2. next \in Copies
        BY <4>1, LeadsIn
      <4> QED  BY <4>2 DEF next
    <3>5. CopyBy(C, x, line) \in Copies
      BY <2>2, <3>2, <3>4, CopyStepIs
    <3>6. CopyBy(C, x, line).members = x.members \cup {line.user} /\ CopyBy(C, x, line).age = x.age
      BY <3>2 DEF CopyBy, MembersBy, AgeBy, Ends
    <3>7. x.age # 0
      BY <3>5, <3>6 DEF Copies
    <3> QED  BY <3>0, <3>1, <3>7 DEF Copy, Exists
  <2> QED  BY <2>4, <2>5 DEF FollowsExactly, RemoteJoinFindsChannel
<1> QED  BY <1>1, <1>2, <1>3, TidyAlways, PTL DEF Spec

-----------------------------------------------------------------------------
(* Two halves that each have the channel, merged by their bursts alone *)

Unlinked == \A s \in Servers : Linked[s] = {}
OneKey == \A j, k \in Keys : j = k

\* The topic of a channel, and what lines make of it.
Top(t) == [here |-> Exists(t), topic |-> topic[t], set |-> topicset[t]]
Tops == [here : BOOLEAN, topic : Topics \cup {None}, set : 0 .. MaxTime]
Replaces(x, line) == line.cmd = "FTOPIC" /\ x.here /\ (line.ts >= x.set \/ x.topic = None)
TopBy(C, x, line) ==
    [here |-> x.here \/ (line.cmd = "FJOIN" /\ line.users \cap C # {}),
     topic |-> IF Replaces(x, line) THEN line.topic ELSE x.topic,
     set |-> IF Replaces(x, line) THEN line.ts ELSE x.set]
TopStep(C) == [p \in Tops \X Line |-> TopBy(C, p[1], p[2])]

LEMMA TopByIn ==
  ASSUME NEW C, NEW x \in Tops, NEW line \in Line
  PROVE  TopBy(C, x, line) \in Tops /\ TopStep(C)[<<x, line>>] = TopBy(C, x, line)
<1>1. x.here \in BOOLEAN /\ x.topic \in Topics \cup {None} /\ x.set \in 0 .. MaxTime
  BY DEF Tops
<1>2. line.cmd = "FTOPIC" => line.topic \in Topics /\ line.ts \in 1 .. MaxTime
  BY DEF Line
<1> DEFINE h == x.here \/ (line.cmd = "FJOIN" /\ line.users \cap C # {})
           t == IF Replaces(x, line) THEN line.topic ELSE x.topic
           n == IF Replaces(x, line) THEN line.ts ELSE x.set
<1>3. h \in BOOLEAN
  BY <1>1
<1>4. t \in Topics \cup {None} /\ n \in 0 .. MaxTime
  BY <1>1, <1>2, SyncOK DEF Replaces
<1>5. TopBy(C, x, line) = [here |-> h, topic |-> t, set |-> n]
  BY DEF TopBy
<1> HIDE DEF h, t, n
<1>6. TopBy(C, x, line) \in Tops
  BY <1>3, <1>4, <1>5 DEF Tops
<1>7. <<x, line>> \in Tops \X Line
  OBVIOUS
<1>8. TopStep(C)[<<x, line>>] = TopBy(C, x, line)
  BY <1>7 DEF TopStep
<1> QED  BY <1>6, <1>8

LEMMA TopLeads ==
  ASSUME NEW C, NEW x \in Tops, NEW line \in Line
  PROVE  Leads(TopStep(C), Tops, x, <<line>>, TopBy(C, x, line))
<1> DEFINE step == TopStep(C)
           y == TopBy(C, x, line)
<1>1. step[<<x, line>>] = y /\ y \in Tops
  BY TopByIn
<1> HIDE DEF step, y
<1>2. Leads(step, Tops, x, <<line>>, y)
  BY <1>1, LeadsByOne
<1> QED  BY <1>2 DEF step, y

LEMMA TopIs ==
  ASSUME Tidy, NEW t \in Servers
  PROVE  /\ Top(t) \in Tops
         /\ (Top(t).here <=> Exists(t)) /\ Top(t).topic = topic[t] /\ Top(t).set = topicset[t]
<1>1. topic[t] \in Topics \cup {None} /\ topicset[t] \in 0 .. MaxTime
  BY DEF Tidy, TypeOK
<1> DEFINE h == Exists(t)
<1>2. h \in BOOLEAN
  BY DEF Exists
<1>3. Top(t) = [here |-> h, topic |-> topic[t], set |-> topicset[t]]
  BY DEF Top
<1> HIDE DEF h
<1>4. Top(t) \in Tops /\ (Top(t).here <=> h) /\ Top(t).topic = topic[t] /\ Top(t).set = topicset[t]
  BY <1>1, <1>2, <1>3 DEF Tops
<1> QED  BY <1>4 DEF h

-----------------------------------------------------------------------------
(* What the two end up with is the same *)

\* Whose channel wins: the older, or both.
Wins(s) == age[s] # 0 /\ (age[Peer(s)] = 0 \/ age[s] <= age[Peer(s)])
JointAge(s) == IF Wins(s) THEN age[s] ELSE age[Peer(s)]
JointOps(s) == (IF Wins(s) THEN ops[s] ELSE {}) \cup (IF Wins(Peer(s)) THEN ops[Peer(s)] ELSE {})
JointKey(s) ==
    IF Wins(Peer(s)) /\ key[Peer(s)].shown THEN key[Peer(s)] ELSE IF Wins(s) THEN key[s] ELSE NoKey
TakesTopic(s) == topic[Peer(s)] # None /\ (topicset[Peer(s)] >= topicset[s] \/ topic[s] = None)
JointTopic(s) == IF TakesTopic(s) THEN topic[Peer(s)] ELSE topic[s]
JointSet(s) == IF TakesTopic(s) THEN topicset[Peer(s)] ELSE topicset[s]

KeySound(t) == (age[t] = 0 => key[t] = NoKey) /\ (key[t] = NoKey \/ key[t].shown)
TopicSound(t) == age[t] = 0 => topic[t] = None
Sound == \A t \in Servers : KeySound(t) /\ TopicSound(t)

LEMMA JointSame ==
  ASSUME Tidy, Sound, NEW s \in Servers
  PROVE  /\ JointAge(s) = JointAge(Peer(s)) /\ JointOps(s) = JointOps(Peer(s))
         /\ OneKey => JointKey(s) = JointKey(Peer(s))
         /\ JointTopic(s) = JointTopic(Peer(s)) \/ JointSet(s) = JointSet(Peer(s))
<1>1. PICK p \in Servers : p = Peer(s) /\ Peer(p) = s
  BY PeersPeer
<1>2. /\ age[s] \in Nat /\ age[p] \in Nat /\ topicset[s] \in Nat /\ topicset[p] \in Nat
      /\ ops[s] \subseteq members[s] /\ ops[p] \subseteq members[p] /\ key[s] \in KeyState /\ key[p] \in KeyState
  BY SyncOK DEF Tidy, TypeOK, NoGhosts
<1>3. /\ Wins(s) <=> age[s] # 0 /\ (age[p] = 0 \/ age[s] <= age[p])
      /\ Wins(p) <=> age[p] # 0 /\ (age[s] = 0 \/ age[p] <= age[s])
  BY <1>1 DEF Wins
<1>4. JointAge(s) = JointAge(p)
  BY <1>1, <1>2, <1>3 DEF JointAge
<1>5. JointOps(s) = JointOps(p)
  BY <1>1 DEF JointOps
<1>6. ASSUME OneKey PROVE JointKey(s) = JointKey(p)
  <2>1. key[s].shown /\ key[p].shown => key[s] = key[p]
    BY <1>2, <1>6 DEF KeyState, NoKey, OneKey
  <2>2. (key[s] = NoKey \/ key[s].shown) /\ (key[p] = NoKey \/ key[p].shown)
    BY DEF Sound, KeySound
  <2>3. ~NoKey.shown
    BY DEF NoKey
  <2>4. JointKey(s) = IF Wins(p) /\ key[p].shown THEN key[p] ELSE IF Wins(s) THEN key[s] ELSE NoKey
    BY <1>1 DEF JointKey
  <2>5. JointKey(p) = IF Wins(s) /\ key[s].shown THEN key[s] ELSE IF Wins(p) THEN key[p] ELSE NoKey
    BY <1>1 DEF JointKey
  <2> HIDE DEF NoKey
  <2> QED  BY <2>1, <2>2, <2>3, <2>4, <2>5
<1>7. JointTopic(s) = JointTopic(p) \/ JointSet(s) = JointSet(p)
  BY <1>1, <1>2 DEF JointTopic, JointSet, TakesTopic
<1> QED  BY <1>1, <1>4, <1>5, <1>6, <1>7

\* By the other's burst a server gets there.
LEMMA MeetCopies ==
  ASSUME Tidy, Sound, NEW s \in Servers, members[Peer(s)] \subseteq Clients(Peer(s))
  PROVE  \E e \in Copies :
            /\ Leads(CopyStep(Clients(Peer(s))), Copies, Copy(s), Burst(Peer(s)), e)
            /\ e.age = JointAge(s) /\ e.ops = JointOps(s) /\ e.key = JointKey(s)
<1>1. PICK p \in Servers : p = Peer(s)
  BY PeersPeer
<1>2. /\ age[s] \in Nat /\ age[p] \in 0 .. MaxTime /\ ops[s] \subseteq members[s] /\ ops[p] \subseteq members[p]
      /\ (age[s] # 0 <=> members[s] # {}) /\ (age[p] # 0 <=> members[p] # {})
      /\ key[s] \in KeyState /\ key[p] \in KeyState
  BY SyncOK DEF Tidy, TypeOK, NoGhosts, Exists
<1>3. /\ age[s] = 0 => key[s] = NoKey
      /\ age[p] = 0 => key[p] = NoKey
      /\ (key[s] = NoKey \/ key[s].shown) /\ (key[p] = NoKey \/ key[p].shown) /\ ~NoKey.shown
  BY DEF Sound, KeySound, NoKey
<1>4. /\ Wins(s) <=> age[s] # 0 /\ (age[p] = 0 \/ age[s] <= age[p])
      /\ Wins(p) <=> age[p] # 0 /\ (age[s] = 0 \/ age[p] <= age[s])
  BY <1>1, PeersPeer DEF Wins
<1> DEFINE x == Copy(s)
           C == Clients(p)
<1>5. x \in Copies /\ x.age = age[s] /\ x.members = members[s] /\ x.ops = ops[s] /\ x.key = key[s]
  BY <1>3, CopyIs
<1> HIDE DEF x
<1>6. JointKey(s) = IF Wins(p) /\ key[p].shown THEN key[p] ELSE IF Wins(s) THEN key[s] ELSE NoKey
  BY <1>1 DEF JointKey
<1>7. JointAge(s) = IF Wins(s) THEN age[s] ELSE age[p]
  BY <1>1 DEF JointAge
<1>8. JointOps(s) = (IF Wins(s) THEN ops[s] ELSE {}) \cup (IF Wins(p) THEN ops[p] ELSE {})
  BY <1>1 DEF JointOps
<1> HIDE DEF NoKey
<1>9. CASE ~Exists(p)
  <2>1. Burst(p) = <<>> /\ age[p] = 0
    BY <1>9, BurstParts DEF Exists
  <2>2. Leads(CopyStep(C), Copies, x, <<>>, x)
    BY <1>5, LeadsNowhere
  <2>3. x.age = JointAge(s)
    BY <1>2, <1>4, <1>5, <1>7, <2>1
  <2>4. x.ops = JointOps(s)
    BY <1>2, <1>4, <1>5, <1>8, <2>1
  <2>5. x.key = JointKey(s)
    BY <1>2, <1>3, <1>4, <1>5, <1>6, <2>1
  <2> QED  BY <1>1, <1>5, <2>1, <2>2, <2>3, <2>4, <2>5 DEF x
<1>10. CASE Exists(p)
  <2> DEFINE line == FJoin(p)
             x1 == CopyBy(C, x, line)
             x2 == IF key[p].shown THEN CopyBy(C, x1, KeyLine(p)) ELSE x1
  <2>1. /\ line \in Line /\ line.cmd = "FJOIN" /\ line.ts = age[p]
        /\ line.users = members[p] /\ line.ops = ops[p]
    BY <1>10, BurstParts DEF FJoin
  <2>2. x1 \in Copies
    BY <1>5, <2>1, CopyByIn
  <2>3. age[p] # 0 /\ members[p] # {} /\ line.users \cap C = members[p]
    BY <1>1, <1>2, <1>10, <2>1 DEF Exists
  <2>4. x1.age = AgeBy(C, x, line) /\ x1.ops = OpsBy(C, x, line) /\ x1.key = KeyBy(C, x, line)
    BY DEF CopyBy
  <2> HIDE DEF line, x1, C
  <2>5. x1.age = JointAge(s)
    BY <1>2, <1>4, <1>5, <1>7, <2>1, <2>3, <2>4 DEF AgeBy, Yields
  <2>6. x1.ops = JointOps(s)
    BY <1>2, <1>4, <1>5, <1>8, <2>1, <2>3, <2>4 DEF OpsBy, Yields
  <2>7. x1.key = IF Wins(s) THEN key[s] ELSE NoKey
    BY <1>2, <1>3, <1>4, <1>5, <2>1, <2>3, <2>4 DEF KeyBy, Yields
  <2>8. x2 \in Copies /\ x2.age = JointAge(s) /\ x2.ops = JointOps(s) /\ x2.key = JointKey(s)
    <3>1. CASE key[p].shown
      <4> DEFINE z == CopyBy(C, x1, KeyLine(p))
      <4>1. /\ KeyLine(p) \in Line /\ KeyLine(p).cmd = "+k" /\ KeyLine(p).ts = age[p]
            /\ KeyLine(p).key = key[p].str
        BY <1>10, <3>1, BurstParts DEF KeyLine
      <4>2. z \in Copies
        BY <2>2, <4>1, CopyByIn
      <4>3. /\ z.age = AgeBy(C, x1, KeyLine(p)) /\ z.ops = OpsBy(C, x1, KeyLine(p))
            /\ z.key = KeyBy(C, x1, KeyLine(p))
        BY DEF CopyBy
      <4> HIDE DEF z
      <4>4. ~Ends(x1, KeyLine(p)) /\ (Obeys(x1, KeyLine(p)) <=> Wins(p))
        BY <1>2, <1>4, <1>7, <2>3, <2>5, <4>1 DEF Obeys, Ends
      <4>5. key[p] = [str |-> key[p].str, shown |-> TRUE]
        BY <1>2, <3>1 DEF KeyState, NoKey
      <4>6. z.key = JointKey(s)
        BY <1>6, <2>7, <3>1, <4>1, <4>3, <4>4, <4>5 DEF KeyBy
      <4>7. z.age = JointAge(s) /\ z.ops = JointOps(s)
        BY <2>5, <2>6, <4>1, <4>3, <4>4 DEF AgeBy, OpsBy
      <4> QED  BY <3>1, <4>2, <4>6, <4>7 DEF z
    <3>2. CASE ~key[p].shown
      <4>1. x1.key = JointKey(s)
        BY <1>6, <2>7, <3>2
      <4> QED  BY <2>2, <2>5, <2>6, <3>2, <4>1
    <3> QED  BY <3>1, <3>2
  <2>9. CopyBy(C, x, FJoin(p)) = x1 /\ x2 = IF key[p].shown THEN CopyBy(C, x1, KeyLine(p)) ELSE x1
    BY DEF x1, line
  <2> HIDE DEF x2
  <2>10. Leads(CopyStep(C), Copies, x, Burst(p), x2)
    BY <1>5, <1>10, <2>2, <2>8, <2>9, BurstCopies
  <2> QED  BY <1>1, <2>8, <2>10 DEF x, C
<1> QED  BY <1>9, <1>10

LEMMA MeetTops ==
  ASSUME Tidy, Sound, NEW s \in Servers, members[Peer(s)] \subseteq Clients(Peer(s))
  PROVE  \E e \in Tops :
            /\ Leads(TopStep(Clients(Peer(s))), Tops, Top(s), Burst(Peer(s)), e)
            /\ e.topic = JointTopic(s) /\ e.set = JointSet(s)
<1>1. PICK p \in Servers : p = Peer(s)
  BY PeersPeer
<1> DEFINE x == Top(s)
           C == Clients(p)
<1>2. x \in Tops /\ x.topic = topic[s] /\ x.set = topicset[s]
  BY TopIs
<1>3. topicset[s] \in Nat /\ topicset[p] \in Nat
  BY SyncOK DEF Tidy, TypeOK
<1>4. TakesTopic(s) <=> topic[p] # None /\ (topicset[p] >= topicset[s] \/ topic[s] = None)
  BY <1>1 DEF TakesTopic
<1>5. /\ JointTopic(s) = IF TakesTopic(s) THEN topic[p] ELSE topic[s]
      /\ JointSet(s) = IF TakesTopic(s) THEN topicset[p] ELSE topicset[s]
  BY <1>1 DEF JointTopic, JointSet
<1> HIDE DEF x
<1>6. CASE ~Exists(p)
  <2>1. Burst(p) = <<>> /\ topic[p] = None
    BY <1>6, BurstParts DEF Exists, Sound, TopicSound
  <2>2. Leads(TopStep(C), Tops, x, <<>>, x)
    BY <1>2, LeadsNowhere
  <2>3. x.topic = JointTopic(s) /\ x.set = JointSet(s)
    BY <1>2, <1>4, <1>5, <2>1
  <2> QED  BY <1>1, <1>2, <2>1, <2>2, <2>3 DEF x
<1>7. CASE Exists(p)
  <2> DEFINE x1 == TopBy(C, x, FJoin(p))
             x2 == IF key[p].shown THEN TopBy(C, x1, KeyLine(p)) ELSE x1
             x3 == IF topic[p] # None THEN TopBy(C, x2, TopicLine(p)) ELSE x2
  <2>1. FJoin(p) \in Line /\ FJoin(p).cmd = "FJOIN" /\ FJoin(p).users \cap C # {}
    <3>1. members[p] # {} /\ members[p] \subseteq C
      BY <1>1, <1>7 DEF Tidy, NoGhosts, Exists
    <3> QED  BY <1>7, <3>1, BurstParts DEF FJoin
  <2>2. Burst(p) = (<<FJoin(p)>> \o KeyPart(p)) \o TopicPart(p)
    BY <1>7, BurstParts
  <2>3. x1 \in Tops /\ Leads(TopStep(C), Tops, x, <<FJoin(p)>>, x1)
    BY <1>2, <2>1, TopByIn, TopLeads
  <2>4. x1.here /\ x1.topic = topic[s] /\ x1.set = topicset[s]
    BY <1>2, <2>1 DEF TopBy, Replaces
  <2> HIDE DEF x1, C
  <2>5. /\ x2 \in Tops /\ x2.here /\ x2.topic = topic[s] /\ x2.set = topicset[s]
        /\ Leads(TopStep(C), Tops, x1, KeyPart(p), x2) /\ KeyPart(p) \in Seq(Line)
    <3>1. CASE key[p].shown
      <4>1. KeyLine(p) \in Line /\ KeyLine(p).cmd = "+k" /\ KeyPart(p) = <<KeyLine(p)>>
        BY <1>7, <3>1, BurstParts DEF KeyLine, KeyPart
      <4> DEFINE z == TopBy(C, x1, KeyLine(p))
      <4>2. z \in Tops /\ Leads(TopStep(C), Tops, x1, <<KeyLine(p)>>, z)
        BY <2>3, <4>1, TopByIn, TopLeads
      <4>3. z.here /\ z.topic = topic[s] /\ z.set = topicset[s]
        BY <2>4, <4>1 DEF TopBy, Replaces
      <4>4. x2 = z
        BY <3>1
      <4> HIDE DEF z, x2
      <4> QED  BY <4>1, <4>2, <4>3, <4>4
    <3>2. CASE ~key[p].shown
      <4>1. KeyPart(p) = <<>> /\ x2 = x1
        BY <3>2 DEF KeyPart
      <4> HIDE DEF x2
      <4> QED  BY <2>3, <2>4, <4>1, LeadsNowhere
    <3> QED  BY <3>1, <3>2
  <2> HIDE DEF x2
  <2>6. /\ x3 \in Tops /\ x3.topic = JointTopic(s) /\ x3.set = JointSet(s)
        /\ Leads(TopStep(C), Tops, x2, TopicPart(p), x3) /\ TopicPart(p) \in Seq(Line)
    <3>1. CASE topic[p] # None
      <4>1. /\ TopicLine(p) \in Line /\ TopicLine(p).cmd = "FTOPIC" /\ TopicPart(p) = <<TopicLine(p)>>
            /\ TopicLine(p).topic = topic[p] /\ TopicLine(p).ts = topicset[p]
        BY <1>7, <3>1, BurstParts DEF TopicLine, TopicPart
      <4> DEFINE z == TopBy(C, x2, TopicLine(p))
      <4>2. z \in Tops /\ Leads(TopStep(C), Tops, x2, <<TopicLine(p)>>, z)
        BY <2>5, <4>1, TopByIn, TopLeads
      <4>3. Replaces(x2, TopicLine(p)) <=> TakesTopic(s)
        BY <1>4, <2>5, <3>1, <4>1 DEF Replaces
      <4>4. z.topic = JointTopic(s) /\ z.set = JointSet(s)
        BY <1>5, <2>5, <4>1, <4>3 DEF TopBy
      <4>5. x3 = z
        BY <3>1
      <4> HIDE DEF z, x3
      <4> QED  BY <4>1, <4>2, <4>4, <4>5
    <3>2. CASE topic[p] = None
      <4>1. TopicPart(p) = <<>> /\ x3 = x2 /\ ~TakesTopic(s)
        BY <1>4, <3>2 DEF TopicPart
      <4> HIDE DEF x3
      <4> QED  BY <1>5, <2>5, <4>1, LeadsNowhere
    <3> QED  BY <3>1, <3>2
  <2> HIDE DEF x3
  <2>7. <<FJoin(p)>> \in Seq(Line) /\ <<FJoin(p)>> \o KeyPart(p) \in Seq(Line)
    BY <2>1, <2>5
  <2>8. Leads(TopStep(C), Tops, x, <<FJoin(p)>> \o KeyPart(p), x2)
    BY <2>3, <2>5, <2>7, LeadsOn
  <2>9. Leads(TopStep(C), Tops, x, (<<FJoin(p)>> \o KeyPart(p)) \o TopicPart(p), x3)
    BY <2>6, <2>7, <2>8, LeadsOn
  <2> QED  BY <1>1, <2>2, <2>6, <2>9 DEF x, C
<1> QED  BY <1>6, <1>7

-----------------------------------------------------------------------------
(* The merge, step by step *)

Merging == {line \in Line : line.cmd \in {"FJOIN", "+k", "FTOPIC"}}
Bursting == {line \in Line : line.cmd \in {"BURST", "FJOIN", "+k", "FTOPIC"}}
Coming(t) == wire[t] \in Seq(Bursting)

\* The dialler has burst, and waits; the other has all of it before it.
First(t) ==
    connected /\ t \notin up =>
        /\ Peer(t) \in up /\ members[Peer(t)] \subseteq Clients(Peer(t))
        /\ wire[t] = <<[cmd |-> "BURST"]>> \o Burst(Peer(t)) /\ wire[Peer(t)] = <<>>

\* Both have burst: what is left to read leads both to the same.
Second ==
    connected /\ up = Servers =>
        /\ \A s \in Servers : wire[s] \in Seq(Merging)
        /\ \E e \in [Servers -> Copies], f \in [Servers -> Tops] :
              \A s \in Servers :
                 /\ Leads(CopyStep(Clients(Peer(s))), Copies, Copy(s), wire[s], e[s])
                 /\ Leads(TopStep(Clients(Peer(s))), Tops, Top(s), wire[s], f[s])
                 /\ e[s].age = e[Peer(s)].age /\ e[s].ops = e[Peer(s)].ops /\ (OneKey => e[s].key = e[Peer(s)].key)
                 /\ f[s].topic = f[Peer(s)].topic \/ f[s].set = f[Peer(s)].set

Halves == Sound /\ (\A t \in Servers : Coming(t) /\ First(t)) /\ Second

LEMMA BurstMerges ==
  ASSUME Tidy, NEW s \in Servers
  PROVE  Burst(s) \in Seq(Merging)
<1>1. CASE ~Exists(s)
  <2>1. Burst(s) = <<>>
    BY <1>1, BurstParts
  <2> QED  BY <2>1
<1>2. CASE Exists(s)
  <2>1. FJoin(s) \in Merging
    BY <1>2, BurstParts DEF FJoin, Merging
  <2>2. key[s].shown => KeyLine(s) \in Merging
    BY <1>2, BurstParts DEF KeyLine, Merging
  <2>3. topic[s] # None => TopicLine(s) \in Merging
    BY <1>2, BurstParts DEF TopicLine, Merging
  <2>4. KeyPart(s) \in Seq(Merging) /\ TopicPart(s) \in Seq(Merging)
    BY <2>2, <2>3 DEF KeyPart, TopicPart
  <2>5. (<<FJoin(s)>> \o KeyPart(s)) \o TopicPart(s) \in Seq(Merging)
    BY <2>1, <2>4
  <2> QED  BY <1>2, <2>5, BurstParts
<1> QED  BY <1>1, <1>2

LEMMA BurstSame ==
  ASSUME NEW s \in Servers, age'[s] = age[s], members'[s] = members[s], ops'[s] = ops[s],
         key'[s] = key[s], topic'[s] = topic[s], topicset'[s] = topicset[s]
  PROVE  Burst(s)' = Burst(s)
  BY DEF Burst, FJoin, Exists

\* Whoever is not linked, or sees the other's burst to come, is free to act, and nobody else.
LEMMA CommandHalves ==
  ASSUME Tidy, Unlinked, Halves, ClientCommand
  PROVE  Halves'
<1>0. /\ age \in [Servers -> 0 .. MaxTime] /\ members \in [Servers -> SUBSET Users] /\ now \in 1 .. MaxTime
      /\ ops \in [Servers -> SUBSET Users] /\ key \in [Servers -> KeyState]
      /\ topic \in [Servers -> Topics \cup {None}] /\ topicset \in [Servers -> 0 .. MaxTime]
      /\ \A t \in Servers : ops[t] \subseteq members[t] /\ (age[t] # 0 <=> members[t] # {})
      /\ \A t \in Servers : age[t] \in Nat
  BY DEF Tidy, TypeOK, NoGhosts, Exists
<1>1. ASSUME NEW s \in Servers, s \notin up, wire' = wire, UNCHANGED net, KeySound(s)', TopicSound(s)',
             \A t \in Servers : t # s => /\ age'[t] = age[t] /\ members'[t] = members[t] /\ ops'[t] = ops[t]
                                         /\ key'[t] = key[t] /\ topic'[t] = topic[t] /\ topicset'[t] = topicset[t]
      PROVE  Halves'
  <2>1. PICK p \in Servers : p = Peer(s) /\ Peer(p) = s /\ p # s /\ \A t \in Servers : t = s \/ t = p
    BY PeersPeer
  <2>2. up' = up /\ connected' = connected
    BY <1>1 DEF net
  <2>3. Sound'
    BY <1>1, <2>1 DEF Halves, Sound, KeySound, TopicSound
  <2>4. \A t \in Servers : Coming(t)'
    BY <1>1 DEF Halves, Coming
  <2>5. Burst(p)' = Burst(p) /\ members'[p] = members[p]
    BY <1>1, <2>1, BurstSame
  <2>6. First(s)'
    BY <1>1, <2>1, <2>2, <2>5 DEF Halves, First
  <2>7. First(p)'
    BY <1>1, <2>1, <2>2 DEF Halves, First
  <2>8. Second'
    BY <1>1, <2>2 DEF Second
  <2> QED  BY <2>1, <2>3, <2>4, <2>6, <2>7, <2>8 DEF Halves
<1>2. \A s \in Servers : \A c : May(s, c) => s \notin up
  BY DEF May, Unlinked
<1>3. \A s \in Servers : \A lines : s \notin up => Sent(s, lines) = wire
  BY DEF Sent
<1>4. \A s \in Servers : KeySound(s) /\ TopicSound(s)
  BY DEF Halves, Sound
<1>5. ASSUME NEW u \in Users, Join(u) PROVE Halves'
  <2>1. PICK s \in Servers : s = Home[u]
    BY HomeType
  <2>2. s \notin up /\ wire' = wire /\ UNCHANGED <<key, topic, topicset, net>>
    BY <1>2, <1>3, <1>5, <2>1 DEF Join, Enter
  <2>3. /\ age' = [age EXCEPT ![s] = IF Exists(s) THEN @ ELSE now] /\ members' = [members EXCEPT ![s] = @ \cup {u}]
        /\ ops' = [ops EXCEPT ![s] = @ \cup (IF Exists(s) THEN {} ELSE {u})]
    BY <1>5, <2>1 DEF Join, Enter
  <2>4. age'[s] # 0 /\ key'[s] = key[s] /\ topic'[s] = topic[s]
    BY <1>0, <2>2, <2>3 DEF Exists
  <2>5. KeySound(s)' /\ TopicSound(s)'
    BY <1>4, <2>4 DEF KeySound, TopicSound
  <2>6. \A t \in Servers : t # s => age'[t] = age[t] /\ members'[t] = members[t] /\ ops'[t] = ops[t]
    BY <1>0, <2>3
  <2> QED  BY <1>1, <2>2, <2>5, <2>6
<1>6. ASSUME NEW s \in Servers, NEW v \in Users, s \notin up, v \in members[s], Leave(s, {v}),
             wire' = wire, UNCHANGED net
      PROVE  Halves'
  <2> DEFINE left == members[s] \ {v}
  <2>1. /\ members' = [members EXCEPT ![s] = left] /\ ops' = [ops EXCEPT ![s] = @ \ {v}]
        /\ age' = [age EXCEPT ![s] = IF left = {} THEN 0 ELSE @]
        /\ key' = [key EXCEPT ![s] = IF left = {} THEN NoKey ELSE @]
        /\ topic' = [topic EXCEPT ![s] = IF left = {} THEN None ELSE @]
        /\ topicset' = [topicset EXCEPT ![s] = IF left = {} THEN 0 ELSE @]
    BY <1>6 DEF Leave
  <2>2. age[s] # 0
    BY <1>0, <1>6
  <2> HIDE DEF left
  <2>3. \/ key'[s] = NoKey /\ topic'[s] = None
        \/ age'[s] = age[s] /\ key'[s] = key[s] /\ topic'[s] = topic[s]
    BY <1>0, <2>1
  <2>4. KeySound(s)' /\ TopicSound(s)'
    BY <1>4, <2>2, <2>3 DEF KeySound, TopicSound
  <2>5. \A t \in Servers : t # s => /\ age'[t] = age[t] /\ members'[t] = members[t] /\ ops'[t] = ops[t]
                                    /\ key'[t] = key[t] /\ topic'[t] = topic[t] /\ topicset'[t] = topicset[t]
    BY <1>0, <2>1
  <2> QED  BY <1>1, <1>6, <2>4, <2>5
<1>7. ASSUME NEW u \in Users, Part(u) PROVE Halves'
  <2>1. PICK s \in Servers : s = Home[u]
    BY HomeType
  <2> QED  BY <1>2, <1>3, <1>6, <1>7, <2>1 DEF Part
<1>8. ASSUME NEW u \in Users, NEW v \in Users, Kick(u, v) PROVE Halves'
  <2>1. PICK s \in Servers : s = Home[u]
    BY HomeType
  <2> QED  BY <1>2, <1>3, <1>6, <1>8, <2>1 DEF Kick
<1>9. ASSUME NEW u \in Users, NEW v \in Users, ChangeStatus(u, v) PROVE Halves'
  <2>1. PICK s \in Servers : s = Home[u]
    BY HomeType
  <2>2. s \notin up /\ wire' = wire /\ UNCHANGED <<age, members, key, topic, topicset, net>>
    BY <1>2, <1>3, <1>9, <2>1 DEF ChangeStatus
  <2>3. ops' = [ops EXCEPT ![s] = IF v \in @ THEN @ \ {v} ELSE @ \cup {v}]
    BY <1>9, <2>1 DEF ChangeStatus
  <2>4. KeySound(s)' /\ TopicSound(s)'
    BY <1>4, <2>2 DEF KeySound, TopicSound
  <2>5. \A t \in Servers : t # s => ops'[t] = ops[t]
    BY <1>0, <2>3
  <2> QED  BY <1>1, <2>2, <2>4, <2>5
<1>10. ASSUME NEW u \in Users, NEW k \in Keys, ChangeKey(u, k) PROVE Halves'
  <2>1. PICK s \in Servers : s = Home[u]
    BY HomeType
  <2>2. s \notin up /\ wire' = wire /\ UNCHANGED <<age, members, ops, topic, topicset, net>>
    BY <1>2, <1>3, <1>10, <2>1 DEF ChangeKey
  <2>3. key' = [key EXCEPT ![s] = IF @.shown THEN NoKey ELSE [str |-> k, shown |-> TRUE]]
    BY <1>10, <2>1 DEF ChangeKey
  <2>4. age[s] # 0
    BY <1>0, <1>10, <2>1 DEF ChangeKey
  <2>5. KeySound(s)' /\ TopicSound(s)'
    BY <1>0, <2>2, <2>3, <2>4 DEF KeySound, TopicSound
  <2>6. \A t \in Servers : t # s => key'[t] = key[t]
    BY <1>0, <2>3
  <2> QED  BY <1>1, <2>2, <2>5, <2>6
<1>11. ASSUME NEW u \in Users, NEW tt \in Topics, SetTopic(u, tt) PROVE Halves'
  <2>1. PICK s \in Servers : s = Home[u]
    BY HomeType
  <2>2. s \notin up /\ wire' = wire /\ UNCHANGED <<age, members, ops, key, net>>
    BY <1>2, <1>3, <1>11, <2>1 DEF SetTopic
  <2>3. topic' = [topic EXCEPT ![s] = tt] /\ topicset' = [topicset EXCEPT ![s] = now] /\ u \in members[s]
    BY <1>11, <2>1 DEF SetTopic
  <2>4. age[s] # 0
    BY <1>0, <2>3
  <2>5. KeySound(s)' /\ TopicSound(s)'
    BY <1>4, <2>2, <2>4 DEF KeySound, TopicSound
  <2>6. \A t \in Servers : t # s => topic'[t] = topic[t] /\ topicset'[t] = topicset[t]
    BY <1>0, <2>3
  <2> QED  BY <1>1, <2>2, <2>5, <2>6
<1> QED  BY <1>5, <1>7, <1>8, <1>9, <1>10, <1>11 DEF ClientCommand

\* A line of a burst leaves the channel sound, and everything of the other server alone.
LEMMA ReadSound ==
  ASSUME Tidy, Halves, NEW s \in Servers, ProcessLine(s)
  PROVE  /\ wire[s] # <<>> /\ Head(wire[s]) \in Bursting /\ Tail(wire[s]) \in Seq(Bursting)
         /\ Sound'
         /\ \A t \in Servers \ {s} :
               /\ age'[t] = age[t] /\ members'[t] = members[t] /\ ops'[t] = ops[t]
               /\ key'[t] = key[t] /\ topic'[t] = topic[t] /\ topicset'[t] = topicset[t]
         /\ ~HearBurst(s) =>
               wire' = [wire EXCEPT ![s] = Tail(@)] /\ UNCHANGED net
<1> DEFINE line == Head(wire[s])
<1>0. /\ age \in [Servers -> 0 .. MaxTime] /\ members \in [Servers -> SUBSET Users]
      /\ ops \in [Servers -> SUBSET Users] /\ key \in [Servers -> KeyState]
      /\ topic \in [Servers -> Topics \cup {None}] /\ topicset \in [Servers -> 0 .. MaxTime]
      /\ age[s] \in Nat
  BY DEF Tidy, TypeOK
<1>1. wire[s] # <<>>
  BY DEF ProcessLine, HearBurst, ForceJoin, ForceStatus, ForceKey, ForceTopic, RemoteJoin, RemoteLeave,
         RemoteTopic, Heard
<1>2. line \in Bursting /\ Tail(wire[s]) \in Seq(Bursting)
  <2>1. wire[s] \in Seq(Bursting)
    BY DEF Halves, Coming
  <2> QED  BY <1>1, <2>1
<1>3. line \in Line /\ line.cmd \in {"BURST", "FJOIN", "+k", "FTOPIC"}
  BY <1>2 DEF Bursting
<1>4. HearBurst(s) \/ ForceJoin(s) \/ ForceKey(s) \/ ForceTopic(s)
  BY <1>3 DEF ProcessLine, ForceStatus, RemoteJoin, RemoteLeave, RemoteTopic, Heard
<1>5. \A t \in Servers : KeySound(t) /\ TopicSound(t)
  BY DEF Halves, Sound
<1> DEFINE Others == \A t \in Servers \ {s} :
               /\ age'[t] = age[t] /\ members'[t] = members[t] /\ ops'[t] = ops[t]
               /\ key'[t] = key[t] /\ topic'[t] = topic[t] /\ topicset'[t] = topicset[t]
           Onward == ~HearBurst(s) => wire' = [wire EXCEPT ![s] = Tail(@)] /\ UNCHANGED net
<1>6. Others /\ Onward /\ KeySound(s)' /\ TopicSound(s)'
  <2>1. CASE HearBurst(s)
    <3>1. UNCHANGED <<age, members, ops, key, topic, topicset>>
      BY <2>1 DEF HearBurst, chan
    <3> QED  BY <1>5, <2>1, <3>1 DEF KeySound, TopicSound
  <2>2. CASE ForceJoin(s)
    <3> DEFINE users == line.users \cap Clients(Peer(s))
    <3>1. /\ age' = [age EXCEPT ![s] = Aged(s, line.ts, users)]
          /\ members' = [members EXCEPT ![s] = @ \cup users]
          /\ key' = [key EXCEPT ![s] = IF Loses(s, line.ts) /\ @.shown THEN NoKey ELSE @]
          /\ UNCHANGED <<topic, topicset, net>> /\ wire' = [wire EXCEPT ![s] = Tail(@)] /\ line.cmd = "FJOIN"
          /\ \A t \in Servers \ {s} : ops'[t] = ops[t]
      BY <1>0, <2>2 DEF ForceJoin, Read, Heard
    <3> HIDE DEF users
    <3>2. line.ts \in 1 .. MaxTime
      BY <1>3, <3>1 DEF Line
    <3>3. Aged(s, line.ts, users) = 0 => age[s] = 0
      BY <1>0, <3>2 DEF Aged
    <3>4. age'[s] = 0 => age[s] = 0
      BY <1>0, <3>1, <3>3
    <3>5. key'[s] = NoKey \/ key'[s] = key[s]
      BY <1>0, <3>1
    <3>6. KeySound(s)' /\ TopicSound(s)'
      BY <1>5, <3>1, <3>4, <3>5 DEF KeySound, TopicSound
    <3>7. Others
      BY <1>0, <3>1
    <3> QED  BY <3>1, <3>6, <3>7
  <2>3. CASE ForceKey(s)
    <3>1. /\ UNCHANGED <<age, members, ops, topic, topicset, net>> /\ wire' = [wire EXCEPT ![s] = Tail(@)]
          /\ key' = [key EXCEPT ![s] = IF ~Accepts(s, line.ts) THEN @
                                       ELSE IF line.cmd = "-k" /\ @.shown THEN NoKey
                                       ELSE [str |-> line.key, shown |-> line.cmd = "+k"]]
          /\ line.cmd = "+k"
      BY <1>3, <2>3 DEF ForceKey, Read, Heard
    <3>2. \/ key'[s] = key[s]
          \/ age[s] # 0 /\ key'[s].shown
      BY <1>0, <3>1 DEF Accepts, Exists
    <3>3. KeySound(s)' /\ TopicSound(s)'
      BY <1>5, <3>1, <3>2 DEF KeySound, TopicSound
    <3>4. Others
      BY <1>0, <3>1
    <3> QED  BY <3>1, <3>3, <3>4
  <2>4. CASE ForceTopic(s)
    <3> DEFINE takes == Exists(s) /\ (line.ts >= topicset[s] \/ topic[s] = None)
    <3>1. /\ UNCHANGED <<age, members, ops, key, net>> /\ wire' = [wire EXCEPT ![s] = Tail(@)]
          /\ topic' = [topic EXCEPT ![s] = IF takes THEN line.topic ELSE @]
          /\ topicset' = [topicset EXCEPT ![s] = IF takes THEN line.ts ELSE @]
          /\ takes => age[s] # 0
      BY <2>4 DEF ForceTopic, Read, Exists
    <3> HIDE DEF takes
    <3>2. topic'[s] = topic[s] \/ age[s] # 0
      BY <1>0, <3>1
    <3>3. KeySound(s)' /\ TopicSound(s)'
      BY <1>5, <3>1, <3>2 DEF KeySound, TopicSound
    <3>4. Others
      BY <1>0, <3>1
    <3> QED  BY <3>1, <3>3, <3>4
  <2> QED  BY <1>4, <2>1, <2>2, <2>3, <2>4
<1>7. Sound'
  BY <1>5, <1>6 DEF Sound, KeySound, TopicSound
<1> QED  BY <1>1, <1>2, <1>6, <1>7

LEMMA ReadTops ==
  ASSUME Tidy, Halves, NEW s \in Servers, ProcessLine(s), ~HearBurst(s)
  PROVE  Top(s)' = TopBy(Clients(Peer(s)), Top(s), Head(wire[s]))
<1> DEFINE line == Head(wire[s])
           C == Clients(Peer(s))
           x == Top(s)
           users == line.users \cap C
<1>0. /\ age \in [Servers -> 0 .. MaxTime] /\ age[s] \in Nat
      /\ topic \in [Servers -> Topics \cup {None}] /\ topicset \in [Servers -> 0 .. MaxTime]
  BY DEF Tidy, TypeOK
<1>1. (x.here <=> age[s] # 0) /\ x.topic = topic[s] /\ x.set = topicset[s]
  BY TopIs DEF Exists
<1>2. line \in Line /\ line.cmd \in {"BURST", "FJOIN", "+k", "FTOPIC"}
  BY ReadSound DEF Bursting
<1>3. ForceJoin(s) \/ ForceKey(s) \/ ForceTopic(s)
  BY <1>2 DEF ProcessLine, ForceStatus, RemoteJoin, RemoteLeave, RemoteTopic, Heard
<1> DEFINE h == x.here \/ (line.cmd = "FJOIN" /\ users # {})
           t == IF Replaces(x, line) THEN line.topic ELSE x.topic
           n == IF Replaces(x, line) THEN line.ts ELSE x.set
           e == age'[s] # 0
<1>4. TopBy(C, x, line) = [here |-> h, topic |-> t, set |-> n]
  BY DEF TopBy
<1>5. Top(s)' = [here |-> e, topic |-> topic'[s], set |-> topicset'[s]]
  BY DEF Top, Exists
<1>6. h \in BOOLEAN /\ e \in BOOLEAN
  <2>1. x.here \in BOOLEAN
    BY DEF Top, Exists
  <2> HIDE DEF x
  <2> QED  BY <2>1
<1> HIDE DEF x, C
<1>7. (e <=> h) /\ topic'[s] = t /\ topicset'[s] = n
  <2>1. CASE ForceJoin(s)
    <3>1. /\ age' = [age EXCEPT ![s] = Aged(s, line.ts, users)]
          /\ UNCHANGED <<topic, topicset>> /\ line.cmd = "FJOIN"
      BY <2>1 DEF ForceJoin, Heard, C
    <3>2. line.ts \in 1 .. MaxTime
      BY <1>2, <3>1 DEF Line
    <3> HIDE DEF users
    <3>3. Aged(s, line.ts, users) # 0 <=> age[s] # 0 \/ users # {}
      BY <1>0, <3>2 DEF Aged, Loses, Exists
    <3>4. e <=> h
      BY <1>0, <1>1, <3>1, <3>3
    <3>5. ~Replaces(x, line)
      BY <3>1 DEF Replaces
    <3> QED  BY <1>1, <3>1, <3>4, <3>5
  <2>2. CASE ForceKey(s)
    <3>1. UNCHANGED <<age, topic, topicset>> /\ line.cmd \in {"+k", "-k"}
      BY <2>2 DEF ForceKey, Heard
    <3>2. ~Replaces(x, line) /\ line.cmd # "FJOIN"
      BY <3>1 DEF Replaces
    <3> QED  BY <1>1, <3>1, <3>2
  <2>3. CASE ForceTopic(s)
    <3> DEFINE takes == age[s] # 0 /\ (line.ts >= topicset[s] \/ topic[s] = None)
    <3>1. /\ UNCHANGED age /\ line.cmd = "FTOPIC"
          /\ topic' = [topic EXCEPT ![s] = IF takes THEN line.topic ELSE @]
          /\ topicset' = [topicset EXCEPT ![s] = IF takes THEN line.ts ELSE @]
      BY <2>3 DEF ForceTopic, Heard, Exists
    <3>2. Replaces(x, line) <=> takes
      BY <1>1, <3>1 DEF Replaces
    <3> HIDE DEF takes
    <3>3. topic'[s] = t /\ topicset'[s] = n
      BY <1>0, <1>1, <3>1, <3>2
    <3>4. e <=> h
      BY <1>1, <3>1
    <3> QED  BY <3>3, <3>4
  <2> QED  BY <1>3, <2>1, <2>2, <2>3
<1> HIDE DEF h, t, n, e
<1>8. e = h
  BY <1>6, <1>7
<1> QED  BY <1>4, <1>5, <1>7, <1>8 DEF x, C

\* With both bursts on their way, and nothing else, the two are about to agree.
LEMMA BothBurst ==
  ASSUME Tidy, Sound, \A t \in Servers : members[t] \subseteq Clients(t)
  PROVE  \E e \in [Servers -> Copies], f \in [Servers -> Tops] :
           \A s \in Servers :
              /\ Leads(CopyStep(Clients(Peer(s))), Copies, Copy(s), Burst(Peer(s)), e[s])
              /\ Leads(TopStep(Clients(Peer(s))), Tops, Top(s), Burst(Peer(s)), f[s])
              /\ e[s].age = e[Peer(s)].age /\ e[s].ops = e[Peer(s)].ops /\ (OneKey => e[s].key = e[Peer(s)].key)
              /\ f[s].topic = f[Peer(s)].topic \/ f[s].set = f[Peer(s)].set
<1> DEFINE Copied(t, x) == /\ Leads(CopyStep(Clients(Peer(t))), Copies, Copy(t), Burst(Peer(t)), x)
                           /\ x.age = JointAge(t) /\ x.ops = JointOps(t) /\ x.key = JointKey(t)
           Topped(t, x) == /\ Leads(TopStep(Clients(Peer(t))), Tops, Top(t), Burst(Peer(t)), x)
                           /\ x.topic = JointTopic(t) /\ x.set = JointSet(t)
           e == [t \in Servers |-> CHOOSE x \in Copies : Copied(t, x)]
           f == [t \in Servers |-> CHOOSE x \in Tops : Topped(t, x)]
<1>1. ASSUME NEW t \in Servers PROVE (\E x \in Copies : Copied(t, x)) /\ (\E x \in Tops : Topped(t, x))
  <2>1. members[Peer(t)] \subseteq Clients(Peer(t))
    BY PeersPeer
  <2> QED  BY <2>1, MeetCopies, MeetTops
<1> HIDE DEF Copied, Topped
<1>2. ASSUME NEW t \in Servers PROVE e[t] \in Copies /\ Copied(t, e[t]) /\ f[t] \in Tops /\ Topped(t, f[t])
  BY <1>1
<1>3. e \in [Servers -> Copies] /\ f \in [Servers -> Tops]
  BY <1>2
<1> HIDE DEF e, f
<1>4. ASSUME NEW s \in Servers
      PROVE  /\ Leads(CopyStep(Clients(Peer(s))), Copies, Copy(s), Burst(Peer(s)), e[s])
             /\ Leads(TopStep(Clients(Peer(s))), Tops, Top(s), Burst(Peer(s)), f[s])
             /\ e[s].age = e[Peer(s)].age /\ e[s].ops = e[Peer(s)].ops /\ (OneKey => e[s].key = e[Peer(s)].key)
             /\ f[s].topic = f[Peer(s)].topic \/ f[s].set = f[Peer(s)].set
  <2>1. PICK p \in Servers : p = Peer(s)
    BY PeersPeer
  <2>2. /\ e[s].age = JointAge(s) /\ e[s].ops = JointOps(s) /\ e[s].key = JointKey(s)
        /\ f[s].topic = JointTopic(s) /\ f[s].set = JointSet(s)
    BY <1>2 DEF Copied, Topped
  <2>3. /\ e[p].age = JointAge(p) /\ e[p].ops = JointOps(p) /\ e[p].key = JointKey(p)
        /\ f[p].topic = JointTopic(p) /\ f[p].set = JointSet(p)
    BY <1>2 DEF Copied, Topped
  <2>4. /\ JointAge(s) = JointAge(p) /\ JointOps(s) = JointOps(p) /\ (OneKey => JointKey(s) = JointKey(p))
        /\ JointTopic(s) = JointTopic(p) \/ JointSet(s) = JointSet(p)
    BY <2>1, JointSame
  <2>5. /\ Leads(CopyStep(Clients(Peer(s))), Copies, Copy(s), Burst(Peer(s)), e[s])
        /\ Leads(TopStep(Clients(Peer(s))), Tops, Top(s), Burst(Peer(s)), f[s])
    BY <1>2 DEF Copied, Topped
  <2> QED  BY <2>1, <2>2, <2>3, <2>4, <2>5
<1> QED  BY <1>3, <1>4

LEMMA AfterBurst ==
  ASSUME NEW burst \in Line, NEW lines \in Seq(Line)
  PROVE  Head(<<burst>> \o lines) = burst /\ Tail(<<burst>> \o lines) = lines
<1> DEFINE all == <<burst>> \o lines
           m == Len(lines)
<1>1. all \in Seq(Line) /\ Len(all) = 1 + m /\ m \in Nat /\ all[1] = burst
  OBVIOUS
<1>2. \A i \in 1 .. m : all[1 + i] = lines[i]
  OBVIOUS
<1>3. Head(all) = burst
  BY <1>1
<1>4. Tail(all) \in Seq(Line) /\ Len(Tail(all)) = m /\ \A i \in 1 .. m : Tail(all)[i] = all[i + 1]
  BY <1>1
<1>5. \A i \in 1 .. m : Tail(all)[i] = lines[i]
  BY <1>2, <1>4, <1>1
<1>6. Tail(all) = lines
  <2> DEFINE rest == Tail(all)
  <2>1. rest \in Seq(Line) /\ Len(rest) = Len(lines) /\ \A i \in 1 .. Len(lines) : rest[i] = lines[i]
    BY <1>4, <1>5
  <2> HIDE DEF rest, all
  <2>2. rest = lines
    BY <2>1, SeqEqual
  <2> QED  BY <2>2 DEF rest
<1> QED  BY <1>3, <1>6

LEMMA BurstLine ==
    /\ [cmd |-> "BURST"] \in Bursting /\ [cmd |-> "BURST"] \in Line
    /\ \A lines : lines \in Seq(Merging) => lines \in Seq(Bursting) /\ lines \in Seq(Line)
<1>1. [cmd |-> "BURST"] \in Line
  BY DEF Line
<1>2. Merging \subseteq Bursting /\ Merging \subseteq Line
  BY DEF Merging, Bursting
<1>3. [cmd |-> "BURST"] \in Bursting
  BY <1>1 DEF Bursting
<1> QED  BY <1>1, <1>2, <1>3

LEMMA ChanSame ==
  ASSUME NEW t \in Servers, age'[t] = age[t], members'[t] = members[t], ops'[t] = ops[t],
         key'[t] = key[t], topic'[t] = topic[t], topicset'[t] = topicset[t]
  PROVE  Copy(t)' = Copy(t) /\ Top(t)' = Top(t)
  BY DEF Copy, Top, Exists

LEMMA LineHalves ==
  ASSUME Tidy, Halves, NEW s \in Servers, ProcessLine(s)
  PROVE  Halves'
<1>1. PICK p \in Servers : p = Peer(s) /\ Peer(p) = s /\ p # s /\ \A t \in Servers : t = s \/ t = p
  BY PeersPeer
<1>2. wire \in [Servers -> Seq(Line)] /\ up \subseteq Servers
  BY DEF Tidy, TypeOK
<1>3. /\ wire[s] # <<>> /\ Head(wire[s]) \in Bursting /\ Tail(wire[s]) \in Seq(Bursting)
      /\ Sound'
      /\ age'[p] = age[p] /\ members'[p] = members[p] /\ ops'[p] = ops[p]
      /\ key'[p] = key[p] /\ topic'[p] = topic[p] /\ topicset'[p] = topicset[p]
      /\ ~HearBurst(s) => wire' = [wire EXCEPT ![s] = Tail(@)] /\ UNCHANGED net
  BY <1>1, ReadSound
<1>4. wire[p] \in Seq(Bursting) /\ First(s) /\ First(p) /\ Second /\ Sound
  BY DEF Halves, Coming
<1>5. Burst(p) \in Seq(Line) /\ Burst(s) \in Seq(Line) /\ Burst(s) \in Seq(Merging) /\ Burst(p) \in Seq(Merging)
  BY BurstType, BurstMerges
<1> DEFINE burst == [cmd |-> "BURST"]
<1>6. burst \in Line /\ Burst(s) \in Seq(Bursting)
  BY <1>5, BurstLine
<1>7. CASE HearBurst(s)
  <2>1. /\ up' = up \cup {s} /\ UNCHANGED <<chan, connected>> /\ Head(wire[s]).cmd = "BURST"
        /\ wire' = [wire EXCEPT ![s] = Tail(@), ![p] = IF connected THEN @ \o Burst(s) ELSE @]
    BY <1>1, <1>7 DEF HearBurst, Heard
  <2>2. wire'[s] = Tail(wire[s]) /\ wire'[p] = IF connected THEN wire[p] \o Burst(s) ELSE wire[p]
    BY <1>1, <1>2, <2>1
  <2>3. wire[p] \o Burst(s) \in Seq(Bursting)
    BY <1>4, <1>6
  <2>4. \A t \in Servers : Coming(t)'
    BY <1>1, <1>3, <1>4, <2>2, <2>3 DEF Coming
  <2>5. \A t \in Servers : Copy(t)' = Copy(t) /\ Top(t)' = Top(t)
    BY <2>1, ChanSame DEF chan
  <2>6. CASE ~connected
    BY <1>3, <2>1, <2>4, <2>6 DEF Halves, First, Second
  <2>7. CASE connected /\ s \in up
    <3>1. p \in up
      <4> SUFFICES ASSUME p \notin up PROVE FALSE
        OBVIOUS
      <4> QED  BY <1>1, <1>3, <1>4, <2>7 DEF First
    <3>2. up = Servers
      BY <1>1, <1>2, <2>7, <3>1
    <3>3. wire[s] \in Seq(Merging)
      BY <1>4, <2>7, <3>2 DEF Second
    <3>4. Head(wire[s]) \in Merging
      BY <1>3, <3>3
    <3> QED  BY <2>1, <3>4 DEF Merging
  <2>8. CASE connected /\ s \notin up
    <3>1. /\ p \in up /\ members[p] \subseteq Clients(p) /\ wire[s] = <<burst>> \o Burst(p) /\ wire[p] = <<>>
      BY <1>1, <1>4, <2>8 DEF First
    <3> HIDE DEF burst
    <3>2. Tail(wire[s]) = Burst(p) /\ wire[p] \o Burst(s) = Burst(s)
      BY <1>5, <1>6, <3>1, AfterBurst
    <3>3. wire'[s] = Burst(p) /\ wire'[p] = Burst(s)
      BY <2>2, <2>8, <3>2
    <3>4. \A t \in Servers : wire'[t] = Burst(Peer(t)) /\ wire'[t] \in Seq(Merging)
      BY <1>1, <1>5, <3>3
    <3>5. \A t \in Servers : members[t] \subseteq Clients(t)
      BY <1>1, <2>8, <3>1 DEF Tidy, NoGhosts
    <3>6. PICK e \in [Servers -> Copies], f \in [Servers -> Tops] :
            \A t \in Servers :
               /\ Leads(CopyStep(Clients(Peer(t))), Copies, Copy(t), Burst(Peer(t)), e[t])
               /\ Leads(TopStep(Clients(Peer(t))), Tops, Top(t), Burst(Peer(t)), f[t])
               /\ e[t].age = e[Peer(t)].age /\ e[t].ops = e[Peer(t)].ops /\ (OneKey => e[t].key = e[Peer(t)].key)
               /\ f[t].topic = f[Peer(t)].topic \/ f[t].set = f[Peer(t)].set
      BY <1>4, <3>5, BothBurst
    <3>7. \A t \in Servers :
             /\ Leads(CopyStep(Clients(Peer(t))), Copies, Copy(t)', wire'[t], e[t])
             /\ Leads(TopStep(Clients(Peer(t))), Tops, Top(t)', wire'[t], f[t])
             /\ e[t].age = e[Peer(t)].age /\ e[t].ops = e[Peer(t)].ops /\ (OneKey => e[t].key = e[Peer(t)].key)
             /\ f[t].topic = f[Peer(t)].topic \/ f[t].set = f[Peer(t)].set
      BY <2>5, <3>4, <3>6
    <3>8. Second'
      BY <3>4, <3>7 DEF Second
    <3>9. up' = Servers
      BY <1>1, <1>2, <2>1, <3>1
    <3>10. \A t \in Servers : First(t)'
      BY <3>9 DEF First
    <3> QED  BY <1>3, <2>4, <3>8, <3>10 DEF Halves
  <2> QED  BY <2>6, <2>7, <2>8
<1>8. CASE ~HearBurst(s)
  <2>1. wire' = [wire EXCEPT ![s] = Tail(@)] /\ up' = up /\ connected' = connected
    BY <1>3, <1>8 DEF net
  <2>2. wire'[s] = Tail(wire[s]) /\ wire'[p] = wire[p]
    BY <1>1, <1>2, <2>1
  <2>3. \A t \in Servers : Coming(t)'
    BY <1>1, <1>3, <1>4, <2>2 DEF Coming
  <2>4. CASE ~connected
    BY <1>3, <2>1, <2>3, <2>4 DEF Halves, First, Second
  <2>5. CASE connected /\ p \notin up
    BY <1>1, <1>3, <1>4, <2>5 DEF First
  <2>6. CASE connected /\ s \notin up
    <3>1. wire[s] = <<burst>> \o Burst(p)
      BY <1>1, <1>4, <2>6 DEF First
    <3>2. Head(wire[s]) = burst
      <4> HIDE DEF burst
      <4> QED  BY <1>5, <1>6, <3>1, AfterBurst
    <3>3. Head(wire[s]).cmd = "BURST"
      BY <3>2
    <3> QED  BY <1>8, <3>3 DEF ProcessLine, ForceJoin, ForceStatus, ForceKey, ForceTopic, RemoteJoin, RemoteLeave,
                               RemoteTopic, Heard
  <2>7. CASE connected /\ up = Servers
    <3>1. wire[s] \in Seq(Merging) /\ wire[p] \in Seq(Merging)
      BY <1>4, <2>7 DEF Second
    <3>2. PICK e \in [Servers -> Copies], f \in [Servers -> Tops] :
            \A t \in Servers :
               /\ Leads(CopyStep(Clients(Peer(t))), Copies, Copy(t), wire[t], e[t])
               /\ Leads(TopStep(Clients(Peer(t))), Tops, Top(t), wire[t], f[t])
               /\ e[t].age = e[Peer(t)].age /\ e[t].ops = e[Peer(t)].ops /\ (OneKey => e[t].key = e[Peer(t)].key)
               /\ f[t].topic = f[Peer(t)].topic \/ f[t].set = f[Peer(t)].set
      BY <1>4, <2>7 DEF Second
    <3> DEFINE C == Clients(p)
               line == Head(wire[s])
               rest == Tail(wire[s])
               cs == CopyStep(C)
               ts == TopStep(C)
               x == Copy(s)
               z == Top(s)
    <3>3. Leads(cs, Copies, x, wire[s], e[s]) /\ Leads(ts, Tops, z, wire[s], f[s])
      BY <1>1, <3>2
    <3>4. wire[s] \in Seq(Line) /\ line \in Line /\ rest \in Seq(Line) /\ rest \in Seq(Merging)
      BY <1>2, <1>3, <3>1
    <3>5. Copy(s)' = CopyBy(C, x, line)
      <4>1. x \in Copies
        BY <3>3, <3>4, LeadsIn
      <4>2. cs[<<x, line>>] = CopyBy(C, x, line)
        BY <3>4, <4>1, CopyStepIs
      <4>3. Leads(cs, Copies, cs[<<x, line>>], rest, e[s])
        <5> HIDE DEF cs, x
        <5> QED  BY <1>3, <3>3, <3>4, LeadsRead
      <4>4. cs[<<x, line>>] \in Copies
        <5> DEFINE next == cs[<<x, line>>]
        <5>1. Leads(cs, Copies, next, rest, e[s])
          BY <4>3
        <5> HIDE DEF next, rest, cs
        <5>2. next \in Copies
          BY <3>4, <5>1, LeadsIn
        <5> QED  BY <5>2 DEF next
      <4>5. CopyBy(C, x, line) \in Copies
        BY <4>2, <4>4
      <4> QED  BY <1>1, <4>1, <4>5, ReadCopies
    <3>6. Top(s)' = TopBy(C, z, line)
      BY <1>1, <1>8, ReadTops
    <3>7. Leads(cs, Copies, Copy(s)', rest, e[s])
      <4>1. x \in Copies
        BY <3>3, <3>4, LeadsIn
      <4>2. cs[<<x, line>>] = CopyBy(C, x, line)
        BY <3>4, <4>1, CopyStepIs
      <4>3. Leads(cs, Copies, cs[<<x, line>>], rest, e[s])
        <5> HIDE DEF cs, x
        <5> QED  BY <1>3, <3>3, <3>4, LeadsRead
      <4> QED  BY <3>5, <4>2, <4>3
    <3>8. Leads(ts, Tops, Top(s)', rest, f[s])
      <4>1. z \in Tops
        BY <3>3, <3>4, LeadsIn
      <4>2. ts[<<z, line>>] = TopBy(C, z, line)
        BY <3>4, <4>1, TopByIn
      <4>3. Leads(ts, Tops, ts[<<z, line>>], rest, f[s])
        <5> HIDE DEF ts, z
        <5> QED  BY <1>3, <3>3, <3>4, LeadsRead
      <4> QED  BY <3>6, <4>2, <4>3
    <3>9. Copy(p)' = Copy(p) /\ Top(p)' = Top(p)
      BY <1>3, ChanSame
    <3> HIDE DEF rest, line, x, z
    <3>10. \A t \in Servers :
             /\ Leads(CopyStep(Clients(Peer(t))), Copies, Copy(t)', wire'[t], e[t])
             /\ Leads(TopStep(Clients(Peer(t))), Tops, Top(t)', wire'[t], f[t])
      <4>1. /\ Leads(CopyStep(Clients(Peer(s))), Copies, Copy(s)', wire'[s], e[s])
            /\ Leads(TopStep(Clients(Peer(s))), Tops, Top(s)', wire'[s], f[s])
        BY <1>1, <2>2, <3>7, <3>8 DEF rest
      <4>2. /\ Leads(CopyStep(Clients(Peer(p))), Copies, Copy(p)', wire'[p], e[p])
            /\ Leads(TopStep(Clients(Peer(p))), Tops, Top(p)', wire'[p], f[p])
        BY <2>2, <3>2, <3>9
      <4> QED  BY <1>1, <4>1, <4>2
    <3>11. \A t \in Servers : wire'[t] \in Seq(Merging)
      BY <1>1, <2>2, <3>1, <3>4 DEF rest
    <3>12. Second'
      BY <3>2, <3>10, <3>11 DEF Second
    <3>13. \A t \in Servers : First(t)'
      BY <2>1, <2>7 DEF First
    <3> QED  BY <1>3, <2>3, <3>12, <3>13 DEF Halves
  <2>8. connected => s \notin up \/ p \notin up \/ up = Servers
    BY <1>1, <1>2
  <2> QED  BY <2>4, <2>5, <2>6, <2>7, <2>8
<1> QED  BY <1>7, <1>8

LEMMA LinkHalves ==
  ASSUME Tidy, Halves, NEW s \in Servers, LinkUp(s) \/ Netsplit(s)
  PROVE  Halves'
<1>1. PICK p \in Servers : p = Peer(s) /\ Peer(p) = s /\ p # s /\ \A t \in Servers : t = s \/ t = p
  BY PeersPeer
<1>2. /\ wire \in [Servers -> Seq(Line)]
      /\ age \in [Servers -> 0 .. MaxTime] /\ members \in [Servers -> SUBSET Users]
      /\ ops \in [Servers -> SUBSET Users] /\ key \in [Servers -> KeyState]
      /\ topic \in [Servers -> Topics \cup {None}] /\ topicset \in [Servers -> 0 .. MaxTime]
      /\ \A t \in Servers : t \notin up => members[t] \subseteq Clients(t)
  BY DEF Tidy, TypeOK, NoGhosts
<1>3. \A t \in Servers : KeySound(t) /\ TopicSound(t) /\ Coming(t)
  BY DEF Halves, Sound
<1>4. CASE LinkUp(s)
  <2> DEFINE burst == [cmd |-> "BURST"]
  <2>1. /\ up = {} /\ up' = {s} /\ UNCHANGED <<now, chan>> /\ \A t \in Servers : wire[t] = <<>>
        /\ wire' = [wire EXCEPT ![p] = <<burst>> \o Burst(s)]
    BY <1>1, <1>4 DEF LinkUp
  <2>2. wire'[s] = <<>> /\ wire'[p] = <<burst>> \o Burst(s)
    BY <1>1, <1>2, <2>1
  <2>3. Sound'
    BY <1>3, <2>1 DEF chan, Sound, KeySound, TopicSound
  <2>4. <<burst>> \o Burst(s) \in Seq(Bursting) /\ <<>> \in Seq(Bursting)
    <3>1. burst \in Bursting /\ Burst(s) \in Seq(Bursting)
      BY BurstLine, BurstMerges
    <3> HIDE DEF burst
    <3> QED  BY <3>1
  <2>5. \A t \in Servers : Coming(t)'
    BY <1>1, <2>2, <2>4 DEF Coming
  <2>6. Burst(s)' = Burst(s) /\ members'[s] \subseteq Clients(s)
    BY <1>2, <2>1, BurstSame DEF chan
  <2>7. First(p)'
    BY <1>1, <2>1, <2>2, <2>6 DEF First
  <2>8. First(s)'
    BY <2>1 DEF First
  <2>9. up' # Servers
    BY <1>1, <2>1
  <2>10. Second'
    BY <2>9 DEF Second
  <2> QED  BY <1>1, <2>3, <2>5, <2>7, <2>8, <2>10 DEF Halves
<1>5. CASE Netsplit(s)
  <2> DEFINE left == members[s] \ Clients(Peer(s))
  <2>1. /\ ~connected' /\ wire' = [wire EXCEPT ![s] = <<>>] /\ Leave(s, Clients(Peer(s)))
    BY <1>5 DEF Netsplit
  <2>2. /\ age' = [age EXCEPT ![s] = IF left = {} THEN 0 ELSE @]
        /\ key' = [key EXCEPT ![s] = IF left = {} THEN NoKey ELSE @]
        /\ topic' = [topic EXCEPT ![s] = IF left = {} THEN None ELSE @]
    BY <2>1 DEF Leave
  <2> HIDE DEF left
  <2>3. \A t \in Servers : \/ key'[t] = NoKey /\ topic'[t] = None
                           \/ age'[t] = age[t] /\ key'[t] = key[t] /\ topic'[t] = topic[t]
    BY <1>2, <2>2
  <2>4. Sound'
    BY <1>3, <2>3 DEF Sound, KeySound, TopicSound
  <2>5. \A t \in Servers : wire'[t] = wire[t] \/ wire'[t] = <<>>
    BY <1>2, <2>1
  <2>6. <<>> \in Seq(Bursting)
    OBVIOUS
  <2>7. \A t \in Servers : Coming(t)'
    BY <1>3, <2>5, <2>6 DEF Coming
  <2> QED  BY <2>1, <2>4, <2>7 DEF Halves, First, Second
<1> QED  BY <1>4, <1>5

-----------------------------------------------------------------------------
\* The merge holds through every step.
THEOREM HalvesAlways == Unlinked /\ Spec => [](Tidy /\ Halves)
<1> SUFFICES ASSUME Unlinked PROVE Spec => [](Tidy /\ Halves)
  OBVIOUS
<1>1. Init => Halves
  <2> SUFFICES ASSUME Init PROVE Halves
    OBVIOUS
  <2>1. \A t \in Servers : age[t] = 0 /\ key[t] = NoKey /\ topic[t] = None /\ wire[t] = <<>> /\ ~connected
    BY DEF Init
  <2>2. <<>> \in Seq(Bursting)
    OBVIOUS
  <2>3. \A t \in Servers : KeySound(t) /\ TopicSound(t) /\ Coming(t) /\ First(t)
    BY <2>1, <2>2 DEF KeySound, TopicSound, Coming, First
  <2>4. Second
    <3>1. ~connected
      BY DEF Init
    <3> QED  BY <3>1 DEF Second
  <2> QED  BY <2>3, <2>4 DEF Halves, Sound
<1>2. Tidy /\ Halves /\ [Next]_vars => Halves'
  <2> SUFFICES ASSUME Tidy, Halves, [Next]_vars PROVE Halves'
    OBVIOUS
  <2>1. CASE Tick \/ UNCHANGED vars
    <3>1. UNCHANGED <<age, members, ops, key, topic, topicset, up, connected, wire>>
      BY <2>1 DEF Tick, vars, chan, net
    <3>2. \A t \in Servers : Copy(t)' = Copy(t) /\ Top(t)' = Top(t) /\ Burst(t)' = Burst(t)
      BY <3>1, ChanSame, BurstSame
    <3>3. Second'
      BY <3>1, <3>2 DEF Halves, Second
    <3>4. \A t \in Servers : First(t)' /\ Coming(t)'
      BY <3>1, <3>2, PeersPeer DEF Halves, First, Coming
    <3>5. Sound'
      BY <3>1 DEF Halves, Sound, KeySound, TopicSound
    <3> QED  BY <3>3, <3>4, <3>5 DEF Halves
  <2>2. CASE Break
    <3>1. ~connected' /\ UNCHANGED <<age, key, topic, wire>>
      BY <2>2 DEF Break, chan
    <3>2. Sound' /\ \A t \in Servers : Coming(t)'
      BY <3>1 DEF Halves, Sound, KeySound, TopicSound, Coming
    <3> QED  BY <3>1, <3>2 DEF Halves, First, Second
  <2>3. CASE ClientCommand
    BY <2>3, CommandHalves
  <2>4. ASSUME NEW s \in Servers, ProcessLine(s) PROVE Halves'
    BY <2>4, LineHalves
  <2>5. ASSUME NEW s \in Servers, LinkUp(s) \/ Netsplit(s) PROVE Halves'
    BY <2>5, LinkHalves
  <2> QED  BY <2>1, <2>2, <2>3, <2>4, <2>5 DEF Next
<1> QED  BY <1>1, <1>2, TidyAlways, PTL DEF Spec

\* With every line read the two agree, as what is on its way leads nowhere.
LEMMA MergedSame ==
  ASSUME Tidy, Halves, Merged
  PROVE  Same(age) /\ Same(ops) /\ (OneKey => Same(key)) /\ (Same(topic) \/ Same(topicset))
<1>1. PICK e \in [Servers -> Copies], f \in [Servers -> Tops] :
        \A t \in Servers :
           /\ Leads(CopyStep(Clients(Peer(t))), Copies, Copy(t), wire[t], e[t])
           /\ Leads(TopStep(Clients(Peer(t))), Tops, Top(t), wire[t], f[t])
           /\ e[t].age = e[Peer(t)].age /\ e[t].ops = e[Peer(t)].ops /\ (OneKey => e[t].key = e[Peer(t)].key)
           /\ f[t].topic = f[Peer(t)].topic \/ f[t].set = f[Peer(t)].set
  BY DEF Halves, Second, Merged
<1>2. ASSUME NEW t \in Servers PROVE Copy(t) = e[t] /\ Top(t) = f[t]
  <2>1. wire[t] = <<>> /\ wire[t] \in Seq(Line)
    BY DEF Merged, Tidy, TypeOK
  <2> DEFINE cs == CopyStep(Clients(Peer(t)))
             ts == TopStep(Clients(Peer(t)))
             x == Copy(t)
             z == Top(t)
  <2>2. Leads(cs, Copies, x, wire[t], e[t]) /\ Leads(ts, Tops, z, wire[t], f[t])
    BY <1>1
  <2> HIDE DEF cs, ts, x, z
  <2>3. x = e[t] /\ z = f[t]
    BY <2>1, <2>2, LeadsIn
  <2> QED  BY <2>3 DEF x, z
<1>3. ASSUME NEW t \in Servers
      PROVE  /\ age[t] = age[Peer(t)] /\ ops[t] = ops[Peer(t)] /\ (OneKey => key[t] = key[Peer(t)])
             /\ topic[t] = topic[Peer(t)] \/ topicset[t] = topicset[Peer(t)]
  <2>1. PICK p \in Servers : p = Peer(t)
    BY PeersPeer
  <2>2. Copy(t) = e[t] /\ Copy(p) = e[p] /\ Top(t) = f[t] /\ Top(p) = f[p]
    BY <1>2
  <2>3. /\ e[t].age = age[t] /\ e[t].ops = ops[t] /\ e[t].key = key[t]
        /\ e[p].age = age[p] /\ e[p].ops = ops[p] /\ e[p].key = key[p]
    BY <2>2, CopyIs
  <2>4. f[t].topic = topic[t] /\ f[t].set = topicset[t] /\ f[p].topic = topic[p] /\ f[p].set = topicset[p]
    BY <2>2, TopIs
  <2>5. /\ e[t].age = e[p].age /\ e[t].ops = e[p].ops /\ (OneKey => e[t].key = e[p].key)
        /\ f[t].topic = f[p].topic \/ f[t].set = f[p].set
    BY <1>1, <2>1
  <2> QED  BY <2>1, <2>3, <2>4, <2>5
<1>4. PICK a, b \in Servers : b = Peer(a) /\ \A t \in Servers : t = a \/ t = b
  BY SyncOK, PeersPeer
<1>5. /\ age[a] = age[b] /\ ops[a] = ops[b] /\ (OneKey => key[a] = key[b])
      /\ topic[a] = topic[b] \/ topicset[a] = topicset[b]
  BY <1>3, <1>4
<1> QED  BY <1>4, <1>5 DEF Same

\* Two halves that met with the channel on both sides, whatever age, operators and topic each gave it: once their
\* bursts are read both servers have the older one's, or both's, with the later topic.  The clients keep still while
\* their server is linked.
THEOREM HalvesAlwaysMerge == Unlinked /\ Spec => [](AgesAgree /\ StatusAgree /\ TopicsAgree)
<1>1. Tidy /\ Halves => AgesAgree /\ StatusAgree /\ TopicsAgree
  BY MergedSame DEF AgesAgree, StatusAgree, TopicsAgree
<1> QED  BY <1>1, HalvesAlways, PTL

\* And the key of the channel too, where there is one key to set: two keys of one age are swapped, and not compared
\* as the comment in cmode_k.cpp has it.
THEOREM HalvesAlwaysAgree == Unlinked /\ OneKey /\ Spec => []HalvesAgree
<1> SUFFICES ASSUME Unlinked, OneKey PROVE Spec => []HalvesAgree
  OBVIOUS
<1>1. Tidy /\ Halves => HalvesAgree
  BY MergedSame DEF HalvesAgree, AgesAgree, StatusAgree, KeysAgree, TopicsAgree
<1> QED  BY <1>1, HalvesAlways, PTL
=============================================================================

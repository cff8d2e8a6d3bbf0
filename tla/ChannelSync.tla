---------------------------- MODULE ChannelSync -----------------------------
(***************************************************************************)
(* One channel on two linked servers: what m_spanningtree sends about it   *)
(* and how each server merges what it hears (ForceJoin, ForceMode,         *)
(* ForceTopic and the client commands the other server relays).            *)
(*                                                                         *)
(* Each server applies its own clients' commands at once and tells the     *)
(* other by lines that arrive in order; lines of both cross on the way.    *)
(* A channel is as old as its timestamp (chanrec::age): when two halves of *)
(* the network that each have the channel link, the older one's operators  *)
(* and modes win.  The link is dialled by one server: it bursts first, and *)
(* the other bursts when it reads BURST.                                   *)
(***************************************************************************)
EXTENDS Naturals, Sequences, FiniteSets

CONSTANTS
    Servers,        \* the two servers
    Users,          \* their registered clients
    Home,           \* the server of each client
    Keys,           \* channel keys clients may set
    Topics,         \* topics clients may set
    None,           \* no key, no topic
    MaxTime,        \* bound on the clock
    MaxLinks,       \* bound on the number of times the servers link
    MaxLines,       \* bound on the lines on their way when a client gives a command
    Linked          \* commands a server's clients give while it sees the other

ASSUME SyncOK ==
    /\ \E a, b \in Servers : a # b /\ Servers = {a, b}
    /\ Home \in [Users -> Servers]
    /\ None \notin Keys \cup Topics
    /\ MaxTime \in Nat \ {0} /\ MaxLinks \in Nat /\ MaxLines \in Nat
    /\ Linked \in [Servers -> SUBSET {"JOIN", "PART", "KICK", "STATUS", "KEY", "TOPIC"}]

VARIABLES
    now,        \* InspIRCd::Time(), the same on both servers
    age,        \* chanrec::age on each server, 0 when it has no such channel
    members,    \* users on the channel, as each server sees it
    ops,        \* those with +o
    key,        \* chanrec::key, and whether modes[CM_KEY] shows it
    topic,      \* chanrec::topic
    topicset,   \* chanrec::topicset
    up,         \* servers whose TreeSocket is CONNECTED
    connected,  \* the connection between them exists
    links,      \* how often they have linked
    wire        \* lines on their way to each server

chan == <<age, members, ops, key, topic, topicset>>
net == <<up, connected, links>>
vars == <<now, chan, net, wire>>

Peer(s) == CHOOSE t \in Servers : t # s
Clients(s) == {u \in Users : Home[u] = s}

Line ==
    [cmd : {"BURST"}]
    \cup [cmd : {"FJOIN"}, ts : 1 .. MaxTime, users : SUBSET Users, ops : SUBSET Users]
    \cup [cmd : {"JOIN", "PART", "KICK"}, user : Users]
    \cup [cmd : {"+o", "-o"}, ts : 1 .. MaxTime, user : Users]
    \cup [cmd : {"+k", "-k"}, ts : 1 .. MaxTime, key : Keys]
    \cup [cmd : {"TOPIC"}, topic : Topics]
    \cup [cmd : {"FTOPIC"}, ts : 1 .. MaxTime, topic : Topics]

NoKey == [str |-> None, shown |-> FALSE]
KeyState == {NoKey} \cup [str : Keys, shown : BOOLEAN]

TypeOK ==
    /\ now \in 1 .. MaxTime
    /\ age \in [Servers -> 0 .. MaxTime]
    /\ members \in [Servers -> SUBSET Users]
    /\ ops \in [Servers -> SUBSET Users]
    /\ key \in [Servers -> KeyState]
    /\ topic \in [Servers -> Topics \cup {None}]
    /\ topicset \in [Servers -> 0 .. MaxTime]
    /\ up \subseteq Servers
    /\ connected \in BOOLEAN
    /\ links \in 0 .. MaxLinks
    /\ wire \in [Servers -> Seq(Line)]

Init ==
    /\ now = 1
    /\ age = [s \in Servers |-> 0]
    /\ members = [s \in Servers |-> {}] /\ ops = [s \in Servers |-> {}]
    /\ key = [s \in Servers |-> NoKey] /\ topic = [s \in Servers |-> None]
    /\ topicset = [s \in Servers |-> 0]
    /\ up = {} /\ connected = FALSE /\ links = 0
    /\ wire = [s \in Servers |-> <<>>]

-----------------------------------------------------------------------------
(* The chanrec of one server *)

Exists(s) == age[s] # 0

\* DelUser and, for the last one out, the deletion of the record.
Leave_kept(s, gone) ==  \* mutant: the empty record stays
    /\ members' = [members EXCEPT ![s] = @ \ gone]
    /\ ops' = [ops EXCEPT ![s] = @ \ gone]
    /\ UNCHANGED <<age, key, topic, topicset>>
Leave(s, gone) ==
    LET left == members[s] \ gone IN
    /\ members' = [members EXCEPT ![s] = left]
    /\ ops' = [ops EXCEPT ![s] = @ \ gone]
    /\ age' = [age EXCEPT ![s] = IF left = {} THEN 0 ELSE @]
    /\ key' = [key EXCEPT ![s] = IF left = {} THEN NoKey ELSE @]
    /\ topic' = [topic EXCEPT ![s] = IF left = {} THEN None ELSE @]
    /\ topicset' = [topicset EXCEPT ![s] = IF left = {} THEN 0 ELSE @]

\* JoinUser of a user, with timestamp ts if the channel is new here.
Enter(s, u, ts, status) ==
    /\ members' = [members EXCEPT ![s] = @ \cup {u}]
    /\ ops' = [ops EXCEPT ![s] = @ \cup status]
    /\ age' = [age EXCEPT ![s] = IF Exists(s) THEN @ ELSE ts]
    /\ UNCHANGED <<key, topic, topicset>>

-----------------------------------------------------------------------------
(* What the lines say *)

FJoin(s) == [cmd |-> "FJOIN", ts |-> age[s], users |-> members[s], ops |-> ops[s]]

\* DoOneToMany: lines of s to the other server, if it has one.
Sent_late(s, lines) ==  \* mutant: nothing is sent before the other's burst
    IF s \in up /\ Peer(s) \in up THEN [wire EXCEPT ![Peer(s)] = @ \o lines] ELSE wire
Sent(s, lines) ==
    IF s \in up /\ connected THEN [wire EXCEPT ![Peer(s)] = @ \o lines] ELSE wire

\* DoBurst, as far as the channel goes: SendFJoins and the topic.
Burst_always(s) == <<FJoin(s)>>  \* mutant: a channel nobody is on is burst
Burst(s) ==
    IF ~Exists(s) THEN <<>>
    ELSE <<FJoin(s)>>
         \o (IF key[s].shown THEN <<[cmd |-> "+k", ts |-> age[s], key |-> key[s].str]>> ELSE <<>>)
         \o (IF topic[s] = None THEN <<>>
             ELSE <<[cmd |-> "FTOPIC", ts |-> topicset[s], topic |-> topic[s]]>>)

-----------------------------------------------------------------------------
(* Commands of a server's own clients *)

May(s, cmd) == s \in up => cmd \in Linked[s] /\ Len(wire[Peer(s)]) < MaxLines

\* The first one in founds the channel and is announced by FJOIN.
Join(u) ==
    LET s == Home[u] IN
    /\ May(s, "JOIN")
    /\ u \notin members[s]
    /\ Enter(s, u, now, IF Exists(s) THEN {} ELSE {u})
    /\ wire' = Sent(s, IF Exists(s) THEN <<[cmd |-> "JOIN", user |-> u]>>
                       ELSE <<[cmd |-> "FJOIN", ts |-> now, users |-> {u}, ops |-> {u}]>>)
    /\ UNCHANGED <<now, net>>

Part(u) ==
    LET s == Home[u] IN
    /\ May(s, "PART")
    /\ u \in members[s]
    /\ Leave(s, {u})
    /\ wire' = Sent(s, <<[cmd |-> "PART", user |-> u]>>)
    /\ UNCHANGED <<now, net>>

Kick(u, v) ==
    LET s == Home[u] IN
    /\ May(s, "KICK")
    /\ u \in ops[s] /\ v \in members[s]
    /\ Leave(s, {v})
    /\ wire' = Sent(s, <<[cmd |-> "KICK", user |-> v]>>)
    /\ UNCHANGED <<now, net>>

\* MODE +o and -o; OnMode sends FMODE with the channel's timestamp.
ChangeStatus(u, v) ==
    LET s == Home[u] IN
    /\ May(s, "STATUS")
    /\ u \in ops[s] /\ v \in members[s]
    /\ ops' = [ops EXCEPT ![s] = IF v \in @ THEN @ \ {v} ELSE @ \cup {v}]
    /\ wire' = Sent(s, <<[cmd |-> IF v \in ops[s] THEN "-o" ELSE "+o",
                          ts |-> age[s], user |-> v]>>)
    /\ UNCHANGED <<now, age, members, key, topic, topicset, net>>

\* MODE +k on a channel without a key, MODE -k with the right one.
ChangeKey(u, k) ==
    LET s == Home[u] IN
    /\ May(s, "KEY")
    /\ u \in ops[s]
    /\ key[s].shown => key[s].str = k
    /\ key' = [key EXCEPT ![s] = IF @.shown THEN NoKey ELSE [str |-> k, shown |-> TRUE]]
    /\ wire' = Sent(s, <<[cmd |-> IF key[s].shown THEN "-k" ELSE "+k", ts |-> age[s], key |-> k]>>)
    /\ UNCHANGED <<now, age, members, ops, topic, topicset, net>>

\* TOPIC, by any member when +t is not set.  The line carries no timestamp.
SetTopic(u, t) ==
    LET s == Home[u] IN
    /\ May(s, "TOPIC")
    /\ u \in members[s]
    /\ topic' = [topic EXCEPT ![s] = t]
    /\ topicset' = [topicset EXCEPT ![s] = now]
    /\ wire' = Sent(s, <<[cmd |-> "TOPIC", topic |-> t]>>)
    /\ UNCHANGED <<now, age, members, ops, key, net>>

-----------------------------------------------------------------------------
(* Lines from the other server *)

Heard(s, cmds) ==
    /\ wire[s] # <<>>
    /\ Head(wire[s]).cmd \in cmds
    /\ Head(wire[s]).cmd = "BURST" \/ s \in up

Read(s) == wire' = [wire EXCEPT ![s] = Tail(@)]

\* BURST in WAIT_AUTH_2: the link is up here too and we burst.
HearBurst(s) ==
    /\ Heard(s, {"BURST"})
    /\ up' = up \cup {s}
    /\ wire' = [wire EXCEPT ![s] = Tail(@),
                            ![Peer(s)] = IF connected THEN @ \o Burst(s) ELSE @]
    /\ UNCHANGED <<now, chan, connected, links>>

\* ForceJoin.  Ours is newer: RemoveStatus and their timestamp; ours is older:
\* their users join without status.
Loses(s, ts) == Exists(s) /\ age[s] > ts
Aged(s, ts, users) == IF Loses(s, ts) \/ (~Exists(s) /\ users # {}) THEN ts ELSE age[s]
ForceJoin_merge(s) ==  \* mutant: the newer channel keeps its operators
    LET line == Head(wire[s])
        users == line.users \cap Clients(Peer(s)) IN
    /\ Heard(s, {"FJOIN"})
    /\ age' = [age EXCEPT ![s] = Aged(s, line.ts, users)]
    /\ members' = [members EXCEPT ![s] = @ \cup users]
    /\ ops' = [ops EXCEPT ![s] =
                  @ \cup (IF Exists(s) /\ age[s] < line.ts THEN {} ELSE line.ops \cap users)]
    /\ key' = [key EXCEPT ![s] = IF Loses(s, line.ts) /\ @.shown THEN NoKey ELSE @]
    /\ Read(s)
    /\ UNCHANGED <<now, topic, topicset, net>>
ForceJoin(s) ==
    LET line == Head(wire[s])
        users == line.users \cap Clients(Peer(s)) IN
    /\ Heard(s, {"FJOIN"})
    /\ age' = [age EXCEPT ![s] = Aged(s, line.ts, users)]
    /\ members' = [members EXCEPT ![s] = @ \cup users]
    /\ ops' = [ops EXCEPT ![s] =
                  (IF Loses(s, line.ts) THEN {} ELSE @)
                  \cup (IF Exists(s) /\ age[s] < line.ts THEN {} ELSE line.ops \cap users)]
    /\ key' = [key EXCEPT ![s] = IF Loses(s, line.ts) /\ @.shown THEN NoKey ELSE @]
    /\ Read(s)
    /\ UNCHANGED <<now, topic, topicset, net>>

\* ForceMode: dropped when there is no channel or theirs is newer than ours.
Accepts(s, ts) == Exists(s) /\ ts <= age[s]

ForceStatus(s) ==
    LET line == Head(wire[s]) IN
    /\ Heard(s, {"+o", "-o"})
    /\ ops' = [ops EXCEPT ![s] =
                  IF ~Accepts(s, line.ts) \/ line.user \notin members[s] THEN @
                  ELSE IF line.cmd = "+o" THEN @ \cup {line.user} ELSE @ \ {line.user}]
    /\ Read(s)
    /\ UNCHANGED <<now, age, members, key, topic, topicset, net>>

\* A key set by another server replaces ours (CheckTimeStamp is not asked); one that it
\* removes when we have none is copied all the same, but not shown.
ForceKey(s) ==
    LET line == Head(wire[s]) IN
    /\ Heard(s, {"+k", "-k"})
    /\ key' = [key EXCEPT ![s] =
                  IF ~Accepts(s, line.ts) THEN @
                  ELSE IF line.cmd = "-k" /\ @.shown THEN NoKey
                  ELSE [str |-> line.key, shown |-> line.cmd = "+k"]]
    /\ Read(s)
    /\ UNCHANGED <<now, age, members, ops, topic, topicset, net>>

\* ForceTopic: the more recent topic, or any if we have none.
ForceTopic(s) ==
    LET line == Head(wire[s])
        takes == Exists(s) /\ (line.ts >= topicset[s] \/ topic[s] = None) IN
    /\ Heard(s, {"FTOPIC"})
    /\ topic' = [topic EXCEPT ![s] = IF takes THEN line.topic ELSE @]
    /\ topicset' = [topicset EXCEPT ![s] = IF takes THEN line.ts ELSE @]
    /\ Read(s)
    /\ UNCHANGED <<now, age, members, ops, key, net>>

\* A relayed JOIN is the client command: cmd_join passes no timestamp (it takes
\* the one in the line for a key), so a channel that is not here is new.
RemoteJoin(s) ==
    /\ Heard(s, {"JOIN"})
    /\ Enter(s, Head(wire[s]).user, now, {})
    /\ Read(s)
    /\ UNCHANGED <<now, net>>

\* A relayed PART or KICK of somebody who is not on the channel here does nothing.
RemoteLeave(s) ==
    /\ Heard(s, {"PART", "KICK"})
    /\ IF Head(wire[s]).user \in members[s]
       THEN Leave(s, {Head(wire[s]).user})
       ELSE UNCHANGED chan
    /\ Read(s)
    /\ UNCHANGED <<now, net>>

\* cmd_topic for a remote user: no check, and the receiver's own clock.
RemoteTopic(s) ==
    /\ Heard(s, {"TOPIC"})
    /\ topic' = [topic EXCEPT ![s] = IF Exists(s) THEN Head(wire[s]).topic ELSE @]
    /\ topicset' = [topicset EXCEPT ![s] = IF Exists(s) THEN now ELSE @]
    /\ Read(s)
    /\ UNCHANGED <<now, age, members, ops, key, net>>

-----------------------------------------------------------------------------
(* The link *)

\* s dialled and was accepted: it is CONNECTED first, and bursts.
LinkUp(s) ==
    /\ links < MaxLinks
    /\ ~connected /\ up = {} /\ \A t \in Servers : wire[t] = <<>>
    /\ connected' = TRUE /\ up' = {s} /\ links' = links + 1
    /\ wire' = [wire EXCEPT ![Peer(s)] = <<[cmd |-> "BURST"]>> \o Burst(s)]
    /\ UNCHANGED <<now, chan>>

Break ==
    /\ connected
    /\ connected' = FALSE
    /\ UNCHANGED <<now, chan, up, links, wire>>

\* s sees that the connection has gone, and squits the other server: its users
\* quit.  Lines not read by then are lost.
Netsplit(s) ==
    /\ ~connected /\ (s \in up \/ wire[s] # <<>>)
    /\ up' = up \ {s}
    /\ Leave(s, Clients(Peer(s)))
    /\ wire' = [wire EXCEPT ![s] = <<>>]
    /\ UNCHANGED <<now, connected, links>>

Tick ==
    /\ now < MaxTime
    /\ now' = now + 1
    /\ UNCHANGED <<chan, net, wire>>

ClientCommand ==
    \/ \E u \in Users : Join(u) \/ Part(u)
    \/ \E u, v \in Users : Kick(u, v) \/ ChangeStatus(u, v)
    \/ \E u \in Users, k \in Keys : ChangeKey(u, k)
    \/ \E u \in Users, t \in Topics : SetTopic(u, t)

ProcessLine(s) ==
    \/ HearBurst(s)
    \/ ForceJoin(s) \/ ForceStatus(s) \/ ForceKey(s) \/ ForceTopic(s)
    \/ RemoteJoin(s) \/ RemoteLeave(s) \/ RemoteTopic(s)

Next ==
    \/ Tick \/ Break \/ ClientCommand
    \/ \E s \in Servers : ProcessLine(s) \/ LinkUp(s) \/ Netsplit(s)

Spec == Init /\ [][Next]_vars

-----------------------------------------------------------------------------
(* Properties *)

\* The link is up and every line has been read.
Merged == connected /\ up = Servers /\ \A s \in Servers : wire[s] = <<>>

Same(f) == \A s, t \in Servers : f[s] = f[t]

\* Once both servers have read each other's lines they agree on who is on the
\* channel, how old it is and who operates it: the comment in ForceJoin.
MembersAgree == Merged => Same(members)
AgesAgree == Merged => Same(age)
StatusAgree == Merged => Same(ops)

\* cmode_k.cpp: "When TS is equal, the alphabetically later channel key wins".
KeysAgree == Merged => Same(key)

\* And on the topic, unless the two topics were set in the same second.
TopicsAgree == Merged /\ ~Same(topic) => Same(topicset)

\* JoinUser logs "*** BUG ***" when it creates a channel for a remote user "but no
\* TS given": a relayed JOIN finds the channel.
RemoteJoinFindsChannel ==
    \A s \in up : wire[s] # <<>> /\ Head(wire[s]).cmd = "JOIN" => Exists(s)

\* No server keeps a client of the other, or a status, past a netsplit, and
\* there is a channel exactly while somebody is on it.
NoGhosts ==
    \A s \in Servers :
        /\ s \notin up => members[s] \subseteq Clients(s)
        /\ ops[s] \subseteq members[s]
        /\ Exists(s) <=> members[s] # {}

\* Once all lines are read the two halves of the network have the same channel: its age, its operators, its key
\* and, but for topics of one second, its topic.
HalvesAgree == AgesAgree /\ StatusAgree /\ KeysAgree /\ TopicsAgree
\* Once all lines are read the other server has followed every command exactly, and while they were on their way
\* no relayed JOIN found its channel gone.
FollowsExactly == MembersAgree /\ AgesAgree /\ StatusAgree /\ KeysAgree /\ RemoteJoinFindsChannel
\* A split leaves no ghosts behind, and once it is repaired both servers list the same members.
SplitsHeal == MembersAgree /\ NoGhosts
=============================================================================

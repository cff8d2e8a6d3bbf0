------------------------------ MODULE NickSync ------------------------------
(***************************************************************************)
(* Nicknames on two linked servers.  There are no other names for clients: *)
(* NICK, QUIT, KILL and SVSNICK lines name a nickname, and whoever has it  *)
(* when the line is read is meant.                                         *)
(* When two clients take the same nickname, each server finds out by       *)
(* itself and kills both.  Removals wait for the end of the iteration.     *)
(***************************************************************************)
EXTENDS Naturals, Sequences, FiniteSets, SequencesExt

CONSTANTS
    NsServers,      \* two of them
    NsHome,         \* client -> his server; each connects once
    NsNicks,
    NsWire,         \* bound on the lines one way, which holds back clients, operators and services
    NsActs,         \* bound on changes of nickname, quits, KILLs of operators and SVSNICKs of services
    NsSplits        \* bound on broken links

NsClients == DOMAIN NsHome
NsNoNick == "overruled"     \* <fd>-unknown, <fd>-overruled
NsAbsent == "absent"        \* no record
ASSUME NickSyncOK ==
    /\ IsFiniteSet(NsServers) /\ Cardinality(NsServers) = 2
    /\ IsFiniteSet(NsClients) /\ NsHome \in [NsClients -> NsServers]
    /\ {NsNoNick, NsAbsent} \cap NsNicks = {} /\ {NsWire, NsActs, NsSplits} \subseteq Nat

VARIABLES
    ns_nick,        \* server -> client -> userrec::nick there
    ns_culls,       \* server -> GlobalCulls
    ns_reg,         \* registered clients, where they are at home; records of the other server are registered
    ns_new,         \* clients who have not connected yet
    ns_wire,        \* server -> lines it sent that are not read yet
    ns_up,          \* server -> it has the other in its tree
    ns_link,        \* "up", "broken" (not yet noticed by all) or "down"
    ns_left,        \* what is left of the bounds
    ns_hasty        \* history: clients who changed their nickname after they had registered
ns_vars == <<ns_nick, ns_culls, ns_reg, ns_new, ns_wire, ns_up, ns_link, ns_left, ns_hasty>>

NsOther(s) == CHOOSE t \in NsServers : t # s
NsLines == ({"INTRO"} \X NsClients \X NsNicks) \cup ({"NICK", "SVSNICK"} \X NsNicks \X NsNicks)
             \cup ({"QUIT", "KILL"} \X NsNicks) \cup {<<"BURST">>}
NickSyncTypeOK ==
    /\ ns_nick \in [NsServers -> [NsClients -> NsNicks \cup {NsNoNick, NsAbsent}]]
    /\ ns_culls \in [NsServers -> Seq(NsClients)] /\ ns_reg \subseteq NsClients /\ ns_new \subseteq NsClients
    /\ ns_wire \in [NsServers -> Seq(NsLines)] /\ ns_up \in [NsServers -> BOOLEAN]
    /\ ns_link \in {"up", "broken", "down"} /\ ns_left \in [acts : 0 .. NsActs, splits : 0 .. NsSplits]
    /\ ns_hasty \subseteq NsClients
    \* The table has one record for a nickname.
    /\ \A s \in NsServers, c, d \in NsClients : ns_nick[s][c] = ns_nick[s][d] /\ ns_nick[s][c] \in NsNicks => c = d

NickSyncInit ==
    /\ ns_nick = [s \in NsServers |-> [c \in NsClients |-> NsAbsent]]
    /\ ns_culls = [s \in NsServers |-> <<>>] /\ ns_reg = {} /\ ns_new = NsClients
    /\ ns_wire = [s \in NsServers |-> <<>>] /\ ns_up = [s \in NsServers |-> TRUE] /\ ns_link = "up"
    /\ ns_left = [acts |-> NsActs, splits |-> NsSplits] /\ ns_hasty = {}

-----------------------------------------------------------------------------
\* FindNick: registered or not, dying or not.
NsFind(s, n) == {c \in NsClients : ns_nick[s][c] = n}
NsLocal(s, c) == NsHome[c] = s
NsRegistered(s, c) == NsLocal(s, c) => c \in ns_reg
NsDying(s) == ToSet(ns_culls[s])
\* QuitUser, each client once.
NsQueue(s, cs) == ns_culls' = [ns_culls EXCEPT ![s] = @ \o SetToSeq(cs \ ToSet(@))]
NsSent(wire, s, lines) == IF ns_up[s] /\ ns_link = "up" THEN [wire EXCEPT ![s] = @ \o lines] ELSE wire
NsRead(s) == [ns_wire EXCEPT ![NsOther(s)] = Tail(@)]
NsTold(s, line) == ns_wire' = NsSent(NsRead(s), s, line)

\* The change itself in cmd_nick; who is still connecting with the nickname is overruled.
NsRename(s, c, n) ==
    /\ ns_hasty' = ns_hasty \cup {d \in {c} : NsLocal(s, d) /\ d \in ns_reg}
    /\ ns_nick' = [ns_nick EXCEPT ![s] = [d \in NsClients |->
                   IF d = c THEN n ELSE IF @[d] = n THEN NsNoNick ELSE @[d]]]
NsTaken(s, c, n) == \E d \in NsFind(s, n) \ {c} : NsRegistered(s, d)
\* OnUserPostNick, for a local client who is registered.
NsChanged(s, c, n) == IF NsLocal(s, c) /\ c \in ns_reg THEN <<<<"NICK", ns_nick[s][c], n>>>> ELSE <<>>
\* A client, operator or service acts only while there is room on the wire.
NsRoom(s) == Len(ns_wire[s]) < NsWire
NsAct == ns_left.acts > 0 /\ ns_left' = [ns_left EXCEPT !.acts = @ - 1]

-----------------------------------------------------------------------------
(* What happens on one server *)

\* A new client chooses a nickname, or a connected one another.
NsNick(s, c, n) ==
    /\ NsLocal(s, c) /\ NsRoom(s) /\ c \notin NsDying(s) /\ ~NsTaken(s, c, n) /\ ns_nick[s][c] # n
    /\ IF ns_nick[s][c] = NsAbsent THEN c \in ns_new /\ UNCHANGED ns_left ELSE NsAct
    /\ NsRename(s, c, n) /\ ns_new' = ns_new \ {c}
    /\ ns_wire' = NsSent(ns_wire, s, NsChanged(s, c, n))
    /\ UNCHANGED <<ns_culls, ns_reg, ns_up, ns_link>>
\* FullConnect and OnUserConnect.
NsRegister(s, c) ==
    /\ NsLocal(s, c) /\ NsRoom(s) /\ c \notin NsDying(s) \cup ns_reg /\ ns_nick[s][c] \in NsNicks
    /\ ns_reg' = ns_reg \cup {c} /\ ns_wire' = NsSent(ns_wire, s, <<<<"INTRO", c, ns_nick[s][c]>>>>)
    /\ UNCHANGED <<ns_nick, ns_culls, ns_new, ns_up, ns_link, ns_left, ns_hasty>>
NsQuit(s, c) ==
    /\ NsLocal(s, c) /\ NsRoom(s) /\ ns_nick[s][c] # NsAbsent /\ c \notin NsDying(s) /\ NsQueue(s, {c}) /\ NsAct
    /\ UNCHANGED <<ns_nick, ns_reg, ns_new, ns_wire, ns_up, ns_link, ns_hasty>>

\* cmd_kill and OnRemoteKill.
NsKilled(s, n) == IF \E c \in NsFind(s, n) : ~NsLocal(s, c) THEN <<<<"KILL", n>>>> ELSE <<>>
NsKill(s, n) ==
    /\ NsRoom(s) /\ NsFind(s, n) # {} /\ NsAct
    /\ NsQueue(s, NsFind(s, n)) /\ ns_wire' = NsSent(ns_wire, s, NsKilled(s, n))
    /\ UNCHANGED <<ns_nick, ns_reg, ns_new, ns_up, ns_link, ns_hasty>>
\* A service behind s changes the nickname of a client of the other server.
NsService(s, n, m) ==
    /\ NsAct /\ NsRoom(s) /\ m # n /\ \E c \in NsFind(s, n) : ~NsLocal(s, c)
    /\ ns_wire' = NsSent(ns_wire, s, <<<<"SVSNICK", n, m>>>>)
    /\ UNCHANGED <<ns_nick, ns_culls, ns_reg, ns_new, ns_up, ns_link, ns_hasty>>

\* CullList::Apply: QUIT goes out for registered clients of this server, in any order.
NsQuits(s) == SetToSeq({<<"QUIT", ns_nick[s][c]>> : c \in {d \in NsDying(s) \cap ns_reg : NsLocal(s, d)}})
NsApply(s) ==
    /\ ns_culls[s] # <<>> /\ ns_wire' = NsSent(ns_wire, s, NsQuits(s))
    /\ ns_nick' = [ns_nick EXCEPT ![s] = [c \in NsClients |-> IF c \in NsDying(s) THEN NsAbsent ELSE @[c]]]
    /\ ns_culls' = [ns_culls EXCEPT ![s] = <<>>] /\ ns_reg' = ns_reg \ {c \in NsDying(s) : NsLocal(s, c)}
    /\ UNCHANGED <<ns_new, ns_up, ns_link, ns_left, ns_hasty>>

-----------------------------------------------------------------------------
(* Lines of the other server *)

NsReads(s, command) ==
    /\ ns_up[s] \/ command = "BURST"
    /\ ns_wire[NsOther(s)] # <<>> /\ Head(ns_wire[NsOther(s)])[1] = command
NsLine(s) == Head(ns_wire[NsOther(s)])

\* IntroduceClient: whoever has the nickname here is killed, and so is the new one where he is.
NsIntroduce(s) ==
    LET c == NsLine(s)[2]  n == NsLine(s)[3] IN
    /\ NsReads(s, "INTRO")
    /\ IF NsFind(s, n) # {}
       THEN NsTold(s, <<<<"KILL", n>>>>) /\ NsQueue(s, NsFind(s, n)) /\ UNCHANGED ns_nick
       ELSE ns_wire' = NsRead(s) /\ ns_nick' = [ns_nick EXCEPT ![s][c] = n] /\ UNCHANGED ns_culls
    /\ UNCHANGED <<ns_reg, ns_new, ns_up, ns_link, ns_left, ns_hasty>>

\* The client of the other server the line comes from; the line of anybody else comes from a wrong direction.
NsSender_any(s, n) == NsFind(s, n)  \* mutant
NsSender(s, n) == {c \in NsFind(s, n) : ~NsLocal(s, c)}
\* NICK: if the new one is taken, both are killed on all servers.
NsReadNick(s) ==
    LET old == NsLine(s)[2]  new == NsLine(s)[3]  who == NsSender(s, old)  x == NsFind(s, new) IN
    /\ NsReads(s, "NICK")
    /\ IF who = {} THEN ns_wire' = NsRead(s) /\ UNCHANGED <<ns_culls, ns_nick, ns_hasty>>
       ELSE IF x # {}
       THEN NsTold(s, <<<<"KILL", new>>, <<"KILL", old>>>>) /\ NsQueue(s, x \cup who) /\ UNCHANGED <<ns_nick, ns_hasty>>
       ELSE \E c \in who : ns_wire' = NsRead(s) /\ NsRename(s, c, new) /\ UNCHANGED ns_culls
    /\ UNCHANGED <<ns_reg, ns_new, ns_up, ns_link, ns_left>>

NsReadQuit(s) ==
    /\ NsReads(s, "QUIT") /\ ns_wire' = NsRead(s) /\ NsQueue(s, NsSender(s, NsLine(s)[2]))
    /\ UNCHANGED <<ns_nick, ns_reg, ns_new, ns_up, ns_link, ns_left, ns_hasty>>
\* By a server or an operator.  An operator's is sent back, and thrown away there as from a wrong direction.
NsReadKill(s) ==
    /\ NsReads(s, "KILL") /\ ns_wire' = NsRead(s) /\ NsQueue(s, NsFind(s, NsLine(s)[2]))
    /\ UNCHANGED <<ns_nick, ns_reg, ns_new, ns_up, ns_link, ns_left, ns_hasty>>
\* SVSNICK: a local client who cannot be changed is removed.
NsForceNick(s) ==
    LET new == NsLine(s)[3]  who == {c \in NsFind(s, NsLine(s)[2]) : NsLocal(s, c)} IN
    /\ NsReads(s, "SVSNICK")
    /\ \/ who = {} /\ ns_wire' = NsRead(s) /\ UNCHANGED <<ns_culls, ns_nick, ns_hasty>>
       \/ \E c \in who :
            IF c \in ns_reg /\ ~NsTaken(s, c, new)
            THEN NsTold(s, NsChanged(s, c, new)) /\ NsRename(s, c, new) /\ UNCHANGED ns_culls
            ELSE ns_wire' = NsRead(s) /\ NsQueue(s, {c}) /\ UNCHANGED <<ns_nick, ns_hasty>>
    /\ UNCHANGED <<ns_reg, ns_new, ns_up, ns_link, ns_left>>

-----------------------------------------------------------------------------
(* The link *)

NsBreak ==
    /\ ns_link = "up" /\ ns_left.splits > 0 /\ ns_link' = "broken" /\ ns_left' = [ns_left EXCEPT !.splits = @ - 1]
    /\ UNCHANGED <<ns_nick, ns_culls, ns_reg, ns_new, ns_wire, ns_up, ns_hasty>>
\* QuitUsers of the TreeServer; what was not read is lost.
NsNotice(s) ==
    /\ ns_link = "broken" /\ ns_up[s]
    /\ NsQueue(s, {c \in NsClients : ~NsLocal(s, c) /\ ns_nick[s][c] # NsAbsent})
    /\ ns_up' = [ns_up EXCEPT ![s] = FALSE]
    /\ ns_link' = IF ns_up[NsOther(s)] THEN "broken" ELSE "down"
    /\ ns_wire' = IF ns_up[NsOther(s)] THEN [ns_wire EXCEPT ![NsOther(s)] = <<>>] ELSE [t \in NsServers |-> <<>>]
    /\ UNCHANGED <<ns_nick, ns_reg, ns_new, ns_left, ns_hasty>>
\* SendUsers, in any order; the culls of the split have been applied by then.
NsUsers(s) == SetToSeq({<<"INTRO", c, ns_nick[s][c]>> : c \in {d \in ns_reg : NsLocal(s, d)}})
NsTidy(s) == \A c \in NsClients : NsLocal(s, c) \/ ns_nick[s][c] = NsAbsent
NsLinkUp(s) ==
    /\ ns_link = "down" /\ NsTidy(s) /\ NsTidy(NsOther(s)) /\ ns_link' = "up" /\ ns_up' = [ns_up EXCEPT ![s] = TRUE]
    /\ ns_wire' = [ns_wire EXCEPT ![s] = <<<<"BURST">>>> \o NsUsers(s)]
    /\ UNCHANGED <<ns_nick, ns_culls, ns_reg, ns_new, ns_left, ns_hasty>>
NsBurst(s) ==
    /\ NsReads(s, "BURST") /\ ns_link = "up" /\ ns_up' = [ns_up EXCEPT ![s] = TRUE]
    /\ ns_wire' = [NsRead(s) EXCEPT ![s] = @ \o NsUsers(s)]
    /\ UNCHANGED <<ns_nick, ns_culls, ns_reg, ns_new, ns_link, ns_left, ns_hasty>>

NickSyncNext ==
    \/ \E s \in NsServers, c \in NsClients : NsRegister(s, c) \/ NsQuit(s, c) \/ \E n \in NsNicks : NsNick(s, c, n)
    \/ \E s \in NsServers, n \in NsNicks : NsKill(s, n) \/ \E m \in NsNicks : NsService(s, n, m)
    \/ \E s \in NsServers :
          \/ NsApply(s) \/ NsIntroduce(s) \/ NsReadNick(s) \/ NsReadQuit(s) \/ NsReadKill(s) \/ NsForceNick(s)
          \/ NsNotice(s) \/ NsLinkUp(s) \/ NsBurst(s)
    \/ NsBreak
NickSyncSpec == NickSyncInit /\ [][NickSyncNext]_ns_vars

-----------------------------------------------------------------------------
\* When everything has been read and removed, both servers have the same clients under the same nicknames, however
\* nicknames crossed and changed hands and whoever was killed for it.  Only a client who has changed his nickname may be
\* unknown on the other server: he survives a KILL that names the nickname he had.
NsQuiet ==
    /\ ns_link = "up" /\ \A s \in NsServers : ns_up[s] /\ ns_wire[s] = <<>> /\ ns_culls[s] = <<>>
NsAgree ==
    NsQuiet => \A c \in NsClients :
        LET there == ns_nick[NsOther(NsHome[c])][c]
        IN \/ there = (IF c \in ns_reg THEN ns_nick[NsHome[c]][c] ELSE NsAbsent)
           \/ there = NsAbsent /\ c \in ns_hasty
=============================================================================

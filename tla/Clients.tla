------------------------------- MODULE Clients -------------------------------
(***************************************************************************)
(* The client records of one server (users.cpp) and the four places that   *)
(* know them: the nickname table InspIRCd::clientlist, the vector of local *)
(* clients, the clone counters per address and the count of clients that   *)
(* have not completed registration.  A client is found by its nickname     *)
(* everywhere, its removal from the cull list included, so the table has   *)
(* to be exact; the counters are kept by hand.                             *)
(*                                                                         *)
(* One iteration of the main loop is: background checks, socket events,    *)
(* GlobalCulls.Apply.  Clients are local (one descriptor each) or remote   *)
(* (introduced by a NICK line of another server, FD_MAGIC_NUMBER).         *)
(***************************************************************************)
EXTENDS Naturals, Sequences, FiniteSets

CONSTANTS
    ClLocal,        \* clients of this server: one per descriptor
    ClRemote,       \* clients of other servers
    ClIp,           \* the address of each client
    ClNicks,        \* nicknames (InspIRCd::IsNick)
    ClNone,         \* no client
    ClMaxLocal      \* ConnectClass::maxlocal, 0 for none

ClClients == ClLocal \cup ClRemote
ClIps == {ClIp[c] : c \in ClClients}
\* "<fd>-unknown" and "<fd>-overruled" start with a digit: no client can choose them.
ClUnknown(c) == <<c, "unknown">>
ClOverruled(c) == <<c, "overruled">>
ClNames == ClNicks \cup (ClLocal \X {"unknown", "overruled"})

ASSUME ClientsOK ==
    /\ ClLocal \cap ClRemote = {}
    /\ IsFiniteSet(ClLocal) /\ IsFiniteSet(ClRemote)
    /\ DOMAIN ClIp = ClClients
    /\ ClNone \notin ClClients
    /\ ClNicks \cap (ClLocal \X {"unknown", "overruled"}) = {}
    /\ ClMaxLocal \in Nat

VARIABLES
    cl_phase,       \* where the main loop is
    cl_alive,       \* userrecs that exist
    cl_nick,        \* userrec::nick
    cl_reg,         \* userrec::registered, as its bits
    cl_table,       \* InspIRCd::clientlist
    cl_locals,      \* InspIRCd::local_users
    cl_unreg,       \* InspIRCd::unregistered_count
    cl_local,       \* InspIRCd::local_clones
    cl_global,      \* InspIRCd::global_clones
    cl_culls        \* GlobalCulls.list, the same as GlobalCulls.exempt

cl_counters == <<cl_unreg, cl_local, cl_global>>
cl_vars == <<cl_phase, cl_alive, cl_nick, cl_reg, cl_table, cl_locals, cl_counters, cl_culls>>

ClAll == {"USER", "NICK", "DONE"}   \* REG_ALL = 7

ClientsTypeOK ==
    /\ cl_phase \in {"background", "events", "cull"}
    /\ cl_alive \subseteq ClClients
    /\ cl_nick \in [ClClients -> ClNames \cup {ClNone}]
    /\ cl_reg \in [ClClients -> SUBSET ClAll]
    /\ cl_table \in [ClNames -> ClClients \cup {ClNone}]
    /\ cl_locals \subseteq ClLocal
    /\ cl_unreg \in Nat
    /\ cl_local \in [ClIps -> Nat] /\ cl_global \in [ClIps -> Nat]
    /\ cl_culls \in Seq(ClClients)

ClientsInit ==
    /\ cl_phase = "background"
    /\ cl_alive = {}
    /\ cl_nick = [c \in ClClients |-> ClNone]
    /\ cl_reg = [c \in ClClients |-> {}]
    /\ cl_table = [n \in ClNames |-> ClNone]
    /\ cl_locals = {}
    /\ cl_unreg = 0
    /\ cl_local = [i \in ClIps |-> 0] /\ cl_global = [i \in ClIps |-> 0]
    /\ cl_culls = <<>>

-----------------------------------------------------------------------------
(* Helpers *)

ClQueued == {cl_culls[k] : k \in DOMAIN cl_culls}
ClRegistered(c) == cl_reg[c] = ClAll

\* CullList::AddItem, one item per client.
ClAddItem(culls, c) ==
    IF \E k \in DOMAIN culls : culls[k] = c THEN culls ELSE Append(culls, c)

ClAddClone(counts, c) == [counts EXCEPT ![ClIp[c]] = @ + 1]
\* A count of zero is erased; an address without a count is left alone.
ClDropClone(counts, c) == [counts EXCEPT ![ClIp[c]] = IF @ = 0 THEN 0 ELSE @ - 1]

\* userrec::RemoveCloneCounts, called by the destructor of any userrec with an
\* address: both counters, whether the client is local or not.
ClRemoveCloneCounts(c) ==
    /\ cl_local' = ClDropClone(cl_local, c)
    /\ cl_global' = ClDropClone(cl_global, c)

\* CheckClass: the clone limit of the connection class, this client included.
ClTooMany(counts, c) == ClMaxLocal # 0 /\ counts[ClIp[c]] > ClMaxLocal

\* UpdateNickHash and the assignment to nick that follows it everywhere.
ClRename_keeps(c, n) ==  \* mutant: the old entry stays
    /\ cl_table' = [cl_table EXCEPT ![n] = c]
    /\ cl_nick' = [cl_nick EXCEPT ![c] = n]
ClRename(c, n) ==
    /\ cl_table' = [cl_table EXCEPT ![cl_nick[c]] = ClNone, ![n] = c]
    /\ cl_nick' = [cl_nick EXCEPT ![c] = n]

-----------------------------------------------------------------------------
(* Background: DoBackgroundUserStuff and timers *)

\* FullConnect.  CheckClass may queue the client, and then the rest goes on;
\* a password or a G- or K-line ends it here.
ClFullConnect(c) ==
    /\ cl_phase = "background"
    /\ c \in cl_locals /\ cl_reg[c] = {"USER", "NICK"}
    /\ \E refused \in BOOLEAN :
         /\ cl_culls' = IF refused \/ ClTooMany(cl_local, c) THEN ClAddItem(cl_culls, c)
                        ELSE cl_culls
         /\ cl_reg' = IF refused THEN cl_reg ELSE [cl_reg EXCEPT ![c] = ClAll]
         /\ cl_unreg' = IF refused \/ cl_unreg = 0 THEN cl_unreg ELSE cl_unreg - 1
    /\ UNCHANGED <<cl_phase, cl_alive, cl_nick, cl_table, cl_locals, cl_local, cl_global>>

\* A registration or ping timeout, or a timer of a module.
ClTimeout(c) ==
    /\ cl_phase = "background"
    /\ c \in cl_locals
    /\ cl_culls' = ClAddItem(cl_culls, c)
    /\ UNCHANGED <<cl_phase, cl_alive, cl_nick, cl_reg, cl_table, cl_locals, cl_counters>>

ClBackgroundDone ==
    /\ cl_phase = "background"
    /\ cl_phase' = "events"
    /\ UNCHANGED <<cl_alive, cl_nick, cl_reg, cl_table, cl_locals, cl_counters, cl_culls>>

-----------------------------------------------------------------------------
(* Socket events of local clients *)

\* AddClient.  "noclass": no connection class matches, and the client is queued
\* before it is a local user.  "refused": deny class, soft limit, Z-line.
ClConnect(c) ==
    /\ cl_phase = "events"
    /\ c \in ClLocal \ cl_alive
    /\ LET goner == cl_table[ClUnknown(c)]
           counted == ClAddClone(cl_local, c) IN
       \E verdict \in {"ok", "noclass", "refused"} :
         /\ cl_alive' = (cl_alive \ {goner}) \cup {c}
         /\ cl_nick' = [cl_nick EXCEPT ![c] = ClUnknown(c)]
         /\ cl_table' = [cl_table EXCEPT ![ClUnknown(c)] = c]
         /\ cl_reg' = [cl_reg EXCEPT ![c] = {}]
         /\ cl_unreg' = cl_unreg + 1
         /\ cl_local' = IF goner = ClNone THEN counted ELSE ClDropClone(counted, goner)
         /\ cl_global' = IF goner = ClNone THEN ClAddClone(cl_global, c)
                         ELSE ClDropClone(ClAddClone(cl_global, c), goner)
         /\ cl_locals' = IF verdict = "noclass" THEN cl_locals ELSE cl_locals \cup {c}
         /\ cl_culls' = IF verdict # "ok" \/ ClTooMany(counted, c) THEN ClAddItem(cl_culls, c)
                        ELSE cl_culls
    /\ UNCHANGED cl_phase

\* A client that is muted (queued) has its lines dropped by ProcessBuffer.
ClSpeaks(c) == cl_phase = "events" /\ c \in cl_locals \ ClQueued

\* USER.
ClUser(c) ==
    /\ ClSpeaks(c)
    /\ "USER" \notin cl_reg[c]
    /\ cl_reg' = [cl_reg EXCEPT ![c] = @ \cup {"USER"}]
    /\ UNCHANGED <<cl_phase, cl_alive, cl_nick, cl_table, cl_locals, cl_counters, cl_culls>>

\* NICK to a nickname nobody has.
ClNick(c, n) ==
    /\ ClSpeaks(c)
    /\ cl_table[n] = ClNone
    /\ ClRename(c, n)
    /\ cl_reg' = [cl_reg EXCEPT ![c] = @ \cup {"NICK"}]
    /\ UNCHANGED <<cl_phase, cl_alive, cl_locals, cl_counters, cl_culls>>

\* NICK to one that a client still connecting has taken: that one is renamed
\* and loses REG_NICK.
ClOverrule_keepsbit(c, n) ==  \* mutant: REG_NICK is not taken away
    LET old == cl_table[n] IN
    /\ ClSpeaks(c)
    /\ old \notin {ClNone, c} /\ ~ClRegistered(old)
    /\ cl_table' = [cl_table EXCEPT ![cl_nick[c]] = ClNone, ![ClOverruled(old)] = old, ![n] = c]
    /\ cl_nick' = [cl_nick EXCEPT ![old] = ClOverruled(old), ![c] = n]
    /\ cl_reg' = [cl_reg EXCEPT ![c] = @ \cup {"NICK"}]
    /\ UNCHANGED <<cl_phase, cl_alive, cl_locals, cl_counters, cl_culls>>
ClOverrule(c, n) ==
    LET old == cl_table[n] IN
    /\ ClSpeaks(c)
    /\ old \notin {ClNone, c} /\ ~ClRegistered(old)
    /\ cl_table' = [cl_table EXCEPT ![cl_nick[c]] = ClNone, ![ClOverruled(old)] = old, ![n] = c]
    /\ cl_nick' = [cl_nick EXCEPT ![old] = ClOverruled(old), ![c] = n]
    /\ cl_reg' = [cl_reg EXCEPT ![old] = @ \ {"NICK"}, ![c] = @ \cup {"NICK"}]
    /\ UNCHANGED <<cl_phase, cl_alive, cl_locals, cl_counters, cl_culls>>

\* QUIT, KILL, a write error, a remote QUIT: the client is queued.
ClQuit(c) ==
    /\ cl_phase = "events"
    /\ c \in cl_alive
    /\ cl_culls' = ClAddItem(cl_culls, c)
    /\ UNCHANGED <<cl_phase, cl_alive, cl_nick, cl_reg, cl_table, cl_locals, cl_counters>>

-----------------------------------------------------------------------------
(* Lines from other servers *)

ClIntroduce(r, n) ==
    /\ cl_phase = "events"
    /\ r \in ClRemote \ cl_alive
    /\ IF cl_table[n] # ClNone
       THEN /\ cl_culls' = ClAddItem(cl_culls, cl_table[n])
            /\ UNCHANGED <<cl_alive, cl_nick, cl_reg, cl_table, cl_global>>
       ELSE /\ cl_alive' = cl_alive \cup {r}
            /\ cl_table' = [cl_table EXCEPT ![n] = r]
            /\ cl_nick' = [cl_nick EXCEPT ![r] = n]
            /\ cl_reg' = [cl_reg EXCEPT ![r] = ClAll]
            /\ cl_global' = ClAddClone(cl_global, r)
            /\ UNCHANGED cl_culls
    /\ UNCHANGED <<cl_phase, cl_locals, cl_unreg, cl_local>>

\* A relayed NICK: both clients are removed when the nickname is taken.
ClRemoteNick(r, n) ==
    /\ cl_phase = "events"
    /\ r \in ClRemote \cap cl_alive /\ cl_nick[r] # n
    /\ IF cl_table[n] # ClNone
       THEN /\ cl_culls' = ClAddItem(ClAddItem(cl_culls, cl_table[n]), r)
            /\ UNCHANGED <<cl_nick, cl_table>>
       ELSE ClRename(r, n) /\ UNCHANGED cl_culls
    /\ UNCHANGED <<cl_phase, cl_alive, cl_reg, cl_locals, cl_counters>>

\* SVSNICK: ForceNickChange of a local client, who is removed when it fails (a
\* Q-line or a module forbids it, the nickname is taken, he is not registered).
ClForceNick(c, n) ==
    /\ cl_phase = "events"
    /\ c \in cl_alive \cap ClLocal /\ cl_nick[c] # n
    /\ \E forbidden \in BOOLEAN :
         LET old == cl_table[n]
             fails == forbidden \/ ~ClRegistered(c)
                        \/ (old # ClNone /\ ClRegistered(old)) IN
         IF fails
         THEN /\ cl_culls' = ClAddItem(cl_culls, c)
              /\ UNCHANGED <<cl_nick, cl_table, cl_reg>>
         ELSE /\ IF old = ClNone
                 THEN ClRename(c, n) /\ UNCHANGED cl_reg
                 ELSE /\ cl_table' = [cl_table EXCEPT ![cl_nick[c]] = ClNone,
                                          ![ClOverruled(old)] = old, ![n] = c]
                      /\ cl_nick' = [cl_nick EXCEPT ![old] = ClOverruled(old), ![c] = n]
                      /\ cl_reg' = [cl_reg EXCEPT ![old] = @ \ {"NICK"}]
              /\ UNCHANGED cl_culls
    /\ UNCHANGED <<cl_phase, cl_alive, cl_locals, cl_counters>>

ClEventsDone ==
    /\ cl_phase = "events"
    /\ cl_phase' = "cull"
    /\ UNCHANGED <<cl_alive, cl_nick, cl_reg, cl_table, cl_locals, cl_counters, cl_culls>>

-----------------------------------------------------------------------------
(* CullList::Apply, one item per step *)

\* The record is only freed when its nickname is in the table.
ClApply(c) ==
    LET found == cl_table[cl_nick[c]] # ClNone IN
    /\ cl_phase = "cull"
    /\ cl_culls # <<>> /\ c = Head(cl_culls)
    /\ cl_culls' = Tail(cl_culls)
    /\ cl_unreg' = IF ClRegistered(c) \/ cl_unreg = 0 THEN cl_unreg ELSE cl_unreg - 1
    /\ IF found
       THEN /\ cl_locals' = cl_locals \ {c}
            /\ cl_table' = [cl_table EXCEPT ![cl_nick[c]] = ClNone]
            /\ cl_alive' = cl_alive \ {c}
            /\ cl_nick' = [cl_nick EXCEPT ![c] = ClNone]
            /\ cl_reg' = [cl_reg EXCEPT ![c] = {}]
            /\ ClRemoveCloneCounts(c)
       ELSE UNCHANGED <<cl_locals, cl_table, cl_alive, cl_nick, cl_reg, cl_local, cl_global>>
    /\ UNCHANGED cl_phase

ClApplyDone ==
    /\ cl_phase = "cull" /\ cl_culls = <<>>
    /\ cl_phase' = "background"
    /\ UNCHANGED <<cl_alive, cl_nick, cl_reg, cl_table, cl_locals, cl_counters, cl_culls>>

ClientsNext ==
    \/ \E c \in ClClients :
         ClFullConnect(c) \/ ClTimeout(c) \/ ClConnect(c) \/ ClUser(c) \/ ClQuit(c) \/ ClApply(c)
    \/ \E c \in ClClients, n \in ClNicks :
         \/ ClNick(c, n) \/ ClOverrule(c, n) \/ ClForceNick(c, n)
         \/ ClIntroduce(c, n) \/ ClRemoteNick(c, n)
    \/ ClBackgroundDone \/ ClEventsDone \/ ClApplyDone

ClientsSpec == ClientsInit /\ [][ClientsNext]_cl_vars
\* The main loop goes on: no phase lasts for ever.
ClientsFair ==
    /\ WF_cl_vars(ClBackgroundDone) /\ WF_cl_vars(ClEventsDone) /\ WF_cl_vars(ClApplyDone)
    /\ \A c \in ClClients : WF_cl_vars(ClApply(c))
ClientsFairSpec == ClientsSpec /\ ClientsFair

-----------------------------------------------------------------------------
(* Properties *)

\* Every userrec is in the nickname table under its own nickname, and the table
\* names no other record: neither overruling nor a collision, a forced change or
\* a removal by name orphans a client or frees one twice.
NickTableExact ==
    /\ \A c \in cl_alive : cl_table[cl_nick[c]] = c
    /\ \A n \in ClNames : cl_table[n] # ClNone =>
         cl_table[n] \in cl_alive /\ cl_nick[cl_table[n]] = n

\* unregistered_count, kept by AddClient, FullConnect and Apply, is the number
\* of clients that are not registered (LUSERS subtracts it).
UnregisteredCounted ==
    cl_unreg = Cardinality({c \in cl_alive : ~ClRegistered(c)})

\* A registered client has a nickname it chose: an overruled one has to send
\* NICK again, also when it had sent everything else.
RegisteredHasNick ==
    \A c \in cl_alive : ClRegistered(c) => cl_nick[c] \in ClNicks

\* The counter CheckClass compares with the global limit is exact.
GlobalClonesCounted ==
    \A i \in ClIps : cl_global[i] = Cardinality({c \in cl_alive : ClIp[c] = i})

\* userrec::LocalCloneCount "return[s] the number of local clones of this user"
\* (users.h:828): the counter that CheckClass compares with the local limit never says
\* more than that.
LocalClonesNeverMore ==
    \A i \in ClIps : cl_local[i] <= Cardinality({c \in cl_alive \cap ClLocal : ClIp[c] = i})

\* The queue names records that exist, each once: Apply frees none twice.
CullsExistOnce ==
    /\ ClQueued \subseteq cl_alive
    /\ Cardinality(ClQueued) = Len(cl_culls)

\* A record is freed only by Apply: AddClient never finds a "dead socket" to
\* delete under the temporary nickname of a new connection.
FreedOnlyByApply == [][cl_alive \ cl_alive' # {} => cl_phase = "cull"]_cl_vars

\* The tables and counters are exact after any sequence of registrations, nickname changes, refusals and quits:
\* a nickname leads to its one record, whoever is registered has one, the numbers of unregistered clients and of
\* clones are those of the clients there, the queue of those who quit holds each once, and only it frees them.
ClientsExact ==
    /\ [](NickTableExact /\ RegisteredHasNick /\ UnregisteredCounted)
    /\ [](GlobalClonesCounted /\ LocalClonesNeverMore /\ CullsExistOnce)
    /\ FreedOnlyByApply
=============================================================================

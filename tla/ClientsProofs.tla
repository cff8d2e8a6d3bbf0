---------------------------- MODULE ClientsProofs ----------------------------
(***************************************************************************)
(* Clients for any clients, addresses and nicknames: the nickname table, the*)
(* counters of clones and of the unregistered, and the queue of those who  *)
(* are to be deleted. The invariant is ClKept /\ ClCounted: which nickname a*)
(* client may have in which state of its registration, and the counters as *)
(* the sizes of the sets they count.                                       *)
(*                                                                         *)
(* Then the two MODE handlers. MoKeepsUp says that the lines on their way, *)
(* put on the other server's channel one after another, give the channel as*)
(* it is here: MoTrail keeps what the channel was when each was announced. *)
(* UmKeepsUp says the same of a user's modes, where a line may also        *)
(* introduce the user or tell that he left, and a split and a burst may    *)
(* come between: UmLeads is the trail of what a server knew.               *)
(***************************************************************************)
EXTENDS Clients, ChannelModes, UserModes, DataFacts, SequenceTheorems, FiniteSetTheorems, TLAPS

\* Each client is queued once.
ClOnce == \A i, j \in DOMAIN cl_culls : cl_culls[i] = cl_culls[j] => i = j

\* What keeps the nickname table exact: a client made by AddClient or overruled has a nickname nobody can choose,
\* a registration that is complete stays so, and the queue and the vector of local users hold records that exist.
ClKept ==
    /\ ClientsTypeOK
    /\ NickTableExact
    /\ \A c \in cl_alive :
          /\ cl_nick[c] \in ClNames
          /\ cl_nick[c] \in ClNicks \cup {ClUnknown(c), ClOverruled(c)}
          /\ "NICK" \in cl_reg[c] => cl_nick[c] \in ClNicks
          /\ "DONE" \in cl_reg[c] => cl_reg[c] = ClAll
          /\ c \in ClRemote => cl_reg[c] = ClAll
    /\ cl_locals \subseteq cl_alive
    /\ ClQueued \subseteq cl_alive
    /\ ClOnce

ClUnreg == {c \in cl_alive : ~ClRegistered(c)}
ClOfIp(i) == {c \in cl_alive : ClIp[c] = i}
ClLocalOfIp(i) == {c \in cl_alive \cap ClLocal : ClIp[c] = i}
ClCounted == UnregisteredCounted /\ GlobalClonesCounted /\ LocalClonesNeverMore

-----------------------------------------------------------------------------
(* The queue *)

\* CullList::AddItem keeps the queue a sequence of records that exist, each once.
LEMMA ClAddItemOnce ==
    ASSUME NEW culls \in Seq(ClClients), NEW c \in ClClients,
           \A i, j \in DOMAIN culls : culls[i] = culls[j] => i = j
    PROVE  /\ ClAddItem(culls, c) \in Seq(ClClients)
           /\ \A i, j \in DOMAIN ClAddItem(culls, c) : ClAddItem(culls, c)[i] = ClAddItem(culls, c)[j] => i = j
           /\ \A k \in DOMAIN ClAddItem(culls, c) :
                 ClAddItem(culls, c)[k] \in {culls[j] : j \in DOMAIN culls} \cup {c}
  <1>1. CASE \E k \in DOMAIN culls : culls[k] = c
    BY <1>1 DEF ClAddItem
  <1>2. CASE \A k \in DOMAIN culls : culls[k] # c
    <2> DEFINE more == Append(culls, c)
    <2>1. ClAddItem(culls, c) = more
      BY <1>2 DEF ClAddItem
    <2>2. /\ more \in Seq(ClClients) /\ Len(more) = Len(culls) + 1
          /\ \A i \in 1 .. Len(culls) : more[i] = culls[i]
          /\ more[Len(culls) + 1] = c
      BY AppendProperties
    <2>3. Len(culls) \in Nat /\ DOMAIN culls = 1 .. Len(culls) /\ DOMAIN more = 1 .. Len(culls) + 1
      BY <2>2, LenProperties
    <2> HIDE DEF more
    <2>4. \A i \in DOMAIN more : i = Len(culls) + 1 \/ i \in DOMAIN culls
      BY <2>3
    <2>5. \A i, j \in DOMAIN more : more[i] = more[j] => i = j
      BY <1>2, <2>2, <2>3, <2>4
    <2>6. \A k \in DOMAIN more : more[k] \in {culls[j] : j \in DOMAIN culls} \cup {c}
      BY <2>2, <2>3, <2>4
    <2> QED BY <2>1, <2>2, <2>5, <2>6
  <1> QED BY <1>1, <1>2

\* The same of the queue itself: whoever is queued exists.
LEMMA ClQueues ==
    ASSUME ClKept, NEW c \in ClClients, cl_culls' \in {cl_culls, ClAddItem(cl_culls, c)}
    PROVE  cl_culls' \in Seq(ClClients) /\ ClOnce' /\ ClQueued' \subseteq ClQueued \cup {c}
  <1>1. CASE cl_culls' = cl_culls
    BY <1>1 DEF ClKept, ClientsTypeOK, ClOnce, ClQueued
  <1>2. CASE cl_culls' = ClAddItem(cl_culls, c)
    BY <1>2, ClAddItemOnce DEF ClKept, ClientsTypeOK, ClOnce, ClQueued
  <1> QED BY <1>1, <1>2

\* A queue without repetitions is as long as the set of those queued is large.
LEMMA ClQueueLength ==
    ASSUME cl_culls \in Seq(ClClients), ClOnce
    PROVE  Cardinality(ClQueued) = Len(cl_culls)
  <1>1. Len(cl_culls) \in Nat /\ DOMAIN cl_culls = 1 .. Len(cl_culls)
    BY LenProperties
  <1>2. cl_culls \in Bijection(1 .. Len(cl_culls), ClQueued)
    BY <1>1 DEF Bijection, Injection, Surjection, IsInjective, ClOnce, ClQueued
  <1>3. IsFiniteSet(1 .. Len(cl_culls)) /\ Cardinality(1 .. Len(cl_culls)) = Len(cl_culls)
    BY <1>1, FS_Interval
  <1> QED BY <1>2, <1>3, FS_Bijection DEF ExistsBijection
-----------------------------------------------------------------------------
(* The nickname table *)

\* A temporary nickname leads to nobody but its own client.
LEMMA ClOwnName ==
    ASSUME ClKept, NEW c \in ClLocal, NEW n \in {ClUnknown(c), ClOverruled(c)}, cl_table[n] # ClNone
    PROVE  cl_table[n] = c /\ c \in cl_alive /\ cl_nick[c] = n
  <1>1. n \in ClNames /\ n \notin ClNicks
    BY ClientsOK DEF ClNames, ClUnknown, ClOverruled
  <1>2. cl_table[n] \in cl_alive /\ cl_nick[cl_table[n]] = n
    BY <1>1 DEF ClKept, NickTableExact
  <1>3. n \in {ClUnknown(cl_table[n]), ClOverruled(cl_table[n])}
    BY <1>1, <1>2 DEF ClKept
  <1> QED BY <1>2, <1>3 DEF ClUnknown, ClOverruled

\* AddClient finds no old record under the name it is about to use.
LEMMA ClNoGoner ==
    ASSUME ClKept, NEW c \in ClLocal \ cl_alive
    PROVE  cl_table[ClUnknown(c)] = ClNone
  BY ClOwnName

\* A change to a nickname that is free.
LEMMA ClRenameKept ==
    ASSUME ClKept, NEW c \in cl_alive, NEW n \in ClNicks, cl_table[n] = ClNone, ClRename(c, n)
    PROVE  /\ cl_nick' \in [ClClients -> ClNames \cup {ClNone}]
           /\ cl_table' \in [ClNames -> ClClients \cup {ClNone}]
           /\ cl_alive' = cl_alive => NickTableExact'
           /\ \A d \in cl_alive : cl_nick'[d] = IF d = c THEN n ELSE cl_nick[d]
  <1>1. n \in ClNames /\ c \in ClClients /\ cl_nick[c] \in ClNames /\ cl_table[cl_nick[c]] = c /\ c # ClNone
    BY ClientsOK DEF ClKept, ClientsTypeOK, NickTableExact, ClNames
  <1>2. cl_nick' \in [ClClients -> ClNames \cup {ClNone}] /\ cl_table' \in [ClNames -> ClClients \cup {ClNone}]
    BY <1>1 DEF ClRename, ClKept, ClientsTypeOK
  <1>3. \A d \in cl_alive : cl_nick'[d] = IF d = c THEN n ELSE cl_nick[d]
    BY <1>1 DEF ClRename, ClKept, ClientsTypeOK
  <1>4. \A m \in ClNames : cl_table'[m] = IF m = n THEN c ELSE IF m = cl_nick[c] THEN ClNone ELSE cl_table[m]
    BY <1>1 DEF ClRename, ClKept, ClientsTypeOK
  <1>5. cl_alive' = cl_alive => NickTableExact'
    <2> SUFFICES ASSUME cl_alive' = cl_alive
                 PROVE  NickTableExact'
      OBVIOUS
    <2>1. ASSUME NEW d \in cl_alive
          PROVE  cl_table'[cl_nick'[d]] = d
      <3>1. cl_table[cl_nick[d]] = d /\ cl_nick[d] \in ClNames /\ d # ClNone
        BY ClientsOK DEF ClKept, ClientsTypeOK, NickTableExact
      <3> QED BY <1>1, <1>3, <1>4, <3>1
    <2>2. ASSUME NEW m \in ClNames, cl_table'[m] # ClNone
          PROVE  cl_table'[m] \in cl_alive /\ cl_nick'[cl_table'[m]] = m
      <3>1. CASE m = n
        BY <1>1, <1>3, <1>4, <3>1
      <3>2. CASE m # n
        <4>1. cl_table'[m] = cl_table[m] /\ m # cl_nick[c]
          BY <1>4, <2>2, <3>2
        <4>2. cl_table[m] \in cl_alive /\ cl_nick[cl_table[m]] = m
          BY <2>2, <4>1 DEF ClKept, NickTableExact
        <4> QED BY <1>3, <4>1, <4>2
      <3> QED BY <3>1, <3>2
    <2> QED BY <2>1, <2>2 DEF NickTableExact
  <1> QED BY <1>2, <1>3, <1>5

\* A nickname taken from a client that is not registered (NICK and SVSNICK).
ClTake(c, old, n) ==
    /\ cl_table' = [cl_table EXCEPT ![cl_nick[c]] = ClNone, ![ClOverruled(old)] = old, ![n] = c]
    /\ cl_nick' = [cl_nick EXCEPT ![old] = ClOverruled(old), ![c] = n]
LEMMA ClTakeKept ==
    ASSUME ClKept, NEW c \in cl_alive, NEW n \in ClNicks, NEW old, old = cl_table[n],
           old \notin {ClNone, c}, ~ClRegistered(old), ClTake(c, old, n)
    PROVE  /\ old \in cl_alive \cap ClLocal
           /\ cl_nick' \in [ClClients -> ClNames \cup {ClNone}]
           /\ cl_table' \in [ClNames -> ClClients \cup {ClNone}]
           /\ cl_alive' = cl_alive => NickTableExact'
           /\ \A d \in cl_alive : cl_nick'[d] = IF d = c THEN n ELSE IF d = old THEN ClOverruled(old) ELSE cl_nick[d]
  <1>1. n \in ClNames /\ c \in ClClients /\ cl_nick[c] \in ClNames /\ cl_table[cl_nick[c]] = c /\ c # ClNone
    BY ClientsOK DEF ClKept, ClientsTypeOK, NickTableExact, ClNames
  <1>2. old \in cl_alive /\ cl_nick[old] = n
    BY <1>1 DEF ClKept, NickTableExact
  <1>3. old \in ClLocal
    BY <1>2 DEF ClKept, ClientsTypeOK, ClRegistered, ClClients
  <1>4. ClOverruled(old) \in ClNames /\ ClOverruled(old) \notin ClNicks
    BY <1>3, ClientsOK DEF ClOverruled, ClNames
  <1>5. cl_table[ClOverruled(old)] = ClNone
    BY <1>2, <1>3, <1>4, ClOwnName
  <1>6. cl_nick[c] # n /\ cl_nick[c] # ClOverruled(old)
    BY <1>1, <1>2, <1>3, <1>4, <1>5, ClientsOK
  <1> USE DEF ClTake, ClKept, ClientsTypeOK
  <1>7. cl_nick' \in [ClClients -> ClNames \cup {ClNone}] /\ cl_table' \in [ClNames -> ClClients \cup {ClNone}]
    BY <1>1, <1>2, <1>4
  <1>8. \A d \in cl_alive : cl_nick'[d] = IF d = c THEN n ELSE IF d = old THEN ClOverruled(old) ELSE cl_nick[d]
    BY <1>1, <1>2
  <1>9. \A m \in ClNames : cl_table'[m] = IF m = n THEN c ELSE IF m = ClOverruled(old) THEN old
                                          ELSE IF m = cl_nick[c] THEN ClNone ELSE cl_table[m]
    BY <1>1, <1>4
  <1>10. cl_alive' = cl_alive => NickTableExact'
    <2> SUFFICES ASSUME cl_alive' = cl_alive
                 PROVE  NickTableExact'
      OBVIOUS
    <2>2. ASSUME NEW d \in cl_alive
          PROVE  cl_table'[cl_nick'[d]] = d
      <3>1. cl_table[cl_nick[d]] = d /\ cl_nick[d] \in ClNames /\ d # ClNone
        BY ClientsOK DEF NickTableExact
      <3> QED BY <1>1, <1>2, <1>4, <1>5, <1>8, <1>9, <3>1
    <2>3. ASSUME NEW m \in ClNames, cl_table'[m] # ClNone
          PROVE  cl_table'[m] \in cl_alive /\ cl_nick'[cl_table'[m]] = m
      <3>1. CASE m = n
        BY <1>1, <1>8, <1>9, <3>1
      <3>2. CASE m # n /\ m = ClOverruled(old)
        BY <1>2, <1>8, <1>9, <3>2
      <3>3. CASE m # n /\ m # ClOverruled(old)
        <4>1. cl_table'[m] = cl_table[m] /\ m # cl_nick[c]
          BY <1>9, <2>3, <3>3
        <4>2. cl_table[m] \in cl_alive /\ cl_nick[cl_table[m]] = m
          BY <2>3, <4>1 DEF NickTableExact
        <4> QED BY <1>2, <1>8, <3>3, <4>1, <4>2
      <3> QED BY <3>1, <3>2, <3>3
    <2> QED BY ZenonT(60), <2>2, <2>3 DEF NickTableExact
  <1> QED BY <1>2, <1>3, <1>7, <1>8, <1>10

-----------------------------------------------------------------------------
(* Every step keeps the tables *)

\* What a step that leaves the records alone has to show.
LEMMA ClOnlyQueued ==
    ASSUME ClKept, NEW c \in cl_alive, cl_culls' \in {cl_culls, ClAddItem(cl_culls, c)},
           cl_phase' \in {"background", "events", "cull"},
           UNCHANGED <<cl_alive, cl_nick, cl_reg, cl_table, cl_locals, cl_counters>>
    PROVE  ClKept'
  <1>1. c \in ClClients
    BY DEF ClKept, ClientsTypeOK
  <1>2. cl_culls' \in Seq(ClClients) /\ ClOnce' /\ ClQueued' \subseteq cl_alive
    BY <1>1, ClQueues DEF ClKept
  <1>3. NickTableExact' /\ ClientsTypeOK'
    BY <1>2 DEF ClKept, ClientsTypeOK, NickTableExact, cl_counters
  <1> QED BY <1>2, <1>3 DEF ClKept

\* What a step that changes nicknames and registrations has to show besides.
LEMMA ClNamesKept ==
    ASSUME ClKept, UNCHANGED <<cl_phase, cl_alive, cl_locals, cl_counters, cl_culls>>,
           cl_nick' \in [ClClients -> ClNames \cup {ClNone}],
           cl_table' \in [ClNames -> ClClients \cup {ClNone}],
           cl_reg' \in [ClClients -> SUBSET ClAll],
           NickTableExact',
           \A d \in cl_alive :
              /\ cl_nick'[d] \in ClNames
              /\ cl_nick'[d] \in ClNicks \cup {ClUnknown(d), ClOverruled(d)}
              /\ "NICK" \in cl_reg'[d] => cl_nick'[d] \in ClNicks
              /\ "DONE" \in cl_reg'[d] => cl_reg'[d] = ClAll
              /\ d \in ClRemote => cl_reg'[d] = ClAll
    PROVE  ClKept'
  <1>1. ClientsTypeOK'
    BY DEF ClKept, ClientsTypeOK, cl_counters
  <1>2. ClOnce' /\ ClQueued' \subseteq cl_alive'
    BY DEF ClKept, ClOnce, ClQueued
  <1> QED BY <1>1, <1>2 DEF ClKept

\* FullConnect, timeouts and the phases of the loop.
LEMMA ClBackgroundKept ==
    ASSUME ClKept, NEW c \in ClClients, ClFullConnect(c) \/ ClTimeout(c)
    PROVE  ClKept'
  <1>1. c \in cl_alive
    BY DEF ClFullConnect, ClTimeout, ClKept
  <1>2. CASE ClTimeout(c)
    BY <1>1, <1>2, ClOnlyQueued DEF ClTimeout, ClKept, ClientsTypeOK
  <1>3. CASE ClFullConnect(c)
    <2>1. cl_culls' \in Seq(ClClients) /\ ClOnce' /\ ClQueued' \subseteq ClQueued \cup {c}
      BY <1>3, ClQueues DEF ClFullConnect
    <2>2. ClQueued' \subseteq cl_alive'
      BY <1>1, <1>3, <2>1 DEF ClFullConnect, ClKept
    <2>3. cl_reg' \in [ClClients -> SUBSET ClAll] /\ cl_unreg' \in Nat
      BY <1>3 DEF ClFullConnect, ClKept, ClientsTypeOK
    <2>4. ClientsTypeOK'
      BY <1>3, <2>1, <2>3 DEF ClFullConnect, ClKept, ClientsTypeOK
    <2>5. NickTableExact'
      BY <1>3 DEF ClFullConnect, ClKept, NickTableExact
    <2>6. \A d \in cl_alive : cl_reg'[d] = cl_reg[d] \/ (d = c /\ cl_reg'[d] = ClAll /\ "NICK" \in cl_reg[d])
      BY <1>3 DEF ClFullConnect, ClKept, ClientsTypeOK
    <2> QED BY <1>3, <2>1, <2>2, <2>4, <2>5, <2>6 DEF ClFullConnect, ClKept
  <1> QED BY <1>2, <1>3

\* Counting a clone up or down leaves the counters numbers.
LEMMA ClCloneTyped ==
    ASSUME NEW counts \in [ClIps -> Nat], NEW c \in ClClients
    PROVE  /\ ClAddClone(counts, c) \in [ClIps -> Nat]
           /\ ClDropClone(counts, c) \in [ClIps -> Nat]
           /\ \A i \in ClIps :
                /\ ClAddClone(counts, c)[i] = IF i = ClIp[c] THEN counts[i] + 1 ELSE counts[i]
                /\ ClDropClone(counts, c)[i] = IF i = ClIp[c] /\ counts[i] # 0 THEN counts[i] - 1 ELSE counts[i]
  <1>1. ClIp[c] \in ClIps
    BY DEF ClIps
  <1> QED BY <1>1 DEF ClAddClone, ClDropClone

\* AddClient.
LEMMA ClConnectKept ==
    ASSUME ClKept, NEW c \in ClClients, ClConnect(c)
    PROVE  ClKept'
  <1>1. c \in ClLocal \ cl_alive /\ cl_table[ClUnknown(c)] = ClNone
    BY ClNoGoner DEF ClConnect
  <1>2. ClUnknown(c) \in ClNames /\ ClUnknown(c) \notin ClNicks
    BY <1>1, ClientsOK DEF ClNames, ClUnknown
  <1>3. ClNone \notin cl_alive /\ c \notin ClRemote /\ c # ClNone
    BY <1>1, ClientsOK DEF ClKept, ClientsTypeOK, ClClients
  <1>4. cl_alive' = cl_alive \cup {c}
    BY <1>1, <1>3 DEF ClConnect
  <1>5. cl_culls' \in Seq(ClClients) /\ ClOnce' /\ ClQueued' \subseteq ClQueued \cup {c}
    <2>1. cl_culls' \in {cl_culls, ClAddItem(cl_culls, c)}
      BY DEF ClConnect
    <2> QED BY <2>1, ClQueues
  <1>6. /\ cl_nick' = [cl_nick EXCEPT ![c] = ClUnknown(c)]
        /\ cl_table' = [cl_table EXCEPT ![ClUnknown(c)] = c]
        /\ cl_reg' = [cl_reg EXCEPT ![c] = {}]
        /\ cl_locals' \subseteq cl_locals \cup {c}
        /\ cl_unreg' = cl_unreg + 1 /\ cl_phase' = cl_phase
    BY DEF ClConnect
  <1>7. cl_local' \in [ClIps -> Nat] /\ cl_global' \in [ClIps -> Nat]
    <2>1. cl_local' = ClAddClone(cl_local, c) /\ cl_global' = ClAddClone(cl_global, c)
      BY <1>1 DEF ClConnect
    <2> QED BY <2>1, ClCloneTyped DEF ClKept, ClientsTypeOK
  <1>8. ClientsTypeOK'
    BY <1>1, <1>2, <1>4, <1>5, <1>6, <1>7 DEF ClKept, ClientsTypeOK, ClAll
  <1>9. /\ \A d \in cl_alive : cl_nick'[d] = cl_nick[d] /\ cl_reg'[d] = cl_reg[d]
        /\ cl_nick'[c] = ClUnknown(c) /\ cl_reg'[c] = {}
        /\ \A m \in ClNames : cl_table'[m] = IF m = ClUnknown(c) THEN c ELSE cl_table[m]
    BY <1>1, <1>2, <1>6 DEF ClKept, ClientsTypeOK
  <1>10. NickTableExact'
    <2>1. ASSUME NEW d \in cl_alive'
          PROVE  cl_table'[cl_nick'[d]] = d
      <3>1. CASE d = c
        BY <1>2, <1>9, <3>1
      <3>2. CASE d \in cl_alive
        <4>1. cl_table[cl_nick[d]] = d /\ cl_nick[d] \in ClNames
          BY <3>2 DEF ClKept, NickTableExact
        <4> QED BY <1>1, <1>3, <1>9, <3>2, <4>1
      <3> QED BY <1>4, <2>1, <3>1, <3>2
    <2>2. ASSUME NEW m \in ClNames, cl_table'[m] # ClNone
          PROVE  cl_table'[m] \in cl_alive' /\ cl_nick'[cl_table'[m]] = m
      <3>1. CASE m = ClUnknown(c)
        BY <1>4, <1>9, <3>1
      <3>2. CASE m # ClUnknown(c)
        <4>1. cl_table'[m] = cl_table[m]
          BY <1>9, <3>2
        <4>2. cl_table[m] \in cl_alive /\ cl_nick[cl_table[m]] = m
          BY <2>2, <4>1 DEF ClKept, NickTableExact
        <4> QED BY <1>4, <1>9, <4>1, <4>2
      <3> QED BY <3>1, <3>2
    <2> QED BY <2>1, <2>2 DEF NickTableExact
  <1>11. \A d \in cl_alive' :
          /\ cl_nick'[d] \in ClNames
          /\ cl_nick'[d] \in ClNicks \cup {ClUnknown(d), ClOverruled(d)}
          /\ "NICK" \in cl_reg'[d] => cl_nick'[d] \in ClNicks
          /\ "DONE" \in cl_reg'[d] => cl_reg'[d] = ClAll
          /\ d \in ClRemote => cl_reg'[d] = ClAll
    BY <1>2, <1>3, <1>4, <1>9 DEF ClKept
  <1>12. cl_locals' \subseteq cl_alive' /\ ClQueued' \subseteq cl_alive'
    BY <1>4, <1>5, <1>6 DEF ClKept
  <1> QED BY <1>5, <1>8, <1>10, <1>11, <1>12 DEF ClKept

\* USER, NICK and QUIT.
LEMMA ClCommandKept ==
    ASSUME ClKept, NEW c \in ClClients, NEW n,
           ClUser(c) \/ ClQuit(c) \/ (n \in ClNicks /\ (ClNick(c, n) \/ ClOverrule(c, n)))
    PROVE  ClKept'
  <1>1. c \in cl_alive
    BY DEF ClUser, ClNick, ClOverrule, ClQuit, ClSpeaks, ClKept
  <1>n. n \in ClNicks => n \in ClNames
    BY DEF ClNames
  <1>2. CASE ClUser(c)
    <2>1. cl_reg' \in [ClClients -> SUBSET ClAll]
      BY <1>2 DEF ClUser, ClKept, ClientsTypeOK, ClAll
    <2>2. NickTableExact'
      BY <1>2 DEF ClUser, ClKept, NickTableExact
    <2>3. \A d \in cl_alive : cl_reg'[d] = cl_reg[d] \/ (d = c /\ "DONE" \notin cl_reg[d] /\ cl_reg'[d] = cl_reg[d] \cup {"USER"})
      BY <1>2 DEF ClUser, ClKept, ClientsTypeOK, ClAll
    <2>4. c \notin ClRemote
      BY <1>1, <1>2 DEF ClUser, ClKept, ClAll
    <2> QED BY <1>2, <2>1, <2>2, <2>3, <2>4, ClNamesKept DEF ClUser, ClKept, ClientsTypeOK
  <1>3. CASE n \in ClNicks /\ ClNick(c, n)
    <2>1. ClRename(c, n) /\ cl_table[n] = ClNone /\ cl_alive' = cl_alive
      BY <1>3 DEF ClNick
    <2>2. /\ cl_nick' \in [ClClients -> ClNames \cup {ClNone}]
          /\ cl_table' \in [ClNames -> ClClients \cup {ClNone}]
          /\ NickTableExact'
          /\ \A d \in cl_alive : cl_nick'[d] = IF d = c THEN n ELSE cl_nick[d]
      BY <1>1, <1>3, <2>1, ClRenameKept
    <2>3. cl_reg' \in [ClClients -> SUBSET ClAll]
      BY <1>3 DEF ClNick, ClKept, ClientsTypeOK, ClAll
    <2>4. \A d \in cl_alive : cl_reg'[d] = IF d = c THEN cl_reg[d] \cup {"NICK"} ELSE cl_reg[d]
      BY <1>3 DEF ClNick, ClKept, ClientsTypeOK
    <2>5. \A d \in cl_alive : cl_reg[d] = ClAll => cl_reg[d] \cup {"NICK"} = ClAll
      BY DEF ClAll
    <2>6. \A d \in cl_alive : "DONE" \in cl_reg'[d] => cl_reg'[d] = ClAll
      BY ZenonT(60), <2>4, <2>5 DEF ClKept
    <2>7. \A d \in cl_alive : d \in ClRemote => cl_reg'[d] = ClAll
      BY <2>4, <2>5 DEF ClKept
    <2> QED BY <1>n, <1>3, <2>2, <2>3, <2>4, <2>6, <2>7, ClNamesKept DEF ClNick, ClKept
  <1>4. CASE n \in ClNicks /\ ClOverrule(c, n)
    <2> DEFINE old == cl_table[n]
    <2>1. old \notin {ClNone, c} /\ ~ClRegistered(old) /\ ClTake(c, old, n) /\ cl_alive' = cl_alive
      BY <1>4 DEF ClOverrule, ClTake
    <2>2. /\ old \in cl_alive \cap ClLocal
          /\ cl_nick' \in [ClClients -> ClNames \cup {ClNone}]
          /\ cl_table' \in [ClNames -> ClClients \cup {ClNone}]
          /\ NickTableExact'
          /\ \A d \in cl_alive : cl_nick'[d] = IF d = c THEN n ELSE IF d = old THEN ClOverruled(old) ELSE cl_nick[d]
      BY <1>1, <1>4, <2>1, ClTakeKept
    <2>3. cl_reg' \in [ClClients -> SUBSET ClAll]
      BY <1>4 DEF ClOverrule, ClKept, ClientsTypeOK, ClAll
    <2>4. \A d \in cl_alive : cl_reg'[d] = IF d = c THEN cl_reg[d] \cup {"NICK"}
                                           ELSE IF d = old THEN cl_reg[d] \ {"NICK"} ELSE cl_reg[d]
      BY <1>4, <2>1 DEF ClOverrule, ClKept, ClientsTypeOK
    <2> HIDE DEF old
    <2>5. \A d \in cl_alive : cl_reg[d] = ClAll => cl_reg[d] \cup {"NICK"} = ClAll
      BY DEF ClAll
    <2>6. "DONE" \notin cl_reg[old] /\ old \notin ClRemote
      BY <2>1, <2>2 DEF ClKept, ClRegistered
    <2>7. ASSUME NEW d \in cl_alive, "DONE" \in cl_reg'[d]
          PROVE  cl_reg'[d] = ClAll
      <3>1. "DONE" \in cl_reg[d]
        BY <2>4, <2>7
      <3>2. cl_reg[d] = ClAll /\ d # old
        BY <2>6, <3>1 DEF ClKept
      <3> QED BY <2>4, <2>5, <3>2
    <2>8. \A d \in cl_alive : d \in ClRemote => cl_reg'[d] = ClAll
      BY <2>4, <2>5, <2>6 DEF ClKept
    <2>9. ClOverruled(old) \in ClNames
      BY <2>2 DEF ClOverruled, ClNames
    <2>10. \A d \in cl_alive :
              /\ cl_nick'[d] \in ClNames
              /\ cl_nick'[d] \in ClNicks \cup {ClUnknown(d), ClOverruled(d)}
              /\ "NICK" \in cl_reg'[d] => cl_nick'[d] \in ClNicks
      BY <1>4, <1>n, <2>2, <2>4, <2>9 DEF ClKept
    <2> QED BY <1>4, <2>2, <2>3, <2>7, <2>8, <2>10, ClNamesKept DEF ClOverrule
  <1>5. CASE ClQuit(c)
    BY <1>1, <1>5, ClOnlyQueued DEF ClQuit, ClKept, ClientsTypeOK
  <1> QED BY <1>2, <1>3, <1>4, <1>5

\* A client of another server is introduced or changes its nickname.
LEMMA ClRemoteKept ==
    ASSUME ClKept, NEW r \in ClClients, NEW n \in ClNicks, ClIntroduce(r, n) \/ ClRemoteNick(r, n)
    PROVE  ClKept'
  <1>1. n \in ClNames /\ r # ClNone
    BY ClientsOK DEF ClNames
  <1>2. ASSUME cl_table[n] # ClNone
        PROVE  cl_table[n] \in cl_alive /\ cl_table[n] \in ClClients
    BY <1>1, <1>2 DEF ClKept, ClientsTypeOK, NickTableExact
  <1>3. CASE ClIntroduce(r, n) /\ cl_table[n] # ClNone
    BY <1>2, <1>3, ClOnlyQueued DEF ClIntroduce, ClKept, ClientsTypeOK, cl_counters
  <1>4. CASE ClIntroduce(r, n) /\ cl_table[n] = ClNone
    <2>1. /\ cl_alive' = cl_alive \cup {r}
          /\ cl_table' = [cl_table EXCEPT ![n] = r]
          /\ cl_nick' = [cl_nick EXCEPT ![r] = n]
          /\ cl_reg' = [cl_reg EXCEPT ![r] = ClAll]
          /\ cl_global' = ClAddClone(cl_global, r)
          /\ UNCHANGED <<cl_culls, cl_phase, cl_locals, cl_unreg, cl_local>>
          /\ r \in ClRemote \ cl_alive
      BY <1>4 DEF ClIntroduce
    <2>2. /\ \A d \in cl_alive : cl_nick'[d] = cl_nick[d] /\ cl_reg'[d] = cl_reg[d]
          /\ cl_nick'[r] = n /\ cl_reg'[r] = ClAll
          /\ \A m \in ClNames : cl_table'[m] = IF m = n THEN r ELSE cl_table[m]
      BY <1>1, <2>1 DEF ClKept, ClientsTypeOK
    <2>3. ClientsTypeOK'
      <3>1. cl_global' \in [ClIps -> Nat]
        BY <2>1, ClCloneTyped DEF ClKept, ClientsTypeOK
      <3> QED BY <1>1, <2>1, <3>1 DEF ClKept, ClientsTypeOK
    <2>4. NickTableExact'
      <3>1. ASSUME NEW d \in cl_alive'
            PROVE  cl_table'[cl_nick'[d]] = d
        <4>1. CASE d = r
          BY <1>1, <2>2, <4>1
        <4>2. CASE d \in cl_alive
          <5>1. cl_table[cl_nick[d]] = d /\ cl_nick[d] \in ClNames /\ d # ClNone
            BY <4>2, ClientsOK DEF ClKept, ClientsTypeOK, NickTableExact
          <5> QED BY <1>4, <2>2, <4>2, <5>1
        <4> QED BY <2>1, <3>1, <4>1, <4>2
      <3>2. ASSUME NEW m \in ClNames, cl_table'[m] # ClNone
            PROVE  cl_table'[m] \in cl_alive' /\ cl_nick'[cl_table'[m]] = m
        <4>1. CASE m = n
          BY <2>1, <2>2, <4>1
        <4>2. CASE m # n
          <5>1. cl_table'[m] = cl_table[m]
            BY <2>2, <4>2
          <5>2. cl_table[m] \in cl_alive /\ cl_nick[cl_table[m]] = m
            BY <3>2, <5>1 DEF ClKept, NickTableExact
          <5> QED BY <2>1, <2>2, <5>1, <5>2
        <4> QED BY <4>1, <4>2
      <3> QED BY <3>1, <3>2 DEF NickTableExact
    <2>5. \A d \in cl_alive' :
            /\ cl_nick'[d] \in ClNames
            /\ cl_nick'[d] \in ClNicks \cup {ClUnknown(d), ClOverruled(d)}
            /\ "NICK" \in cl_reg'[d] => cl_nick'[d] \in ClNicks
            /\ "DONE" \in cl_reg'[d] => cl_reg'[d] = ClAll
            /\ d \in ClRemote => cl_reg'[d] = ClAll
      BY <1>1, <2>1, <2>2 DEF ClKept
    <2>6. cl_locals' \subseteq cl_alive' /\ ClQueued' \subseteq cl_alive' /\ ClOnce'
      BY <2>1 DEF ClKept, ClQueued, ClOnce
    <2> QED BY <2>3, <2>4, <2>5, <2>6 DEF ClKept
  <1>5. CASE ClRemoteNick(r, n) /\ cl_table[n] # ClNone
    <2> DEFINE one == ClAddItem(cl_culls, cl_table[n])
    <2>1. /\ one \in Seq(ClClients)
          /\ \A i, j \in DOMAIN one : one[i] = one[j] => i = j
          /\ \A k \in DOMAIN one : one[k] \in ClQueued \cup {cl_table[n]}
      BY <1>2, <1>5, ClAddItemOnce DEF ClKept, ClientsTypeOK, ClOnce, ClQueued
    <2>2. cl_culls' = ClAddItem(one, r) /\ r \in cl_alive
          /\ UNCHANGED <<cl_phase, cl_alive, cl_nick, cl_reg, cl_table, cl_locals, cl_counters>>
      BY <1>5 DEF ClRemoteNick
    <2> HIDE DEF one
    <2>3. /\ cl_culls' \in Seq(ClClients)
          /\ ClOnce'
          /\ \A k \in DOMAIN cl_culls' : cl_culls'[k] \in {one[j] : j \in DOMAIN one} \cup {r}
      BY <2>1, <2>2, ClAddItemOnce DEF ClOnce
    <2>4. ClQueued' \subseteq cl_alive'
      BY <1>2, <1>5, <2>1, <2>2, <2>3 DEF ClQueued, ClKept
    <2>5. NickTableExact' /\ ClientsTypeOK'
      BY <2>2, <2>3 DEF ClKept, ClientsTypeOK, NickTableExact, cl_counters
    <2> QED BY <2>2, <2>3, <2>4, <2>5 DEF ClKept
  <1>6. CASE ClRemoteNick(r, n) /\ cl_table[n] = ClNone
    <2>1. r \in cl_alive /\ ClRename(r, n) /\ UNCHANGED <<cl_culls, cl_phase, cl_alive, cl_reg, cl_locals, cl_counters>>
          /\ r \in ClRemote
      BY <1>6 DEF ClRemoteNick
    <2>2. /\ cl_nick' \in [ClClients -> ClNames \cup {ClNone}]
          /\ cl_table' \in [ClNames -> ClClients \cup {ClNone}]
          /\ NickTableExact'
          /\ \A d \in cl_alive : cl_nick'[d] = IF d = r THEN n ELSE cl_nick[d]
      BY <1>6, <2>1, ClRenameKept
    <2>3. cl_reg' \in [ClClients -> SUBSET ClAll]
      BY <2>1 DEF ClKept, ClientsTypeOK
    <2> QED BY <1>1, <2>1, <2>2, <2>3, ClNamesKept DEF ClKept
  <1> QED BY <1>3, <1>4, <1>5, <1>6

\* SVSNICK.
LEMMA ClForceNickKept ==
    ASSUME ClKept, NEW c \in ClClients, NEW n \in ClNicks, ClForceNick(c, n)
    PROVE  ClKept'
  <1>n. n \in ClNames /\ c \in cl_alive
    BY DEF ClNames, ClForceNick
  <1> DEFINE old == cl_table[n]
  <1>1. \/ cl_culls' = ClAddItem(cl_culls, c) /\ UNCHANGED <<cl_nick, cl_table, cl_reg>>
        \/ old = ClNone /\ ClRename(c, n) /\ UNCHANGED <<cl_reg, cl_culls>>
        \/ /\ old # ClNone /\ ~ClRegistered(old) /\ ClRegistered(c) /\ ClTake(c, old, n)
           /\ cl_reg' = [cl_reg EXCEPT ![old] = @ \ {"NICK"}] /\ UNCHANGED cl_culls
    BY DEF ClForceNick, ClTake
  <1>2. UNCHANGED <<cl_phase, cl_alive, cl_locals, cl_counters>>
    BY DEF ClForceNick
  <1>3. CASE cl_culls' = ClAddItem(cl_culls, c) /\ UNCHANGED <<cl_nick, cl_table, cl_reg>>
    BY <1>n, <1>2, <1>3, ClOnlyQueued DEF ClKept, ClientsTypeOK
  <1>4. CASE old = ClNone /\ ClRename(c, n) /\ UNCHANGED <<cl_reg, cl_culls>>
    <2>1. /\ cl_nick' \in [ClClients -> ClNames \cup {ClNone}]
          /\ cl_table' \in [ClNames -> ClClients \cup {ClNone}]
          /\ NickTableExact'
          /\ \A d \in cl_alive : cl_nick'[d] = IF d = c THEN n ELSE cl_nick[d]
      BY <1>n, <1>2, <1>4, ClRenameKept
    <2>2. cl_reg' \in [ClClients -> SUBSET ClAll]
      BY <1>4 DEF ClKept, ClientsTypeOK
    <2> QED BY <1>n, <1>2, <1>4, <2>1, <2>2, ClNamesKept DEF ClKept
  <1>5. CASE /\ old # ClNone /\ ~ClRegistered(old) /\ ClRegistered(c) /\ ClTake(c, old, n)
             /\ cl_reg' = [cl_reg EXCEPT ![old] = @ \ {"NICK"}] /\ UNCHANGED cl_culls
    <2>1. old \notin {ClNone, c}
      BY <1>5
    <2>2. /\ old \in cl_alive \cap ClLocal
          /\ cl_nick' \in [ClClients -> ClNames \cup {ClNone}]
          /\ cl_table' \in [ClNames -> ClClients \cup {ClNone}]
          /\ NickTableExact'
          /\ \A d \in cl_alive : cl_nick'[d] = IF d = c THEN n ELSE IF d = old THEN ClOverruled(old) ELSE cl_nick[d]
      BY <1>n, <1>2, <1>5, <2>1, ClTakeKept
    <2>3. cl_reg' \in [ClClients -> SUBSET ClAll]
      BY <1>5 DEF ClKept, ClientsTypeOK
    <2>4. \A d \in cl_alive : cl_reg'[d] = IF d = old THEN cl_reg[d] \ {"NICK"} ELSE cl_reg[d]
      BY <1>5 DEF ClKept, ClientsTypeOK
    <2> HIDE DEF old
    <2>5. "DONE" \notin cl_reg[old] /\ old \notin ClRemote
      BY <1>5, <2>2 DEF ClKept, ClRegistered
    <2>6. \A d \in cl_alive : "DONE" \in cl_reg'[d] => cl_reg'[d] = ClAll
      BY <2>4, <2>5 DEF ClKept
    <2>7. \A d \in cl_alive : d \in ClRemote => cl_reg'[d] = ClAll
      BY <2>4, <2>5 DEF ClKept
    <2>8. ClOverruled(old) \in ClNames
      BY <2>2 DEF ClOverruled, ClNames
    <2>9. \A d \in cl_alive :
              /\ cl_nick'[d] \in ClNames
              /\ cl_nick'[d] \in ClNicks \cup {ClUnknown(d), ClOverruled(d)}
              /\ "NICK" \in cl_reg'[d] => cl_nick'[d] \in ClNicks
      BY <1>n, <2>2, <2>4, <2>8 DEF ClKept
    <2> QED BY <1>2, <1>5, <2>2, <2>3, <2>6, <2>7, <2>9, ClNamesKept
  <1> QED BY <1>1, <1>3, <1>4, <1>5

\* Apply always finds the record it is about to free, and only that one leaves the tables.
LEMMA ClApplyKept ==
    ASSUME ClKept, NEW c \in ClClients, ClApply(c)
    PROVE  /\ ClKept'
           /\ c \in cl_alive /\ cl_alive' = cl_alive \ {c}
           /\ \A d \in cl_alive' : cl_reg'[d] = cl_reg[d]
           /\ cl_unreg' = IF ClRegistered(c) \/ cl_unreg = 0 THEN cl_unreg ELSE cl_unreg - 1
           /\ cl_local' = ClDropClone(cl_local, c) /\ cl_global' = ClDropClone(cl_global, c)
  <1>1. cl_culls \in Seq(ClClients) /\ cl_culls # <<>> /\ c = Head(cl_culls) /\ cl_culls' = Tail(cl_culls)
    BY DEF ClApply, ClKept, ClientsTypeOK
  <1>2. /\ Len(cl_culls) \in Nat /\ Len(cl_culls) # 0 /\ DOMAIN cl_culls = 1 .. Len(cl_culls)
        /\ cl_culls' \in Seq(ClClients) /\ DOMAIN cl_culls' = 1 .. Len(cl_culls) - 1
        /\ c = cl_culls[1]
        /\ \A k \in DOMAIN cl_culls' : k + 1 \in DOMAIN cl_culls /\ cl_culls'[k] = cl_culls[k + 1]
    <2>1. Len(cl_culls) \in Nat /\ Len(cl_culls) # 0 /\ DOMAIN cl_culls = 1 .. Len(cl_culls) /\ c = cl_culls[1]
      BY <1>1, EmptySeq, LenProperties
    <2>2. cl_culls' \in Seq(ClClients) /\ Len(cl_culls') = Len(cl_culls) - 1
          /\ \A k \in 1 .. Len(cl_culls') : cl_culls'[k] = cl_culls[k + 1]
      BY <1>1, HeadTailProperties
    <2>3. DOMAIN cl_culls' = 1 .. Len(cl_culls) - 1
      BY <2>2, LenProperties
    <2> QED BY <2>1, <2>2, <2>3
  <1>3. c \in cl_alive
    BY <1>2 DEF ClKept, ClQueued
  <1>4. ClOnce' /\ ClQueued' \subseteq ClQueued \ {c}
    <2>1. ClOnce'
      BY <1>2 DEF ClKept, ClOnce
    <2>2. \A k \in DOMAIN cl_culls' : cl_culls'[k] \in ClQueued /\ cl_culls'[k] # c
      <3> TAKE k \in DOMAIN cl_culls'
      <3>1. k + 1 \in DOMAIN cl_culls /\ cl_culls'[k] = cl_culls[k + 1] /\ 1 \in DOMAIN cl_culls /\ k + 1 # 1
        BY <1>2
      <3> QED BY <1>2, <3>1 DEF ClKept, ClOnce, ClQueued
    <2> QED BY <2>1, <2>2 DEF ClQueued
  <1>5. cl_nick[c] \in ClNames /\ cl_table[cl_nick[c]] = c /\ c # ClNone
    BY <1>3, ClientsOK DEF ClKept, NickTableExact
  <1>6. /\ cl_locals' = cl_locals \ {c}
        /\ cl_table' = [cl_table EXCEPT ![cl_nick[c]] = ClNone]
        /\ cl_alive' = cl_alive \ {c}
        /\ cl_nick' = [cl_nick EXCEPT ![c] = ClNone]
        /\ cl_reg' = [cl_reg EXCEPT ![c] = {}]
        /\ cl_local' = ClDropClone(cl_local, c) /\ cl_global' = ClDropClone(cl_global, c)
        /\ cl_unreg' = IF ClRegistered(c) \/ cl_unreg = 0 THEN cl_unreg ELSE cl_unreg - 1
        /\ UNCHANGED cl_phase
    BY <1>5 DEF ClApply, ClRemoveCloneCounts
  <1>7. /\ \A d \in cl_alive' : d \in cl_alive /\ d # c /\ cl_nick'[d] = cl_nick[d] /\ cl_reg'[d] = cl_reg[d]
        /\ \A m \in ClNames : cl_table'[m] = IF m = cl_nick[c] THEN ClNone ELSE cl_table[m]
    BY <1>5, <1>6 DEF ClKept, ClientsTypeOK
  <1>8. ClientsTypeOK'
    <2>1. cl_local' \in [ClIps -> Nat] /\ cl_global' \in [ClIps -> Nat]
      BY <1>6, ClCloneTyped DEF ClKept, ClientsTypeOK
    <2>2. cl_unreg' \in Nat
      BY <1>6 DEF ClKept, ClientsTypeOK
    <2> QED BY <1>2, <1>5, <1>6, <2>1, <2>2 DEF ClKept, ClientsTypeOK
  <1>9. NickTableExact'
    <2>1. ASSUME NEW d \in cl_alive'
          PROVE  cl_table'[cl_nick'[d]] = d
      <3>1. cl_table[cl_nick[d]] = d /\ cl_nick[d] \in ClNames
        BY <1>7 DEF ClKept, NickTableExact
      <3> QED BY <1>5, <1>7, <3>1
    <2>2. ASSUME NEW m \in ClNames, cl_table'[m] # ClNone
          PROVE  cl_table'[m] \in cl_alive' /\ cl_nick'[cl_table'[m]] = m
      <3>1. cl_table'[m] = cl_table[m] /\ m # cl_nick[c]
        BY <1>7, <2>2
      <3>2. cl_table[m] \in cl_alive /\ cl_nick[cl_table[m]] = m
        BY <2>2, <3>1 DEF ClKept, NickTableExact
      <3>3. cl_table[m] \in cl_alive'
        BY <1>6, <3>1, <3>2
      <3> QED BY <1>7, <3>1, <3>2, <3>3
    <2> QED BY <2>1, <2>2 DEF NickTableExact
  <1>10. cl_locals' \subseteq cl_alive' /\ ClQueued' \subseteq cl_alive'
    BY <1>4, <1>6 DEF ClKept
  <1>11. ClKept'
    BY <1>4, <1>7, <1>8, <1>9, <1>10 DEF ClKept
  <1> QED BY <1>3, <1>6, <1>7, <1>11

-----------------------------------------------------------------------------
(* The counters *)

\* What the counters count is finite.
LEMMA ClFinite ==
    ASSUME ClKept
    PROVE  /\ IsFiniteSet(ClUnreg) /\ Cardinality(ClUnreg) \in Nat
           /\ \A i : /\ IsFiniteSet(ClOfIp(i)) /\ Cardinality(ClOfIp(i)) \in Nat
                    /\ IsFiniteSet(ClLocalOfIp(i)) /\ Cardinality(ClLocalOfIp(i)) \in Nat
  <1>1. IsFiniteSet(ClClients)
    BY ClientsOK, FS_Union DEF ClClients
  <1>2. ClUnreg \subseteq ClClients
    BY DEF ClUnreg, ClKept, ClientsTypeOK
  <1>3. \A i : ClOfIp(i) \subseteq ClClients /\ ClLocalOfIp(i) \subseteq ClClients
    BY DEF ClOfIp, ClLocalOfIp, ClKept, ClientsTypeOK
  <1> QED BY <1>1, <1>2, <1>3, FS_Subset, FS_CardinalityType

\* The counters in terms of these sets.
LEMMA ClCountedSets ==
    ClCounted <=> /\ cl_unreg = Cardinality(ClUnreg)
                  /\ \A i \in ClIps : cl_global[i] = Cardinality(ClOfIp(i))
                  /\ \A i \in ClIps : cl_local[i] <= Cardinality(ClLocalOfIp(i))
  BY DEF ClCounted, UnregisteredCounted, GlobalClonesCounted, LocalClonesNeverMore, ClUnreg, ClOfIp, ClLocalOfIp

\* A step that neither makes nor frees a record leaves the counts of clones right.
LEMMA ClCountsStay ==
    ASSUME ClKept, ClCounted, cl_alive' = cl_alive, UNCHANGED <<cl_local, cl_global>>,
           cl_unreg' = Cardinality(ClUnreg')
    PROVE  ClCounted'
  <1>1. \A i : ClOfIp(i)' = ClOfIp(i) /\ ClLocalOfIp(i)' = ClLocalOfIp(i)
    BY DEF ClOfIp, ClLocalOfIp
  <1> QED BY <1>1 DEF ClCounted, UnregisteredCounted, GlobalClonesCounted, LocalClonesNeverMore, ClUnreg, ClOfIp, ClLocalOfIp

\* A new record is counted.
LEMMA ClCountsGrow ==
    ASSUME ClKept, ClCounted, NEW c \in ClClients \ cl_alive, cl_alive' = cl_alive \cup {c},
           \A d \in cl_alive : cl_reg'[d] = cl_reg[d],
           cl_unreg' = IF ClRegistered(c)' THEN cl_unreg ELSE cl_unreg + 1,
           cl_local' = IF c \in ClLocal THEN ClAddClone(cl_local, c) ELSE cl_local,
           cl_global' = ClAddClone(cl_global, c)
    PROVE  ClCounted'
  <1>1. cl_unreg' = Cardinality(ClUnreg')
    <2>1. ClUnreg' = IF ClRegistered(c)' THEN ClUnreg ELSE ClUnreg \cup {c}
      BY DEF ClUnreg, ClRegistered
    <2>2. c \notin ClUnreg
      BY DEF ClUnreg
    <2> QED BY <2>1, <2>2, ClFinite, ClCountedSets, FS_AddElement
  <1>2. ASSUME NEW i \in ClIps
        PROVE  cl_global'[i] = Cardinality(ClOfIp(i)') /\ cl_local'[i] <= Cardinality(ClLocalOfIp(i)')
    <2>1. /\ ClOfIp(i)' = IF ClIp[c] = i THEN ClOfIp(i) \cup {c} ELSE ClOfIp(i)
          /\ ClLocalOfIp(i)' = IF ClIp[c] = i /\ c \in ClLocal THEN ClLocalOfIp(i) \cup {c} ELSE ClLocalOfIp(i)
          /\ c \notin ClOfIp(i) /\ c \notin ClLocalOfIp(i)
      BY DEF ClOfIp, ClLocalOfIp
    <2>2. /\ cl_global[i] = Cardinality(ClOfIp(i)) /\ cl_local[i] <= Cardinality(ClLocalOfIp(i))
          /\ cl_global[i] \in Nat /\ cl_local[i] \in Nat
      BY ClCountedSets DEF ClKept, ClientsTypeOK
    <2>3. /\ cl_global'[i] = IF i = ClIp[c] THEN cl_global[i] + 1 ELSE cl_global[i]
          /\ cl_local'[i] = IF i = ClIp[c] /\ c \in ClLocal THEN cl_local[i] + 1 ELSE cl_local[i]
      <3>1. cl_local \in [ClIps -> Nat] /\ cl_global \in [ClIps -> Nat]
        BY DEF ClKept, ClientsTypeOK
      <3>2. ClAddClone(cl_global, c)[i] = IF i = ClIp[c] THEN cl_global[i] + 1 ELSE cl_global[i]
        BY <3>1, ClCloneTyped
      <3>3. ClAddClone(cl_local, c)[i] = IF i = ClIp[c] THEN cl_local[i] + 1 ELSE cl_local[i]
        BY <3>1, ClCloneTyped
      <3> QED BY <3>2, <3>3
    <2>4. /\ Cardinality(ClOfIp(i)') = IF ClIp[c] = i THEN Cardinality(ClOfIp(i)) + 1 ELSE Cardinality(ClOfIp(i))
          /\ Cardinality(ClLocalOfIp(i)') = IF ClIp[c] = i /\ c \in ClLocal THEN Cardinality(ClLocalOfIp(i)) + 1
                                            ELSE Cardinality(ClLocalOfIp(i))
      <3>1. IsFiniteSet(ClOfIp(i)) /\ IsFiniteSet(ClLocalOfIp(i))
        BY ClFinite
      <3>2. /\ Cardinality(ClOfIp(i) \cup {c}) = Cardinality(ClOfIp(i)) + 1
            /\ Cardinality(ClLocalOfIp(i) \cup {c}) = Cardinality(ClLocalOfIp(i)) + 1
        BY <2>1, <3>1, FS_AddElement
      <3> QED BY <2>1, <3>2
    <2>5. Cardinality(ClLocalOfIp(i)) \in Nat
      BY ClFinite
    <2> QED BY <2>2, <2>3, <2>4, <2>5
  <1> QED BY <1>1, <1>2 DEF ClCounted, UnregisteredCounted, GlobalClonesCounted, LocalClonesNeverMore,
                           ClUnreg, ClOfIp, ClLocalOfIp

\* A record that Apply frees is counted no more.  The destructor takes a client of another server off the count of
\* local clones as well: that count can only be too low.
LEMMA ClCountsShrink ==
    ASSUME ClKept, ClCounted, NEW c \in cl_alive, cl_alive' = cl_alive \ {c},
           \A d \in cl_alive' : cl_reg'[d] = cl_reg[d],
           cl_unreg' = IF ClRegistered(c) \/ cl_unreg = 0 THEN cl_unreg ELSE cl_unreg - 1,
           cl_local' = ClDropClone(cl_local, c), cl_global' = ClDropClone(cl_global, c)
    PROVE  ClCounted'
  <1>0. c \in ClClients
    BY DEF ClKept, ClientsTypeOK
  <1>1. cl_unreg' = Cardinality(ClUnreg')
    <2>1. ClUnreg' = ClUnreg \ {c} /\ (c \in ClUnreg <=> ~ClRegistered(c))
      BY DEF ClUnreg, ClRegistered
    <2>2. /\ IsFiniteSet(ClUnreg) /\ Cardinality(ClUnreg) \in Nat /\ cl_unreg = Cardinality(ClUnreg)
          /\ Cardinality(ClUnreg \ {c}) = IF c \in ClUnreg THEN Cardinality(ClUnreg) - 1 ELSE Cardinality(ClUnreg)
      BY ClFinite, ClCountedSets, FS_RemoveElement
    <2>3. c \in ClUnreg => Cardinality(ClUnreg) # 0
      BY <2>2, FS_EmptySet
    <2> QED BY <2>1, <2>2, <2>3
  <1>2. ASSUME NEW i \in ClIps
        PROVE  cl_global'[i] = Cardinality(ClOfIp(i)') /\ cl_local'[i] <= Cardinality(ClLocalOfIp(i)')
    <2>1. /\ ClOfIp(i)' = ClOfIp(i) \ {c} /\ (c \in ClOfIp(i) <=> ClIp[c] = i)
          /\ ClLocalOfIp(i)' = ClLocalOfIp(i) \ {c} /\ (c \in ClLocalOfIp(i) => ClIp[c] = i)
      BY DEF ClOfIp, ClLocalOfIp
    <2>2. /\ cl_global[i] = Cardinality(ClOfIp(i)) /\ cl_local[i] <= Cardinality(ClLocalOfIp(i))
          /\ cl_global[i] \in Nat /\ cl_local[i] \in Nat
          /\ IsFiniteSet(ClOfIp(i)) /\ IsFiniteSet(ClLocalOfIp(i))
          /\ Cardinality(ClOfIp(i)) \in Nat /\ Cardinality(ClLocalOfIp(i)) \in Nat
      BY ClFinite, ClCountedSets DEF ClKept, ClientsTypeOK
    <2>3. /\ cl_global'[i] = IF i = ClIp[c] /\ cl_global[i] # 0 THEN cl_global[i] - 1 ELSE cl_global[i]
          /\ cl_local'[i] = IF i = ClIp[c] /\ cl_local[i] # 0 THEN cl_local[i] - 1 ELSE cl_local[i]
      <3>1. cl_local \in [ClIps -> Nat] /\ cl_global \in [ClIps -> Nat]
        BY DEF ClKept, ClientsTypeOK
      <3>2. ClDropClone(cl_global, c)[i] = IF i = ClIp[c] /\ cl_global[i] # 0 THEN cl_global[i] - 1 ELSE cl_global[i]
        BY <1>0, <3>1, ClCloneTyped
      <3>3. ClDropClone(cl_local, c)[i] = IF i = ClIp[c] /\ cl_local[i] # 0 THEN cl_local[i] - 1 ELSE cl_local[i]
        BY <1>0, <3>1, ClCloneTyped
      <3> QED BY <3>2, <3>3
    <2>4. /\ Cardinality(ClOfIp(i)') = IF c \in ClOfIp(i) THEN Cardinality(ClOfIp(i)) - 1 ELSE Cardinality(ClOfIp(i))
          /\ Cardinality(ClLocalOfIp(i)') = IF c \in ClLocalOfIp(i) THEN Cardinality(ClLocalOfIp(i)) - 1
                                            ELSE Cardinality(ClLocalOfIp(i))
      BY ZenonT(60), <2>1, <2>2, FS_RemoveElement
    <2>5. /\ c \in ClOfIp(i) => Cardinality(ClOfIp(i)) # 0
          /\ c \in ClLocalOfIp(i) => Cardinality(ClLocalOfIp(i)) # 0
      BY <2>2, FS_EmptySet
    <2> QED BY <2>1, <2>2, <2>3, <2>4, <2>5
  <1> QED BY <1>1, <1>2 DEF ClCounted, UnregisteredCounted, GlobalClonesCounted, LocalClonesNeverMore,
                           ClUnreg, ClOfIp, ClLocalOfIp

\* Every step keeps the tables and the counters.
LEMMA ClStepKept ==
    ASSUME ClKept, ClCounted, [ClientsNext]_cl_vars
    PROVE  ClKept' /\ ClCounted'
  <1> DEFINE Same == ClUnreg' = ClUnreg /\ UNCHANGED <<cl_alive, cl_counters>>
  <1>s. Same => ClCounted'
    BY ClCountsStay, ClCountedSets DEF cl_counters
  <1>1. ASSUME NEW c \in ClClients, ClFullConnect(c)
        PROVE  ClKept' /\ ClCounted'
    <2>1. c \in cl_alive /\ cl_alive' = cl_alive /\ UNCHANGED <<cl_local, cl_global>>
      BY <1>1 DEF ClFullConnect, ClKept
    <2>2. ~ClRegistered(c)
      BY <1>1 DEF ClFullConnect, ClRegistered, ClAll
    <2>3. \/ UNCHANGED <<cl_reg, cl_unreg>>
          \/ /\ cl_reg' = [cl_reg EXCEPT ![c] = ClAll]
             /\ cl_unreg' = IF cl_unreg = 0 THEN cl_unreg ELSE cl_unreg - 1
      BY <1>1 DEF ClFullConnect
    <2>4. CASE UNCHANGED <<cl_reg, cl_unreg>>
      <3>1. ClUnreg' = ClUnreg
        BY <2>1, <2>4 DEF ClUnreg, ClRegistered
      <3> QED BY <1>1, <2>1, <2>4, <3>1, ClBackgroundKept, ClCountsStay, ClCountedSets
    <2>5. CASE /\ cl_reg' = [cl_reg EXCEPT ![c] = ClAll]
               /\ cl_unreg' = IF cl_unreg = 0 THEN cl_unreg ELSE cl_unreg - 1
      <3>1. ClUnreg' = ClUnreg \ {c} /\ c \in ClUnreg
        BY <2>1, <2>2, <2>5 DEF ClUnreg, ClRegistered, ClKept, ClientsTypeOK
      <3>2. /\ IsFiniteSet(ClUnreg) /\ Cardinality(ClUnreg) \in Nat /\ cl_unreg = Cardinality(ClUnreg)
            /\ Cardinality(ClUnreg \ {c}) = Cardinality(ClUnreg) - 1
        BY <3>1, ClFinite, ClCountedSets, FS_RemoveElement
      <3>3. cl_unreg # 0
        BY <3>1, <3>2, FS_EmptySet
      <3> QED BY <1>1, <2>1, <2>5, <3>1, <3>2, <3>3, ClBackgroundKept, ClCountsStay
    <2> QED BY <2>3, <2>4, <2>5
  <1>2. ASSUME NEW c \in ClClients, ClConnect(c)
        PROVE  ClKept' /\ ClCounted'
    <2>1. c \in ClLocal \ cl_alive /\ cl_table[ClUnknown(c)] = ClNone /\ ClNone \notin cl_alive
      BY <1>2, ClNoGoner, ClientsOK DEF ClConnect, ClKept, ClientsTypeOK
    <2>2. /\ cl_alive' = cl_alive \cup {c} /\ cl_reg' = [cl_reg EXCEPT ![c] = {}] /\ cl_unreg' = cl_unreg + 1
          /\ cl_local' = ClAddClone(cl_local, c) /\ cl_global' = ClAddClone(cl_global, c)
      BY <1>2, <2>1 DEF ClConnect
    <2>3. cl_reg'[c] = {} /\ \A d \in cl_alive : cl_reg'[d] = cl_reg[d]
      BY <1>2, <2>1, <2>2 DEF ClKept, ClientsTypeOK
    <2>4. ~ClRegistered(c)'
      BY <2>3 DEF ClRegistered, ClAll
    <2>5. ClCounted'
      BY <1>2, <2>1, <2>2, <2>3, <2>4, ClCountsGrow
    <2> QED BY <1>2, <2>5, ClConnectKept
  <1>3. ASSUME NEW c \in ClClients, NEW n,
               ClUser(c) \/ ClQuit(c) \/ (n \in ClNicks /\ (ClNick(c, n) \/ ClOverrule(c, n)))
        PROVE  ClKept' /\ ClCounted'
    <2>1. ClKept'
      BY <1>3, ClCommandKept
    <2>2. UNCHANGED <<cl_alive, cl_counters>>
      BY <1>3 DEF ClUser, ClNick, ClOverrule, ClQuit
    <2>3. \A d \in cl_alive : cl_reg'[d] = ClAll <=> cl_reg[d] = ClAll
      <3>1. CASE ClQuit(c)
        BY <3>1 DEF ClQuit
      <3>2. CASE ClUser(c)
        BY <3>2, <2>1, <2>2 DEF ClUser, ClKept, ClientsTypeOK, ClAll
      <3>3. CASE n \in ClNicks /\ ClNick(c, n)
        <4>1. \A d \in cl_alive : cl_reg'[d] = IF d = c THEN cl_reg[d] \cup {"NICK"} ELSE cl_reg[d]
          BY <3>3 DEF ClNick, ClKept, ClientsTypeOK
        <4>2. \A d \in cl_alive : "DONE" \in cl_reg[d] => cl_reg[d] = ClAll
          BY DEF ClKept
        <4> QED BY <4>1, <4>2 DEF ClAll
      <3>4. CASE n \in ClNicks /\ ClOverrule(c, n)
        <4>1. cl_table[n] # c /\ cl_table[n] \in cl_alive /\ "DONE" \notin cl_reg[cl_table[n]]
          BY <3>4 DEF ClOverrule, ClKept, ClNames, NickTableExact, ClRegistered
        <4>2. \A d \in cl_alive : cl_reg'[d] = IF d = c THEN cl_reg[d] \cup {"NICK"}
                                   ELSE IF d = cl_table[n] THEN cl_reg[d] \ {"NICK"} ELSE cl_reg[d]
          BY <3>4, <4>1 DEF ClOverrule, ClKept, ClientsTypeOK
        <4>3. \A d \in cl_alive : "DONE" \in cl_reg[d] => cl_reg[d] = ClAll
          BY DEF ClKept
        <4> QED BY <4>1, <4>2, <4>3 DEF ClAll
      <3> QED BY <1>3, <3>1, <3>2, <3>3, <3>4
    <2>4. ClUnreg' = ClUnreg
      BY <2>2, <2>3 DEF ClUnreg, ClRegistered
    <2> QED BY <1>s, <2>1, <2>2, <2>4
  <1>4. ASSUME NEW r \in ClClients, NEW n \in ClNicks, ClIntroduce(r, n) \/ ClRemoteNick(r, n)
        PROVE  ClKept' /\ ClCounted'
    <2>1. ClKept'
      BY <1>4, ClRemoteKept
    <2>2. CASE ClIntroduce(r, n) /\ cl_table[n] = ClNone
      <3>1. /\ cl_alive' = cl_alive \cup {r} /\ r \in ClRemote \ cl_alive
            /\ cl_reg' = [cl_reg EXCEPT ![r] = ClAll]
            /\ cl_global' = ClAddClone(cl_global, r) /\ UNCHANGED <<cl_unreg, cl_local>>
        BY <2>2 DEF ClIntroduce
      <3>2. r \notin ClLocal
        BY <3>1, ClientsOK
      <3>3. cl_reg'[r] = ClAll /\ \A d \in cl_alive : cl_reg'[d] = cl_reg[d]
        BY <3>1 DEF ClKept, ClientsTypeOK
      <3>4. ClRegistered(r)'
        BY <3>3 DEF ClRegistered
      <3>5. ClCounted'
        BY <3>1, <3>2, <3>3, <3>4, ClCountsGrow
      <3> QED BY <2>1, <3>5
    <2>3. CASE ~(ClIntroduce(r, n) /\ cl_table[n] = ClNone)
      <3>1. UNCHANGED <<cl_alive, cl_reg, cl_counters>>
        BY <1>4, <2>3 DEF ClIntroduce, ClRemoteNick, cl_counters
      <3>2. ClUnreg' = ClUnreg
        BY <3>1 DEF ClUnreg, ClRegistered
      <3> QED BY <1>s, <2>1, <3>1, <3>2
    <2> QED BY <2>2, <2>3
  <1>5. ASSUME NEW c \in ClClients, NEW n \in ClNicks, ClForceNick(c, n)
        PROVE  ClKept' /\ ClCounted'
    <2>1. UNCHANGED <<cl_alive, cl_counters>>
      BY <1>5 DEF ClForceNick
    <2>2. \A d \in cl_alive : cl_reg'[d] = ClAll <=> cl_reg[d] = ClAll
      <3>1. CASE UNCHANGED cl_reg
        BY <3>1
      <3>2. CASE /\ cl_table[n] # ClNone /\ ~ClRegistered(cl_table[n])
                 /\ cl_reg' = [cl_reg EXCEPT ![cl_table[n]] = @ \ {"NICK"}]
        <4>1. \A d \in cl_alive : cl_reg'[d] = IF d = cl_table[n] THEN cl_reg[d] \ {"NICK"} ELSE cl_reg[d]
          BY <3>2 DEF ClKept, ClientsTypeOK
        <4> QED BY <3>2, <4>1 DEF ClRegistered, ClAll
      <3> QED BY <1>5, <3>1, <3>2 DEF ClForceNick
    <2>3. ClUnreg' = ClUnreg
      BY <2>1, <2>2 DEF ClUnreg, ClRegistered
    <2> QED BY <1>s, <1>5, <2>1, <2>3, ClForceNickKept
  <1>6. ASSUME NEW c \in ClClients, ClTimeout(c)
        PROVE  ClKept' /\ ClCounted'
    <2>1. UNCHANGED <<cl_alive, cl_reg, cl_counters>>
      BY <1>6 DEF ClTimeout
    <2>2. ClUnreg' = ClUnreg
      BY <2>1 DEF ClUnreg, ClRegistered
    <2> QED BY <1>s, <1>6, <2>1, <2>2, ClBackgroundKept
  <1>7. ASSUME NEW c \in ClClients, ClApply(c)
        PROVE  ClKept' /\ ClCounted'
    BY <1>7, ClApplyKept, ClCountsShrink
  <1>8. ASSUME ClBackgroundDone \/ ClEventsDone \/ ClApplyDone \/ UNCHANGED cl_vars
        PROVE  ClKept' /\ ClCounted'
    <2>1. UNCHANGED <<cl_alive, cl_nick, cl_reg, cl_table, cl_locals, cl_counters, cl_culls>>
      BY <1>8 DEF ClBackgroundDone, ClEventsDone, ClApplyDone, cl_vars
    <2>2. cl_phase' \in {"background", "events", "cull"}
      BY <1>8 DEF ClBackgroundDone, ClEventsDone, ClApplyDone, cl_vars, ClKept, ClientsTypeOK
    <2>3. ClKept'
      BY <2>1, <2>2 DEF ClKept, ClientsTypeOK, NickTableExact, ClOnce, ClQueued, cl_counters
    <2>4. ClUnreg' = ClUnreg
      BY <2>1 DEF ClUnreg, ClRegistered
    <2> QED BY <1>s, <2>1, <2>3, <2>4
  <1>9. ASSUME NEW c \in ClClients, ClUser(c) \/ ClQuit(c)
        PROVE  ClKept' /\ ClCounted'
    BY <1>3, <1>9
  <1>10. ASSUME NEW c \in ClClients, NEW n \in ClNicks, ClNick(c, n) \/ ClOverrule(c, n)
         PROVE  ClKept' /\ ClCounted'
    BY <1>3, <1>10
  <1>11. ASSUME NEW c \in ClClients,
                ClFullConnect(c) \/ ClTimeout(c) \/ ClConnect(c) \/ ClUser(c) \/ ClQuit(c) \/ ClApply(c)
         PROVE  ClKept' /\ ClCounted'
    BY <1>1, <1>2, <1>6, <1>7, <1>9, <1>11
  <1>12. ASSUME NEW c \in ClClients, NEW n \in ClNicks,
                \/ ClNick(c, n) \/ ClOverrule(c, n) \/ ClForceNick(c, n)
                \/ ClIntroduce(c, n) \/ ClRemoteNick(c, n)
         PROVE  ClKept' /\ ClCounted'
    BY <1>4, <1>5, <1>10, <1>12
  <1> QED BY <1>8, <1>11, <1>12 DEF ClientsNext

\* Before the first client.
LEMMA ClInitKept == ClientsInit => ClKept /\ ClCounted
  <1> SUFFICES ASSUME ClientsInit
               PROVE  ClKept /\ ClCounted
    OBVIOUS
  <1>1. ClKept
    BY ClientsOK DEF ClientsInit, ClKept, ClientsTypeOK, NickTableExact, ClOnce, ClQueued
  <1>2. ClUnreg = {} /\ \A i : ClOfIp(i) = {} /\ ClLocalOfIp(i) = {}
    BY DEF ClientsInit, ClUnreg, ClOfIp, ClLocalOfIp
  <1>3. Cardinality(ClUnreg) = 0 /\ \A i : Cardinality(ClOfIp(i)) = 0 /\ Cardinality(ClLocalOfIp(i)) = 0
    BY <1>2, FS_EmptySet
  <1>4. cl_unreg = 0 /\ \A i \in ClIps : cl_local[i] = 0 /\ cl_global[i] = 0
    BY DEF ClientsInit
  <1>5. ClCounted
    BY <1>3, <1>4, ClCountedSets
  <1> QED BY <1>1, <1>5

\* ClientsExact for any clients, addresses and nicknames: whatever connects, registers, is renamed, overruled,
\* refused and quits in one iteration after another of the main loop, the nickname table, the counters and the
\* queue stay exact and only Apply frees a record.
THEOREM ClientsAlwaysExact == ClientsSpec => ClientsExact
  <1>1. ClKept /\ ClCounted /\ [ClientsNext]_cl_vars => ClKept' /\ ClCounted'
    BY ClStepKept
  <1>2. ClKept /\ ClCounted => /\ NickTableExact /\ RegisteredHasNick /\ UnregisteredCounted
                              /\ GlobalClonesCounted /\ LocalClonesNeverMore /\ CullsExistOnce
    <2> SUFFICES ASSUME ClKept, ClCounted
                 PROVE  NickTableExact /\ RegisteredHasNick /\ CullsExistOnce
      BY DEF ClCounted
    <2>1. RegisteredHasNick
      BY DEF ClKept, RegisteredHasNick, ClRegistered, ClAll
    <2>2. CullsExistOnce
      BY ClQueueLength DEF ClKept, ClientsTypeOK, CullsExistOnce
    <2> QED BY <2>1, <2>2 DEF ClKept
  <1>3. ClKept /\ [ClientsNext]_cl_vars => [cl_alive \ cl_alive' # {} => cl_phase = "cull"]_cl_vars
    <2> SUFFICES ASSUME ClKept, ClientsNext, cl_alive \ cl_alive' # {}
                 PROVE  cl_phase = "cull"
      OBVIOUS
    <2>1. ASSUME NEW c \in ClClients, ClConnect(c)
          PROVE  cl_alive \ cl_alive' = {}
      <3>1. cl_table[ClUnknown(c)] = ClNone /\ ClNone \notin cl_alive
        BY <2>1, ClNoGoner, ClientsOK DEF ClConnect, ClKept, ClientsTypeOK
      <3> QED BY <2>1, <3>1 DEF ClConnect
    <2>2. \A c \in ClClients : ClApply(c) => cl_phase = "cull"
      BY DEF ClApply
    <2>3. \A c \in ClClients : ClFullConnect(c) \/ ClTimeout(c) \/ ClUser(c) \/ ClQuit(c) => cl_alive' = cl_alive
      BY DEF ClFullConnect, ClTimeout, ClUser, ClQuit
    <2>4. \A c \in ClClients, n \in ClNicks :
             ClNick(c, n) \/ ClOverrule(c, n) \/ ClForceNick(c, n) \/ ClRemoteNick(c, n) => cl_alive' = cl_alive
      BY DEF ClNick, ClOverrule, ClForceNick, ClRemoteNick
    <2>5. \A c \in ClClients, n \in ClNicks : ClIntroduce(c, n) => cl_alive \subseteq cl_alive'
      BY DEF ClIntroduce
    <2>6. ClBackgroundDone \/ ClEventsDone \/ ClApplyDone => cl_alive' = cl_alive
      BY DEF ClBackgroundDone, ClEventsDone, ClApplyDone
    <2> QED BY <2>1, <2>2, <2>3, <2>4, <2>5, <2>6 DEF ClientsNext
  <1> QED BY <1>1, <1>2, <1>3, ClInitKept, PTL DEF ClientsSpec, ClientsExact, FreedOnlyByApply

-----------------------------------------------------------------------------
(* What the letters of a channel's MODE line do, here and on the server that is told. *)

\* A channel as it can be, and a line as it can be announced.
MoBanMasks == {MoCleanMask(m) : m \in MoMasks}
MoSaid ==
    [on : BOOLEAN, letter : {"i"}] \cup [on : {FALSE}, letter : {"l"}]
    \cup [on : {TRUE}, letter : {"l"}, limit : Int]
    \cup [on : BOOLEAN, letter : {"k"}, key : MoKeys]
    \cup [on : BOOLEAN, letter : {"b"}, mask : MoBanMasks]
    \cup [on : BOOLEAN, letter : {"o"}, nick : MoUsers]
MoGood ==
    [flags : SUBSET {"i", "l"}, key : {MoNone} \cup [str : MoKeys, shown : BOOLEAN], limit : Int,
     bans : {B \in SUBSET MoBanMasks : IsFiniteSet(B) /\ Cardinality(B) <= MoMaxBans + 1},
     ops : {O \in SUBSET MoUsers : IsFiniteSet(O)}]

\* CleanMask fills in what a mask leaves out, once.
LEMMA MoCleanTwice ==
    ASSUME NEW b \in MoBanMasks
    PROVE  MoCleanMask(b) = b
  <1>1. PICK m \in MoMasks : b = MoCleanMask(m)
    BY DEF MoBanMasks
  <1>2. b = [p \in DOMAIN m |-> IF m[p] = "" THEN "*" ELSE m[p]]
    BY <1>1 DEF MoCleanMask
  <1>3. DOMAIN b = DOMAIN m /\ \A p \in DOMAIN m : b[p] # "" /\ b = [p2 \in DOMAIN m |-> b[p2]]
    BY <1>2
  <1> QED BY <1>2, <1>3 DEF MoCleanMask

\* One letter: the channel stays good, and what is announced of it is either nothing, and the channel is as it was,
\* or one letter that does the same on another server.
MoEchoes(c, by, done) ==
    /\ done.c \in MoGood
    /\ \/ done.out = <<>> /\ done.c = c
       \/ \E x \in MoSaid : done.out = <<x>> /\ ~MoIsBare(x) /\ MoOnModeChange(c, x, by, FALSE) = [c |-> done.c, out |-> <<x>>]

\* A handler that allows a letter, and does the same where it is announced; one that denies it.
LEMMA MoAllowed ==
    ASSUME NEW c, NEW d \in MoGood, NEW by, NEW x \in MoSaid, ~MoIsBare(x), MoOnModeChange(c, x, by, FALSE) = MoAllow(d, x)
    PROVE  MoEchoes(c, by, MoAllow(d, x))
  BY DEF MoEchoes, MoAllow

LEMMA MoDenied ==
    ASSUME NEW c \in MoGood, NEW by
    PROVE  MoEchoes(c, by, MoDeny(c))
  BY DEF MoEchoes, MoDeny

\* +i
LEMMA MoInviteEchoes ==
    ASSUME NEW c \in MoGood, NEW item \in [on : BOOLEAN, letter : {"i"}], NEW by, NEW local
    PROVE  MoEchoes(c, by, MoOnModeChange(c, item, by, local))
  <1> DEFINE F == IF item.on THEN c.flags \cup {"i"} ELSE c.flags \ {"i"}
             d == [c EXCEPT !.flags = F]
  <1>1. item.letter = "i" /\ item.on \in BOOLEAN
    OBVIOUS
  <1>2. MoOnModeChange(c, item, by, local) = MoInviteOnly(c, item) /\ MoOnModeChange(c, item, by, FALSE) = MoInviteOnly(c, item)
    BY <1>1 DEF MoOnModeChange
  <1>3. MoInviteOnly(c, item) = IF ("i" \in c.flags) = item.on THEN MoDeny(c) ELSE MoAllow(d, item)
    BY DEF MoInviteOnly
  <1>4. d \in MoGood
    <2>1. F \in SUBSET {"i", "l"}
      BY DEF MoGood
    <2> HIDE DEF F
    <2> QED BY <2>1 DEF MoGood
  <1>5. item \in MoSaid /\ ~MoIsBare(item)
    BY <1>1 DEF MoSaid, MoIsBare
  <1> HIDE DEF d
  <1>6. CASE ("i" \in c.flags) = item.on
    <2>1. MoOnModeChange(c, item, by, local) = MoDeny(c)
      BY <1>2, <1>3, <1>6
    <2> QED BY <2>1, MoDenied
  <1>7. CASE ("i" \in c.flags) # item.on
    <2>1. MoOnModeChange(c, item, by, local) = MoAllow(d, item)
      BY <1>2, <1>3, <1>7
    <2>2. MoOnModeChange(c, item, by, FALSE) = MoAllow(d, item)
      BY <1>2, <1>3, <1>7
    <2>3. MoEchoes(c, by, MoAllow(d, item))
      BY <1>4, <1>5, <2>2, MoAllowed
    <2> QED BY <2>1, <2>3
  <1> QED BY <1>6, <1>7

\* +k: a client sets a key where there is none, another server sets any.
LEMMA MoKeyEchoes ==
    ASSUME NEW c \in MoGood, NEW item \in [on : BOOLEAN, letter : {"k"}, key : MoKeys], ~MoIsBare(item),
           NEW by, NEW local \in BOOLEAN
    PROVE  MoEchoes(c, by, MoOnModeChange(c, item, by, local))
  <1> DEFINE key == [str |-> item.key, shown |-> item.on]
             d == [c EXCEPT !.key = key]
             e == [c EXCEPT !.key = MoNone]
             no == c.key.shown = item.on \/ (c.key.shown /\ c.key.str # item.key)
  <1>1. item.letter = "k" /\ item.on \in BOOLEAN /\ item.key \in MoKeys /\ c.key.shown \in BOOLEAN
    <2>1. c.key \in {MoNone} \cup [str : MoKeys, shown : BOOLEAN]
      BY DEF MoGood
    <2>2. c.key.shown \in BOOLEAN
      <3>1. MoNone.shown = FALSE
        BY DEF MoNone
      <3>2. ASSUME NEW k \in [str : MoKeys, shown : BOOLEAN] PROVE k.shown \in BOOLEAN
        OBVIOUS
      <3> QED BY <2>1, <3>1, <3>2
    <2>3. item.letter = "k" /\ item.on \in BOOLEAN /\ item.key \in MoKeys
      OBVIOUS
    <2> QED BY <2>2, <2>3
  <1>2. \A l \in BOOLEAN : MoOnModeChange(c, item, by, l) = MoKey(c, item, l)
    BY <1>1 DEF MoOnModeChange
  <1>3. \A l \in BOOLEAN : MoKey(c, item, l) =
          IF l /\ no THEN MoDeny(c)
          ELSE IF ~c.key.shown \/ (item.on /\ ~l) THEN MoAllow(d, item) ELSE MoAllow(e, item)
    BY DEF MoKey
  <1>4. d \in MoGood /\ e \in MoGood
    <2>1. key \in [str : MoKeys, shown : BOOLEAN]
      BY <1>1
    <2> HIDE DEF key
    <2> QED BY <2>1 DEF MoGood
  <1>5. item \in MoSaid
    BY DEF MoSaid
  <1> HIDE DEF d, e
  <1>6. CASE local /\ no
    <2>1. MoOnModeChange(c, item, by, local) = MoDeny(c)
      BY <1>2, <1>3, <1>6
    <2> QED BY <2>1, MoDenied
  <1>7. CASE ~(local /\ no) /\ (~c.key.shown \/ (item.on /\ ~local))
    <2>1. MoOnModeChange(c, item, by, local) = MoAllow(d, item)
      BY <1>2, <1>3, <1>7
    <2>2. MoOnModeChange(c, item, by, FALSE) = MoAllow(d, item)
      BY <1>2, <1>3, <1>7
    <2>3. MoEchoes(c, by, MoAllow(d, item))
      BY <1>4, <1>5, <2>2, MoAllowed
    <2> QED BY <2>1, <2>3
  <1>8. CASE ~(local /\ no) /\ ~(~c.key.shown \/ (item.on /\ ~local))
    <2>1. MoOnModeChange(c, item, by, local) = MoAllow(e, item)
      BY <1>2, <1>3, <1>8
    <2>2. MoOnModeChange(c, item, by, FALSE) = MoAllow(e, item)
      <3>1. c.key.shown = TRUE /\ ~item.on
        BY <1>1, <1>8
      <3> QED BY <1>2, <1>3, <3>1
    <2>3. MoEchoes(c, by, MoAllow(e, item))
      BY <1>4, <1>5, <2>2, MoAllowed
    <2> QED BY <2>1, <2>3
  <1> QED BY <1>6, <1>7, <1>8

\* +l: what is announced is the number as it was read, and it is cut to a short on each server.
LEMMA MoLimitEchoes ==
    ASSUME NEW c \in MoGood, NEW item \in [on : {TRUE}, letter : {"l"}, limit : Int], NEW by, NEW local
    PROVE  MoEchoes(c, by, MoOnModeChange(c, item, by, local))
  <1> DEFINE long == MoNewLimit(item)
             x == [item EXCEPT !.limit = long]
             F == c.flags \cup {"l"}
             L == MoShort(long)
             d == [c EXCEPT !.limit = L, !.flags = F]
             no == long = 0 \/ (long = c.limit /\ c.limit > 0)
  <1>1. item.letter = "l" /\ item.on = TRUE /\ item.limit \in Int
    OBVIOUS
  <1>2. long \in Int /\ long >= 0
    BY <1>1, ChannelModesOK DEF MoNewLimit
  <1> HIDE DEF long
  <1>3. x \in [on : {TRUE}, letter : {"l"}, limit : Int] /\ x.letter = "l" /\ x.on = TRUE /\ x.limit = long
    BY <1>2
  <1>4. MoNewLimit(x) = long /\ [x EXCEPT !.limit = long] = x
    <2>1. x.limit = long /\ ~(x.limit < 0)
      BY <1>2, <1>3
    <2>2. MoNewLimit(x) = long
      BY <2>1 DEF MoNewLimit
    <2> HIDE DEF x
    <2>3. [x EXCEPT !.limit = x.limit] = x
      BY <1>3
    <2> QED BY <2>1, <2>2, <2>3
  <1> HIDE DEF x
  <1>5. MoOnModeChange(c, item, by, local) = MoSetLimit(c, item) /\ MoOnModeChange(c, x, by, FALSE) = MoSetLimit(c, x)
    BY <1>1, <1>3 DEF MoOnModeChange
  <1>6. MoSetLimit(c, item) = IF no THEN MoDeny(c) ELSE MoAllow(d, x)
    BY DEF MoSetLimit, long, x
  <1>7. MoSetLimit(c, x) = IF no THEN MoDeny(c) ELSE MoAllow(d, x)
    BY <1>4 DEF MoSetLimit
  <1>8. d \in MoGood
    <2>1. F \in SUBSET {"i", "l"}
      BY DEF MoGood
    <2>2. L \in Int
      BY <1>2, ChannelModesOK DEF MoShort
    <2> HIDE DEF F, L
    <2> QED BY <2>1, <2>2 DEF MoGood
  <1>9. x \in MoSaid /\ ~MoIsBare(x)
    BY <1>3 DEF MoSaid, MoIsBare
  <1> HIDE DEF d
  <1>20. CASE no
    <2>1. MoOnModeChange(c, item, by, local) = MoDeny(c)
      BY <1>5, <1>6, <1>7, <1>20
    <2> QED BY <2>1, MoDenied
  <1>21. CASE ~(no)
    <2>1. MoOnModeChange(c, item, by, local) = MoAllow(d, x)
      BY <1>5, <1>6, <1>7, <1>21
    <2>2. MoOnModeChange(c, x, by, FALSE) = MoAllow(d, x)
      BY <1>5, <1>6, <1>7, <1>21
    <2>3. d \in MoGood
      BY <1>8, <1>21
    <2>4. MoEchoes(c, by, MoAllow(d, x))
      BY <1>9, <2>2, <2>3, MoAllowed
    <2> QED BY <2>1, <2>4
  <1> QED BY <1>20, <1>21

\* -l
LEMMA MoNoLimitEchoes ==
    ASSUME NEW c \in MoGood, NEW item \in [on : {FALSE}, letter : {"l"}], NEW by, NEW local
    PROVE  MoEchoes(c, by, MoOnModeChange(c, item, by, local))
  <1> DEFINE F == c.flags \ {"l"}
             d == [c EXCEPT !.limit = 0, !.flags = F]
  <1>1. item.letter = "l" /\ item.on = FALSE
    OBVIOUS
  <1>2. MoOnModeChange(c, item, by, local) = MoUnsetLimit(c, item) /\ MoOnModeChange(c, item, by, FALSE) = MoUnsetLimit(c, item)
    BY <1>1 DEF MoOnModeChange
  <1>3. MoUnsetLimit(c, item) = IF c.limit = 0 THEN MoDeny(c) ELSE MoAllow(d, item)
    BY DEF MoUnsetLimit
  <1>4. d \in MoGood
    <2>1. F \in SUBSET {"i", "l"}
      BY DEF MoGood
    <2> DEFINE L == 0
    <2>2. L \in Int /\ d = [c EXCEPT !.limit = L, !.flags = F]
      OBVIOUS
    <2> HIDE DEF F, d, L
    <2> QED BY <2>1, <2>2 DEF MoGood
  <1>5. item \in MoSaid /\ ~MoIsBare(item)
    BY <1>1 DEF MoSaid, MoIsBare
  <1> HIDE DEF d
  <1>20. CASE c.limit = 0
    <2>1. MoOnModeChange(c, item, by, local) = MoDeny(c)
      BY <1>2, <1>3, <1>20
    <2> QED BY <2>1, MoDenied
  <1>21. CASE ~(c.limit = 0)
    <2>1. MoOnModeChange(c, item, by, local) = MoAllow(d, item)
      BY <1>2, <1>3, <1>21
    <2>2. MoOnModeChange(c, item, by, FALSE) = MoAllow(d, item)
      BY <1>2, <1>3, <1>21
    <2>3. d \in MoGood
      BY <1>4, <1>21
    <2>4. MoEchoes(c, by, MoAllow(d, item))
      BY <1>5, <2>2, <2>3, MoAllowed
    <2> QED BY <2>1, <2>4
  <1> QED BY <1>20, <1>21

\* +b: the mask is announced as it was completed.
LEMMA MoBanEchoes ==
    ASSUME NEW c \in MoGood, NEW masks, \A m \in masks : MoCleanMask(m) \in MoBanMasks,
           NEW item \in [on : BOOLEAN, letter : {"b"}, mask : masks], NEW by, NEW local
    PROVE  MoEchoes(c, by, MoOnModeChange(c, item, by, local))
  <1> DEFINE ban == MoCleanMask(item.mask)
             x == [item EXCEPT !.mask = ban]
             B == IF item.on THEN c.bans \cup {ban} ELSE c.bans \ {ban}
             d == [c EXCEPT !.bans = B]
             no == (ban \in c.bans) = item.on \/ (item.on /\ Cardinality(c.bans) > MoMaxBans)
  <1>1. item.letter = "b" /\ item.on \in BOOLEAN /\ ban \in MoBanMasks
    OBVIOUS
  <1>2. MoCleanMask(ban) = ban
    BY <1>1, MoCleanTwice
  <1> HIDE DEF ban
  <1>3. x \in [on : BOOLEAN, letter : {"b"}, mask : MoBanMasks] /\ x.letter = "b" /\ x.on = item.on /\ x.mask = ban
    BY <1>1
  <1>4. [x EXCEPT !.mask = ban] = x
    BY <1>3
  <1> HIDE DEF x
  <1>5. MoOnModeChange(c, item, by, local) = MoBan(c, item) /\ MoOnModeChange(c, x, by, FALSE) = MoBan(c, x)
    BY <1>1, <1>3 DEF MoOnModeChange
  <1>6. MoBan(c, item) = IF no THEN MoDeny(c) ELSE MoAllow(d, x)
    BY DEF MoBan, ban, x
  <1>7. MoBan(c, x) = IF no THEN MoDeny(c) ELSE MoAllow(d, x)
    BY <1>2, <1>3, <1>4 DEF MoBan
  <1>8. ASSUME ~no PROVE d \in MoGood
    <2>1. c.bans \in SUBSET MoBanMasks /\ IsFiniteSet(c.bans) /\ Cardinality(c.bans) <= MoMaxBans + 1
      BY DEF MoGood
    <2>2. Cardinality(c.bans) \in Nat /\ MoMaxBans \in Nat
      BY <2>1, ChannelModesOK, FS_CardinalityType
    <2>3. IsFiniteSet(B) /\ Cardinality(B) <= MoMaxBans + 1
      <3>1. CASE item.on
        <4>1. Cardinality(c.bans) <= MoMaxBans /\ B = c.bans \cup {ban}
          <5>1. ~(Cardinality(c.bans) > MoMaxBans)
            BY <1>8, <3>1
          <5>2. B = c.bans \cup {ban}
            BY <3>1
          <5> QED BY <2>2, <5>1, <5>2
        <4> HIDE DEF B
        <4>2. IsFiniteSet(B) /\ Cardinality(B) = IF ban \in c.bans THEN Cardinality(c.bans) ELSE Cardinality(c.bans) + 1
          BY <2>1, <4>1, FS_AddElement
        <4> QED BY <2>2, <4>1, <4>2
      <3>2. CASE ~item.on
        <4>1. B = c.bans \ {ban}
          BY <3>2
        <4> HIDE DEF B
        <4>2. IsFiniteSet(B) /\ Cardinality(B) = IF ban \in c.bans THEN Cardinality(c.bans) - 1 ELSE Cardinality(c.bans)
          BY <2>1, <4>1, FS_RemoveElement
        <4> QED BY <2>1, <2>2, <4>2
      <3> QED BY <3>1, <3>2
    <2>4. B \in SUBSET MoBanMasks
      BY <1>1, <2>1
    <2> HIDE DEF B
    <2> QED BY <2>3, <2>4 DEF MoGood
  <1>9. x \in MoSaid /\ ~MoIsBare(x)
    BY <1>3 DEF MoSaid, MoIsBare
  <1> HIDE DEF d, no
  <1>20. CASE no
    <2>1. MoOnModeChange(c, item, by, local) = MoDeny(c)
      BY <1>5, <1>6, <1>7, <1>20
    <2> QED BY <2>1, MoDenied
  <1>21. CASE ~(no)
    <2>1. MoOnModeChange(c, item, by, local) = MoAllow(d, x)
      BY <1>5, <1>6, <1>7, <1>21
    <2>2. MoOnModeChange(c, x, by, FALSE) = MoAllow(d, x)
      BY <1>5, <1>6, <1>7, <1>21
    <2>3. d \in MoGood
      BY <1>8, <1>21
    <2>4. MoEchoes(c, by, MoAllow(d, x))
      BY <1>9, <2>2, <2>3, MoAllowed
    <2> QED BY <2>1, <2>4
  <1> QED BY <1>20, <1>21

\* +o
LEMMA MoOpEchoes ==
    ASSUME NEW c \in MoGood, NEW item \in [on : BOOLEAN, letter : {"o"}, nick : MoUsers], ~MoIsBare(item),
           NEW by, NEW local \in BOOLEAN
    PROVE  MoEchoes(c, by, MoOnModeChange(c, item, by, local))
  <1> DEFINE O == IF item.on THEN c.ops \cup {item.nick} ELSE c.ops \ {item.nick}
             d == [c EXCEPT !.ops = O]
             same == (item.nick \in c.ops) = item.on
  <1>1. item.letter = "o" /\ item.on \in BOOLEAN /\ item.nick \in MoUsers
    OBVIOUS
  <1>2. \A l \in BOOLEAN : MoOnModeChange(c, item, by, l) = MoOp(c, item, by, l)
    BY <1>1 DEF MoOnModeChange
  <1>3. \A l \in BOOLEAN : MoOp(c, item, by, l) = IF (l /\ by \notin c.ops) \/ same THEN MoDeny(c) ELSE MoAllow(d, item)
    BY DEF MoOp
  <1>4. d \in MoGood
    <2>1. c.ops \in SUBSET MoUsers /\ IsFiniteSet(c.ops)
      BY DEF MoGood
    <2>2. O \in SUBSET MoUsers /\ IsFiniteSet(O)
      BY <1>1, <2>1, FS_AddElement, FS_RemoveElement
    <2> HIDE DEF O
    <2> QED BY <2>2 DEF MoGood
  <1>5. item \in MoSaid
    BY DEF MoSaid
  <1> HIDE DEF d
  <1>6. CASE (local /\ by \notin c.ops) \/ same
    <2>1. MoOnModeChange(c, item, by, local) = MoDeny(c)
      BY <1>2, <1>3, <1>6
    <2> QED BY <2>1, MoDenied
  <1>7. CASE ~((local /\ by \notin c.ops) \/ same)
    <2>1. MoOnModeChange(c, item, by, local) = MoAllow(d, item)
      BY <1>2, <1>3, <1>7
    <2>2. MoOnModeChange(c, item, by, FALSE) = MoAllow(d, item)
      BY <1>2, <1>3, <1>7
    <2>3. MoEchoes(c, by, MoAllow(d, item))
      BY <1>4, <1>5, <2>2, MoAllowed
    <2> QED BY <2>1, <2>3
  <1> QED BY <1>6, <1>7

MoTyped == MoItems \cup MoBare \cup MoSaid

\* Any letter, as typed or as announced.
LEMMA MoAnyEchoes ==
    ASSUME NEW c \in MoGood, NEW item \in MoTyped, ~MoIsBare(item), NEW by, NEW local \in BOOLEAN
    PROVE  MoEchoes(c, by, MoOnModeChange(c, item, by, local))
  <1>1. CASE item \in [on : BOOLEAN, letter : {"i"}]
    BY <1>1, MoInviteEchoes
  <1>2. CASE item \in [on : {FALSE}, letter : {"l"}]
    BY <1>2, MoNoLimitEchoes
  <1>3. CASE item \in [on : {TRUE}, letter : {"l"}, limit : Int]
    BY <1>3, MoLimitEchoes
  <1>4. CASE item \in [on : BOOLEAN, letter : {"k"}, key : MoKeys]
    BY <1>4, MoKeyEchoes
  <1>5. CASE item \in [on : BOOLEAN, letter : {"b"}, mask : MoMasks \cup MoBanMasks]
    <2>1. \A m \in MoMasks \cup MoBanMasks : MoCleanMask(m) \in MoBanMasks
      <3>1. \A m \in MoMasks : MoCleanMask(m) \in MoBanMasks
        BY DEF MoBanMasks
      <3> QED BY <3>1, MoCleanTwice
    <2> QED BY <1>5, <2>1, MoBanEchoes
  <1>6. CASE item \in [on : BOOLEAN, letter : {"o"}, nick : MoUsers]
    BY <1>6, MoOpEchoes
  <1>7. CASE item \in [on : {TRUE}, letter : {"l"}, limit : MoLimits]
    <2>1. item \in [on : {TRUE}, letter : {"l"}, limit : Int]
      BY <1>7, ChannelModesOK
    <2> QED BY <1>3, <2>1
  <1>8. CASE item \in MoBare
    BY <1>8 DEF MoBare, MoIsBare, MoHasParam
  <1>9. CASE item \in [on : BOOLEAN, letter : {"b"}, mask : MoMasks]
    BY <1>5, <1>9
  <1>10. CASE item \in [on : BOOLEAN, letter : {"b"}, mask : MoBanMasks]
    BY <1>5, <1>10
  <1> HIDE DEF MoBare
  <1> QED BY <1>1, <1>2, <1>3, <1>4, <1>6, <1>7, <1>8, <1>9, <1>10 DEF MoTyped, MoItems, MoSaid

\* What is announced can be read by the parser.
LEMMA MoSaidTyped == MoSaid \subseteq MoTyped /\ Seq(MoSaid) \subseteq Seq(MoTyped)
  <1>1. MoSaid \subseteq MoTyped
    BY DEF MoTyped
  <1>2. ASSUME NEW A, NEW B, A \subseteq B PROVE Seq(A) \subseteq Seq(B)
    <2> SUFFICES ASSUME NEW s \in Seq(A) PROVE s \in Seq(B)
      OBVIOUS
    <2>1. PICK n \in Nat : s \in [1 .. n -> A]
      BY SeqDef
    <2>2. s \in [1 .. n -> B]
      BY <1>2, <2>1
    <2> QED BY <2>2, SeqDef
  <1> QED BY <1>1, <1>2

\* A state of the parser, and one letter more.
MoState == [c : MoGood, out : Seq(MoSaid), full : BOOLEAN]
MoOver(out) == Len(SelectSeq(out, MoHasParam)) > MoMaxModes

\* One turn of the parser: a letter without its parameter or after the line is full does nothing.
LEMMA MoStepIs ==
    ASSUME NEW v \in MoState, NEW x \in MoTyped, NEW by, NEW local \in BOOLEAN
    PROVE  /\ MoStep(v, x, by, local) \in MoState
           /\ MoIsBare(x) \/ v.full => MoStep(v, x, by, local) = v
           /\ ~MoIsBare(x) /\ ~v.full =>
                LET done == MoOnModeChange(v.c, x, by, local) IN
                /\ MoEchoes(v.c, by, done)
                /\ MoStep(v, x, by, local).c = done.c
                /\ MoStep(v, x, by, local).out = v.out \o done.out
                /\ MoStep(v, x, by, local).full = MoOver(v.out \o done.out)
  <1>1. v.c \in MoGood /\ v.out \in Seq(MoSaid) /\ v.full \in BOOLEAN
    BY DEF MoState
  <1>2. CASE MoIsBare(x) \/ v.full
    <2>1. MoStep(v, x, by, local) = v
      BY <1>2 DEF MoStep
    <2> QED BY <1>2, <2>1
  <1>3. CASE ~MoIsBare(x) /\ ~v.full
    <2> DEFINE done == MoOnModeChange(v.c, x, by, local)
               out == v.out \o done.out
    <2>1. MoEchoes(v.c, by, done)
      BY <1>1, <1>3, MoAnyEchoes
    <2>2. done.c \in MoGood /\ done.out \in Seq(MoSaid)
      <3> HIDE DEF done
      <3>1. CASE done.out = <<>>
        <4>1. <<>> \in Seq(MoSaid)
          OBVIOUS
        <4> QED BY <2>1, <3>1, <4>1 DEF MoEchoes
      <3>2. CASE \E s \in MoSaid : done.out = <<s>>
        <4>1. PICK s \in MoSaid : done.out = <<s>>
          BY <3>2
        <4>2. <<s>> \in Seq(MoSaid)
          OBVIOUS
        <4>3. done.out \in Seq(MoSaid)
          BY <4>1, <4>2
        <4> QED BY <2>1, <4>3 DEF MoEchoes
      <3> QED BY <2>1, <3>1, <3>2 DEF MoEchoes
    <2>3. MoStep(v, x, by, local) = [c |-> done.c, out |-> out, full |-> MoOver(out)]
      BY <1>3 DEF MoStep, MoOver
    <2> HIDE DEF done
    <2>4. out \in Seq(MoSaid)
      BY <1>1, <2>2
    <2> HIDE DEF out
    <2> DEFINE o == MoOver(out)
    <2>5. o \in BOOLEAN
      BY DEF MoOver
    <2> HIDE DEF o
    <2>6. MoStep(v, x, by, local) = [c |-> done.c, out |-> out, full |-> o]
      BY <2>3 DEF o
    <2>7. MoStep(v, x, by, local) \in MoState
      BY <2>2, <2>4, <2>5, <2>6 DEF MoState
    <2>8. MoStep(v, x, by, local).c = done.c /\ MoStep(v, x, by, local).out = out /\ MoStep(v, x, by, local).full = o
      BY <2>6
    <2> QED BY <1>3, <2>1, <2>7, <2>8 DEF done, out, o
  <1> QED BY <1>2, <1>3

MoFresh(c) == [c |-> c, out |-> <<>>, full |-> FALSE]
LEMMA MoStepDoes ==
    ASSUME NEW v \in MoState, NEW x \in MoTyped, NEW by, NEW local \in BOOLEAN, ~MoIsBare(x), ~v.full
    PROVE  /\ MoEchoes(v.c, by, MoOnModeChange(v.c, x, by, local))
           /\ MoStep(v, x, by, local).c = MoOnModeChange(v.c, x, by, local).c
           /\ MoStep(v, x, by, local).out = v.out \o MoOnModeChange(v.c, x, by, local).out
           /\ MoStep(v, x, by, local).full = MoOver(v.out \o MoOnModeChange(v.c, x, by, local).out)
  BY MoStepIs

MoTurns(h, c, line, by, local) ==
    /\ h \in [0 .. Len(line) -> MoState]
    /\ h[0] = MoFresh(c) /\ h[Len(line)] = MoProcess(c, line, by, local)
    /\ \A k \in 1 .. Len(line) : h[k] = MoStep(h[k - 1], line[k], by, local)
LEMMA MoTurnsExist ==
    ASSUME NEW c \in MoGood, NEW line \in Seq(MoTyped), NEW by, NEW local \in BOOLEAN
    PROVE  \E h : MoTurns(h, c, line, by, local)
  <1> DEFINE V == MoState
             t == line
             len == Len(t)
             Turn(v, x) == MoStep(v, x, by, local)
             F == [q \in (1 .. len) \X V |-> Turn(q[2], t[q[1]])]
             iter == CHOOSE g : g = [u \in SUBSET DOMAIN t |->
                        IF u = {} THEN MoFresh(c) ELSE Turn(g[u \ {Max(u)}], t[Max(u)])]
  <1>0. len \in Nat /\ DOMAIN t = 1 .. len /\ \A k \in 1 .. len : t[k] \in MoTyped
    OBVIOUS
  <1>1. MoProcess(c, line, by, local) = iter[DOMAIN t]
    BY DEF MoFresh, MoProcess, FoldLeft, MapThenFoldSet
  <1>2. \A v \in V : \A x \in MoTyped : Turn(v, x) \in V
    BY MoStepIs
  <1>4. MoFresh(c) \in V
    BY DEF MoFresh, MoState
  <1>11. \A h, k : h[k] = MoStep(h[k - 1], line[k], by, local) <=> h[k] = Turn(h[k - 1], t[k])
    OBVIOUS
  <1> HIDE DEF V, Turn, t
  <1>3. F \in [(1 .. len) \X V -> V] /\ \A k \in 1 .. len, v \in V : F[k, v] = Turn(v, t[k])
    <2>2. \A q \in (1 .. len) \X V : Turn(q[2], t[q[1]]) \in V
      BY <1>0, <1>2
    <2>3. \A k \in 1 .. len, v \in V : <<k, v>> \in (1 .. len) \X V /\ <<k, v>>[1] = k /\ <<k, v>>[2] = v
      OBVIOUS
    <2> QED BY <2>2, <2>3
  <1> HIDE DEF F
  <1>5. PICK g \in [SUBSET (1 .. len) -> V] : FoldOf(g, len, MoFresh(c), F)
    <2>1. FoldFor(len, V, MoFresh(c), F)
      BY <1>0, <1>3, <1>4, FoldExists
    <2> QED BY <2>1 DEF FoldFor
  <1>6. g = [u \in SUBSET DOMAIN t |-> IF u = {} THEN MoFresh(c) ELSE Turn(g[u \ {Max(u)}], t[Max(u)])]
    <2>1. ASSUME NEW u \in SUBSET (1 .. len)
          PROVE  g[u] = IF u = {} THEN MoFresh(c) ELSE Turn(g[u \ {Max(u)}], t[Max(u)])
      <3>1. g[u] = IF u = {} THEN MoFresh(c) ELSE F[Max(u), g[u \ {Max(u)}]]
        BY <1>5 DEF FoldOf
      <3>2. u # {} => Max(u) \in 1 .. len
        BY <1>0, MaxIs
      <3>3. g[u \ {Max(u)}] \in V
        BY <1>5
      <3> QED BY <1>3, <3>1, <3>2, <3>3
    <2> QED BY <1>0, <2>1
  <1>7. iter = [u \in SUBSET DOMAIN t |-> IF u = {} THEN MoFresh(c) ELSE Turn(iter[u \ {Max(u)}], t[Max(u)])]
    BY <1>6
  <1> HIDE DEF iter
  <1>8. iter[{}] = MoFresh(c)
    BY <1>7
  <1>9. ASSUME NEW k \in 1 .. len
        PROVE  iter[1 .. k] = Turn(iter[1 .. k - 1], t[k])
    <2>1. 1 .. k \in SUBSET DOMAIN t /\ 1 .. k # {} /\ Max(1 .. k) = k /\ (1 .. k) \ {Max(1 .. k)} = 1 .. k - 1
      BY <1>0, MaxOfRange
    <2> QED BY <1>7, <2>1
  <1> DEFINE h == [k \in 0 .. len |-> iter[1 .. k]]
  <1>10. h \in [0 .. len -> V]
    <2>1. \A k \in 1 .. len : iter[1 .. k - 1] \in V => iter[1 .. k] \in V
      BY <1>0, <1>2, <1>9
    <2>2. iter[{}] \in V
      BY <1>4, <1>8
    <2> QED BY <1>0, <2>1, <2>2, FoldTurns
  <1>12. h[0] = MoFresh(c)
    <2>1. 1 .. 0 = {} /\ 0 \in 0 .. len
      BY <1>0
    <2> QED BY <1>8, <2>1
  <1>13. h[len] = iter[DOMAIN t]
    BY <1>0
  <1>14. \A k \in 1 .. len : h[k] = Turn(h[k - 1], t[k])
    <2> SUFFICES ASSUME NEW k \in 1 .. len PROVE h[k] = Turn(h[k - 1], t[k])
      OBVIOUS
    <2>1. k \in 0 .. len /\ k - 1 \in 0 .. len
      BY <1>0
    <2> QED BY <1>9, <2>1
  <1> HIDE DEF h, len
  <1>15. \E f \in [0 .. len -> V] : /\ f[0] = MoFresh(c) /\ f[len] = MoProcess(c, line, by, local)
                                  /\ \A k \in 1 .. len : f[k] = MoStep(f[k - 1], line[k], by, local)
    BY <1>1, <1>10, <1>11, <1>12, <1>13, <1>14
  <1>16. PICK h2 \in [0 .. len -> V] : /\ h2[0] = MoFresh(c) /\ h2[len] = MoProcess(c, line, by, local)
                                  /\ \A k \in 1 .. len : h2[k] = MoStep(h2[k - 1], line[k], by, local)
    BY <1>15
  <1>17. MoTurns(h2, c, line, by, local)
    BY <1>16 DEF V, t, len, MoTurns
  <1> QED BY <1>17

LEMMA MoProcessOf ==
    ASSUME NEW c \in MoGood, NEW line \in Seq(MoTyped), NEW by, NEW local \in BOOLEAN
    PROVE  MoProcess(c, line, by, local) \in MoState
  <1>1. PICK h : MoTurns(h, c, line, by, local)
    BY MoTurnsExist
  <1>2. Len(line) \in 0 .. Len(line)
    OBVIOUS
  <1> QED BY <1>1, <1>2 DEF MoTurns

\* A longer line is the shorter one and a letter more.
LEMMA MoProcessAppend ==
    ASSUME NEW c \in MoGood, NEW line \in Seq(MoTyped), NEW x \in MoTyped, NEW by
    PROVE  MoProcess(c, Append(line, x), by, FALSE) = MoStep(MoProcess(c, line, by, FALSE), x, by, FALSE)
  <1> DEFINE n == Len(line)
             long == Append(line, x)
  <1>1. long \in Seq(MoTyped) /\ Len(long) = n + 1 /\ long[n + 1] = x /\ n \in Nat /\ \A k \in 1 .. n : long[k] = line[k]
    OBVIOUS
  <1> HIDE DEF long
  <1>10. PICK h : MoTurns(h, c, line, by, FALSE)
    BY MoTurnsExist
  <1>11. PICK f : MoTurns(f, c, long, by, FALSE)
    BY <1>1, MoTurnsExist
  <1>2. /\ h[0] = MoFresh(c) /\ h[n] = MoProcess(c, line, by, FALSE)
        /\ \A k \in 1 .. n : h[k] = MoStep(h[k - 1], line[k], by, FALSE)
    BY <1>10 DEF MoTurns
  <1>3. /\ f[0] = MoFresh(c) /\ f[n + 1] = MoProcess(c, long, by, FALSE)
        /\ \A k \in 1 .. n + 1 : f[k] = MoStep(f[k - 1], long[k], by, FALSE)
    BY <1>1, <1>11 DEF MoTurns
  <1> DEFINE S == {k \in 0 .. n : f[k] = h[k]}
  <1>4. 0 \in S
    BY <1>1, <1>2, <1>3
  <1>5. \A k \in 1 .. n : k - 1 \in S => k \in S
    <2> SUFFICES ASSUME NEW k \in 1 .. n, f[k - 1] = h[k - 1] PROVE f[k] = h[k]
      OBVIOUS
    <2>1. k \in 1 .. n + 1
      BY <1>1
    <2> QED BY <1>1, <1>2, <1>3, <2>1
  <1>6. n \in S
    <2> HIDE DEF S
    <2>1. \A k \in 0 .. n : k \in S
      BY <1>1, <1>4, <1>5, TurnsKeep
    <2> QED BY <1>1, <2>1
  <1>7. f[n + 1] = MoStep(f[n], x, by, FALSE)
    <2>1. n + 1 \in 1 .. n + 1 /\ (n + 1) - 1 = n
      BY <1>1
    <2> QED BY <1>1, <1>3, <2>1
  <1> QED BY <1>1, <1>2, <1>3, <1>6, <1>7 DEF long

\* An empty line.
LEMMA MoNothing ==
    ASSUME NEW c \in MoGood, NEW by
    PROVE  MoProcess(c, <<>>, by, FALSE) = MoFresh(c)
  <1>1. <<>> \in Seq(MoTyped) /\ Len(<<>>) = 0
    OBVIOUS
  <1>2. PICK h : MoTurns(h, c, <<>>, by, FALSE)
    BY <1>1, MoTurnsExist
  <1> QED BY <1>1, <1>2 DEF MoTurns

\* What is announced of a line does on another server what the line did here.
LEMMA MoReplays ==
    ASSUME NEW c \in MoGood, NEW line \in Seq(MoTyped), NEW by, NEW local \in BOOLEAN
    PROVE  MoProcess(c, MoProcess(c, line, by, local).out, by, FALSE).c = MoProcess(c, line, by, local).c
  <1>10. PICK h : MoTurns(h, c, line, by, local)
    BY MoTurnsExist
  <1>1. /\ h \in [0 .. Len(line) -> MoState]
        /\ h[0] = MoFresh(c) /\ h[Len(line)] = MoProcess(c, line, by, local)
        /\ \A k \in 1 .. Len(line) : h[k] = MoStep(h[k - 1], line[k], by, local)
    BY <1>10 DEF MoTurns
  <1> DEFINE n == Len(line)
             There(k) == MoProcess(c, h[k].out, by, FALSE)
             S == {k \in 0 .. n : There(k).c = h[k].c /\ There(k).out = h[k].out /\ (There(k).full => h[k].full)}
  <1>2. n \in Nat
    OBVIOUS
  <1>3. \A k \in 0 .. n : h[k] \in MoState /\ h[k].out \in Seq(MoSaid) /\ h[k].c \in MoGood /\ h[k].full \in BOOLEAN
    BY <1>1 DEF MoState
  <1>4. 0 \in S
    <2>1. h[0].out = <<>> /\ h[0] = MoFresh(c)
      BY <1>1 DEF MoFresh
    <2>3. MoProcess(c, <<>>, by, FALSE) = MoFresh(c)
      BY MoNothing
    <2>4. MoProcess(c, h[0].out, by, FALSE) = h[0]
      BY <2>1, <2>3
    <2> HIDE DEF S
    <2>2. There(0) = h[0]
      BY <2>4
    <2>5. 0 \in 0 .. n
      BY <1>2
    <2> USE DEF S
    <2> HIDE DEF There
    <2> QED BY <2>2, <2>5
  <1>5. ASSUME NEW k \in 1 .. n, k - 1 \in S
        PROVE  k \in S
    <2> DEFINE v == h[k - 1]
               w == h[k]
               x == line[k]
               r == MoProcess(c, v.out, by, FALSE)
               s == MoProcess(c, w.out, by, FALSE)
    <2>1. k - 1 \in 0 .. n /\ k \in 0 .. n
      BY <1>2
    <2>2. x \in MoTyped
      OBVIOUS
    <2>3. v \in MoState /\ v.out \in Seq(MoSaid) /\ v.c \in MoGood /\ v.full \in BOOLEAN
      BY <1>3, <2>1
    <2>4. r.c = v.c /\ r.out = v.out /\ (r.full => v.full)
      BY <1>5
    <2>5. w = MoStep(v, x, by, local)
      BY <1>1
    <2>6. SUFFICES s.c = w.c /\ s.out = w.out /\ (s.full => w.full)
      BY <2>1
    <2> HIDE DEF x, v, w
    <2>7. CASE MoIsBare(x) \/ v.full
      <3>1. w = v
        BY <2>2, <2>3, <2>5, <2>7, MoStepIs
      <3> QED BY <2>4, <3>1
    <2>8. CASE ~MoIsBare(x) /\ ~v.full
      <3> DEFINE done == MoOnModeChange(v.c, x, by, local)
      <3>1. /\ MoEchoes(v.c, by, done) /\ w.c = done.c /\ w.out = v.out \o done.out
            /\ w.full = MoOver(v.out \o done.out)
        BY <2>2, <2>3, <2>5, <2>8, MoStepDoes
      <3> HIDE DEF done
      <3>2. CASE done.out = <<>> /\ done.c = v.c
        <4>1. w.c = v.c /\ w.out = v.out
          BY <2>3, <3>1, <3>2
        <4>2. ~r.full /\ s = r
          BY <2>4, <2>8, <4>1
        <4> QED BY <2>4, <4>1, <4>2
      <3>3. CASE \E y \in MoSaid : /\ done.out = <<y>> /\ ~MoIsBare(y)
                                   /\ MoOnModeChange(v.c, y, by, FALSE) = [c |-> done.c, out |-> <<y>>]
        <4>1. PICK y \in MoSaid : /\ done.out = <<y>> /\ ~MoIsBare(y)
                                 /\ MoOnModeChange(v.c, y, by, FALSE) = [c |-> done.c, out |-> <<y>>]
          BY <3>3
        <4>2. y \in MoTyped /\ v.out \in Seq(MoTyped)
          BY <2>3, MoSaidTyped
        <4>3. w.out = Append(v.out, y)
          <5>1. \A o \in Seq(MoSaid) : o \o <<y>> = Append(o, y)
            OBVIOUS
          <5> QED BY <2>3, <3>1, <4>1, <5>1
        <4>4. s = MoStep(r, y, by, FALSE)
          <5>1. MoProcess(c, Append(v.out, y), by, FALSE) = MoStep(MoProcess(c, v.out, by, FALSE), y, by, FALSE)
            BY <4>2, MoProcessAppend
          <5> QED BY <4>3, <5>1
        <4>5. r \in MoState
          BY <4>2, MoProcessOf
        <4>6. ~r.full
          BY <2>4, <2>8
        <4> HIDE DEF r, s
        <4> DEFINE there == MoOnModeChange(r.c, y, by, FALSE)
        <4>7. there = [c |-> done.c, out |-> <<y>>]
          BY <2>4, <4>1
        <4>8. s.c = there.c /\ s.out = r.out \o there.out /\ s.full = MoOver(r.out \o there.out)
          BY <4>1, <4>2, <4>4, <4>5, <4>6, MoStepDoes
        <4> HIDE DEF there
        <4>9. there.c = done.c /\ there.out = done.out
          BY <4>1, <4>7
        <4> QED BY <2>4, <3>1, <4>8, <4>9
      <3> QED BY <3>1, <3>2, <3>3 DEF MoEchoes
    <2> QED BY <2>7, <2>8
  <1>6. n \in S
    <2> HIDE DEF S
    <2>1. \A k \in 0 .. n : k \in S
      BY <1>2, <1>4, <1>5, TurnsKeep
    <2> QED BY <1>2, <2>1
  <1> QED BY <1>1, <1>6

\* A channel whose key is either shown or there is none: only a removal for another server where there is none
\* could leave one that is not shown, and none is announced.
MoFine == {c \in MoGood : c.key.shown \/ c.key = MoNone}

\* A key is shown exactly while one is set, whichever letter is handled.
LEMMA MoLetterFine ==
    ASSUME NEW c \in MoFine, NEW item \in MoTyped, ~MoIsBare(item), NEW by
    PROVE  MoOnModeChange(c, item, by, TRUE).c \in MoFine
  <1> DEFINE done == MoOnModeChange(c, item, by, TRUE)
  <1>1. c \in MoGood /\ (c.key.shown \/ c.key = MoNone)
    BY DEF MoFine
  <1>2. done.c \in MoGood
    BY <1>1, MoAnyEchoes DEF MoEchoes
  <1>3. done.c.key.shown \/ done.c.key = MoNone
    <2>0. \A d, x : MoDeny(d).c = d /\ MoAllow(d, x).c = d
      BY DEF MoDeny, MoAllow
    <2>1. CASE item.letter = "k"
      <3>1. done = MoKey(c, item, TRUE)
        BY <2>1 DEF MoOnModeChange
      <3> DEFINE key == [str |-> item.key, shown |-> item.on]
                 d == [c EXCEPT !.key = key]
                 e == [c EXCEPT !.key = MoNone]
      <3>2. done = MoDeny(c) \/ (done = MoAllow(d, item) /\ ~c.key.shown /\ c.key.shown # item.on) \/ done = MoAllow(e, item)
        <4>1. CASE c.key.shown = item.on \/ (c.key.shown /\ c.key.str # item.key)
          BY <3>1, <4>1 DEF MoKey
        <4>2. CASE ~(c.key.shown = item.on \/ (c.key.shown /\ c.key.str # item.key))
          BY <3>1, <4>2 DEF MoKey
        <4> QED BY <4>1, <4>2
      <3>3. d.key = key /\ e.key = MoNone
        BY <1>1 DEF MoGood
      <3>4. c.key.shown \in BOOLEAN /\ item.on \in BOOLEAN
        <4>1. c.key \in {MoNone} \cup [str : MoKeys, shown : BOOLEAN]
          BY <1>1 DEF MoGood
        <4>2. MoNone.shown = FALSE
          BY DEF MoNone
        <4>3. item.on \in BOOLEAN
          BY DEF MoTyped, MoItems, MoBare, MoSaid
        <4>4. ASSUME NEW x \in [str : MoKeys, shown : BOOLEAN] PROVE x.shown \in BOOLEAN
          OBVIOUS
        <4> QED BY <4>1, <4>2, <4>3, <4>4
      <3>5. key.shown = item.on
        OBVIOUS
      <3> HIDE DEF d, e, key
      <3>6. CASE done = MoAllow(d, item) /\ ~c.key.shown /\ c.key.shown # item.on
        <4>1. item.on = TRUE
          BY <3>4, <3>6
        <4> HIDE DEF done
        <4> QED BY <2>0, <3>3, <3>5, <3>6, <4>1
      <3>7. CASE done = MoDeny(c) \/ done = MoAllow(e, item)
        <4> HIDE DEF done
        <4> QED BY <1>1, <2>0, <3>3, <3>7
      <3> QED BY <3>2, <3>6, <3>7
    <2>2. CASE item.letter = "i"
      <3>1. done = MoInviteOnly(c, item)
        BY <2>2 DEF MoOnModeChange
      <3> DEFINE F == IF item.on THEN c.flags \cup {"i"} ELSE c.flags \ {"i"}
                 e == [c EXCEPT !.flags = F]
      <3>3. done = MoDeny(c) \/ done = MoAllow(e, item)
        BY <3>1 DEF MoInviteOnly
      <3>4. e.key = c.key
        <4> HIDE DEF F
        <4> QED BY <1>1 DEF MoGood
      <3> HIDE DEF done, e
      <3>2. done.c.key = c.key
        BY <2>0, <3>3, <3>4
      <3> HIDE DEF done
      <3> QED BY <1>1, <3>2
    <2>3. CASE item.letter = "l"
      <3>1. done = MoSetLimit(c, item) \/ done = MoUnsetLimit(c, item)
        BY <2>3 DEF MoOnModeChange
      <3>2. MoSetLimit(c, item).c.key = c.key
        BY <1>1 DEF MoSetLimit, MoDeny, MoAllow, MoGood
      <3>3. MoUnsetLimit(c, item).c.key = c.key
        BY <1>1 DEF MoUnsetLimit, MoDeny, MoAllow, MoGood
      <3> HIDE DEF done
      <3> QED BY <1>1, <3>1, <3>2, <3>3
    <2>4. CASE item.letter = "b"
      <3>1. done = MoBan(c, item)
        BY <2>4 DEF MoOnModeChange
      <3> DEFINE ban == MoCleanMask(item.mask)
                 B == IF item.on THEN c.bans \cup {ban} ELSE c.bans \ {ban}
                 x == [item EXCEPT !.mask = ban]
                 e == [c EXCEPT !.bans = B]
      <3>3. done = MoDeny(c) \/ done = MoAllow(e, x)
        BY <3>1 DEF MoBan
      <3>4. e.key = c.key
        <4> HIDE DEF B
        <4> QED BY <1>1 DEF MoGood
      <3> HIDE DEF done, e, x
      <3>2. done.c.key = c.key
        BY <2>0, <3>3, <3>4
      <3> HIDE DEF done
      <3> QED BY <1>1, <3>2
    <2>5. CASE item.letter = "o"
      <3>1. done = MoOp(c, item, by, TRUE)
        BY <2>5 DEF MoOnModeChange
      <3> DEFINE O == IF item.on THEN c.ops \cup {item.nick} ELSE c.ops \ {item.nick}
                 e == [c EXCEPT !.ops = O]
      <3>3. done = MoDeny(c) \/ done = MoAllow(e, item)
        BY <3>1 DEF MoOp
      <3>4. e.key = c.key
        <4> HIDE DEF O
        <4> QED BY <1>1 DEF MoGood
      <3> HIDE DEF done, e
      <3>2. done.c.key = c.key
        BY <2>0, <3>3, <3>4
      <3> HIDE DEF done
      <3> QED BY <1>1, <3>2
    <2>6. item.letter \in {"i", "k", "l", "b", "o"}
      BY DEF MoTyped, MoItems, MoBare, MoSaid
    <2> QED BY <2>1, <2>2, <2>3, <2>4, <2>5, <2>6
  <1> QED BY <1>2, <1>3 DEF MoFine

LEMMA MoLineFine ==
    ASSUME NEW c \in MoFine, NEW line \in Seq(MoTyped), NEW by
    PROVE  MoProcess(c, line, by, TRUE).c \in MoFine
  <1>1. c \in MoGood
    BY DEF MoFine
  <1>2. PICK h : MoTurns(h, c, line, by, TRUE)
    BY <1>1, MoTurnsExist
  <1>3. /\ h \in [0 .. Len(line) -> MoState]
        /\ h[0] = MoFresh(c) /\ h[Len(line)] = MoProcess(c, line, by, TRUE)
        /\ \A k \in 1 .. Len(line) : h[k] = MoStep(h[k - 1], line[k], by, TRUE)
    BY <1>2 DEF MoTurns
  <1> DEFINE n == Len(line)
             S == {k \in 0 .. n : h[k].c \in MoFine}
  <1>4. n \in Nat
    OBVIOUS
  <1>5. 0 \in S
    BY <1>3, <1>4 DEF MoFresh
  <1>6. ASSUME NEW k \in 1 .. n, k - 1 \in S
        PROVE  k \in S
    <2>1. k - 1 \in 0 .. n /\ k \in 0 .. n
      BY <1>4
    <2> DEFINE v == h[k - 1]
               x == line[k]
    <2>2. x \in MoTyped /\ v \in MoState /\ v.c \in MoFine /\ h[k] = MoStep(v, x, by, TRUE)
      BY <1>3, <1>6, <2>1
    <2> HIDE DEF v, x
    <2>3. CASE MoIsBare(x) \/ v.full
      <3>1. MoStep(v, x, by, TRUE) = v
        BY <2>2, <2>3, MoStepIs
      <3> QED BY <2>1, <2>2, <3>1
    <2>4. CASE ~MoIsBare(x) /\ ~v.full
      <3>1. MoStep(v, x, by, TRUE).c = MoOnModeChange(v.c, x, by, TRUE).c
        BY <2>2, <2>4, MoStepDoes
      <3>2. MoOnModeChange(v.c, x, by, TRUE).c \in MoFine
        BY <2>2, <2>4, MoLetterFine
      <3> QED BY <2>1, <2>2, <3>1, <3>2
    <2> QED BY <2>3, <2>4
  <1>7. n \in S
    <2> HIDE DEF S
    <2>1. \A k \in 0 .. n : k \in S
      BY <1>4, <1>5, <1>6, TurnsKeep
    <2> QED BY <1>4, <2>1
  <1> QED BY <1>3, <1>7

-----------------------------------------------------------------------------
\* Losing the timestamp: each ban and each operator is taken away by a handler of its own, in the order of the sets.
MoUnban(c, ban) == MoBan(c, [on |-> FALSE, letter |-> "b", mask |-> ban]).c
LEMMA MoUnbanOne ==
    ASSUME NEW c \in MoGood, NEW ban \in MoBanMasks
    PROVE  /\ MoUnban(c, ban) \in MoGood
           /\ MoUnban(c, ban).flags = c.flags /\ MoUnban(c, ban).key = c.key
           /\ MoUnban(c, ban).limit = c.limit /\ MoUnban(c, ban).ops = c.ops
           /\ ban \in c.bans => MoUnban(c, ban).bans = c.bans \ {ban}
  <1> DEFINE item == [on |-> FALSE, letter |-> "b", mask |-> ban]
             done == MoBan(c, item)
             x == [item EXCEPT !.mask = ban]
             B == c.bans \ {ban}
             e == [c EXCEPT !.bans = B]
  <1>1. item \in [on : BOOLEAN, letter : {"b"}, mask : MoBanMasks] /\ item.on = FALSE /\ item.letter = "b" /\ item.mask = ban
    OBVIOUS
  <1> HIDE DEF item
  <1>2. MoOnModeChange(c, item, 0, FALSE) = done
    BY <1>1 DEF MoOnModeChange
  <1>3. \A m \in MoBanMasks : MoCleanMask(m) = m /\ MoCleanMask(m) \in MoBanMasks
    BY MoCleanTwice
  <1>4. MoEchoes(c, 0, MoOnModeChange(c, item, 0, FALSE))
    BY <1>1, <1>3, MoBanEchoes
  <1>5. done.c \in MoGood
    BY <1>2, <1>4 DEF MoEchoes
  <1>6. done = MoDeny(c) \/ done = MoAllow(e, x)
    BY <1>1, <1>3 DEF MoBan
  <1>7. ban \in c.bans => done = MoAllow(e, x)
    BY <1>1, <1>3 DEF MoBan
  <1>8. e.flags = c.flags /\ e.key = c.key /\ e.limit = c.limit /\ e.ops = c.ops /\ e.bans = B
    <2> HIDE DEF B
    <2> QED BY DEF MoGood
  <1>11. MoUnban(c, ban) = done.c
    BY DEF MoUnban, item
  <1> HIDE DEF done, e, x
  <1>9. done.c = c \/ done.c = e
    BY <1>6 DEF MoDeny, MoAllow
  <1>10. ban \in c.bans => done.c = e
    BY <1>7 DEF MoAllow
  <1> QED BY <1>5, <1>8, <1>9, <1>10, <1>11

\* RemoveMode of the list of bans and of operators, one entry after the other.
MoAllUnbanned(c) ==
    FoldSet(LAMBDA ban, d : MoBan(d, [on |-> FALSE, letter |-> "b", mask |-> ban]).c, c, c.bans)
MoBansWalk(g, c) ==
    /\ g \in [SUBSET c.bans -> MoGood] /\ g[{}] = c
    /\ g[c.bans] = MoAllUnbanned(c)
    /\ \A u \in SUBSET c.bans : u # {} => \E x \in u : g[u] = MoUnban(g[u \ {x}], x)
LEMMA MoBansWalkExists ==
    ASSUME NEW c \in MoGood
    PROVE  \E g : MoBansWalk(g, c)
  <1> DEFINE V == MoGood
             S == c.bans
             Turn(x, v) == MoUnban(v, x)
             F == [q \in S \X V |-> Turn(q[1], q[2])]
             iter == CHOOSE g : g = [u \in SUBSET S |->
                        IF u = {} THEN c
                        ELSE LET x == CHOOSE x \in u : TRUE IN Turn(x, g[u \ {x}])]
  <1>0. IsFiniteSet(S)
    BY DEF MoGood
  <1>1. MoAllUnbanned(c) = iter[S]
    BY DEF MoUnban, MoAllUnbanned, FoldSet, MapThenFoldSet
  <1>2. \A v \in V : \A x \in S : Turn(x, v) \in V
    BY MoUnbanOne DEF MoGood
  <1>4. c \in V
    OBVIOUS
  <1>11. \A x, v : Turn(x, v) = MoUnban(v, x)
    OBVIOUS
  <1> HIDE DEF V, Turn, S
  <1>3. F \in [S \X V -> V] /\ \A x \in S, v \in V : F[x, v] = Turn(x, v)
    <2>2. \A q \in S \X V : Turn(q[1], q[2]) \in V
      BY <1>2
    <2>3. \A x \in S, v \in V : <<x, v>> \in S \X V /\ <<x, v>>[1] = x /\ <<x, v>>[2] = v
      OBVIOUS
    <2> QED BY <2>2, <2>3
  <1> HIDE DEF F
  <1>5. PICK g \in [SUBSET S -> V] : WalkOf(g, S, c, F)
    BY <1>0, <1>3, <1>4, WalkExists
  <1>6. g = [u \in SUBSET S |-> IF u = {} THEN c
                               ELSE LET x == CHOOSE x \in u : TRUE IN Turn(x, g[u \ {x}])]
    <2>1. ASSUME NEW u \in SUBSET S, u # {}
          PROVE  g[u] = LET x == CHOOSE x \in u : TRUE IN Turn(x, g[u \ {x}])
      <3> DEFINE y == CHOOSE x \in u : TRUE
      <3>1. y \in S
        BY <2>1
      <3>2. g[u] = F[y, g[u \ {y}]]
        BY <1>5, <2>1 DEF WalkOf
      <3>3. g[u \ {y}] \in V
        BY <1>5
      <3> HIDE DEF y
      <3>4. g[u] = Turn(y, g[u \ {y}])
        BY <1>3, <3>1, <3>2, <3>3
      <3> QED BY <3>4 DEF y
    <2>2. g[{}] = c
      BY <1>5 DEF WalkOf
    <2> QED BY <2>1, <2>2
  <1>7. iter = [u \in SUBSET S |-> IF u = {} THEN c
                                 ELSE LET x == CHOOSE x \in u : TRUE IN Turn(x, iter[u \ {x}])]
    BY <1>6
  <1> HIDE DEF iter
  <1>8. iter[{}] = c
    BY <1>7
  <1>9. ASSUME NEW u \in SUBSET S, u # {}
        PROVE  \E x \in u : iter[u] = Turn(x, iter[u \ {x}])
    <2> DEFINE y == CHOOSE x \in u : TRUE
    <2>1. y \in u
      BY <1>9
    <2>2. iter[u] = Turn(y, iter[u \ {y}])
      BY <1>7, <1>9
    <2> HIDE DEF y
    <2> QED BY <2>1, <2>2
  <1>10. iter \in [SUBSET S -> V]
    <2> DEFINE K == {u \in SUBSET S : iter[u] \in V}
    <2>1. {} \in K
      BY <1>4, <1>8
    <2>2. ASSUME NEW u \in SUBSET S, u # {} PROVE \E x \in u : u \ {x} \in K => u \in K
      <3>1. PICK x \in u : iter[u] = Turn(x, iter[u \ {x}])
        BY <1>9, <2>2
      <3>2. x \in S
        BY <2>2
      <3>3. iter[u \ {x}] \in V => iter[u] \in V
        BY <1>2, <3>1, <3>2
      <3> QED BY <2>2, <3>3
    <2>3. ASSUME NEW T \in SUBSET S PROVE iter[T] \in V
      <3>1. IsFiniteSet(T)
        BY <1>0, FS_Subset
      <3>2. \A u \in SUBSET T : u # {} => \E x \in u : u \ {x} \in K => u \in K
        BY <2>2
      <3> HIDE DEF K
      <3>3. T \in K
        BY <2>1, <3>1, <3>2, SetInduct
      <3> QED BY <3>3 DEF K
    <2> QED BY <1>7, <2>3
  <1>15. \A u \in SUBSET S : u # {} => \E x \in u : iter[u] = MoUnban(iter[u \ {x}], x)
    BY <1>9, <1>11
  <1>16. MoBansWalk(iter, c)
    BY <1>1, <1>8, <1>10, <1>15 DEF V, S, MoBansWalk
  <1> QED BY <1>16

LEMMA MoBansOff ==
    ASSUME NEW c \in MoGood, NEW d, d = MoAllUnbanned(c)
    PROVE  d \in MoGood /\ d.bans = {} /\ d.flags = c.flags /\ d.key = c.key /\ d.limit = c.limit /\ d.ops = c.ops
  <1>0. PICK g : MoBansWalk(g, c)
    BY MoBansWalkExists
  <1>1. /\ g \in [SUBSET c.bans -> MoGood] /\ g[{}] = c /\ g[c.bans] = d
        /\ \A u \in SUBSET c.bans : u # {} => \E x \in u : g[u] = MoUnban(g[u \ {x}], x)
    BY <1>0 DEF MoBansWalk
  <1> DEFINE Rest(e) == e.flags = c.flags /\ e.key = c.key /\ e.limit = c.limit /\ e.ops = c.ops
             K == {u \in SUBSET c.bans : g[u].bans = c.bans \ u /\ Rest(g[u])}
  <1>2. {} \in K
    BY <1>1
  <1>3. ASSUME NEW u \in SUBSET c.bans, u # {}
        PROVE  \E x \in u : u \ {x} \in K => u \in K
    <2>1. PICK x \in u : g[u] = MoUnban(g[u \ {x}], x)
      BY <1>1, <1>3
    <2>2. SUFFICES ASSUME u \ {x} \in K PROVE u \in K
      BY <2>1
    <2> DEFINE e == g[u \ {x}]
    <2>3. e \in MoGood /\ e.bans = c.bans \ (u \ {x}) /\ Rest(e)
      BY <1>1, <2>2
    <2>4. x \in MoBanMasks /\ x \in e.bans
      BY <2>3 DEF MoGood
    <2>7. g[u] = MoUnban(e, x)
      BY <2>1
    <2> HIDE DEF e
    <2>5. g[u].bans = e.bans \ {x} /\ g[u].flags = e.flags /\ g[u].key = e.key /\ g[u].limit = e.limit /\ g[u].ops = e.ops
      <3>1. x \in e.bans => MoUnban(e, x).bans = e.bans \ {x}
        BY <2>3, <2>4, MoUnbanOne
      <3>2. MoUnban(e, x).flags = e.flags /\ MoUnban(e, x).key = e.key /\ MoUnban(e, x).limit = e.limit /\ MoUnban(e, x).ops = e.ops
        BY <2>3, <2>4, MoUnbanOne
      <3> QED BY <2>4, <2>7, <3>1, <3>2
    <2>6. e.bans \ {x} = c.bans \ u
      BY <2>3
    <2> QED BY <2>3, <2>5, <2>6
  <1>4. IsFiniteSet(c.bans)
    BY DEF MoGood
  <1>5. c.bans \in K
    <2> HIDE DEF K
    <2> QED BY <1>2, <1>3, <1>4, SetInduct
  <1>6. c.bans \in SUBSET c.bans
    OBVIOUS
  <1>7. d \in MoGood
    BY <1>1, <1>6
  <1>8. d.bans = c.bans \ c.bans /\ Rest(d)
    BY <1>1, <1>5
  <1> QED BY <1>7, <1>8

MoDeop(c, u) == MoOp(c, [on |-> FALSE, letter |-> "o", nick |-> u], u, FALSE).c
LEMMA MoDeopOne ==
    ASSUME NEW c \in MoGood, NEW u \in MoUsers
    PROVE  /\ MoDeop(c, u) \in MoGood
           /\ MoDeop(c, u).flags = c.flags /\ MoDeop(c, u).key = c.key
           /\ MoDeop(c, u).limit = c.limit /\ MoDeop(c, u).bans = c.bans
           /\ u \in c.ops => MoDeop(c, u).ops = c.ops \ {u}
  <1> DEFINE item == [on |-> FALSE, letter |-> "o", nick |-> u]
             done == MoOp(c, item, u, FALSE)
             O == c.ops \ {u}
             e == [c EXCEPT !.ops = O]
  <1>1. item \in [on : BOOLEAN, letter : {"o"}, nick : MoUsers] /\ item.on = FALSE /\ item.letter = "o" /\ item.nick = u
    OBVIOUS
  <1> HIDE DEF item
  <1>2. MoOnModeChange(c, item, u, FALSE) = done
    BY <1>1 DEF MoOnModeChange
  <1>3. ~MoIsBare(item)
    BY DEF item, MoIsBare, MoHasParam
  <1>4. MoEchoes(c, u, MoOnModeChange(c, item, u, FALSE))
    BY <1>1, <1>3, MoOpEchoes
  <1>5. done.c \in MoGood
    BY <1>2, <1>4 DEF MoEchoes
  <1>6. done = MoDeny(c) \/ done = MoAllow(e, item)
    BY <1>1 DEF MoOp
  <1>7. u \in c.ops => done = MoAllow(e, item)
    BY <1>1 DEF MoOp
  <1>8. e.flags = c.flags /\ e.key = c.key /\ e.limit = c.limit /\ e.bans = c.bans /\ e.ops = O
    <2> HIDE DEF O
    <2> QED BY DEF MoGood
  <1>11. MoDeop(c, u) = done.c
    BY DEF MoDeop, item
  <1> HIDE DEF done, e
  <1>9. done.c = c \/ done.c = e
    BY <1>6 DEF MoDeny, MoAllow
  <1>10. u \in c.ops => done.c = e
    BY <1>7 DEF MoAllow
  <1> QED BY <1>5, <1>8, <1>9, <1>10, <1>11

MoAllDeopped(c) ==
    FoldSet(LAMBDA u, d : MoOp(d, [on |-> FALSE, letter |-> "o", nick |-> u], u, FALSE).c, c, c.ops)
MoOpsWalk(g, c) ==
    /\ g \in [SUBSET c.ops -> MoGood] /\ g[{}] = c
    /\ g[c.ops] = MoAllDeopped(c)
    /\ \A u \in SUBSET c.ops : u # {} => \E x \in u : g[u] = MoDeop(g[u \ {x}], x)
LEMMA MoOpsWalkExists ==
    ASSUME NEW c \in MoGood
    PROVE  \E g : MoOpsWalk(g, c)
  <1> DEFINE V == MoGood
             S == c.ops
             Turn(x, v) == MoDeop(v, x)
             F == [q \in S \X V |-> Turn(q[1], q[2])]
             iter == CHOOSE g : g = [u \in SUBSET S |->
                        IF u = {} THEN c
                        ELSE LET x == CHOOSE x \in u : TRUE IN Turn(x, g[u \ {x}])]
  <1>0. IsFiniteSet(S)
    BY DEF MoGood
  <1>1. MoAllDeopped(c) = iter[S]
    BY DEF MoDeop, MoAllDeopped, FoldSet, MapThenFoldSet
  <1>2. \A v \in V : \A x \in S : Turn(x, v) \in V
    BY MoDeopOne DEF MoGood
  <1>4. c \in V
    OBVIOUS
  <1>11. \A x, v : Turn(x, v) = MoDeop(v, x)
    OBVIOUS
  <1> HIDE DEF V, Turn, S
  <1>3. F \in [S \X V -> V] /\ \A x \in S, v \in V : F[x, v] = Turn(x, v)
    <2>2. \A q \in S \X V : Turn(q[1], q[2]) \in V
      BY <1>2
    <2>3. \A x \in S, v \in V : <<x, v>> \in S \X V /\ <<x, v>>[1] = x /\ <<x, v>>[2] = v
      OBVIOUS
    <2> QED BY <2>2, <2>3
  <1> HIDE DEF F
  <1>5. PICK g \in [SUBSET S -> V] : WalkOf(g, S, c, F)
    BY <1>0, <1>3, <1>4, WalkExists
  <1>6. g = [u \in SUBSET S |-> IF u = {} THEN c
                               ELSE LET x == CHOOSE x \in u : TRUE IN Turn(x, g[u \ {x}])]
    <2>1. ASSUME NEW u \in SUBSET S, u # {}
          PROVE  g[u] = LET x == CHOOSE x \in u : TRUE IN Turn(x, g[u \ {x}])
      <3> DEFINE y == CHOOSE x \in u : TRUE
      <3>1. y \in S
        BY <2>1
      <3>2. g[u] = F[y, g[u \ {y}]]
        BY <1>5, <2>1 DEF WalkOf
      <3>3. g[u \ {y}] \in V
        BY <1>5
      <3> HIDE DEF y
      <3>4. g[u] = Turn(y, g[u \ {y}])
        BY <1>3, <3>1, <3>2, <3>3
      <3> QED BY <3>4 DEF y
    <2>2. g[{}] = c
      BY <1>5 DEF WalkOf
    <2> QED BY <2>1, <2>2
  <1>7. iter = [u \in SUBSET S |-> IF u = {} THEN c
                                 ELSE LET x == CHOOSE x \in u : TRUE IN Turn(x, iter[u \ {x}])]
    BY <1>6
  <1> HIDE DEF iter
  <1>8. iter[{}] = c
    BY <1>7
  <1>9. ASSUME NEW u \in SUBSET S, u # {}
        PROVE  \E x \in u : iter[u] = Turn(x, iter[u \ {x}])
    <2> DEFINE y == CHOOSE x \in u : TRUE
    <2>1. y \in u
      BY <1>9
    <2>2. iter[u] = Turn(y, iter[u \ {y}])
      BY <1>7, <1>9
    <2> HIDE DEF y
    <2> QED BY <2>1, <2>2
  <1>10. iter \in [SUBSET S -> V]
    <2> DEFINE K == {u \in SUBSET S : iter[u] \in V}
    <2>1. {} \in K
      BY <1>4, <1>8
    <2>2. ASSUME NEW u \in SUBSET S, u # {} PROVE \E x \in u : u \ {x} \in K => u \in K
      <3>1. PICK x \in u : iter[u] = Turn(x, iter[u \ {x}])
        BY <1>9, <2>2
      <3>2. x \in S
        BY <2>2
      <3>3. iter[u \ {x}] \in V => iter[u] \in V
        BY <1>2, <3>1, <3>2
      <3> QED BY <2>2, <3>3
    <2>3. ASSUME NEW T \in SUBSET S PROVE iter[T] \in V
      <3>1. IsFiniteSet(T)
        BY <1>0, FS_Subset
      <3>2. \A u \in SUBSET T : u # {} => \E x \in u : u \ {x} \in K => u \in K
        BY <2>2
      <3> HIDE DEF K
      <3>3. T \in K
        BY <2>1, <3>1, <3>2, SetInduct
      <3> QED BY <3>3 DEF K
    <2> QED BY <1>7, <2>3
  <1>15. \A u \in SUBSET S : u # {} => \E x \in u : iter[u] = MoDeop(iter[u \ {x}], x)
    BY <1>9, <1>11
  <1>16. MoOpsWalk(iter, c)
    BY <1>1, <1>8, <1>10, <1>15 DEF V, S, MoOpsWalk
  <1> QED BY <1>16

LEMMA MoOpsOff ==
    ASSUME NEW c \in MoGood, NEW d, d = MoAllDeopped(c)
    PROVE  d \in MoGood /\ d.ops = {} /\ d.flags = c.flags /\ d.key = c.key /\ d.limit = c.limit /\ d.bans = c.bans
  <1>0. PICK g : MoOpsWalk(g, c)
    BY MoOpsWalkExists
  <1>1. /\ g \in [SUBSET c.ops -> MoGood] /\ g[{}] = c /\ g[c.ops] = d
        /\ \A u \in SUBSET c.ops : u # {} => \E x \in u : g[u] = MoDeop(g[u \ {x}], x)
    BY <1>0 DEF MoOpsWalk
  <1> DEFINE Rest(e) == e.flags = c.flags /\ e.key = c.key /\ e.limit = c.limit /\ e.bans = c.bans
             K == {u \in SUBSET c.ops : g[u].ops = c.ops \ u /\ Rest(g[u])}
  <1>2. {} \in K
    BY <1>1
  <1>3. ASSUME NEW u \in SUBSET c.ops, u # {}
        PROVE  \E x \in u : u \ {x} \in K => u \in K
    <2>1. PICK x \in u : g[u] = MoDeop(g[u \ {x}], x)
      BY <1>1, <1>3
    <2>2. SUFFICES ASSUME u \ {x} \in K PROVE u \in K
      BY <2>1
    <2> DEFINE e == g[u \ {x}]
    <2>3. e \in MoGood /\ e.ops = c.ops \ (u \ {x}) /\ Rest(e)
      BY <1>1, <2>2
    <2>4. x \in MoUsers /\ x \in e.ops
      BY <2>3 DEF MoGood
    <2>7. g[u] = MoDeop(e, x)
      BY <2>1
    <2> HIDE DEF e
    <2>5. g[u].ops = e.ops \ {x} /\ g[u].flags = e.flags /\ g[u].key = e.key /\ g[u].limit = e.limit /\ g[u].bans = e.bans
      <3>1. x \in e.ops => MoDeop(e, x).ops = e.ops \ {x}
        BY <2>3, <2>4, MoDeopOne
      <3>2. MoDeop(e, x).flags = e.flags /\ MoDeop(e, x).key = e.key /\ MoDeop(e, x).limit = e.limit /\ MoDeop(e, x).bans = e.bans
        BY <2>3, <2>4, MoDeopOne
      <3> QED BY <2>4, <2>7, <3>1, <3>2
    <2>6. e.ops \ {x} = c.ops \ u
      BY <2>3
    <2> QED BY <2>3, <2>5, <2>6
  <1>4. IsFiniteSet(c.ops)
    BY DEF MoGood
  <1>5. c.ops \in K
    <2> HIDE DEF K
    <2> QED BY <1>2, <1>3, <1>4, SetInduct
  <1>6. c.ops \in SUBSET c.ops
    OBVIOUS
  <1>7. d \in MoGood
    BY <1>1, <1>6
  <1>8. d.ops = c.ops \ c.ops /\ Rest(d)
    BY <1>1, <1>5
  <1> QED BY <1>7, <1>8

\* All of RemoveMode: what MoStripped says, of every channel that is good.
MoBare1(c, d) ==
    /\ d \in MoGood /\ d.bans = {} /\ d.ops = {} /\ "i" \notin d.flags
    /\ c \in MoFine => d.key = MoNone
    /\ "l" \in d.flags => c.limit = 0 /\ "l" \in c.flags

\* What is left of a channel that lost its timestamp.
LEMMA MoStripBares ==
    ASSUME NEW c \in MoGood
    PROVE  MoBare1(c, MoStrip(c))
  <1> DEFINE offi == [on |-> FALSE, letter |-> "i"]
             offl == [on |-> FALSE, letter |-> "l"]
             i == MoInviteOnly(c, offi).c
             offk == [on |-> FALSE, letter |-> "k", key |-> i.key.str]
             k == IF i.key.shown THEN MoKey(i, offk, FALSE).c ELSE i
             l == IF "l" \in k.flags THEN MoUnsetLimit(k, offl).c ELSE k
             b == MoAllUnbanned(l)
             o == MoAllDeopped(b)
  <1>1. MoStrip(c) = o
    BY DEF MoStrip, MoAllUnbanned, MoAllDeopped
  <1>2. i \in MoGood /\ "i" \notin i.flags /\ i.key = c.key /\ i.limit = c.limit /\ ("l" \in i.flags => "l" \in c.flags)
    <2> DEFINE F == c.flags \ {"i"}
               e == [c EXCEPT !.flags = F]
    <2>1. MoInviteOnly(c, offi) = MoAllow(e, offi) \/ (MoInviteOnly(c, offi) = MoDeny(c) /\ "i" \notin c.flags)
      <3>1. CASE ("i" \in c.flags) = offi.on
        <4>1. MoInviteOnly(c, offi) = MoDeny(c)
          BY <3>1 DEF MoInviteOnly
        <4>2. offi.on = FALSE
          OBVIOUS
        <4> HIDE DEF offi
        <4>3. "i" \notin c.flags
          BY <3>1, <4>2
        <4> QED BY <4>1, <4>3
      <3>2. CASE ("i" \in c.flags) # offi.on
        <4>1. MoInviteOnly(c, offi) = MoAllow(e, offi)
          BY <3>2 DEF MoInviteOnly
        <4> QED BY <4>1
      <3> QED BY <3>1, <3>2
    <2>2. e.flags = F /\ e.key = c.key /\ e.limit = c.limit /\ e \in MoGood
      <3>1. F \in SUBSET {"i", "l"}
        BY DEF MoGood
      <3> HIDE DEF F
      <3> QED BY <3>1 DEF MoGood
    <2> HIDE DEF e
    <2>3. i = e \/ (i = c /\ "i" \notin c.flags)
      BY <2>1 DEF MoAllow, MoDeny
    <2> HIDE DEF i
    <2> QED BY <2>2, <2>3
  <1> HIDE DEF i
  <1>3. k \in MoGood /\ "i" \notin k.flags /\ (c \in MoFine => k.key = MoNone) /\ k.limit = c.limit
          /\ ("l" \in k.flags => "l" \in c.flags)
    <2> DEFINE e == [i EXCEPT !.key = MoNone]
    <2>1. CASE i.key.shown
      <3>1. MoKey(i, offk, FALSE) = MoAllow(e, offk)
        BY <2>1 DEF MoKey
      <3>2. e.key = MoNone /\ e.flags = i.flags /\ e.limit = i.limit /\ e \in MoGood
        BY <1>2 DEF MoGood
      <3> HIDE DEF e
      <3>5. \A d, x : MoAllow(d, x).c = d
        BY DEF MoAllow
      <3>4. MoKey(i, offk, FALSE).c = e
        BY <3>1, <3>5
      <3> HIDE DEF offk
      <3>3. k = e
        BY <2>1, <3>4
      <3> HIDE DEF k
      <3> QED BY <1>2, <3>2, <3>3
    <2>2. CASE ~i.key.shown
      <3>1. k = i
        BY <2>2
      <3>2. c \in MoFine => i.key = MoNone
        BY <1>2, <2>2 DEF MoFine
      <3> HIDE DEF k
      <3> QED BY <1>2, <3>1, <3>2
    <2> QED BY <2>1, <2>2
  <1> HIDE DEF k
  <1>4. l \in MoGood /\ "i" \notin l.flags /\ l.key = k.key /\ ("l" \in l.flags => c.limit = 0 /\ "l" \in c.flags)
    <2> DEFINE F == k.flags \ {"l"}
               z == 0
               e == [k EXCEPT !.limit = z, !.flags = F]
    <2>1. MoUnsetLimit(k, offl) = IF k.limit = 0 THEN MoDeny(k) ELSE MoAllow(e, offl)
      BY DEF MoUnsetLimit
    <2>2. e.flags = F /\ e.key = k.key /\ e \in MoGood
      <3>1. F \in SUBSET {"i", "l"} /\ z \in Int
        BY <1>3 DEF MoGood
      <3> HIDE DEF F, z
      <3> QED BY <1>3, <3>1 DEF MoGood
    <2> HIDE DEF e
    <2>3. l = IF "l" \in k.flags /\ k.limit # 0 THEN e ELSE k
      BY <2>1 DEF MoAllow, MoDeny
    <2> HIDE DEF l
    <2> QED BY <1>3, <2>2, <2>3
  <1> HIDE DEF l
  <1>5. b \in MoGood /\ b.bans = {} /\ b.flags = l.flags /\ b.key = l.key
    BY <1>4, MoBansOff
  <1> HIDE DEF b
  <1>6. o \in MoGood /\ o.ops = {} /\ o.flags = b.flags /\ o.key = b.key /\ o.bans = b.bans
    BY <1>5, MoOpsOff
  <1> HIDE DEF o
  <1> QED BY <1>1, <1>3, <1>4, <1>5, <1>6 DEF MoBare1

-----------------------------------------------------------------------------
\* The channel as it was when each of the lines on their way was announced: the first is what the other server has,
\* each line takes it to the next, and the last is what the users' server has.
MoTrail(p, at, wire) ==
    /\ p \in [0 .. Len(wire) -> MoFine]
    /\ p[0] = at["other"] /\ p[Len(wire)] = at["own"]
    /\ \A k \in 1 .. Len(wire) : p[k] = MoProcess(p[k - 1], wire[k].line, wire[k].by, FALSE).c
MoLine == [by : MoUsers, line : Seq(MoSaid)]
MoKeepsUp(at, wire) ==
    /\ at \in [{"own", "other"} -> MoFine]
    /\ wire \in Seq(MoLine)
    /\ \E p : MoTrail(p, at, wire)

LEMMA MoInitKeeps == ChannelModesInit => MoKeepsUp(mo_at, mo_wire)
  <1> SUFFICES ASSUME ChannelModesInit PROVE MoKeepsUp(mo_at, mo_wire)
    OBVIOUS
  <1> DEFINE C(u) == [flags |-> {}, key |-> MoNone, limit |-> 0, bans |-> {}, ops |-> {u}]
  <1>1. PICK u \in MoUsers : mo_at = [s \in {"own", "other"} |-> C(u)]
    BY DEF ChannelModesInit
  <1> DEFINE c == C(u)
  <1>2. c \in MoFine
    <2>1. IsFiniteSet({}) /\ Cardinality({}) = 0 /\ IsFiniteSet({u})
      BY FS_EmptySet, FS_Singleton
    <2>2. 0 <= MoMaxBans + 1
      BY ChannelModesOK
    <2>3. {} \in {B \in SUBSET MoBanMasks : IsFiniteSet(B) /\ Cardinality(B) <= MoMaxBans + 1}
      BY <2>1, <2>2
    <2>4. {u} \in {O \in SUBSET MoUsers : IsFiniteSet(O)}
      BY <2>1
    <2> DEFINE ops == {u}
               none == {}
    <2> HIDE DEF ops, none
    <2>5. [flags |-> {}, key |-> MoNone, limit |-> 0, bans |-> none, ops |-> ops] \in MoGood
      BY <2>3, <2>4 DEF ops, none, MoGood
    <2>6. c = [flags |-> {}, key |-> MoNone, limit |-> 0, bans |-> none, ops |-> ops]
      BY DEF ops, none
    <2>7. c.key = MoNone
      OBVIOUS
    <2> HIDE DEF c
    <2> QED BY <2>5, <2>6, <2>7 DEF MoFine
  <1>3. mo_at = [s \in {"own", "other"} |-> c] /\ mo_wire = <<>>
    BY <1>1 DEF ChannelModesInit
  <1> HIDE DEF c
  <1> DEFINE p == [k \in 0 .. 0 |-> c]
  <1>4. Len(mo_wire) = 0 /\ mo_wire \in Seq(MoLine)
    BY <1>3
  <1>5. MoTrail(p, mo_at, mo_wire)
    BY <1>2, <1>3, <1>4 DEF MoTrail
  <1>6. mo_at \in [{"own", "other"} -> MoFine]
    BY <1>2, <1>3
  <1> HIDE DEF p
  <1> QED BY <1>4, <1>5, <1>6 DEF MoKeepsUp

\* A MODE line of a client: what is announced of it is the next stretch of the trail.
LEMMA MoClientKeeps ==
    ASSUME MoKeepsUp(mo_at, mo_wire), NEW u \in MoUsers, NEW line \in MoLines, MoClient(u, line)
    PROVE  MoKeepsUp(mo_at', mo_wire')
  <1> DEFINE c == mo_at["own"]
             done == MoProcess(c, line, u, TRUE)
             n == Len(mo_wire)
             d == done.c
             said == done.out
  <1>1. c \in MoFine /\ c \in MoGood /\ mo_wire \in Seq(MoLine) /\ n \in Nat
    BY DEF MoKeepsUp, MoFine
  <1>2. line \in Seq(MoTyped)
    <2>1. \A a \in MoItems \cup MoBare : a \in MoTyped
      BY DEF MoTyped
    <2>2. CASE \E a \in MoItems \cup MoBare : line = <<a>>
      <3>1. PICK a \in MoItems \cup MoBare : line = <<a>>
        BY <2>2
      <3>2. a \in MoTyped
        BY <2>1
      <3> QED BY <3>1, <3>2
    <2>3. CASE \E a \in MoItems : \E b \in MoItems \cup MoBare : line = <<a, b>>
      <3>1. PICK a \in MoItems, b \in MoItems \cup MoBare : line = <<a, b>>
        BY <2>3
      <3>2. a \in MoTyped /\ b \in MoTyped
        BY <2>1
      <3> QED BY <3>1, <3>2
    <2> QED BY <2>2, <2>3 DEF MoLines
  <1>3. done \in MoState /\ d \in MoFine
    <2>1. done \in MoState
      BY <1>1, <1>2, MoProcessOf
    <2>2. d \in MoFine
      BY <1>1, <1>2, MoLineFine
    <2> QED BY <2>1, <2>2
  <1>4. MoProcess(c, said, u, FALSE).c = d
    BY <1>1, <1>2, MoReplays
  <1>5. said \in Seq(MoSaid)
    <2> HIDE DEF done
    <2> QED BY <1>3 DEF MoState
  <1>6. mo_at' = [mo_at EXCEPT !["own"] = d] /\ mo_wire' = IF said = <<>> THEN mo_wire ELSE Append(mo_wire, [by |-> u, line |-> said])
    BY DEF MoClient
  <1> HIDE DEF done, d, said
  <1>7. mo_at' \in [{"own", "other"} -> MoFine] /\ mo_at'["own"] = d /\ mo_at'["other"] = mo_at["other"]
    BY <1>3, <1>6 DEF MoKeepsUp
  <1>8. PICK p : MoTrail(p, mo_at, mo_wire)
    BY DEF MoKeepsUp
  <1>9. CASE said = <<>>
    <2>1. MoProcess(c, <<>>, u, FALSE) = MoFresh(c)
      BY <1>1, MoNothing
    <2>4. MoFresh(c).c = c
      BY DEF MoFresh
    <2>5. MoProcess(c, said, u, FALSE) = MoFresh(c)
      BY <1>9, <2>1
    <2>2. d = c
      BY <1>4, <2>4, <2>5
    <2>3. MoTrail(p, mo_at', mo_wire')
      BY <1>6, <1>7, <1>8, <1>9, <2>2 DEF MoTrail
    <2> QED BY <1>1, <1>6, <1>7, <1>9, <2>3 DEF MoKeepsUp
  <1>10. CASE said # <<>>
    <2> DEFINE new == [by |-> u, line |-> said]
               q == [k \in 0 .. n + 1 |-> IF k <= n THEN p[k] ELSE d]
    <2>1. new \in MoLine /\ new.by = u /\ new.line = said
      BY <1>5 DEF MoLine
    <2> HIDE DEF new
    <2>2. mo_wire' = Append(mo_wire, new)
      BY <1>6, <1>10 DEF new
    <2>3. mo_wire' \in Seq(MoLine) /\ Len(mo_wire') = n + 1 /\ mo_wire'[n + 1] = new /\ \A k \in 1 .. n : mo_wire'[k] = mo_wire[k]
      BY <1>1, <2>1, <2>2
    <2>4. p \in [0 .. n -> MoFine] /\ p[0] = mo_at["other"] /\ p[n] = c
            /\ \A k \in 1 .. n : p[k] = MoProcess(p[k - 1], mo_wire[k].line, mo_wire[k].by, FALSE).c
      BY <1>8 DEF MoTrail
    <2> HIDE DEF n
    <2>5. q \in [0 .. n + 1 -> MoFine] /\ q[0] = p[0] /\ q[n + 1] = d /\ \A k \in 0 .. n : q[k] = p[k]
      BY <1>1, <1>3, <2>4
    <2> HIDE DEF q
    <2>6. ASSUME NEW k \in 1 .. n + 1
          PROVE  q[k] = MoProcess(q[k - 1], mo_wire'[k].line, mo_wire'[k].by, FALSE).c
      <3>1. CASE k = n + 1
        <4>1. q[k - 1] = c /\ k - 1 = n
          BY <1>1, <2>4, <2>5, <3>1
        <4> QED BY <1>4, <2>1, <2>3, <2>5, <3>1, <4>1
      <3>2. CASE k # n + 1
        <4>1. k \in 1 .. n /\ k \in 0 .. n /\ k - 1 \in 0 .. n
          BY <1>1, <3>2
        <4> QED BY <2>3, <2>4, <2>5, <4>1
      <3> QED BY <3>1, <3>2
    <2>7. MoTrail(q, mo_at', mo_wire')
      BY <1>7, <2>3, <2>4, <2>5, <2>6 DEF MoTrail
    <2> QED BY <1>7, <2>3, <2>7 DEF MoKeepsUp
  <1> QED BY <1>9, <1>10

\* FMODE is read: the first stretch is behind.
LEMMA MoReadKeeps ==
    ASSUME MoKeepsUp(mo_at, mo_wire), MoRead
    PROVE  MoKeepsUp(mo_at', mo_wire')
  <1> DEFINE n == Len(mo_wire)
  <1>1. mo_wire \in Seq(MoLine) /\ mo_wire # <<>> /\ mo_wire' = Tail(mo_wire) /\ Head(mo_wire) = mo_wire[1]
    BY DEF MoKeepsUp, MoRead
  <1>2. /\ n \in Nat \ {0} /\ Tail(mo_wire) \in Seq(MoLine) /\ Len(Tail(mo_wire)) = n - 1
        /\ \A k \in 1 .. n - 1 : Tail(mo_wire)[k] = mo_wire[k + 1]
    BY <1>1
  <1>3. PICK p : MoTrail(p, mo_at, mo_wire)
    BY DEF MoKeepsUp
  <1>4. p \in [0 .. n -> MoFine] /\ p[0] = mo_at["other"] /\ p[n] = mo_at["own"]
            /\ \A k \in 1 .. n : p[k] = MoProcess(p[k - 1], mo_wire[k].line, mo_wire[k].by, FALSE).c
    BY <1>3 DEF MoTrail
  <1> DEFINE q == [k \in 0 .. n - 1 |-> p[k + 1]]
  <1> HIDE DEF n
  <1>5. q \in [0 .. n - 1 -> MoFine] /\ q[0] = p[1] /\ q[n - 1] = p[n] /\ \A k \in 0 .. n - 1 : q[k] = p[k + 1]
    BY <1>2, <1>4
  <1> HIDE DEF q
  <1>6. p[1] = MoProcess(p[0], mo_wire[1].line, mo_wire[1].by, FALSE).c /\ p[1] \in MoFine
    <2>1. 1 \in 1 .. n /\ 1 \in 0 .. n /\ 1 - 1 = 0
      BY <1>2
    <2> QED BY <1>4, <2>1
  <1>7. mo_at' = [mo_at EXCEPT !["other"] = p[1]]
    <2>1. mo_at' = [mo_at EXCEPT !["other"] = MoProcess(mo_at["other"], mo_wire[1].line, mo_wire[1].by, FALSE).c]
      BY <1>1 DEF MoRead
    <2> QED BY <1>4, <1>6, <2>1
  <1>8. mo_at' \in [{"own", "other"} -> MoFine] /\ mo_at'["other"] = p[1] /\ mo_at'["own"] = mo_at["own"]
    BY <1>6, <1>7 DEF MoKeepsUp
  <1>9. ASSUME NEW k \in 1 .. n - 1
        PROVE  q[k] = MoProcess(q[k - 1], Tail(mo_wire)[k].line, Tail(mo_wire)[k].by, FALSE).c
    <2>1. k \in 0 .. n - 1 /\ k - 1 \in 0 .. n - 1 /\ k + 1 \in 1 .. n /\ (k + 1) - 1 = k /\ (k - 1) + 1 = k
      BY <1>2
    <2>2. q[k] = p[k + 1] /\ q[k - 1] = p[(k - 1) + 1]
      BY <1>5, <2>1
    <2>3. p[k + 1] = MoProcess(p[(k + 1) - 1], mo_wire[k + 1].line, mo_wire[k + 1].by, FALSE).c
      BY <1>4, <2>1
    <2>4. Tail(mo_wire)[k] = mo_wire[k + 1]
      BY <1>2
    <2> QED BY <2>1, <2>2, <2>3, <2>4
  <1>10. MoTrail(q, mo_at', mo_wire')
    BY <1>1, <1>2, <1>4, <1>5, <1>8, <1>9 DEF MoTrail
  <1> QED BY <1>1, <1>2, <1>8, <1>10 DEF MoKeepsUp

\* An older timestamp strips both copies, which were equal.
LEMMA MoOlderKeeps ==
    ASSUME MoKeepsUp(mo_at, mo_wire), NEW u \in MoUsers, MoOlder(u)
    PROVE  MoKeepsUp(mo_at', mo_wire')
  <1> DEFINE New(s) == [MoStrip(mo_at[s]) EXCEPT !.ops = @ \cup {u}]
  <1>1. mo_at \in [{"own", "other"} -> MoFine] /\ mo_wire = <<>> /\ mo_wire' = mo_wire
    BY DEF MoKeepsUp, MoOlder
  <1>2. mo_at["own"] = mo_at["other"]
    <2>1. PICK p : MoTrail(p, mo_at, mo_wire)
      BY DEF MoKeepsUp
    <2>2. Len(mo_wire) = 0
      BY <1>1
    <2> QED BY <2>1, <2>2 DEF MoTrail
  <1>3. mo_at' = [s \in {"own", "other"} |-> New(s)]
    BY <1>1 DEF MoOlder
  <1> DEFINE c == mo_at["own"]
             b == MoStrip(c)
             O == b.ops \cup {u}
             d == [b EXCEPT !.ops = O]
  <1>4. c \in MoFine /\ c \in MoGood
    BY <1>1 DEF MoFine
  <1>5. b \in MoGood /\ b.ops = {} /\ b.key = MoNone
    BY <1>4, MoStripBares DEF MoBare1
  <1>6. New("own") = d /\ New("other") = d
    BY <1>2
  <1> HIDE DEF c, b, New
  <1>7. O \in {o \in SUBSET MoUsers : IsFiniteSet(o)}
    <2>1. O = {u}
      BY <1>5
    <2>2. IsFiniteSet({u})
      BY FS_Singleton
    <2> QED BY <2>1, <2>2
  <1> HIDE DEF O
  <1>8. d \in MoGood /\ d.key = b.key
    BY <1>5, <1>7 DEF MoGood
  <1> HIDE DEF d
  <1>9. d \in MoFine
    BY <1>5, <1>8 DEF MoFine
  <1>10. mo_at' \in [{"own", "other"} -> MoFine] /\ mo_at'["own"] = d /\ mo_at'["other"] = d
    BY <1>3, <1>6, <1>9
  <1> DEFINE p == [k \in 0 .. 0 |-> d]
  <1>11. Len(mo_wire') = 0 /\ mo_wire' \in Seq(MoLine)
    BY <1>1
  <1>12. MoTrail(p, mo_at', mo_wire')
    BY <1>9, <1>10, <1>11 DEF MoTrail
  <1> HIDE DEF p
  <1> QED BY <1>10, <1>11, <1>12 DEF MoKeepsUp

LEMMA MoKeepsSound ==
    ASSUME MoKeepsUp(mo_at, mo_wire)
    PROVE  MoSound
  <1>1. mo_at \in [{"own", "other"} -> MoFine]
    BY DEF MoKeepsUp
  <1>2. MoReplayed
    <2>1. SUFFICES ASSUME mo_wire = <<>> PROVE mo_at["other"] = mo_at["own"]
      BY DEF MoReplayed
    <2>2. PICK p : MoTrail(p, mo_at, mo_wire)
      BY DEF MoKeepsUp
    <2>3. Len(mo_wire) = 0
      BY <2>1
    <2> QED BY <2>2, <2>3 DEF MoTrail
  <1>3. MoStripped
    <2> SUFFICES ASSUME NEW s \in DOMAIN mo_at, NEW bare, bare = MoStrip(mo_at[s])
                 PROVE  /\ bare.bans = {} /\ bare.ops = {} /\ bare.key = MoNone /\ "i" \notin bare.flags
                        /\ "l" \in bare.flags => mo_at[s].limit = 0 /\ "l" \in mo_at[s].flags
      BY DEF MoStripped
    <2>1. mo_at[s] \in MoFine /\ mo_at[s] \in MoGood
      BY <1>1 DEF MoFine
    <2>2. MoBare1(mo_at[s], bare)
      BY <2>1, MoStripBares
    <2> QED BY <2>1, <2>2 DEF MoBare1
  <1>4. MoBansBounded
    <2> SUFFICES ASSUME NEW s \in DOMAIN mo_at PROVE Cardinality(mo_at[s].bans) <= MoMaxBans + 1
      BY DEF MoBansBounded
    <2>1. mo_at[s] \in MoGood
      BY <1>1 DEF MoFine
    <2> QED BY <2>1 DEF MoGood
  <1> QED BY <1>2, <1>3, <1>4 DEF MoSound

\* In every state that the program reaches, a server that has read every mode line on its way has the channel of the
\* server where the lines were typed, with its modes, key, limit, bans and operators; a channel that loses its
\* timestamp keeps no ban, key or operator; and no list of bans outgrows its limit: for any users, keys, masks and
\* limits, however many letters a line has and whatever its handlers denied, cut or completed.
THEOREM ModesSound == ChannelModesSpec => []MoSound
  <1> DEFINE Inv == MoKeepsUp(mo_at, mo_wire)
  <1>1. ChannelModesInit => Inv
    BY MoInitKeeps
  <1>2. Inv /\ [ChannelModesNext]_mo_vars => Inv'
    <2> SUFFICES ASSUME Inv, [ChannelModesNext]_mo_vars PROVE MoKeepsUp(mo_at', mo_wire')
      OBVIOUS
    <2>1. ASSUME NEW u \in MoUsers, NEW line \in MoLines, MoClient(u, line) PROVE MoKeepsUp(mo_at', mo_wire')
      BY <2>1, MoClientKeeps
    <2>2. CASE MoRead
      BY <2>2, MoReadKeeps
    <2>3. ASSUME NEW u \in MoUsers, MoOlder(u) PROVE MoKeepsUp(mo_at', mo_wire')
      BY <2>3, MoOlderKeeps
    <2>4. CASE UNCHANGED mo_vars
      BY <2>4 DEF mo_vars
    <2> QED BY <2>1, <2>2, <2>3, <2>4 DEF ChannelModesNext
  <1>3. Inv => MoSound
    BY MoKeepsSound
  <1> HIDE DEF Inv
  <1> QED BY <1>1, <1>2, <1>3, PTL DEF ChannelModesSpec

-----------------------------------------------------------------------------
(* A user's modes, what a server knows of him, and what the other is told. *)

\* What a server may know of users, as a set of records.
UmKnows ==
    [users : SUBSET UmUsers, modes : [UmUsers -> SUBSET UmLetters], masks : [UmUsers -> BOOLEAN],
     oper : [UmUsers -> BOOLEAN], opers : [UmUsers -> Nat], count : [{"i", "s"} -> Int]]

\* What the pieces of the handlers do to it.
LEMMA UmModesAre ==
    ASSUME NEW v \in UmKnows, NEW M \in [UmUsers -> SUBSET UmLetters]
    PROVE  LET w == [v EXCEPT !.modes = M] IN
           /\ w \in UmKnows /\ w.users = v.users /\ w.masks = v.masks /\ w.oper = v.oper /\ w.opers = v.opers
           /\ w.count = v.count /\ w.modes = M
  BY DEF UmKnows

LEMMA UmSetOff ==
    ASSUME NEW v \in UmKnows, NEW u \in UmUsers, NEW letter \in UmLetters
    PROVE  LET w == UmSet(v, u, letter, FALSE) IN
           /\ w \in UmKnows /\ w.users = v.users /\ w.masks = v.masks /\ w.oper = v.oper /\ w.opers = v.opers /\ w.count = v.count
           /\ w.modes = [v.modes EXCEPT ![u] = v.modes[u] \ {letter}]
  <1> DEFINE M == [v.modes EXCEPT ![u] = v.modes[u] \ {letter}]
             w == [v EXCEPT !.modes = M]
  <1>2. M \in [UmUsers -> SUBSET UmLetters]
    BY DEF UmKnows
  <1> HIDE DEF M
  <1>3. /\ w \in UmKnows /\ w.users = v.users /\ w.masks = v.masks /\ w.oper = v.oper /\ w.opers = v.opers
        /\ w.count = v.count /\ w.modes = M
    BY <1>2, UmModesAre
  <1> HIDE DEF w
  <1>4. UmSet(v, u, letter, FALSE) = w
    BY DEF UmSet, w, M
  <1> QED BY <1>3, <1>4 DEF M

LEMMA UmSetOn ==
    ASSUME NEW v \in UmKnows, NEW u \in UmUsers, NEW letter \in UmLetters
    PROVE  LET w == UmSet(v, u, letter, TRUE) IN
           /\ w \in UmKnows /\ w.users = v.users /\ w.masks = v.masks /\ w.oper = v.oper /\ w.opers = v.opers /\ w.count = v.count
           /\ w.modes = [v.modes EXCEPT ![u] = v.modes[u] \cup {letter}]
  <1> DEFINE M == [v.modes EXCEPT ![u] = v.modes[u] \cup {letter}]
             w == [v EXCEPT !.modes = M]
  <1>2. M \in [UmUsers -> SUBSET UmLetters]
    BY DEF UmKnows
  <1> HIDE DEF M
  <1>3. /\ w \in UmKnows /\ w.users = v.users /\ w.masks = v.masks /\ w.oper = v.oper /\ w.opers = v.opers
        /\ w.count = v.count /\ w.modes = M
    BY <1>2, UmModesAre
  <1> HIDE DEF w
  <1>4. UmSet(v, u, letter, TRUE) = w
    BY DEF UmSet, w, M
  <1> QED BY <1>3, <1>4 DEF M

LEMMA UmSetN ==
    ASSUME NEW v \in UmKnows, NEW u \in UmUsers
    PROVE  /\ LET w == UmSet(v, u, "n", TRUE) IN
              /\ w \in UmKnows /\ w.users = v.users /\ w.masks = v.masks /\ w.oper = v.oper /\ w.opers = v.opers /\ w.count = v.count
              /\ w.modes = [v.modes EXCEPT ![u] = v.modes[u] \cup {"n"}]
           /\ LET w == UmSet(v, u, "n", FALSE) IN
              /\ w \in UmKnows /\ w.users = v.users /\ w.masks = v.masks /\ w.oper = v.oper /\ w.opers = v.opers /\ w.count = v.count
              /\ w.modes = [v.modes EXCEPT ![u] = v.modes[u] \ {"n"}]
  <1>1. "n" \in UmLetters
    BY DEF UmLetters
  <1>2. PICK l \in UmLetters : l = "n"
    BY <1>1
  <1>3. LET w == UmSet(v, u, l, TRUE) IN
        /\ w \in UmKnows /\ w.users = v.users /\ w.masks = v.masks /\ w.oper = v.oper /\ w.opers = v.opers /\ w.count = v.count
        /\ w.modes = [v.modes EXCEPT ![u] = v.modes[u] \cup {l}]
    BY UmSetOn
  <1>4. LET w == UmSet(v, u, l, FALSE) IN
        /\ w \in UmKnows /\ w.users = v.users /\ w.masks = v.masks /\ w.oper = v.oper /\ w.opers = v.opers /\ w.count = v.count
        /\ w.modes = [v.modes EXCEPT ![u] = v.modes[u] \ {l}]
    BY UmSetOff
  <1> QED BY <1>2, <1>3, <1>4

LEMMA UmChangeCountIs ==
    ASSUME NEW v \in UmKnows, NEW letter \in UmLetters, NEW by \in Int
    PROVE  LET w == UmChangeCount(v, letter, by) IN
           /\ w \in UmKnows /\ w.users = v.users /\ w.masks = v.masks /\ w.oper = v.oper /\ w.opers = v.opers /\ w.modes = v.modes
           /\ w.count["i"] = IF letter = "i" THEN v.count["i"] + by ELSE v.count["i"]
  <1> DEFINE C == [v.count EXCEPT ![letter] = v.count[letter] + by]
             w == [v EXCEPT !.count = C]
  <1>1. CASE letter \in {"i", "s"}
    <2>1. UmChangeCount(v, letter, by) = w
      BY <1>1 DEF UmChangeCount
    <2>2. C \in [{"i", "s"} -> Int] /\ C["i"] = IF letter = "i" THEN v.count["i"] + by ELSE v.count["i"]
      BY <1>1 DEF UmKnows
    <2> HIDE DEF C
    <2>3. w \in UmKnows /\ w.users = v.users /\ w.masks = v.masks /\ w.oper = v.oper /\ w.opers = v.opers /\ w.count = C /\ w.modes = v.modes
      BY <2>2 DEF UmKnows
    <2> HIDE DEF w
    <2> QED BY <2>1, <2>2, <2>3
  <1>2. CASE letter \notin {"i", "s"}
    BY <1>2 DEF UmChangeCount
  <1> QED BY <1>1, <1>2

LEMMA UmUnOperIs ==
    ASSUME NEW v \in UmKnows, NEW u \in UmUsers
    PROVE  LET w == UmUnOper(v, u) IN
           /\ w \in UmKnows /\ w.users = v.users /\ w.masks = v.masks /\ w.count = v.count
           /\ w.oper = [v.oper EXCEPT ![u] = FALSE]
           /\ w.opers = IF v.oper[u] THEN [v.opers EXCEPT ![u] = IF v.opers[u] > 0 THEN v.opers[u] - 1 ELSE 0] ELSE v.opers
           /\ w.modes = IF v.oper[u] THEN [v.modes EXCEPT ![u] = v.modes[u] \ {"o"}] ELSE v.modes
  <1> DEFINE O == [v.oper EXCEPT ![u] = FALSE]
             A == [v.opers EXCEPT ![u] = IF v.opers[u] > 0 THEN v.opers[u] - 1 ELSE 0]
             x == [v EXCEPT !.oper = O, !.opers = A]
  <1>0. v.oper \in [UmUsers -> BOOLEAN] /\ v.opers \in [UmUsers -> Nat]
    BY DEF UmKnows
  <1>1. CASE v.oper[u]
    <2>1. UmUnOper(v, u) = UmSet(x, u, "o", FALSE)
      BY <1>1 DEF UmUnOper
    <2>2. O \in [UmUsers -> BOOLEAN] /\ A \in [UmUsers -> Nat]
      BY <1>0
    <2> HIDE DEF O, A
    <2>3. x \in UmKnows /\ x.users = v.users /\ x.masks = v.masks /\ x.oper = O /\ x.opers = A /\ x.count = v.count /\ x.modes = v.modes
      BY <2>2 DEF UmKnows
    <2> HIDE DEF x
    <2> DEFINE w == UmSet(x, u, "o", FALSE)
    <2>4. "o" \in UmLetters
      BY DEF UmLetters
    <2>5. w \in UmKnows /\ w.users = x.users /\ w.masks = x.masks /\ w.oper = x.oper /\ w.opers = x.opers /\ w.count = x.count
            /\ w.modes = [x.modes EXCEPT ![u] = x.modes[u] \ {"o"}]
      BY <2>3, <2>4, UmSetOff
    <2> HIDE DEF w
    <2>6. UmUnOper(v, u) = w
      BY <2>1 DEF w
    <2> QED BY <1>1, <2>3, <2>5, <2>6 DEF O, A
  <1>2. CASE ~v.oper[u]
    <2>1. UmUnOper(v, u) = v
      BY <1>2 DEF UmUnOper
    <2>2. v.oper = [v.oper EXCEPT ![u] = FALSE]
      BY <1>0, <1>2
    <2> QED BY <1>2, <2>1, <2>2
  <1> QED BY <1>1, <1>2

-----------------------------------------------------------------------------
\* What is right for one server by itself.
UmInvisible(users, modes) == {x \in users : "i" \in modes[x]}
UmHidden(users, modes) == Cardinality(UmInvisible(users, modes))
UmSaneOf(v) ==
    /\ IsFiniteSet(v.users)
    /\ \A x \in UmUsers : /\ v.opers[x] = IF v.oper[x] THEN 1 ELSE 0
                          /\ v.oper[x] => x \in v.users /\ "o" \in v.modes[x]
                          /\ x \notin v.users => v.modes[x] = {}
    /\ v.count["i"] = UmHidden(v.users, v.modes)
UmSane == {v \in UmKnows : UmSaneOf(v)}

\* What one server tells the other.
UmView(v) == [users |-> v.users, oper |-> v.oper, io |-> [x \in UmUsers |-> v.modes[x] \cap {"i", "o"}]]

\* The number of invisible users after one of them changed.
LEMMA UmOneMore ==
    ASSUME NEW U, IsFiniteSet(U), NEW m, NEW m2, NEW u \in U,
           \A x \in U : x # u => ("i" \in m2[x] <=> "i" \in m[x])
    PROVE  /\ UmHidden(U, m) \in Nat
           /\ ("i" \in m2[u] <=> "i" \in m[u]) => UmHidden(U, m2) = UmHidden(U, m)
           /\ "i" \in m2[u] /\ "i" \notin m[u] => UmHidden(U, m2) = UmHidden(U, m) + 1
           /\ "i" \notin m2[u] /\ "i" \in m[u] => UmHidden(U, m2) = UmHidden(U, m) - 1
  <1>1. UmInvisible(U, m) \subseteq U /\ IsFiniteSet(UmInvisible(U, m))
    BY FS_Subset DEF UmInvisible
  <1>2. UmHidden(U, m) \in Nat
    BY <1>1, FS_CardinalityType DEF UmHidden
  <1>3. ASSUME "i" \in m2[u] <=> "i" \in m[u]
        PROVE  UmHidden(U, m2) = UmHidden(U, m)
    <2>1. UmInvisible(U, m2) = UmInvisible(U, m)
      BY <1>3 DEF UmInvisible
    <2> QED BY <2>1 DEF UmHidden
  <1>4. ASSUME "i" \in m2[u], "i" \notin m[u]
        PROVE  UmHidden(U, m2) = UmHidden(U, m) + 1
    <2>1. UmInvisible(U, m2) = UmInvisible(U, m) \cup {u} /\ u \notin UmInvisible(U, m)
      BY <1>4 DEF UmInvisible
    <2> QED BY <1>1, <2>1, FS_AddElement DEF UmHidden
  <1>5. ASSUME "i" \notin m2[u], "i" \in m[u]
        PROVE  UmHidden(U, m2) = UmHidden(U, m) - 1
    <2>1. UmInvisible(U, m2) = UmInvisible(U, m) \ {u} /\ u \in UmInvisible(U, m)
      BY <1>5 DEF UmInvisible
    <2> QED BY <1>1, <2>1, FS_RemoveElement DEF UmHidden
  <1> QED BY <1>2, <1>3, <1>4, <1>5

\* A server stays right when a letter other than o changes and the count goes with i.
LEMMA UmStaysSane ==
    ASSUME NEW v \in UmSane, NEW w \in UmKnows, NEW u \in v.users,
           w.users = v.users, w.oper = v.oper, w.opers = v.opers,
           \A x \in UmUsers : x # u => w.modes[x] = v.modes[x],
           "o" \in v.modes[u] => "o" \in w.modes[u],
           w.count["i"] = v.count["i"] + (IF "i" \in w.modes[u] THEN 1 ELSE 0) - (IF "i" \in v.modes[u] THEN 1 ELSE 0)
    PROVE  w \in UmSane
  <1>1. v \in UmKnows /\ UmSaneOf(v) /\ u \in UmUsers /\ v.users \in SUBSET UmUsers
    BY DEF UmSane, UmKnows
  <1>2. \A x \in UmUsers : /\ w.opers[x] = IF w.oper[x] THEN 1 ELSE 0
                           /\ w.oper[x] => x \in w.users /\ "o" \in w.modes[x]
                           /\ x \notin w.users => w.modes[x] = {}
    BY <1>1 DEF UmSaneOf
  <1>3. IsFiniteSet(v.users)
    BY <1>1 DEF UmSaneOf
  <1>4. \A x \in v.users : x # u => ("i" \in w.modes[x] <=> "i" \in v.modes[x])
    BY <1>1
  <1>5. /\ UmHidden(v.users, v.modes) \in Nat
        /\ ("i" \in w.modes[u] <=> "i" \in v.modes[u]) => UmHidden(v.users, w.modes) = UmHidden(v.users, v.modes)
        /\ "i" \in w.modes[u] /\ "i" \notin v.modes[u] => UmHidden(v.users, w.modes) = UmHidden(v.users, v.modes) + 1
        /\ "i" \notin w.modes[u] /\ "i" \in v.modes[u] => UmHidden(v.users, w.modes) = UmHidden(v.users, v.modes) - 1
    <2> DEFINE U == v.users
               m == v.modes
               m2 == w.modes
    <2>1. IsFiniteSet(U) /\ u \in U /\ \A x \in U : x # u => ("i" \in m2[x] <=> "i" \in m[x])
      BY <1>3, <1>4
    <2> HIDE DEF U, m, m2
    <2>2. /\ UmHidden(U, m) \in Nat
          /\ ("i" \in m2[u] <=> "i" \in m[u]) => UmHidden(U, m2) = UmHidden(U, m)
          /\ "i" \in m2[u] /\ "i" \notin m[u] => UmHidden(U, m2) = UmHidden(U, m) + 1
          /\ "i" \notin m2[u] /\ "i" \in m[u] => UmHidden(U, m2) = UmHidden(U, m) - 1
      BY <2>1, UmOneMore
    <2> QED BY <2>2 DEF U, m, m2
  <1>6. v.count["i"] = UmHidden(v.users, v.modes)
    BY <1>1 DEF UmSaneOf
  <1>7. w.count["i"] = UmHidden(v.users, w.modes)
    <2>1. CASE "i" \in w.modes[u]
      BY <1>5, <1>6, <2>1
    <2>2. CASE "i" \notin w.modes[u]
      BY <1>5, <1>6, <2>2
    <2> QED BY <2>1, <2>2
  <1>8. UmSaneOf(w)
    BY <1>2, <1>3, <1>7 DEF UmSaneOf
  <1> QED BY <1>8 DEF UmSane

-----------------------------------------------------------------------------
\* One letter of a line.
UmAfter(v, u, item) ==
    LET done == UmOnModeChange(v, u, item) IN
    IF done.ok THEN UmChangeCount(done.v, item.letter, IF item.on THEN 1 ELSE -1) ELSE done.v
UmViewLetter(w, u, item) ==
    [users |-> w.users,
     oper  |-> IF item.letter = "o" /\ ~item.on THEN [w.oper EXCEPT ![u] = FALSE] ELSE w.oper,
     io    |-> IF item.letter = "i"
               THEN [w.io EXCEPT ![u] = IF item.on THEN w.io[u] \cup {"i"} ELSE w.io[u] \ {"i"}]
               ELSE IF item.letter = "o" /\ ~item.on /\ w.oper[u] THEN [w.io EXCEPT ![u] = w.io[u] \ {"o"}]
               ELSE w.io]
UmLetterRight(v, u, item, ok, w) ==
    /\ ok \in BOOLEAN /\ w \in UmSane /\ w.users = v.users
    /\ UmView(w) = UmViewLetter(UmView(v), u, item)
    /\ ~ok => UmView(w) = UmView(v)

LEMMA UmDiffers ==
    ASSUME NEW l, NEW M, NEW b \in BOOLEAN
    PROVE  ((l \in M) # b) \in BOOLEAN /\ (((l \in M) # b) <=> ~((l \in M) <=> b))
  OBVIOUS

\* The fields of what a server knows.
LEMMA UmTyped ==
    ASSUME NEW v \in UmKnows
    PROVE  /\ v.users \in SUBSET UmUsers /\ v.modes \in [UmUsers -> SUBSET UmLetters] /\ v.masks \in [UmUsers -> BOOLEAN]
           /\ v.oper \in [UmUsers -> BOOLEAN] /\ v.opers \in [UmUsers -> Nat] /\ v.count \in [{"i", "s"} -> Int]
           /\ v.count["i"] \in Int
  BY DEF UmKnows

\* +i and +s
LEMMA UmFlagIs ==
    ASSUME NEW v \in UmKnows, NEW u \in UmUsers, NEW item \in UmItems, item.letter \in {"i", "s"}
    PROVE  LET w == UmFlag(v, u, item).v IN
           /\ w \in UmKnows /\ w.users = v.users /\ w.masks = v.masks /\ w.oper = v.oper /\ w.opers = v.opers /\ w.count = v.count
           /\ \A x \in UmUsers : x # u => w.modes[x] = v.modes[x]
           /\ w.modes[u] = IF item.on THEN v.modes[u] \cup {item.letter} ELSE v.modes[u] \ {item.letter}
           /\ UmFlag(v, u, item).ok \in BOOLEAN /\ (UmFlag(v, u, item).ok <=> ~((item.letter \in v.modes[u]) <=> item.on))
  <1> DEFINE w == UmFlag(v, u, item).v
             l == item.letter
  <1>1. w = UmSet(v, u, l, item.on) /\ l \in UmLetters
    BY DEF UmFlag, UmLetters
  <1>6. item.on \in BOOLEAN
    BY DEF UmItems
  <1>2. UmFlag(v, u, item).ok \in BOOLEAN /\ (UmFlag(v, u, item).ok <=> ~((item.letter \in v.modes[u]) <=> item.on))
    <2>1. UmFlag(v, u, item).ok = ((item.letter \in v.modes[u]) # item.on)
      BY DEF UmFlag
    <2> DEFINE ok == UmFlag(v, u, item).ok
               differs == (item.letter \in v.modes[u]) # item.on
    <2>2. differs \in BOOLEAN /\ (differs <=> ~((item.letter \in v.modes[u]) <=> item.on))
      BY <1>6, UmDiffers
    <2>3. ok = differs
      BY <2>1
    <2> HIDE DEF ok, differs
    <2>4. ok \in BOOLEAN /\ (ok <=> ~((item.letter \in v.modes[u]) <=> item.on))
      BY <2>2, <2>3
    <2> QED BY <2>4 DEF ok
  <1>3. v.modes \in [UmUsers -> SUBSET UmLetters]
    BY UmTyped
  <1>4. CASE item.on
    <2> DEFINE M == [v.modes EXCEPT ![u] = v.modes[u] \cup {item.letter}]
    <2> DEFINE y == UmSet(v, u, l, TRUE)
    <2>1. w = y
      BY <1>1, <1>4
    <2> HIDE DEF l
    <2>2. /\ y \in UmKnows /\ y.users = v.users /\ y.masks = v.masks /\ y.oper = v.oper /\ y.opers = v.opers /\ y.count = v.count
          /\ y.modes = [v.modes EXCEPT ![u] = v.modes[u] \cup {l}]
      BY <1>1, UmSetOn, ZenonT(60)
    <2> HIDE DEF y, w
    <2>3. M[u] = v.modes[u] \cup {item.letter} /\ \A x \in UmUsers : x # u => M[x] = v.modes[x]
      BY <1>3
    <2> QED BY <1>2, <1>4, <2>1, <2>2, <2>3 DEF l, w
  <1>5. CASE ~item.on
    <2> DEFINE M == [v.modes EXCEPT ![u] = v.modes[u] \ {item.letter}]
    <2> DEFINE y == UmSet(v, u, l, FALSE)
    <2>0. item.on = FALSE
      BY <1>5, <1>6
    <2>1. w = y
      BY <1>1, <2>0
    <2> HIDE DEF l
    <2>2. /\ y \in UmKnows /\ y.users = v.users /\ y.masks = v.masks /\ y.oper = v.oper /\ y.opers = v.opers /\ y.count = v.count
          /\ y.modes = [v.modes EXCEPT ![u] = v.modes[u] \ {l}]
      BY <1>1, UmSetOff, ZenonT(60)
    <2> HIDE DEF y, w
    <2>3. M[u] = v.modes[u] \ {item.letter} /\ \A x \in UmUsers : x # u => M[x] = v.modes[x]
      BY <1>3
    <2> QED BY <1>2, <1>5, <2>1, <2>2, <2>3 DEF l, w
  <1> QED BY <1>4, <1>5

\* The view of a server on which only the letters of one user changed.
LEMMA UmViewIs ==
    ASSUME NEW v \in UmKnows, NEW w \in UmKnows, NEW u \in UmUsers, w.users = v.users, w.oper = v.oper,
           \A x \in UmUsers : x # u => w.modes[x] = v.modes[x], NEW io, w.modes[u] \cap {"i", "o"} = io
    PROVE  UmView(w) = [users |-> v.users, oper |-> v.oper, io |-> [UmView(v).io EXCEPT ![u] = io]]
  <1>1. [x \in UmUsers |-> w.modes[x] \cap {"i", "o"}] = [[x \in UmUsers |-> v.modes[x] \cap {"i", "o"}] EXCEPT ![u] = io]
    OBVIOUS
  <1>2. UmView(v).io = [x \in UmUsers |-> v.modes[x] \cap {"i", "o"}]
    BY DEF UmView
  <1> QED BY <1>1, <1>2 DEF UmView

LEMMA UmViewSame ==
    ASSUME NEW v \in UmKnows, NEW w \in UmKnows, NEW u \in UmUsers, w.users = v.users, w.oper = v.oper,
           \A x \in UmUsers : x # u => w.modes[x] = v.modes[x], w.modes[u] \cap {"i", "o"} = v.modes[u] \cap {"i", "o"}
    PROVE  UmView(w) = UmView(v)
  <1>1. [x \in UmUsers |-> w.modes[x] \cap {"i", "o"}] = [x \in UmUsers |-> v.modes[x] \cap {"i", "o"}]
    OBVIOUS
  <1> QED BY <1>1 DEF UmView

\* +i is counted as it is set, and the view follows.
LEMMA UmFlagRight ==
    ASSUME NEW v \in UmSane, NEW u \in v.users, NEW item \in UmItems, item.letter \in {"i", "s"}
    PROVE  UmLetterRight(v, u, item, UmOnModeChange(v, u, item).ok, UmAfter(v, u, item))
  <1> DEFINE ok == UmFlag(v, u, item).ok
             d == UmFlag(v, u, item).v
             by == IF item.on THEN 1 ELSE -1
             c == UmChangeCount(d, item.letter, by)
             w == UmAfter(v, u, item)
             l == item.letter
  <1>1. v \in UmKnows /\ u \in UmUsers /\ item.on \in BOOLEAN /\ by \in Int /\ l \in UmLetters
    <2>1. v \in UmKnows
      BY DEF UmSane
    <2>2. u \in UmUsers
      BY <2>1 DEF UmKnows
    <2>3. item.on \in BOOLEAN
      BY DEF UmItems
    <2>4. l \in UmLetters
      BY DEF UmLetters
    <2> QED BY <2>1, <2>2, <2>3, <2>4
  <1>2. /\ d \in UmKnows /\ d.users = v.users /\ d.oper = v.oper /\ d.opers = v.opers /\ d.count = v.count
        /\ \A x \in UmUsers : x # u => d.modes[x] = v.modes[x]
        /\ d.modes[u] = IF item.on THEN v.modes[u] \cup {l} ELSE v.modes[u] \ {l}
        /\ ok \in BOOLEAN /\ (ok <=> ~((l \in v.modes[u]) <=> item.on))
    BY <1>1, UmFlagIs, ZenonT(60)
  <1>3. UmOnModeChange(v, u, item).ok = ok /\ w = IF ok THEN c ELSE d
    BY DEF UmOnModeChange, UmAfter
  <1> HIDE DEF d, ok, by, w
  <1>4. /\ c \in UmKnows /\ c.users = d.users /\ c.oper = d.oper /\ c.opers = d.opers /\ c.modes = d.modes
        /\ c.count["i"] = IF l = "i" THEN d.count["i"] + by ELSE d.count["i"]
    BY <1>1, <1>2, UmChangeCountIs
  <1> HIDE DEF c
  <1>5. /\ w \in UmKnows /\ w.users = v.users /\ w.oper = v.oper /\ w.opers = v.opers /\ w.modes = d.modes
        /\ w.count["i"] = v.count["i"] + (IF "i" \in d.modes[u] THEN 1 ELSE 0) - (IF "i" \in v.modes[u] THEN 1 ELSE 0)
    <2>0. v.count["i"] \in Int
      BY <1>1, UmTyped
    <2>1. CASE ok /\ item.on
      <3>1. w = c /\ by = 1 /\ l \notin v.modes[u]
        BY <1>2, <1>3, <2>1 DEF by
      <3> QED BY <1>2, <1>4, <2>0, <2>1, <3>1
    <2>2. CASE ok /\ ~item.on
      <3>1. w = c /\ by = -1 /\ l \in v.modes[u]
        BY <1>2, <1>3, <2>2 DEF by
      <3> QED BY <1>2, <1>4, <2>0, <2>2, <3>1
    <2>3. CASE ~ok
      <3>1. w = d /\ d.modes[u] = v.modes[u]
        BY <1>2, <1>3, <2>3
      <3> QED BY <1>2, <2>0, <3>1
    <2> QED BY <1>2, <2>1, <2>2, <2>3
  <1>6. "o" \in v.modes[u] => "o" \in d.modes[u]
    BY <1>2
  <1>7. w \in UmSane
    BY <1>2, <1>5, <1>6, UmStaysSane
  <1>8. UmView(w) = UmViewLetter(UmView(v), u, item)
    <2> DEFINE io == d.modes[u] \cap {"i", "o"}
    <2>7. w.modes[u] \cap {"i", "o"} = io /\ \A x \in UmUsers : x # u => w.modes[x] = v.modes[x]
      BY <1>2, <1>5
    <2> HIDE DEF io
    <2>1. UmView(w) = [users |-> v.users, oper |-> v.oper, io |-> [UmView(v).io EXCEPT ![u] = io]]
      BY <1>1, <1>5, <2>7, UmViewIs
    <2> USE DEF io
    <2>2. UmView(v).users = v.users /\ UmView(v).oper = v.oper /\ UmView(v).io = [x \in UmUsers |-> v.modes[x] \cap {"i", "o"}]
      BY DEF UmView
    <2>3. UmView(v).io[u] = v.modes[u] \cap {"i", "o"}
      BY <1>1, <2>2
    <2>4. CASE l = "i" /\ item.on
      <3>1. io = UmView(v).io[u] \cup {"i"}
        BY <1>2, <2>3, <2>4
      <3> HIDE DEF io
      <3> QED BY <2>1, <2>2, <2>4, <3>1 DEF UmViewLetter
    <2>5. CASE l = "i" /\ ~item.on
      <3>1. io = UmView(v).io[u] \ {"i"}
        BY <1>2, <2>3, <2>5
      <3> HIDE DEF io
      <3> QED BY <2>1, <2>2, <2>5, <3>1 DEF UmViewLetter
    <2>6. CASE l = "s"
      <3>1. io = UmView(v).io[u]
        BY <1>2, <2>3, <2>6
      <3> HIDE DEF io
      <3>2. [UmView(v).io EXCEPT ![u] = io] = UmView(v).io
        BY <2>2, <3>1
      <3> QED BY <2>1, <2>2, <2>6, <3>2 DEF UmViewLetter
    <2> QED BY <1>2, <2>4, <2>5, <2>6
  <1>9. ~ok => UmView(w) = UmView(v)
    <2> SUFFICES ASSUME ~ok PROVE UmView(w) = UmView(v)
      OBVIOUS
    <2>1. d.modes[u] = v.modes[u]
      BY <1>2
    <2> QED BY <1>1, <1>2, <1>5, <2>1, UmViewSame
  <1> QED BY <1>2, <1>3, <1>5, <1>7, <1>8, <1>9 DEF UmLetterRight, w

\* UnOper keeps the list of operators.
LEMMA UmUnOperSane ==
    ASSUME NEW v \in UmSane, NEW u \in UmUsers
    PROVE  /\ UmUnOper(v, u) \in UmSane /\ UmUnOper(v, u).users = v.users /\ ~UmUnOper(v, u).oper[u]
           /\ UmUnOper(v, u).oper = [v.oper EXCEPT ![u] = FALSE]
           /\ UmUnOper(v, u).modes = IF v.oper[u] THEN [v.modes EXCEPT ![u] = v.modes[u] \ {"o"}] ELSE v.modes
  <1> DEFINE w == UmUnOper(v, u)
  <1>1. v \in UmKnows /\ UmSaneOf(v)
    BY DEF UmSane
  <1>2. /\ v.users \in SUBSET UmUsers /\ v.modes \in [UmUsers -> SUBSET UmLetters]
        /\ v.oper \in [UmUsers -> BOOLEAN] /\ v.opers \in [UmUsers -> Nat]
    BY <1>1, UmTyped
  <1>3. /\ w \in UmKnows /\ w.users = v.users /\ w.count = v.count
        /\ w.oper = [v.oper EXCEPT ![u] = FALSE]
        /\ w.opers = IF v.oper[u] THEN [v.opers EXCEPT ![u] = IF v.opers[u] > 0 THEN v.opers[u] - 1 ELSE 0] ELSE v.opers
        /\ w.modes = IF v.oper[u] THEN [v.modes EXCEPT ![u] = v.modes[u] \ {"o"}] ELSE v.modes
    BY <1>1, UmUnOperIs
  <1> HIDE DEF w
  <1>4. ~w.oper[u] /\ \A x \in UmUsers : x # u => w.oper[x] = v.oper[x]
    BY <1>2, <1>3
  <1>5. \A x \in UmUsers : v.opers[x] = (IF v.oper[x] THEN 1 ELSE 0) /\ (v.oper[x] => x \in v.users /\ "o" \in v.modes[x])
                             /\ (x \notin v.users => v.modes[x] = {})
    BY <1>1 DEF UmSaneOf
  <1>6. w.opers[u] = 0 /\ \A x \in UmUsers : x # u => w.opers[x] = v.opers[x]
    <2>1. CASE v.oper[u]
      <3>1. v.opers[u] = 1
        BY <1>5, <2>1
      <3>2. w.opers = [v.opers EXCEPT ![u] = 0]
        BY <1>3, <2>1, <3>1
      <3> QED BY <1>2, <3>2
    <2>2. CASE ~v.oper[u]
      BY <1>3, <1>5, <2>2
    <2> QED BY <2>1, <2>2
  <1>7. \A x \in UmUsers : (x # u => w.modes[x] = v.modes[x]) /\ w.modes[x] \subseteq v.modes[x] /\ ("i" \in w.modes[x] <=> "i" \in v.modes[x])
    BY <1>2, <1>3
  <1>8. UmHidden(w.users, w.modes) = UmHidden(v.users, v.modes)
    <2>1. UmInvisible(w.users, w.modes) = UmInvisible(v.users, v.modes)
      BY <1>2, <1>3, <1>7 DEF UmInvisible
    <2> QED BY <2>1 DEF UmHidden
  <1>9. ASSUME NEW x \in UmUsers
        PROVE  /\ w.opers[x] = IF w.oper[x] THEN 1 ELSE 0
               /\ w.oper[x] => x \in w.users /\ "o" \in w.modes[x]
               /\ x \notin w.users => w.modes[x] = {}
    <2>1. CASE x = u
      BY <1>3, <1>4, <1>5, <1>6, <1>7, <2>1
    <2>2. CASE x # u
      BY <1>3, <1>4, <1>5, <1>6, <1>7, <2>2
    <2> QED BY <2>1, <2>2
  <1>10. UmSaneOf(w)
    BY <1>1, <1>3, <1>8, <1>9 DEF UmSaneOf
  <1> QED BY <1>3, <1>4, <1>10 DEF UmSane, w

\* -o
LEMMA UmOperatorRight ==
    ASSUME NEW v \in UmSane, NEW u \in v.users, NEW item \in UmItems, item.letter = "o"
    PROVE  UmLetterRight(v, u, item, UmOnModeChange(v, u, item).ok, UmAfter(v, u, item))
  <1>1. v \in UmKnows /\ v.oper \in [UmUsers -> BOOLEAN] /\ v.modes \in [UmUsers -> SUBSET UmLetters]
    BY UmTyped DEF UmSane
  <1>2. u \in UmUsers
    BY <1>1, UmTyped
  <1>3. item.on \in BOOLEAN
    BY DEF UmItems
  <1>4. UmOnModeChange(v, u, item) = UmOperator(v, u, item)
    BY DEF UmOnModeChange
  <1>5. UmView(v).users = v.users /\ UmView(v).oper = v.oper /\ UmView(v).io = [x \in UmUsers |-> v.modes[x] \cap {"i", "o"}]
    BY DEF UmView
  <1>6. CASE v.oper[u] /\ ~item.on
    <2> DEFINE w == UmUnOper(v, u)
    <2>1. UmOnModeChange(v, u, item).ok = TRUE /\ UmOnModeChange(v, u, item).v = w
      BY <1>4, <1>6 DEF UmOperator
    <2>2. UmAfter(v, u, item) = w
      BY <2>1 DEF UmAfter, UmChangeCount
    <2>3. w \in UmSane /\ w.users = v.users /\ w.oper = [v.oper EXCEPT ![u] = FALSE]
            /\ w.modes = [v.modes EXCEPT ![u] = v.modes[u] \ {"o"}]
      BY <1>2, <1>6, UmUnOperSane
    <2> HIDE DEF w
    <2>4. [x \in UmUsers |-> w.modes[x] \cap {"i", "o"}] = [UmView(v).io EXCEPT ![u] = UmView(v).io[u] \ {"o"}]
      <3> DEFINE io == UmView(v).io
      <3>1. io = [x \in UmUsers |-> v.modes[x] \cap {"i", "o"}]
        BY <1>5
      <3>2. w.modes[u] = v.modes[u] \ {"o"} /\ \A x \in UmUsers : x # u => w.modes[x] = v.modes[x]
        BY <1>1, <1>2, <2>3
      <3> HIDE DEF io
      <3>3. \A x \in UmUsers : io[x] = v.modes[x] \cap {"i", "o"}
        BY <3>1
      <3>4. w.modes[u] \cap {"i", "o"} = io[u] \ {"o"}
        BY <1>2, <3>2, <3>3
      <3>5. \A x \in UmUsers : w.modes[x] \cap {"i", "o"} = [io EXCEPT ![u] = io[u] \ {"o"}][x]
        BY <1>2, <3>1, <3>2, <3>3, <3>4
      <3>6. DOMAIN [io EXCEPT ![u] = io[u] \ {"o"}] = UmUsers
        BY <3>1
      <3>7. [io EXCEPT ![u] = io[u] \ {"o"}] = [x \in UmUsers |-> [io EXCEPT ![u] = io[u] \ {"o"}][x]]
        BY <3>1
      <3>8. [x \in UmUsers |-> w.modes[x] \cap {"i", "o"}] = [x \in UmUsers |-> [io EXCEPT ![u] = io[u] \ {"o"}][x]]
        BY <3>5
      <3>9. [x \in UmUsers |-> w.modes[x] \cap {"i", "o"}] = [io EXCEPT ![u] = io[u] \ {"o"}]
        BY <3>7, <3>8
      <3> QED BY <3>9 DEF io
    <2>5. UmView(w) = UmViewLetter(UmView(v), u, item)
      BY <1>5, <1>6, <2>3, <2>4 DEF UmView, UmViewLetter
    <2> QED BY <2>1, <2>2, <2>3, <2>5 DEF UmLetterRight
  <1>7. CASE ~(v.oper[u] /\ ~item.on)
    <2>1. UmOnModeChange(v, u, item).ok = FALSE /\ UmAfter(v, u, item) = v
      BY <1>4, <1>7 DEF UmOperator, UmAfter
    <2>2. CASE item.on
      <3>1. UmViewLetter(UmView(v), u, item) = UmView(v)
        BY <2>2 DEF UmViewLetter, UmView
      <3> QED BY <2>1, <3>1 DEF UmLetterRight
    <2>3. CASE ~item.on
      <3>1. ~v.oper[u]
        BY <1>7, <2>3
      <3>2. [v.oper EXCEPT ![u] = FALSE] = v.oper
        BY <1>1, <1>2, <3>1
      <3>3. UmViewLetter(UmView(v), u, item) = UmView(v)
        BY <1>5, <2>3, <3>1, <3>2 DEF UmViewLetter, UmView
      <3> QED BY <2>1, <3>3 DEF UmLetterRight
    <2> QED BY <2>2, <2>3
  <1> QED BY <1>6, <1>7

\* +n and -n touch neither i nor o.
LEMMA UmAside ==
    ASSUME NEW v \in UmSane, NEW u \in v.users, NEW w \in UmKnows, w.users = v.users, w.oper = v.oper, w.opers = v.opers,
           w.count["i"] = v.count["i"], \A x \in UmUsers : x # u => w.modes[x] = v.modes[x],
           w.modes[u] \cap {"i", "o"} = v.modes[u] \cap {"i", "o"}
    PROVE  w \in UmSane /\ UmView(w) = UmView(v)
  <1>1. v \in UmKnows
    BY DEF UmSane
  <1>2. u \in UmUsers /\ v.count["i"] \in Int
    BY <1>1, UmTyped
  <1>3. ("i" \in w.modes[u] <=> "i" \in v.modes[u]) /\ ("o" \in v.modes[u] => "o" \in w.modes[u])
    <2>1. "i" \in {"i", "o"} /\ "o" \in {"i", "o"}
      OBVIOUS
    <2> QED BY <2>1
  <1>4. w.count["i"] = v.count["i"] + (IF "i" \in w.modes[u] THEN 1 ELSE 0) - (IF "i" \in v.modes[u] THEN 1 ELSE 0)
    BY <1>2, <1>3
  <1>5. w \in UmSane
    BY <1>3, <1>4, UmStaysSane
  <1>6. UmView(w) = UmView(v)
    BY <1>1, <1>2, UmViewSame
  <1> QED BY <1>5, <1>6

\* The handler of +n changes no letter but n and s, and counts none but s.
LEMMA UmNoticesIs ==
    ASSUME NEW v \in UmKnows, NEW u \in UmUsers, NEW item, item.on \in BOOLEAN
    PROVE  LET done == UmNotices(v, u, item) IN
           /\ done.ok \in BOOLEAN /\ done.v \in UmKnows /\ done.v.users = v.users /\ done.v.oper = v.oper /\ done.v.opers = v.opers
           /\ done.v.count["i"] = v.count["i"] /\ (\A x \in UmUsers : x # u => done.v.modes[x] = v.modes[x])
           /\ done.v.modes[u] \cap {"i", "o"} = v.modes[u] \cap {"i", "o"}
  <1> DEFINE done == UmNotices(v, u, item)
  <1>11. v.masks \in [UmUsers -> BOOLEAN] /\ v.modes \in [UmUsers -> SUBSET UmLetters] /\ v \in UmKnows
    BY UmTyped
  <1>12. u \in UmUsers
    OBVIOUS
  <1>1. CASE item.on
    <2> DEFINE masks == "n" \in v.modes[u] /\ v.masks[u]
               K == [v.masks EXCEPT ![u] = masks \/ item.arg = "known"]
               v1 == [v EXCEPT !.masks = K]
               set == UmSet(v1, u, "n", TRUE)
               si == [on |-> TRUE, letter |-> "s", arg |-> "none"]
               s == UmFlag(set, u, si)
               d == s.v
               c == UmChangeCount(d, "s", 1)
    <2>1. done.v = IF s.ok THEN c ELSE set
      BY <1>1 DEF UmNotices
    <2>2. done.ok = (~masks /\ item.arg = "known")
      BY <1>1 DEF UmNotices
    <2>3. done.ok \in BOOLEAN
      BY <2>2
    <2> HIDE DEF done, masks
    <2>4. K \in [UmUsers -> BOOLEAN]
      <3>1. (masks \/ item.arg = "known") \in BOOLEAN
        OBVIOUS
      <3> QED BY <1>11, <3>1
    <2> HIDE DEF K
    <2>5. v1 \in UmKnows /\ v1.users = v.users /\ v1.oper = v.oper /\ v1.opers = v.opers /\ v1.count = v.count /\ v1.modes = v.modes
      BY <1>11, <2>4 DEF UmKnows
    <2> HIDE DEF v1
    <2>6. "n" \in UmLetters /\ "s" \in UmLetters /\ si \in UmItems /\ si.letter \in {"i", "s"} /\ si.on = TRUE /\ si.letter = "s"
      BY DEF UmLetters, UmItems
    <2>7. /\ set \in UmKnows /\ set.users = v1.users /\ set.oper = v1.oper /\ set.opers = v1.opers /\ set.count = v1.count
          /\ set.modes = [v1.modes EXCEPT ![u] = v1.modes[u] \cup {"n"}]
      BY <1>12, <2>5, UmSetN
    <2> HIDE DEF set, si
    <2>8. /\ d \in UmKnows /\ d.users = set.users /\ d.oper = set.oper /\ d.opers = set.opers /\ d.count = set.count
          /\ \A x \in UmUsers : x # u => d.modes[x] = set.modes[x]
          /\ d.modes[u] = IF si.on THEN set.modes[u] \cup {si.letter} ELSE set.modes[u] \ {si.letter}
      <3>1. set \in UmKnows /\ si \in UmItems /\ si.letter \in {"i", "s"}
        BY <2>6, <2>7
      <3>2. LET w == UmFlag(set, u, si).v IN
            /\ w \in UmKnows /\ w.users = set.users /\ w.masks = set.masks /\ w.oper = set.oper /\ w.opers = set.opers /\ w.count = set.count
            /\ \A x \in UmUsers : x # u => w.modes[x] = set.modes[x]
            /\ w.modes[u] = IF si.on THEN set.modes[u] \cup {si.letter} ELSE set.modes[u] \ {si.letter}
            /\ UmFlag(set, u, si).ok \in BOOLEAN /\ (UmFlag(set, u, si).ok <=> ~((si.letter \in set.modes[u]) <=> si.on))
        BY <1>12, <3>1, UmFlagIs
      <3> QED BY <3>2
    <2>9. d.modes[u] = set.modes[u] \cup {"s"}
      BY <2>6, <2>8
    <2> HIDE DEF d
    <2>10. /\ c \in UmKnows /\ c.users = d.users /\ c.oper = d.oper /\ c.opers = d.opers /\ c.modes = d.modes
           /\ c.count["i"] = IF "s" = "i" THEN d.count["i"] + 1 ELSE d.count["i"]
      BY <2>6, <2>8, UmChangeCountIs
    <2> HIDE DEF c
    <2>11. set.modes[u] = v.modes[u] \cup {"n"} /\ \A x \in UmUsers : x # u => set.modes[x] = v.modes[x]
      BY <1>11, <1>12, <2>5, <2>7
    <2> DEFINE Aside(x) == /\ x \in UmKnows /\ x.users = v.users /\ x.oper = v.oper /\ x.opers = v.opers
                           /\ x.count["i"] = v.count["i"] /\ (\A y \in UmUsers : y # u => x.modes[y] = v.modes[y])
                           /\ x.modes[u] \cap {"i", "o"} = v.modes[u] \cap {"i", "o"}
    <2>12. Aside(set)
      BY <2>5, <2>7, <2>11
    <2>13. Aside(c)
      BY <2>5, <2>7, <2>8, <2>9, <2>10, <2>11
    <2>14. done.v = c \/ done.v = set
      BY <2>1
    <2> HIDE DEF Aside
    <2>15. Aside(done.v)
      BY <2>12, <2>13, <2>14
    <2> QED BY <2>3, <2>15 DEF Aside, done
  <1>2. CASE ~item.on
    <2> DEFINE set == UmSet(v, u, "n", FALSE)
    <2>1. done.v = set /\ done.ok = ("n" \in v.modes[u])
      BY <1>2 DEF UmNotices
    <2>2. done.ok \in BOOLEAN
      BY <2>1
    <2> HIDE DEF done
    <2>3. "n" \in UmLetters
      BY DEF UmLetters
    <2>4. /\ set \in UmKnows /\ set.users = v.users /\ set.oper = v.oper /\ set.opers = v.opers /\ set.count = v.count
          /\ set.modes = [v.modes EXCEPT ![u] = v.modes[u] \ {"n"}]
      BY <1>11, <1>12, UmSetN
    <2> HIDE DEF set
    <2>5. set.modes[u] = v.modes[u] \ {"n"} /\ \A x \in UmUsers : x # u => set.modes[x] = v.modes[x]
      BY <1>11, <1>12, <2>4
    <2> QED BY <2>1, <2>2, <2>4, <2>5 DEF done
  <1> QED BY <1>1, <1>2

LEMMA UmNoticesRight ==
    ASSUME NEW v \in UmSane, NEW u \in v.users, NEW item \in UmItems, item.letter = "n"
    PROVE  UmLetterRight(v, u, item, UmOnModeChange(v, u, item).ok, UmAfter(v, u, item))
  <1>1. v \in UmKnows /\ v.masks \in [UmUsers -> BOOLEAN] /\ v.modes \in [UmUsers -> SUBSET UmLetters]
    BY UmTyped DEF UmSane
  <1>2. u \in UmUsers
    BY <1>1, UmTyped
  <1>3. item.on \in BOOLEAN
    BY DEF UmItems
  <1>4. UmOnModeChange(v, u, item) = UmNotices(v, u, item)
    BY DEF UmOnModeChange
  <1> DEFINE done == UmNotices(v, u, item)
             w == UmAfter(v, u, item)
  <1>5. w = done.v
    BY <1>4 DEF UmAfter, UmChangeCount
  <1>6. done.ok \in BOOLEAN /\ done.v \in UmKnows /\ done.v.users = v.users /\ done.v.oper = v.oper /\ done.v.opers = v.opers
          /\ done.v.count["i"] = v.count["i"] /\ (\A x \in UmUsers : x # u => done.v.modes[x] = v.modes[x])
          /\ done.v.modes[u] \cap {"i", "o"} = v.modes[u] \cap {"i", "o"}
    BY <1>1, <1>2, <1>3, UmNoticesIs
  <1> HIDE DEF done, w
  <1>7. w \in UmSane /\ UmView(w) = UmView(v)
    BY <1>5, <1>6, UmAside
  <1>8. UmViewLetter(UmView(v), u, item) = UmView(v)
    BY DEF UmViewLetter, UmView
  <1> QED BY <1>4, <1>5, <1>6, <1>7, <1>8 DEF UmLetterRight, done, w

\* Any letter: a handler that denies it has not changed what the other server sees.
LEMMA UmAnyLetter ==
    ASSUME NEW v \in UmSane, NEW u \in v.users, NEW item \in UmItems
    PROVE  UmLetterRight(v, u, item, UmOnModeChange(v, u, item).ok, UmAfter(v, u, item))
  <1>1. item.letter \in {"i", "o", "s", "n"}
    BY DEF UmItems
  <1> QED BY <1>1, UmFlagRight, UmOperatorRight, UmNoticesRight

-----------------------------------------------------------------------------
\* The parser on a line, one letter after the other.
UmStates(u) == [v : {x \in UmSane : u \in x.users}, out : Seq(UmItems)]
UmTurn(acc, item, u, local) ==
    IF local /\ item.letter \in UmOperOnly /\ ~acc.v.oper[u] THEN acc
    ELSE IF ~UmOnModeChange(acc.v, u, item).ok THEN [acc EXCEPT !.v = UmOnModeChange(acc.v, u, item).v]
    ELSE [v |-> UmChangeCount(UmOnModeChange(acc.v, u, item).v, item.letter, IF item.on THEN 1 ELSE -1),
          out |-> Append(acc.out, item)]

\* A letter that is not announced changes nothing the other server sees.
LEMMA UmTurnIs ==
    ASSUME NEW u \in UmUsers, NEW acc \in UmStates(u), NEW item \in UmItems, NEW local \in BOOLEAN
    PROVE  /\ UmTurn(acc, item, u, local) \in UmStates(u)
           /\ ~local => UmView(UmTurn(acc, item, u, local).v) = UmViewLetter(UmView(acc.v), u, item)
           /\ \/ /\ UmTurn(acc, item, u, local).out = acc.out
                 /\ UmView(UmTurn(acc, item, u, local).v) = UmView(acc.v)
              \/ /\ UmTurn(acc, item, u, local).out = Append(acc.out, item)
                 /\ UmView(UmTurn(acc, item, u, local).v) = UmViewLetter(UmView(acc.v), u, item)
  <1> DEFINE v == acc.v
             done == UmOnModeChange(v, u, item)
             w == UmAfter(v, u, item)
             r == UmTurn(acc, item, u, local)
  <1>1. v \in UmSane /\ u \in v.users /\ acc.out \in Seq(UmItems) /\ acc = [v |-> v, out |-> acc.out]
    BY DEF UmStates
  <1>2. UmLetterRight(v, u, item, done.ok, w)
    BY <1>1, UmAnyLetter
  <1>3. done.ok \in BOOLEAN /\ w \in UmSane /\ u \in w.users /\ UmView(w) = UmViewLetter(UmView(v), u, item)
          /\ (~done.ok => UmView(w) = UmView(v))
    BY <1>1, <1>2 DEF UmLetterRight
  <1>4. CASE local /\ item.letter \in UmOperOnly /\ ~v.oper[u]
    <2>1. r = acc
      BY <1>4 DEF UmTurn
    <2> QED BY <1>1, <1>4, <2>1
  <1>5. CASE ~(local /\ item.letter \in UmOperOnly /\ ~v.oper[u]) /\ ~done.ok
    <2>1. r = [acc EXCEPT !.v = done.v] /\ w = done.v
      BY <1>5 DEF UmTurn, UmAfter
    <2> HIDE DEF w, done
    <2>2. r = [v |-> w, out |-> acc.out]
      BY <1>1, <2>1
    <2> HIDE DEF r
    <2>3. r.v = w /\ r.out = acc.out /\ r \in UmStates(u)
      BY <1>1, <1>3, <2>2 DEF UmStates
    <2> QED BY <1>3, <1>5, <2>3 DEF r
  <1>6. CASE ~(local /\ item.letter \in UmOperOnly /\ ~v.oper[u]) /\ done.ok
    <2> DEFINE c == UmChangeCount(done.v, item.letter, IF item.on THEN 1 ELSE -1)
               out == Append(acc.out, item)
    <2>1. r = [v |-> c, out |-> out] /\ w = c
      BY <1>6 DEF UmTurn, UmAfter
    <2>2. out \in Seq(UmItems)
      BY <1>1
    <2> HIDE DEF w, c, out, r
    <2>3. r.v = w /\ r.out = out /\ r \in UmStates(u)
      BY <1>1, <1>3, <2>1, <2>2 DEF UmStates
    <2> QED BY <1>3, <2>3 DEF r, out
  <1> QED BY <1>3, <1>4, <1>5, <1>6

UmFresh(v) == [v |-> v, out |-> <<>>]
UmTurns(h, v, u, line, local) ==
    /\ h \in [0 .. Len(line) -> UmStates(u)]
    /\ h[0] = UmFresh(v) /\ h[Len(line)] = UmProcess(v, u, line, local)
    /\ \A k \in 1 .. Len(line) : h[k] = UmTurn(h[k - 1], line[k], u, local)
LEMMA UmTurnsExist ==
    ASSUME NEW v0 \in UmSane, NEW who \in UmUsers, who \in v0.users, NEW line \in Seq(UmItems), NEW local \in BOOLEAN
    PROVE  \E h : UmTurns(h, v0, who, line, local)
  <1> DEFINE V == UmStates(who)
             t == line
             len == Len(t)
             Turn(v, x) == UmTurn(v, x, who, local)
             F == [q \in (1 .. len) \X V |-> Turn(q[2], t[q[1]])]
             iter == CHOOSE g : g = [u \in SUBSET DOMAIN t |->
                        IF u = {} THEN UmFresh(v0) ELSE Turn(g[u \ {Max(u)}], t[Max(u)])]
  <1>0. len \in Nat /\ DOMAIN t = 1 .. len /\ \A k \in 1 .. len : t[k] \in UmItems
    OBVIOUS
  <1>1. UmProcess(v0, who, line, local) = iter[DOMAIN t]
    BY DEF UmFresh, UmProcess, UmTurn, FoldLeft, MapThenFoldSet
  <1>2. \A v \in V : \A x \in UmItems : Turn(v, x) \in V
    BY UmTurnIs
  <1>4. UmFresh(v0) \in V
    BY DEF UmFresh, UmStates
  <1>11. \A h, k : h[k] = UmTurn(h[k - 1], line[k], who, local) <=> h[k] = Turn(h[k - 1], t[k])
    OBVIOUS
  <1> HIDE DEF V, Turn, t
  <1>3. F \in [(1 .. len) \X V -> V] /\ \A k \in 1 .. len, v \in V : F[k, v] = Turn(v, t[k])
    <2>2. \A q \in (1 .. len) \X V : Turn(q[2], t[q[1]]) \in V
      BY <1>0, <1>2
    <2>3. \A k \in 1 .. len, v \in V : <<k, v>> \in (1 .. len) \X V /\ <<k, v>>[1] = k /\ <<k, v>>[2] = v
      OBVIOUS
    <2> QED BY <2>2, <2>3
  <1> HIDE DEF F
  <1>5. PICK g \in [SUBSET (1 .. len) -> V] : FoldOf(g, len, UmFresh(v0), F)
    <2>1. FoldFor(len, V, UmFresh(v0), F)
      BY <1>0, <1>3, <1>4, FoldExists
    <2> QED BY <2>1 DEF FoldFor
  <1>6. g = [u \in SUBSET DOMAIN t |-> IF u = {} THEN UmFresh(v0) ELSE Turn(g[u \ {Max(u)}], t[Max(u)])]
    <2>1. ASSUME NEW u \in SUBSET (1 .. len)
          PROVE  g[u] = IF u = {} THEN UmFresh(v0) ELSE Turn(g[u \ {Max(u)}], t[Max(u)])
      <3>1. g[u] = IF u = {} THEN UmFresh(v0) ELSE F[Max(u), g[u \ {Max(u)}]]
        BY <1>5 DEF FoldOf
      <3>2. u # {} => Max(u) \in 1 .. len
        BY <1>0, MaxIs
      <3>3. g[u \ {Max(u)}] \in V
        BY <1>5
      <3> QED BY <1>3, <3>1, <3>2, <3>3
    <2> QED BY <1>0, <2>1
  <1>7. iter = [u \in SUBSET DOMAIN t |-> IF u = {} THEN UmFresh(v0) ELSE Turn(iter[u \ {Max(u)}], t[Max(u)])]
    BY <1>6
  <1> HIDE DEF iter
  <1>8. iter[{}] = UmFresh(v0)
    BY <1>7
  <1>9. ASSUME NEW k \in 1 .. len
        PROVE  iter[1 .. k] = Turn(iter[1 .. k - 1], t[k])
    <2>1. 1 .. k \in SUBSET DOMAIN t /\ 1 .. k # {} /\ Max(1 .. k) = k /\ (1 .. k) \ {Max(1 .. k)} = 1 .. k - 1
      BY <1>0, MaxOfRange
    <2> QED BY <1>7, <2>1
  <1> DEFINE h == [k \in 0 .. len |-> iter[1 .. k]]
  <1>10. h \in [0 .. len -> V]
    <2>1. \A k \in 1 .. len : iter[1 .. k - 1] \in V => iter[1 .. k] \in V
      BY <1>0, <1>2, <1>9
    <2>2. iter[{}] \in V
      BY <1>4, <1>8
    <2> QED BY <1>0, <2>1, <2>2, FoldTurns
  <1>12. h[0] = UmFresh(v0)
    <2>1. 1 .. 0 = {} /\ 0 \in 0 .. len
      BY <1>0
    <2> QED BY <1>8, <2>1
  <1>13. h[len] = iter[DOMAIN t]
    BY <1>0
  <1>14. \A k \in 1 .. len : h[k] = Turn(h[k - 1], t[k])
    <2> SUFFICES ASSUME NEW k \in 1 .. len PROVE h[k] = Turn(h[k - 1], t[k])
      OBVIOUS
    <2>1. k \in 0 .. len /\ k - 1 \in 0 .. len
      BY <1>0
    <2> QED BY <1>9, <2>1
  <1> HIDE DEF h, len
  <1>15. \E f \in [0 .. len -> V] : /\ f[0] = UmFresh(v0) /\ f[len] = UmProcess(v0, who, line, local)
                                  /\ \A k \in 1 .. len : f[k] = UmTurn(f[k - 1], line[k], who, local)
    BY <1>1, <1>10, <1>11, <1>12, <1>13, <1>14
  <1>16. PICK h2 \in [0 .. len -> V] : /\ h2[0] = UmFresh(v0) /\ h2[len] = UmProcess(v0, who, line, local)
                                  /\ \A k \in 1 .. len : h2[k] = UmTurn(h2[k - 1], line[k], who, local)
    BY <1>15
  <1>17. UmTurns(h2, v0, who, line, local)
    BY <1>16 DEF V, t, len, UmTurns
  <1> QED BY <1>17

LEMMA UmProcessOf ==
    ASSUME NEW v \in UmSane, NEW u \in UmUsers, u \in v.users, NEW line \in Seq(UmItems), NEW local \in BOOLEAN
    PROVE  UmProcess(v, u, line, local) \in UmStates(u)
  <1>1. PICK h : UmTurns(h, v, u, line, local)
    BY UmTurnsExist
  <1>2. Len(line) \in 0 .. Len(line)
    OBVIOUS
  <1> QED BY <1>1, <1>2 DEF UmTurns

\* A longer line is the shorter one and a letter more.
LEMMA UmProcessAppend ==
    ASSUME NEW v \in UmSane, NEW u \in UmUsers, u \in v.users, NEW line \in Seq(UmItems), NEW x \in UmItems
    PROVE  UmProcess(v, u, Append(line, x), FALSE) = UmTurn(UmProcess(v, u, line, FALSE), x, u, FALSE)
  <1> DEFINE n == Len(line)
             long == Append(line, x)
  <1>1. long \in Seq(UmItems) /\ Len(long) = n + 1 /\ long[n + 1] = x /\ n \in Nat /\ \A k \in 1 .. n : long[k] = line[k]
    OBVIOUS
  <1> HIDE DEF long
  <1>10. PICK h : UmTurns(h, v, u, line, FALSE)
    BY UmTurnsExist
  <1>11. PICK f : UmTurns(f, v, u, long, FALSE)
    BY <1>1, UmTurnsExist
  <1>2. /\ h[0] = UmFresh(v) /\ h[n] = UmProcess(v, u, line, FALSE)
        /\ \A k \in 1 .. n : h[k] = UmTurn(h[k - 1], line[k], u, FALSE)
    BY <1>10 DEF UmTurns
  <1>3. /\ f[0] = UmFresh(v) /\ f[n + 1] = UmProcess(v, u, long, FALSE)
        /\ \A k \in 1 .. n + 1 : f[k] = UmTurn(f[k - 1], long[k], u, FALSE)
    BY <1>1, <1>11 DEF UmTurns
  <1> DEFINE S == {k \in 0 .. n : f[k] = h[k]}
  <1>4. 0 \in S
    BY <1>1, <1>2, <1>3
  <1>5. \A k \in 1 .. n : k - 1 \in S => k \in S
    <2> SUFFICES ASSUME NEW k \in 1 .. n, f[k - 1] = h[k - 1] PROVE f[k] = h[k]
      OBVIOUS
    <2>1. k \in 1 .. n + 1
      BY <1>1
    <2> QED BY <1>1, <1>2, <1>3, <2>1
  <1>6. n \in S
    <2> HIDE DEF S
    <2>1. \A k \in 0 .. n : k \in S
      BY <1>1, <1>4, <1>5, TurnsKeep
    <2> QED BY <1>1, <2>1
  <1>7. f[n + 1] = UmTurn(f[n], x, u, FALSE)
    <2>1. n + 1 \in 1 .. n + 1 /\ (n + 1) - 1 = n
      BY <1>1
    <2> QED BY <1>1, <1>3, <2>1
  <1> QED BY <1>1, <1>2, <1>3, <1>6, <1>7 DEF long

\* An empty line.
LEMMA UmNoLetters ==
    ASSUME NEW v \in UmSane, NEW u \in UmUsers, u \in v.users
    PROVE  UmProcess(v, u, <<>>, FALSE) = UmFresh(v)
  <1>1. <<>> \in Seq(UmItems) /\ Len(<<>>) = 0
    OBVIOUS
  <1>2. PICK h : UmTurns(h, v, u, <<>>, FALSE)
    BY <1>1, UmTurnsExist
  <1> QED BY <1>1, <1>2 DEF UmTurns

LEMMA UmStateIs ==
    ASSUME NEW u \in UmUsers, NEW s \in UmStates(u)
    PROVE  s.v \in UmSane /\ u \in s.v.users /\ s.out \in Seq(UmItems)
  BY DEF UmStates

\* What is announced of a line does to the view of another server what the line did to the view of this one.
LEMMA UmReplays ==
    ASSUME NEW v \in UmSane, NEW x \in UmSane, NEW u \in UmUsers, u \in v.users, UmView(x) = UmView(v),
           NEW line \in Seq(UmItems), NEW local \in BOOLEAN
    PROVE  /\ UmProcess(x, u, UmProcess(v, u, line, local).out, FALSE).v \in UmSane
           /\ UmView(UmProcess(x, u, UmProcess(v, u, line, local).out, FALSE).v) = UmView(UmProcess(v, u, line, local).v)
  <1>0. u \in x.users
    BY DEF UmView
  <1>10. PICK h : UmTurns(h, v, u, line, local)
    BY UmTurnsExist
  <1>1. /\ h \in [0 .. Len(line) -> UmStates(u)]
        /\ h[0] = UmFresh(v) /\ h[Len(line)] = UmProcess(v, u, line, local)
        /\ \A k \in 1 .. Len(line) : h[k] = UmTurn(h[k - 1], line[k], u, local)
    BY <1>10 DEF UmTurns
  <1> DEFINE n == Len(line)
             There(k) == UmProcess(x, u, h[k].out, FALSE)
             S == {k \in 0 .. n : UmView(There(k).v) = UmView(h[k].v)}
  <1>2. n \in Nat
    OBVIOUS
  <1>3. \A k \in 0 .. n : h[k] \in UmStates(u) /\ h[k].out \in Seq(UmItems)
    BY <1>1, UmStateIs
  <1>4. 0 \in S
    <2>1. h[0].out = <<>> /\ h[0].v = v
      BY <1>1 DEF UmFresh
    <2>2. UmProcess(x, u, <<>>, FALSE) = UmFresh(x)
      BY <1>0, UmNoLetters
    <2>3. UmFresh(x).v = x
      BY DEF UmFresh
    <2>4. UmView(There(0).v) = UmView(h[0].v)
      BY <2>1, <2>2, <2>3
    <2> HIDE DEF There
    <2> QED BY <1>2, <2>4
  <1>5. ASSUME NEW k \in 1 .. n, k - 1 \in S
        PROVE  k \in S
    <2> DEFINE a == h[k - 1]
               b == h[k]
               y == line[k]
               r == UmProcess(x, u, a.out, FALSE)
               s == UmProcess(x, u, b.out, FALSE)
    <2>1. k - 1 \in 0 .. n /\ k \in 0 .. n
      BY <1>2
    <2>2. y \in UmItems
      OBVIOUS
    <2>3. a \in UmStates(u) /\ a.out \in Seq(UmItems)
      BY <1>3, <2>1
    <2>4. UmView(r.v) = UmView(a.v)
      BY <1>5
    <2>5. b = UmTurn(a, y, u, local)
      BY <1>1
    <2>6. SUFFICES UmView(s.v) = UmView(b.v)
      BY <2>1
    <2>7. \/ b.out = a.out /\ UmView(b.v) = UmView(a.v)
          \/ b.out = Append(a.out, y) /\ UmView(b.v) = UmViewLetter(UmView(a.v), u, y)
      <3> HIDE DEF a, b, y
      <3> QED BY <2>2, <2>3, <2>5, UmTurnIs
    <2> HIDE DEF a, b, y
    <2>8. CASE b.out = a.out /\ UmView(b.v) = UmView(a.v)
      BY <2>4, <2>8
    <2>9. CASE b.out = Append(a.out, y) /\ UmView(b.v) = UmViewLetter(UmView(a.v), u, y)
      <3>1. s = UmTurn(r, y, u, FALSE)
        <4>1. UmProcess(x, u, Append(a.out, y), FALSE) = UmTurn(UmProcess(x, u, a.out, FALSE), y, u, FALSE)
          BY <1>0, <2>2, <2>3, UmProcessAppend
        <4> QED BY <2>9, <4>1
      <3>2. r \in UmStates(u)
        BY <1>0, <2>3, UmProcessOf
      <3> HIDE DEF r, s
      <3>3. UmView(UmTurn(r, y, u, FALSE).v) = UmViewLetter(UmView(r.v), u, y)
        BY <2>2, <3>2, UmTurnIs
      <3> QED BY <2>4, <2>9, <3>1, <3>3
    <2> QED BY <2>7, <2>8, <2>9
  <1>6. n \in S
    <2> HIDE DEF S
    <2>1. \A k \in 0 .. n : k \in S
      BY <1>2, <1>4, <1>5, TurnsKeep
    <2> QED BY <1>2, <2>1
  <1>7. UmView(UmProcess(x, u, h[n].out, FALSE).v) = UmView(h[n].v)
    BY <1>6
  <1>8. UmProcess(x, u, h[n].out, FALSE).v \in UmSane
    <2>1. h[n].out \in Seq(UmItems)
      BY <1>2, <1>3
    <2>2. UmProcess(x, u, h[n].out, FALSE) \in UmStates(u)
      BY <1>0, <2>1, UmProcessOf
    <2> QED BY <2>2, UmStateIs
  <1> QED BY <1>1, <1>7, <1>8

\* What a view becomes when a user is introduced, becomes an operator, quits.
UmViewNew(w, u, modes) ==
    [users |-> w.users \cup {u}, oper |-> w.oper, io |-> [w.io EXCEPT ![u] = modes \cap {"i", "o"}]]
UmViewGrant(w, u) ==
    [users |-> w.users, oper |-> [w.oper EXCEPT ![u] = TRUE], io |-> [w.io EXCEPT ![u] = w.io[u] \cup {"o"}]]
UmViewGone(w, u) ==
    [users |-> w.users \ {u}, oper |-> [w.oper EXCEPT ![u] = FALSE], io |-> [w.io EXCEPT ![u] = {}]]

\* A view, part by part.
LEMMA UmViewParts ==
    ASSUME NEW v
    PROVE  UmView(v).users = v.users /\ UmView(v).oper = v.oper /\ UmView(v).io = [x \in UmUsers |-> v.modes[x] \cap {"i", "o"}]
  BY DEF UmView

LEMMA UmIoIs ==
    ASSUME NEW v \in UmKnows, NEW w \in UmKnows, NEW u \in UmUsers,
           \A x \in UmUsers : x # u => w.modes[x] = v.modes[x]
    PROVE  UmView(w).io = [UmView(v).io EXCEPT ![u] = w.modes[u] \cap {"i", "o"}]
  <1>1. [x \in UmUsers |-> w.modes[x] \cap {"i", "o"}] = [[x \in UmUsers |-> v.modes[x] \cap {"i", "o"}] EXCEPT ![u] = w.modes[u] \cap {"i", "o"}]
    OBVIOUS
  <1>2. UmView(v).io = [x \in UmUsers |-> v.modes[x] \cap {"i", "o"}] /\ UmView(w).io = [x \in UmUsers |-> w.modes[x] \cap {"i", "o"}]
    BY UmViewParts
  <1> QED BY <1>1, <1>2

LEMMA UmSaneParts ==
    ASSUME NEW v \in UmSane
    PROVE  /\ v \in UmKnows /\ IsFiniteSet(v.users) /\ v.count["i"] = UmHidden(v.users, v.modes)
           /\ \A x \in UmUsers : /\ v.opers[x] = IF v.oper[x] THEN 1 ELSE 0
                                 /\ v.oper[x] => x \in v.users /\ "o" \in v.modes[x]
                                 /\ x \notin v.users => v.modes[x] = {}
  BY DEF UmSane, UmSaneOf

\* ~userrec: his modes leave the counts, he leaves the list of operators.
LEMMA UmGoneSane ==
    ASSUME NEW v \in UmSane, NEW u \in UmUsers
    PROVE  /\ UmGone(v, u) \in UmSane /\ UmGone(v, u).users = v.users \ {u}
           /\ UmView(UmGone(v, u)) = UmViewGone(UmView(v), u)
  <1> DEFINE left == UmUnOper(v, u)
             U == v.users \ {u}
             M == [left.modes EXCEPT ![u] = {}]
             K == [left.masks EXCEPT ![u] = FALSE]
             C == [l \in {"i", "s"} |-> IF l \in left.modes[u] THEN left.count[l] - 1 ELSE left.count[l]]
             w == [left EXCEPT !.users = U, !.modes = M, !.masks = K, !.count = C]
  <1>0. v \in UmKnows /\ v.users \in SUBSET UmUsers /\ v.modes \in [UmUsers -> SUBSET UmLetters] /\ v.oper \in [UmUsers -> BOOLEAN]
    BY UmSaneParts, UmTyped
  <1>1. /\ left \in UmSane /\ left.users = v.users /\ ~left.oper[u] /\ left.oper = [v.oper EXCEPT ![u] = FALSE]
        /\ left.modes = IF v.oper[u] THEN [v.modes EXCEPT ![u] = v.modes[u] \ {"o"}] ELSE v.modes
    BY UmUnOperSane
  <1>2. UmGone(v, u) = w
    BY <1>1 DEF UmGone
  <1> HIDE DEF left
  <1>3. /\ left \in UmKnows /\ IsFiniteSet(left.users) /\ left.count["i"] = UmHidden(left.users, left.modes)
        /\ \A x \in UmUsers : /\ left.opers[x] = IF left.oper[x] THEN 1 ELSE 0
                              /\ left.oper[x] => x \in left.users /\ "o" \in left.modes[x]
                              /\ x \notin left.users => left.modes[x] = {}
    BY <1>1, UmSaneParts
  <1>4. /\ left.modes \in [UmUsers -> SUBSET UmLetters] /\ left.masks \in [UmUsers -> BOOLEAN] /\ left.count \in [{"i", "s"} -> Int]
        /\ left.oper \in [UmUsers -> BOOLEAN]
    BY <1>3, UmTyped
  <1>5. /\ U \in SUBSET UmUsers /\ M \in [UmUsers -> SUBSET UmLetters] /\ K \in [UmUsers -> BOOLEAN] /\ C \in [{"i", "s"} -> Int]
        /\ M[u] = {} /\ \A x \in UmUsers : x # u => M[x] = left.modes[x]
    BY <1>0, <1>4
  <1>6. C["i"] = IF "i" \in left.modes[u] THEN left.count["i"] - 1 ELSE left.count["i"]
    OBVIOUS
  <1>7. IsFiniteSet(U) /\ C["i"] = UmHidden(U, M)
    <2>1. IsFiniteSet(UmInvisible(left.users, left.modes)) /\ IsFiniteSet(U)
      BY <1>1, <1>3, FS_Subset DEF UmInvisible
    <2>2. UmInvisible(U, M) = UmInvisible(left.users, left.modes) \ {u}
      BY <1>0, <1>1, <1>5 DEF UmInvisible
    <2>3. u \in UmInvisible(left.users, left.modes) <=> "i" \in left.modes[u]
      BY <1>3 DEF UmInvisible
    <2>4. UmHidden(U, M) = IF "i" \in left.modes[u] THEN UmHidden(left.users, left.modes) - 1 ELSE UmHidden(left.users, left.modes)
      <3> DEFINE I == UmInvisible(left.users, left.modes)
      <3>1. IsFiniteSet(I) /\ UmInvisible(U, M) = I \ {u} /\ (u \in I <=> "i" \in left.modes[u])
        BY <2>1, <2>2, <2>3
      <3>2. UmHidden(U, M) = Cardinality(I \ {u}) /\ UmHidden(left.users, left.modes) = Cardinality(I)
        BY <3>1 DEF UmHidden
      <3> HIDE DEF I
      <3>3. Cardinality(I \ {u}) = IF u \in I THEN Cardinality(I) - 1 ELSE Cardinality(I)
        BY <3>1, FS_RemoveElement
      <3> QED BY <3>1, <3>2, <3>3
    <2> HIDE DEF U, M, C
    <2> QED BY <1>3, <1>6, <2>1, <2>4
  <1> HIDE DEF U, M, K, C
  <1>8. /\ w \in UmKnows /\ w.users = U /\ w.modes = M /\ w.count = C /\ w.oper = left.oper /\ w.opers = left.opers
    BY <1>3, <1>5 DEF UmKnows
  <1> HIDE DEF w
  <1>9. ASSUME NEW x \in UmUsers
        PROVE  /\ w.opers[x] = IF w.oper[x] THEN 1 ELSE 0
               /\ w.oper[x] => x \in w.users /\ "o" \in w.modes[x]
               /\ x \notin w.users => w.modes[x] = {}
    <2>1. CASE x = u
      BY <1>1, <1>3, <1>5, <1>8, <2>1 DEF U
    <2>2. CASE x # u
      BY <1>1, <1>3, <1>5, <1>8, <2>2 DEF U
    <2> QED BY <2>1, <2>2
  <1>10. w \in UmSane
    BY <1>7, <1>8, <1>9 DEF UmSane, UmSaneOf
  <1>11. UmView(w).io = [UmView(v).io EXCEPT ![u] = {}]
    <2>1. \A x \in UmUsers : x # u => w.modes[x] = v.modes[x]
      BY <1>0, <1>1, <1>5, <1>8
    <2>2. w.modes[u] \cap {"i", "o"} = {}
      BY <1>5, <1>8
    <2>3. UmView(w).io = [UmView(v).io EXCEPT ![u] = w.modes[u] \cap {"i", "o"}]
      BY <1>0, <1>8, <2>1, UmIoIs, SMTT(60)
    <2> QED BY <2>2, <2>3
  <1>12. UmView(w) = UmViewGone(UmView(v), u)
    <2>1. UmView(w).users = UmView(v).users \ {u} /\ UmView(w).oper = [UmView(v).oper EXCEPT ![u] = FALSE]
      BY <1>1, <1>8, UmViewParts DEF U
    <2>2. UmView(w) = [users |-> UmView(w).users, oper |-> UmView(w).oper, io |-> UmView(w).io]
      BY DEF UmView
    <2> QED BY <1>11, <2>1, <2>2 DEF UmViewGone
  <1> QED BY <1>2, <1>8, <1>10, <1>12 DEF U

\* Oper() and OPERTYPE.
LEMMA UmGrantSane ==
    ASSUME NEW v \in UmSane, NEW u \in UmUsers, u \in v.users, ~v.oper[u]
    PROVE  UmGrant(v, u) \in UmSane /\ UmView(UmGrant(v, u)) = UmViewGrant(UmView(v), u)
  <1> DEFINE O == [v.oper EXCEPT ![u] = TRUE]
             A == [v.opers EXCEPT ![u] = v.opers[u] + 1]
             x0 == [v EXCEPT !.oper = O, !.opers = A]
             w == UmSet(x0, u, "o", TRUE)
  <1>1. /\ v \in UmKnows /\ IsFiniteSet(v.users) /\ v.count["i"] = UmHidden(v.users, v.modes)
        /\ \A x \in UmUsers : /\ v.opers[x] = IF v.oper[x] THEN 1 ELSE 0
                              /\ v.oper[x] => x \in v.users /\ "o" \in v.modes[x]
                              /\ x \notin v.users => v.modes[x] = {}
    BY UmSaneParts
  <1>2. v.oper \in [UmUsers -> BOOLEAN] /\ v.opers \in [UmUsers -> Nat] /\ v.modes \in [UmUsers -> SUBSET UmLetters] /\ v.users \in SUBSET UmUsers
    BY <1>1, UmTyped
  <1>3. UmGrant(v, u) = w
    BY DEF UmGrant
  <1>4. /\ O \in [UmUsers -> BOOLEAN] /\ A \in [UmUsers -> Nat] /\ O[u] /\ A[u] = 1
        /\ \A x \in UmUsers : x # u => O[x] = v.oper[x] /\ A[x] = v.opers[x]
    BY <1>1, <1>2
  <1> HIDE DEF O, A
  <1>5. x0 \in UmKnows /\ x0.users = v.users /\ x0.oper = O /\ x0.opers = A /\ x0.count = v.count /\ x0.modes = v.modes
    BY <1>1, <1>4 DEF UmKnows
  <1> HIDE DEF x0
  <1>6. /\ w \in UmKnows /\ w.users = v.users /\ w.oper = O /\ w.opers = A /\ w.count = v.count
        /\ w.modes = [v.modes EXCEPT ![u] = v.modes[u] \cup {"o"}]
    <2>1. "o" \in UmLetters
      BY DEF UmLetters
    <2>2. PICK l \in UmLetters : l = "o"
      BY <2>1
    <2>3. LET y == UmSet(x0, u, l, TRUE) IN
          /\ y \in UmKnows /\ y.users = x0.users /\ y.masks = x0.masks /\ y.oper = x0.oper /\ y.opers = x0.opers /\ y.count = x0.count
          /\ y.modes = [x0.modes EXCEPT ![u] = x0.modes[u] \cup {l}]
      BY <1>5, UmSetOn
    <2> QED BY <1>5, <2>2, <2>3
  <1> HIDE DEF w
  <1>7. w.modes[u] = v.modes[u] \cup {"o"} /\ \A x \in UmUsers : x # u => w.modes[x] = v.modes[x]
    BY <1>2, <1>6
  <1>8. ASSUME NEW x \in UmUsers
        PROVE  /\ w.opers[x] = IF w.oper[x] THEN 1 ELSE 0
               /\ w.oper[x] => x \in w.users /\ "o" \in w.modes[x]
               /\ x \notin w.users => w.modes[x] = {}
    <2>1. CASE x = u
      BY <1>4, <1>6, <1>7, <2>1
    <2>2. CASE x # u
      BY <1>1, <1>4, <1>6, <1>7, <2>2
    <2> QED BY <2>1, <2>2
  <1>9. UmHidden(w.users, w.modes) = UmHidden(v.users, v.modes)
    <2>1. UmInvisible(w.users, w.modes) = UmInvisible(v.users, v.modes)
      <3>1. \A x \in UmUsers : "i" \in w.modes[x] <=> "i" \in v.modes[x]
        BY <1>7
      <3> QED BY <1>2, <1>6, <3>1 DEF UmInvisible
    <2> QED BY <2>1 DEF UmHidden
  <1>10. w \in UmSane
    BY <1>1, <1>6, <1>8, <1>9 DEF UmSane, UmSaneOf
  <1>11. UmView(w).io = [UmView(v).io EXCEPT ![u] = UmView(v).io[u] \cup {"o"}]
    <2>1. UmView(v).io[u] = v.modes[u] \cap {"i", "o"}
      <3>1. UmView(v).io = [x \in UmUsers |-> v.modes[x] \cap {"i", "o"}]
        BY UmViewParts
      <3> QED BY <3>1
    <2>2. w.modes[u] \cap {"i", "o"} = UmView(v).io[u] \cup {"o"}
      BY <1>7, <2>1
    <2>3. UmView(w).io = [UmView(v).io EXCEPT ![u] = w.modes[u] \cap {"i", "o"}]
      <3>1. v \in UmKnows /\ w \in UmKnows /\ \A x \in UmUsers : x # u => w.modes[x] = v.modes[x]
        BY <1>1, <1>6, <1>7
      <3> QED BY <3>1, UmIoIs
    <2> QED BY <2>2, <2>3
  <1>12. UmView(w) = UmViewGrant(UmView(v), u)
    <2>1. UmView(w).users = UmView(v).users /\ UmView(w).oper = [UmView(v).oper EXCEPT ![u] = TRUE]
      BY <1>6, UmViewParts DEF O
    <2>2. UmView(w) = [users |-> UmView(w).users, oper |-> UmView(w).oper, io |-> UmView(w).io]
      BY DEF UmView
    <2> QED BY <1>11, <2>1, <2>2 DEF UmViewGrant
  <1> QED BY <1>3, <1>10, <1>12

\* One mode of a user who is introduced.
UmIntroTurn(acc, letter, u, modes) ==
    IF letter \in modes
    THEN UmChangeCount(UmSet(UmOnModeChange(acc, u, [on |-> TRUE, letter |-> letter, arg |-> "none"]).v, u, letter, TRUE), letter, 1)
    ELSE acc
UmIntroDone(acc, letter, u, modes, w) ==
    /\ w \in UmKnows /\ w.users = acc.users /\ w.oper = acc.oper /\ w.opers = acc.opers
    /\ w.count["i"] = IF letter = "i" /\ letter \in modes THEN acc.count["i"] + 1 ELSE acc.count["i"]
    /\ \A x \in UmUsers : x # u => w.modes[x] = acc.modes[x]
    /\ w.modes[u] \cap {"i", "o"} = IF letter \in modes THEN (acc.modes[u] \cup {letter}) \cap {"i", "o"} ELSE acc.modes[u] \cap {"i", "o"}

\* The handler and IntroduceClient count it once between them.
LEMMA UmIntroTurnIs ==
    ASSUME NEW acc \in UmKnows, NEW letter \in UmLetters, NEW u \in UmUsers, NEW modes
    PROVE  UmIntroDone(acc, letter, u, modes, UmIntroTurn(acc, letter, u, modes))
  <1>1. CASE letter \notin modes
    <2>1. UmIntroTurn(acc, letter, u, modes) = acc
      BY <1>1 DEF UmIntroTurn
    <2> QED BY <1>1, <2>1 DEF UmIntroDone
  <1>2. CASE letter \in modes
    <2> DEFINE item == [on |-> TRUE, letter |-> letter, arg |-> "none"]
               t == UmOnModeChange(acc, u, item).v
               s == UmSet(t, u, letter, TRUE)
               w == UmChangeCount(s, letter, 1)
    <2>1. UmIntroTurn(acc, letter, u, modes) = w
      BY <1>2 DEF UmIntroTurn
    <2>2. item.on = TRUE /\ item.letter = letter /\ item.on \in BOOLEAN
      OBVIOUS
    <2>3. letter \in {"i", "s"} => item \in UmItems
      BY DEF UmItems
    <2>4. letter \in {"i", "s"} \/ letter = "n" \/ letter = "o"
      BY DEF UmLetters
    <2> HIDE DEF item
    <2>5. /\ t \in UmKnows /\ t.users = acc.users /\ t.oper = acc.oper /\ t.opers = acc.opers /\ t.count["i"] = acc.count["i"]
          /\ \A x \in UmUsers : x # u => t.modes[x] = acc.modes[x]
          /\ (t.modes[u] \cup {letter}) \cap {"i", "o"} = (acc.modes[u] \cup {letter}) \cap {"i", "o"}
      <3>1. CASE letter \in {"i", "s"}
        <4>1. t = UmFlag(acc, u, item).v
          BY <2>2, <3>1 DEF UmOnModeChange
        <4>2. LET y == UmFlag(acc, u, item).v IN
              /\ y \in UmKnows /\ y.users = acc.users /\ y.masks = acc.masks /\ y.oper = acc.oper /\ y.opers = acc.opers /\ y.count = acc.count
              /\ \A x \in UmUsers : x # u => y.modes[x] = acc.modes[x]
              /\ y.modes[u] = IF item.on THEN acc.modes[u] \cup {item.letter} ELSE acc.modes[u] \ {item.letter}
              /\ UmFlag(acc, u, item).ok \in BOOLEAN /\ (UmFlag(acc, u, item).ok <=> ~((item.letter \in acc.modes[u]) <=> item.on))
          BY <2>2, <2>3, <3>1, UmFlagIs
        <4> HIDE DEF t
        <4>3. t.modes[u] = acc.modes[u] \cup {letter}
          BY <2>2, <4>1, <4>2
        <4> QED BY <4>1, <4>2, <4>3
      <3>2. CASE letter = "o"
        <4>1. t = acc
          BY <2>2, <3>2 DEF UmOnModeChange, UmOperator
        <4> QED BY <4>1
      <3>3. CASE letter = "n"
        <4>1. t = UmNotices(acc, u, item).v
          BY <2>2, <3>3 DEF UmOnModeChange
        <4>2. LET done == UmNotices(acc, u, item) IN
              /\ done.ok \in BOOLEAN /\ done.v \in UmKnows /\ done.v.users = acc.users /\ done.v.oper = acc.oper /\ done.v.opers = acc.opers
              /\ done.v.count["i"] = acc.count["i"] /\ (\A x \in UmUsers : x # u => done.v.modes[x] = acc.modes[x])
              /\ done.v.modes[u] \cap {"i", "o"} = acc.modes[u] \cap {"i", "o"}
          BY <2>2, UmNoticesIs
        <4> HIDE DEF t
        <4> QED BY <3>3, <4>1, <4>2
      <3> QED BY <2>4, <3>1, <3>2, <3>3
    <2> HIDE DEF t
    <2>6. LET y == UmSet(t, u, letter, TRUE) IN
          /\ y \in UmKnows /\ y.users = t.users /\ y.masks = t.masks /\ y.oper = t.oper /\ y.opers = t.opers /\ y.count = t.count
          /\ y.modes = [t.modes EXCEPT ![u] = t.modes[u] \cup {letter}]
      BY <2>5, UmSetOn, ZenonT(60)
    <2>7. s \in UmKnows /\ s.users = t.users /\ s.oper = t.oper /\ s.opers = t.opers /\ s.count = t.count
          /\ s.modes[u] = t.modes[u] \cup {letter} /\ \A x \in UmUsers : x # u => s.modes[x] = t.modes[x]
      <3>1. t.modes \in [UmUsers -> SUBSET UmLetters]
        BY <2>5, UmTyped
      <3> QED BY <2>6, <3>1
    <2> HIDE DEF s
    <2>8. LET y == UmChangeCount(s, letter, 1) IN
          /\ y \in UmKnows /\ y.users = s.users /\ y.masks = s.masks /\ y.oper = s.oper /\ y.opers = s.opers /\ y.modes = s.modes
          /\ y.count["i"] = IF letter = "i" THEN s.count["i"] + 1 ELSE s.count["i"]
      BY <2>7, UmChangeCountIs
    <2> HIDE DEF w
    <2>9. UmIntroDone(acc, letter, u, modes, w)
      BY <1>2, <2>5, <2>7, <2>8 DEF UmIntroDone, w
    <2> QED BY <2>1, <2>9
  <1> QED BY <1>1, <1>2

\* IntroduceClient, one letter after the other.
UmWith(u) == {x \in UmKnows : u \in x.users}
UmJoined(v, u) == [v EXCEPT !.users = @ \cup {u}]
UmIntroTurns(h, v, u, modes) ==
    /\ h \in [0 .. Len(<<"i", "n", "o", "s">>) -> UmWith(u)]
    /\ h[0] = UmJoined(v, u) /\ h[Len(<<"i", "n", "o", "s">>)] = UmIntroduce(v, u, modes)
    /\ \A k \in 1 .. Len(<<"i", "n", "o", "s">>) : h[k] = UmIntroTurn(h[k - 1], <<"i", "n", "o", "s">>[k], u, modes)

LEMMA UmJoinedIs ==
    ASSUME NEW v \in UmKnows, NEW u \in UmUsers
    PROVE  LET w == UmJoined(v, u) IN
           /\ w \in UmKnows /\ w.users = v.users \cup {u} /\ w.modes = v.modes /\ w.oper = v.oper /\ w.opers = v.opers /\ w.count = v.count
  <1> DEFINE U == v.users \cup {u}
             w == [v EXCEPT !.users = U]
  <1>1. U \in SUBSET UmUsers
    BY UmTyped
  <1>2. UmJoined(v, u) = w
    BY DEF UmJoined
  <1> HIDE DEF U
  <1>3. w \in UmKnows /\ w.users = U /\ w.modes = v.modes /\ w.oper = v.oper /\ w.opers = v.opers /\ w.count = v.count
    BY <1>1 DEF UmKnows
  <1> QED BY <1>2, <1>3 DEF U

LEMMA UmIntroStays ==
    ASSUME NEW u \in UmUsers, NEW modes, NEW acc \in UmWith(u), NEW letter \in UmLetters
    PROVE  UmIntroTurn(acc, letter, u, modes) \in UmWith(u)
  <1>1. acc \in UmKnows /\ u \in acc.users
    BY DEF UmWith
  <1>2. UmIntroDone(acc, letter, u, modes, UmIntroTurn(acc, letter, u, modes))
    BY <1>1, UmIntroTurnIs
  <1> QED BY <1>1, <1>2 DEF UmIntroDone, UmWith

LEMMA UmIntroTurnsExist ==
    ASSUME NEW v0 \in UmKnows, NEW who \in UmUsers, NEW modes
    PROVE  \E h : UmIntroTurns(h, v0, who, modes)
  <1> DEFINE V == UmWith(who)
             t == <<"i", "n", "o", "s">>
             len == Len(t)
             Turn(v, x) == UmIntroTurn(v, x, who, modes)
             F == [q \in (1 .. len) \X V |-> Turn(q[2], t[q[1]])]
             iter == CHOOSE g : g = [u \in SUBSET DOMAIN t |->
                        IF u = {} THEN UmJoined(v0, who) ELSE Turn(g[u \ {Max(u)}], t[Max(u)])]
  <1>0. len \in Nat /\ DOMAIN t = 1 .. len /\ \A k \in 1 .. len : t[k] \in UmLetters
    BY DEF UmLetters
  <1>1. UmIntroduce(v0, who, modes) = iter[DOMAIN t]
    BY DEF UmJoined, UmIntroduce, UmIntroTurn, FoldLeft, MapThenFoldSet
  <1>2. \A v \in V : \A x \in UmLetters : Turn(v, x) \in V
    BY UmIntroStays
  <1>4. UmJoined(v0, who) \in V
    BY UmJoinedIs DEF UmWith
  <1>11. \A h, k : h[k] = UmIntroTurn(h[k - 1], <<"i", "n", "o", "s">>[k], who, modes) <=> h[k] = Turn(h[k - 1], t[k])
    OBVIOUS
  <1> HIDE DEF V, Turn, t
  <1>3. F \in [(1 .. len) \X V -> V] /\ \A k \in 1 .. len, v \in V : F[k, v] = Turn(v, t[k])
    <2>2. \A q \in (1 .. len) \X V : Turn(q[2], t[q[1]]) \in V
      BY <1>0, <1>2
    <2>3. \A k \in 1 .. len, v \in V : <<k, v>> \in (1 .. len) \X V /\ <<k, v>>[1] = k /\ <<k, v>>[2] = v
      OBVIOUS
    <2> QED BY <2>2, <2>3
  <1> HIDE DEF F
  <1>5. PICK g \in [SUBSET (1 .. len) -> V] : FoldOf(g, len, UmJoined(v0, who), F)
    <2>1. FoldFor(len, V, UmJoined(v0, who), F)
      BY <1>0, <1>3, <1>4, FoldExists
    <2> QED BY <2>1 DEF FoldFor
  <1>6. g = [u \in SUBSET DOMAIN t |-> IF u = {} THEN UmJoined(v0, who) ELSE Turn(g[u \ {Max(u)}], t[Max(u)])]
    <2>1. ASSUME NEW u \in SUBSET (1 .. len)
          PROVE  g[u] = IF u = {} THEN UmJoined(v0, who) ELSE Turn(g[u \ {Max(u)}], t[Max(u)])
      <3>1. g[u] = IF u = {} THEN UmJoined(v0, who) ELSE F[Max(u), g[u \ {Max(u)}]]
        BY <1>5 DEF FoldOf
      <3>2. u # {} => Max(u) \in 1 .. len
        BY <1>0, MaxIs
      <3>3. g[u \ {Max(u)}] \in V
        BY <1>5
      <3> QED BY <1>3, <3>1, <3>2, <3>3
    <2> QED BY <1>0, <2>1
  <1>7. iter = [u \in SUBSET DOMAIN t |-> IF u = {} THEN UmJoined(v0, who) ELSE Turn(iter[u \ {Max(u)}], t[Max(u)])]
    BY <1>6
  <1> HIDE DEF iter
  <1>8. iter[{}] = UmJoined(v0, who)
    BY <1>7
  <1>9. ASSUME NEW k \in 1 .. len
        PROVE  iter[1 .. k] = Turn(iter[1 .. k - 1], t[k])
    <2>1. 1 .. k \in SUBSET DOMAIN t /\ 1 .. k # {} /\ Max(1 .. k) = k /\ (1 .. k) \ {Max(1 .. k)} = 1 .. k - 1
      BY <1>0, MaxOfRange
    <2> QED BY <1>7, <2>1
  <1> DEFINE h == [k \in 0 .. len |-> iter[1 .. k]]
  <1>10. h \in [0 .. len -> V]
    <2>1. \A k \in 1 .. len : iter[1 .. k - 1] \in V => iter[1 .. k] \in V
      BY <1>0, <1>2, <1>9
    <2>2. iter[{}] \in V
      BY <1>4, <1>8
    <2> QED BY <1>0, <2>1, <2>2, FoldTurns
  <1>12. h[0] = UmJoined(v0, who)
    <2>1. 1 .. 0 = {} /\ 0 \in 0 .. len
      BY <1>0
    <2> QED BY <1>8, <2>1
  <1>13. h[len] = iter[DOMAIN t]
    BY <1>0
  <1>14. \A k \in 1 .. len : h[k] = Turn(h[k - 1], t[k])
    <2> SUFFICES ASSUME NEW k \in 1 .. len PROVE h[k] = Turn(h[k - 1], t[k])
      OBVIOUS
    <2>1. k \in 0 .. len /\ k - 1 \in 0 .. len
      BY <1>0
    <2> QED BY <1>9, <2>1
  <1> HIDE DEF h, len
  <1>15. \E f \in [0 .. len -> V] : /\ f[0] = UmJoined(v0, who) /\ f[len] = UmIntroduce(v0, who, modes)
                                  /\ \A k \in 1 .. len : f[k] = UmIntroTurn(f[k - 1], <<"i", "n", "o", "s">>[k], who, modes)
    BY <1>1, <1>10, <1>11, <1>12, <1>13, <1>14
  <1>16. PICK h2 \in [0 .. len -> V] : /\ h2[0] = UmJoined(v0, who) /\ h2[len] = UmIntroduce(v0, who, modes)
                                  /\ \A k \in 1 .. len : h2[k] = UmIntroTurn(h2[k - 1], <<"i", "n", "o", "s">>[k], who, modes)
    BY <1>15
  <1>17. UmIntroTurns(h2, v0, who, modes)
    BY <1>16 DEF V, t, len, UmIntroTurns
  <1> QED BY <1>17

\* After the letters in M a user who is introduced has those of his modes, and +i is counted.
UmIntroUpto(v, u, modes, M, w) ==
    /\ w \in UmKnows /\ w.users = v.users \cup {u} /\ w.oper = v.oper /\ w.opers = v.opers
    /\ w.count["i"] = IF "i" \in M /\ "i" \in modes THEN v.count["i"] + 1 ELSE v.count["i"]
    /\ \A x \in UmUsers : x # u => w.modes[x] = v.modes[x]
    /\ w.modes[u] \cap {"i", "o"} = modes \cap M \cap {"i", "o"}

LEMMA UmIntroOne ==
    ASSUME NEW v \in UmKnows, NEW u \in UmUsers, NEW modes, NEW M, NEW w, UmIntroUpto(v, u, modes, M, w),
           NEW letter \in UmLetters, letter \notin M
    PROVE  UmIntroUpto(v, u, modes, M \cup {letter}, UmIntroTurn(w, letter, u, modes))
  <1> DEFINE y == UmIntroTurn(w, letter, u, modes)
  <1>1. /\ w \in UmKnows /\ w.users = v.users \cup {u} /\ w.oper = v.oper /\ w.opers = v.opers
        /\ w.count["i"] = IF "i" \in M /\ "i" \in modes THEN v.count["i"] + 1 ELSE v.count["i"]
        /\ \A x \in UmUsers : x # u => w.modes[x] = v.modes[x]
        /\ w.modes[u] \cap {"i", "o"} = modes \cap M \cap {"i", "o"}
    BY DEF UmIntroUpto
  <1>2. UmIntroDone(w, letter, u, modes, y)
    BY <1>1, UmIntroTurnIs
  <1> HIDE DEF y
  <1>3. /\ y \in UmKnows /\ y.users = w.users /\ y.oper = w.oper /\ y.opers = w.opers
        /\ y.count["i"] = IF letter = "i" /\ letter \in modes THEN w.count["i"] + 1 ELSE w.count["i"]
        /\ \A x \in UmUsers : x # u => y.modes[x] = w.modes[x]
        /\ y.modes[u] \cap {"i", "o"} = IF letter \in modes THEN (w.modes[u] \cup {letter}) \cap {"i", "o"} ELSE w.modes[u] \cap {"i", "o"}
    BY <1>2 DEF UmIntroDone
  <1>4. y.modes[u] \cap {"i", "o"} = modes \cap (M \cup {letter}) \cap {"i", "o"}
    <2>1. CASE letter \in modes
      BY <1>1, <1>3, <2>1
    <2>2. CASE letter \notin modes
      BY <1>1, <1>3, <2>2
    <2> QED BY <2>1, <2>2
  <1>5. y.count["i"] = IF "i" \in M \cup {letter} /\ "i" \in modes THEN v.count["i"] + 1 ELSE v.count["i"]
    <2>1. v.count["i"] \in Int
      BY UmTyped
    <2>2. CASE letter = "i"
      BY <1>1, <1>3, <2>1, <2>2
    <2>3. CASE letter # "i"
      BY <1>1, <1>3, <2>1, <2>3
    <2> QED BY <2>2, <2>3
  <1> QED BY <1>1, <1>3, <1>4, <1>5 DEF UmIntroUpto, y

LEMMA UmIntroIs ==
    ASSUME NEW v \in UmSane, NEW u \in UmUsers, u \notin v.users, NEW modes \in SUBSET UmLetters
    PROVE  UmIntroUpto(v, u, modes, UmLetters, UmIntroduce(v, u, modes))
  <1> DEFINE t == <<"i", "n", "o", "s">>
  <1>1. v \in UmKnows /\ v.modes[u] = {}
    BY UmSaneParts
  <1>2. PICK h : UmIntroTurns(h, v, u, modes)
    BY <1>1, UmIntroTurnsExist
  <1>3. Len(t) = 4 /\ t[1] = "i" /\ t[2] = "n" /\ t[3] = "o" /\ t[4] = "s"
    OBVIOUS
  <1>4. h[0] = UmJoined(v, u) /\ h[4] = UmIntroduce(v, u, modes)
    BY <1>2, <1>3 DEF UmIntroTurns
  <1>5. \A k \in 1 .. 4 : h[k] = UmIntroTurn(h[k - 1], t[k], u, modes)
    BY <1>2, <1>3 DEF UmIntroTurns
  <1>6. /\ h[1] = UmIntroTurn(h[0], "i", u, modes) /\ h[2] = UmIntroTurn(h[1], "n", u, modes)
        /\ h[3] = UmIntroTurn(h[2], "o", u, modes) /\ h[4] = UmIntroTurn(h[3], "s", u, modes)
    <2>1. 1 \in 1 .. 4 /\ 2 \in 1 .. 4 /\ 3 \in 1 .. 4 /\ 4 \in 1 .. 4 /\ 1 - 1 = 0 /\ 2 - 1 = 1 /\ 3 - 1 = 2 /\ 4 - 1 = 3
      OBVIOUS
    <2> HIDE DEF t
    <2> QED BY <1>3, <1>5, <2>1
  <1>7. \A l \in UmLetters : \A M : \A w : l \notin M /\ UmIntroUpto(v, u, modes, M, w)
                                  => UmIntroUpto(v, u, modes, M \cup {l}, UmIntroTurn(w, l, u, modes))
    BY <1>1, UmIntroOne
  <1>8. UmIntroUpto(v, u, modes, {}, h[0])
    <2>1. LET w == UmJoined(v, u) IN
           /\ w \in UmKnows /\ w.users = v.users \cup {u} /\ w.modes = v.modes /\ w.oper = v.oper /\ w.opers = v.opers /\ w.count = v.count
      BY <1>1, UmJoinedIs
    <2> QED BY <1>1, <1>4, <2>1 DEF UmIntroUpto
  <1>9. "i" \in UmLetters /\ "n" \in UmLetters /\ "o" \in UmLetters /\ "s" \in UmLetters
    BY DEF UmLetters
  <1>10. UmIntroUpto(v, u, modes, {"i"}, h[1])
    <2>1. {} \cup {"i"} = {"i"} /\ "i" \notin {}
      OBVIOUS
    <2>2. UmIntroUpto(v, u, modes, {} \cup {"i"}, UmIntroTurn(h[0], "i", u, modes))
      BY <1>7, <1>8, <1>9, <2>1
    <2> QED BY <1>6, <2>1, <2>2
  <1>11. UmIntroUpto(v, u, modes, {"i", "n"}, h[2])
    <2>1. {"i"} \cup {"n"} = {"i", "n"} /\ "n" \notin {"i"}
      OBVIOUS
    <2>2. UmIntroUpto(v, u, modes, {"i"} \cup {"n"}, UmIntroTurn(h[1], "n", u, modes))
      BY <1>7, <1>9, <1>10, <2>1
    <2> QED BY <1>6, <2>1, <2>2
  <1>12. UmIntroUpto(v, u, modes, {"i", "n", "o"}, h[3])
    <2>1. {"i", "n"} \cup {"o"} = {"i", "n", "o"} /\ "o" \notin {"i", "n"}
      OBVIOUS
    <2>2. UmIntroUpto(v, u, modes, {"i", "n"} \cup {"o"}, UmIntroTurn(h[2], "o", u, modes))
      BY <1>7, <1>9, <1>11, <2>1
    <2> QED BY <1>6, <2>1, <2>2
  <1>13. UmIntroUpto(v, u, modes, UmLetters, h[4])
    <2>1. {"i", "n", "o"} \cup {"s"} = UmLetters /\ "s" \notin {"i", "n", "o"}
      BY DEF UmLetters
    <2>2. UmIntroUpto(v, u, modes, {"i", "n", "o"} \cup {"s"}, UmIntroTurn(h[3], "s", u, modes))
      BY <1>7, <1>9, <1>12, <2>1
    <2> QED BY <1>6, <2>1, <2>2
  <1> QED BY <1>4, <1>13

\* A new user, not an operator, and one more invisible if he is.
LEMMA UmNewSane ==
    ASSUME NEW v \in UmSane, NEW u \in UmUsers, u \notin v.users, NEW modes \in SUBSET UmLetters, NEW w,
           UmIntroUpto(v, u, modes, UmLetters, w)
    PROVE  w \in UmSane /\ w.users = v.users \cup {u} /\ UmView(w) = UmViewNew(UmView(v), u, modes)
  <1>1. /\ v \in UmKnows /\ IsFiniteSet(v.users) /\ v.count["i"] = UmHidden(v.users, v.modes)
        /\ \A x \in UmUsers : /\ v.opers[x] = IF v.oper[x] THEN 1 ELSE 0
                              /\ v.oper[x] => x \in v.users /\ "o" \in v.modes[x]
                              /\ x \notin v.users => v.modes[x] = {}
    BY UmSaneParts
  <1>2. v.users \in SUBSET UmUsers /\ v.count["i"] \in Int
    BY <1>1, UmTyped
  <1>3. modes \cap UmLetters = modes /\ "i" \in UmLetters
    BY DEF UmLetters
  <1>4. /\ w \in UmKnows /\ w.users = v.users \cup {u} /\ w.oper = v.oper /\ w.opers = v.opers
        /\ w.count["i"] = IF "i" \in modes THEN v.count["i"] + 1 ELSE v.count["i"]
        /\ \A x \in UmUsers : x # u => w.modes[x] = v.modes[x]
        /\ w.modes[u] \cap {"i", "o"} = modes \cap {"i", "o"}
    BY <1>3 DEF UmIntroUpto
  <1>5. "i" \in w.modes[u] <=> "i" \in modes
    <2>1. "i" \in {"i", "o"}
      OBVIOUS
    <2> QED BY <1>4, <2>1
  <1>6. IsFiniteSet(w.users) /\ w.count["i"] = UmHidden(w.users, w.modes)
    <2> DEFINE I == UmInvisible(v.users, v.modes)
               J == UmInvisible(w.users, w.modes)
    <2>1. IsFiniteSet(I) /\ u \notin I
      BY <1>1, FS_Subset DEF UmInvisible
    <2>2. J = IF "i" \in modes THEN I \cup {u} ELSE I
      <3>1. \A x \in v.users : x # u /\ w.modes[x] = v.modes[x]
        BY <1>2, <1>4
      <3>2. CASE "i" \in modes
        BY <1>4, <1>5, <3>1, <3>2 DEF UmInvisible
      <3>3. CASE "i" \notin modes
        BY <1>4, <1>5, <3>1, <3>3 DEF UmInvisible
      <3> QED BY <3>2, <3>3
    <2>3. UmHidden(v.users, v.modes) = Cardinality(I) /\ UmHidden(w.users, w.modes) = Cardinality(J)
      BY DEF UmHidden
    <2> HIDE DEF I, J
    <2>4. Cardinality(I \cup {u}) = Cardinality(I) + 1
      BY <2>1, FS_AddElement
    <2>5. IsFiniteSet(w.users)
      BY <1>1, <1>4, FS_AddElement
    <2> QED BY <1>1, <1>4, <2>2, <2>3, <2>4, <2>5
  <1>7. ASSUME NEW x \in UmUsers
        PROVE  /\ w.opers[x] = IF w.oper[x] THEN 1 ELSE 0
               /\ w.oper[x] => x \in w.users /\ "o" \in w.modes[x]
               /\ x \notin w.users => w.modes[x] = {}
    <2>1. CASE x = u
      BY <1>1, <1>4, <2>1
    <2>2. CASE x # u
      BY <1>1, <1>4, <2>2
    <2> QED BY <2>1, <2>2
  <1>8. w \in UmSane
    BY <1>4, <1>6, <1>7 DEF UmSane, UmSaneOf
  <1>9. UmView(w).io = [UmView(v).io EXCEPT ![u] = modes \cap {"i", "o"}]
    <2>1. v \in UmKnows /\ w \in UmKnows /\ \A x \in UmUsers : x # u => w.modes[x] = v.modes[x]
      BY <1>1, <1>4
    <2>2. UmView(w).io = [UmView(v).io EXCEPT ![u] = w.modes[u] \cap {"i", "o"}]
      BY <2>1, UmIoIs
    <2> QED BY <1>4, <2>2
  <1>10. UmView(w) = UmViewNew(UmView(v), u, modes)
    <2>1. UmView(w).users = UmView(v).users \cup {u} /\ UmView(w).oper = UmView(v).oper
      BY <1>4, UmViewParts
    <2>2. UmView(w) = [users |-> UmView(w).users, oper |-> UmView(w).oper, io |-> UmView(w).io]
      BY DEF UmView
    <2> QED BY <1>9, <2>1, <2>2 DEF UmViewNew
  <1> QED BY <1>4, <1>8, <1>10

\* A user who is introduced.
LEMMA UmIntroduceSane ==
    ASSUME NEW v \in UmSane, NEW u \in UmUsers, u \notin v.users, NEW modes \in SUBSET UmLetters
    PROVE  UmIntroduce(v, u, modes) \in UmSane /\ UmView(UmIntroduce(v, u, modes)) = UmViewNew(UmView(v), u, modes)
  BY UmIntroIs, UmNewSane

\* A client who registers has no modes yet.
LEMMA UmJoinedSane ==
    ASSUME NEW v \in UmSane, NEW u \in UmUsers, u \notin v.users
    PROVE  /\ UmJoined(v, u) \in UmSane /\ v.modes[u] = {}
           /\ UmView(UmJoined(v, u)) = UmViewNew(UmView(v), u, {})
  <1>1. v \in UmKnows /\ v.modes[u] = {}
    BY UmSaneParts
  <1>2. LET w == UmJoined(v, u) IN
        /\ w \in UmKnows /\ w.users = v.users \cup {u} /\ w.modes = v.modes /\ w.oper = v.oper /\ w.opers = v.opers /\ w.count = v.count
    BY <1>1, UmJoinedIs
  <1> DEFINE M == {}
             w == UmJoined(v, u)
  <1>3. M \in SUBSET UmLetters
    OBVIOUS
  <1>4. UmIntroUpto(v, u, M, UmLetters, w)
    <2> HIDE DEF w
    <2> QED BY <1>1, <1>2 DEF UmIntroUpto, w
  <1> HIDE DEF M, w
  <1>5. w \in UmSane /\ UmView(w) = UmViewNew(UmView(v), u, M)
    BY <1>3, <1>4, UmNewSane
  <1> QED BY <1>1, <1>5 DEF M, w

\* A line on its way, and what the other server does with it.
UmMsg ==
    [cmd : {"NICK"}, user : UmUsers, modes : SUBSET UmLetters] \cup [cmd : {"OPERTYPE"}, user : UmUsers]
    \cup [cmd : {"MODE"}, user : UmUsers, line : Seq(UmItems)] \cup [cmd : {"QUIT"}, user : UmUsers]
UmHear(x, m) ==
    CASE m.cmd = "NICK" -> UmIntroduce(x, m.user, m.modes)
      [] m.cmd = "OPERTYPE" -> UmGrant(x, m.user)
      [] m.cmd = "MODE" -> UmProcess(x, m.user, m.line, FALSE).v
      [] m.cmd = "QUIT" -> UmGone(x, m.user)

\* A server with the first view has the second when it has heard the line; lines that lead from one view to another.
UmTold(w, m, w2) == \A x \in UmSane : UmView(x) = w => UmHear(x, m) \in UmSane /\ UmView(UmHear(x, m)) = w2
UmPath(p, wire, w0, w1) ==
    /\ p[0] = w0 /\ p[Len(wire)] = w1
    /\ \A k \in 1 .. Len(wire) : UmTold(p[k - 1], wire[k], p[k])
UmLeads(wire, w0, w1) == \E p : UmPath(p, wire, w0, w1)

LEMMA UmViewUsers ==
    ASSUME NEW x, NEW w, UmView(x) = w
    PROVE  x.users = w.users /\ x.oper = w.oper
  BY DEF UmView

\* What each line does to a view.
LEMMA UmToldNick ==
    ASSUME NEW w, NEW u \in UmUsers, u \notin w.users, NEW modes \in SUBSET UmLetters
    PROVE  UmTold(w, [cmd |-> "NICK", user |-> u, modes |-> modes], UmViewNew(w, u, modes))
  <1> DEFINE m == [cmd |-> "NICK", user |-> u, modes |-> modes]
  <1>1. SUFFICES ASSUME NEW x \in UmSane, UmView(x) = w
                 PROVE  UmHear(x, m) \in UmSane /\ UmView(UmHear(x, m)) = UmViewNew(w, u, modes)
    BY DEF UmTold
  <1>2. UmHear(x, m) = UmIntroduce(x, u, modes)
    BY DEF UmHear
  <1>3. u \notin x.users
    BY <1>1, UmViewUsers
  <1> HIDE DEF m
  <1>4. UmIntroduce(x, u, modes) \in UmSane /\ UmView(UmIntroduce(x, u, modes)) = UmViewNew(UmView(x), u, modes)
    BY <1>3, UmIntroduceSane
  <1> QED BY <1>1, <1>2, <1>4

LEMMA UmToldGrant ==
    ASSUME NEW w, NEW u \in UmUsers, u \in w.users, ~w.oper[u]
    PROVE  UmTold(w, [cmd |-> "OPERTYPE", user |-> u], UmViewGrant(w, u))
  <1> DEFINE m == [cmd |-> "OPERTYPE", user |-> u]
  <1>1. SUFFICES ASSUME NEW x \in UmSane, UmView(x) = w
                 PROVE  UmHear(x, m) \in UmSane /\ UmView(UmHear(x, m)) = UmViewGrant(w, u)
    BY DEF UmTold
  <1>2. UmHear(x, m) = UmGrant(x, u)
    BY DEF UmHear
  <1>3. u \in x.users /\ ~x.oper[u]
    BY <1>1, UmViewUsers
  <1> HIDE DEF m
  <1>4. UmGrant(x, u) \in UmSane /\ UmView(UmGrant(x, u)) = UmViewGrant(UmView(x), u)
    BY <1>3, UmGrantSane
  <1> QED BY <1>1, <1>2, <1>4

LEMMA UmToldQuit ==
    ASSUME NEW w, NEW u \in UmUsers
    PROVE  UmTold(w, [cmd |-> "QUIT", user |-> u], UmViewGone(w, u))
  <1> DEFINE m == [cmd |-> "QUIT", user |-> u]
  <1>1. SUFFICES ASSUME NEW x \in UmSane, UmView(x) = w
                 PROVE  UmHear(x, m) \in UmSane /\ UmView(UmHear(x, m)) = UmViewGone(w, u)
    BY DEF UmTold
  <1>2. UmHear(x, m) = UmGone(x, u)
    BY DEF UmHear
  <1> HIDE DEF m
  <1>4. UmGone(x, u) \in UmSane /\ UmView(UmGone(x, u)) = UmViewGone(UmView(x), u)
    BY UmGoneSane
  <1> QED BY <1>1, <1>2, <1>4

LEMMA UmToldMode ==
    ASSUME NEW v \in UmSane, NEW u \in UmUsers, u \in v.users, NEW line \in Seq(UmItems), NEW local \in BOOLEAN
    PROVE  UmTold(UmView(v), [cmd |-> "MODE", user |-> u, line |-> UmProcess(v, u, line, local).out],
                  UmView(UmProcess(v, u, line, local).v))
  <1> DEFINE said == UmProcess(v, u, line, local).out
             m == [cmd |-> "MODE", user |-> u, line |-> said]
             w2 == UmView(UmProcess(v, u, line, local).v)
  <1>1. SUFFICES ASSUME NEW x \in UmSane, UmView(x) = UmView(v)
                 PROVE  UmHear(x, m) \in UmSane /\ UmView(UmHear(x, m)) = w2
    BY DEF UmTold
  <1>2. UmHear(x, m) = UmProcess(x, u, said, FALSE).v
    BY DEF UmHear
  <1>3. UmProcess(x, u, said, FALSE).v \in UmSane /\ UmView(UmProcess(x, u, said, FALSE).v) = w2
    BY <1>1, UmReplays
  <1> HIDE DEF m
  <1> QED BY <1>2, <1>3

\* No line, one more, one less.
LEMMA UmLeadsNone ==
    ASSUME NEW w
    PROVE  UmLeads(<<>>, w, w)
  <1> DEFINE p == [k \in 0 .. 0 |-> w]
  <1>1. UmPath(p, <<>>, w, w)
    BY DEF UmPath
  <1> HIDE DEF p
  <1> QED BY <1>1 DEF UmLeads

LEMMA UmLeadsAppend ==
    ASSUME NEW wire \in Seq(UmMsg), NEW m \in UmMsg, NEW w0, NEW w1, NEW w2, UmLeads(wire, w0, w1), UmTold(w1, m, w2)
    PROVE  UmLeads(Append(wire, m), w0, w2)
  <1> DEFINE n == Len(wire)
             long == Append(wire, m)
  <1>1. PICK p : UmPath(p, wire, w0, w1)
    BY DEF UmLeads
  <1>2. p[0] = w0 /\ p[n] = w1 /\ \A k \in 1 .. n : UmTold(p[k - 1], wire[k], p[k])
    BY <1>1 DEF UmPath
  <1>3. n \in Nat /\ Len(long) = n + 1 /\ long[n + 1] = m /\ \A k \in 1 .. n : long[k] = wire[k]
    OBVIOUS
  <1> DEFINE q == [k \in 0 .. n + 1 |-> IF k = n + 1 THEN w2 ELSE p[k]]
  <1> HIDE DEF n, long
  <1>4. q[n + 1] = w2 /\ \A k \in 0 .. n : q[k] = p[k]
    BY <1>3
  <1> HIDE DEF q
  <1>5. q[0] = w0
    BY <1>2, <1>3, <1>4
  <1>6. ASSUME NEW k \in 1 .. n + 1
        PROVE  UmTold(q[k - 1], long[k], q[k])
    <2>1. CASE k = n + 1
      <3>1. k - 1 = n /\ n \in 0 .. n
        BY <1>3, <2>1
      <3>2. q[k - 1] = w1 /\ q[k] = w2 /\ long[k] = m
        BY <1>2, <1>3, <1>4, <2>1, <3>1
      <3> QED BY <3>2
    <2>2. CASE k # n + 1
      <3>1. k \in 1 .. n /\ k \in 0 .. n /\ k - 1 \in 0 .. n
        BY <1>3, <2>2
      <3>2. q[k - 1] = p[k - 1] /\ q[k] = p[k] /\ long[k] = wire[k]
        BY <1>3, <1>4, <3>1
      <3> QED BY <1>2, <3>1, <3>2
    <2> QED BY <2>1, <2>2
  <1>7. UmPath(q, long, w0, w2)
    BY <1>3, <1>4, <1>5, <1>6 DEF UmPath
  <1> QED BY <1>7 DEF UmLeads, long

LEMMA UmLeadsTail ==
    ASSUME NEW wire \in Seq(UmMsg), wire # <<>>, NEW w0, NEW w1, UmLeads(wire, w0, w1)
    PROVE  \E w : UmTold(w0, Head(wire), w) /\ UmLeads(Tail(wire), w, w1)
  <1> DEFINE n == Len(wire)
             short == Tail(wire)
  <1>1. PICK p : UmPath(p, wire, w0, w1)
    BY DEF UmLeads
  <1>2. p[0] = w0 /\ p[n] = w1 /\ \A k \in 1 .. n : UmTold(p[k - 1], wire[k], p[k])
    BY <1>1 DEF UmPath
  <1>3. n \in Nat \ {0} /\ Len(short) = n - 1 /\ Head(wire) = wire[1] /\ \A k \in 1 .. n - 1 : short[k] = wire[k + 1]
    OBVIOUS
  <1> DEFINE q == [k \in 0 .. n - 1 |-> p[k + 1]]
  <1> HIDE DEF n, short
  <1>4. \A k \in 0 .. n - 1 : q[k] = p[k + 1]
    OBVIOUS
  <1> HIDE DEF q
  <1>5. q[0] = p[1] /\ q[n - 1] = w1
    <2>1. 0 \in 0 .. n - 1 /\ n - 1 \in 0 .. n - 1 /\ 0 + 1 = 1 /\ (n - 1) + 1 = n
      BY <1>3
    <2> QED BY <1>2, <1>4, <2>1
  <1>6. ASSUME NEW k \in 1 .. n - 1
        PROVE  UmTold(q[k - 1], short[k], q[k])
    <2>1. k \in 0 .. n - 1 /\ k - 1 \in 0 .. n - 1 /\ k + 1 \in 1 .. n /\ (k + 1) - 1 = k /\ (k - 1) + 1 = k
      BY <1>3
    <2>2. q[k - 1] = p[k] /\ q[k] = p[k + 1] /\ short[k] = wire[k + 1]
      BY <1>3, <1>4, <2>1
    <2>3. UmTold(p[(k + 1) - 1], wire[k + 1], p[k + 1])
      BY <1>2, <2>1
    <2> QED BY <2>1, <2>2, <2>3
  <1>7. UmPath(q, short, p[1], w1)
    BY <1>3, <1>5, <1>6 DEF UmPath
  <1>8. UmTold(w0, Head(wire), p[1])
    <2>1. 1 \in 1 .. n /\ 1 - 1 = 0
      BY <1>3
    <2>2. UmTold(p[1 - 1], wire[1], p[1])
      BY <1>2, <2>1
    <2> QED BY <1>2, <1>3, <2>1, <2>2
  <1>9. UmLeads(short, p[1], w1)
    BY <1>7 DEF UmLeads
  <1> QED BY <1>8, <1>9 DEF short

\* The users of a server that is lost leave one after the other.
UmGoneTurns(h, v0, all) ==
    /\ h \in [0 .. Len(all) -> UmSane]
    /\ h[0] = v0 /\ h[Len(all)] = FoldLeft(UmGone, v0, all)
    /\ \A k \in 1 .. Len(all) : h[k] = UmGone(h[k - 1], all[k])
LEMMA UmGoneTurnsExist ==
    ASSUME NEW v0 \in UmSane, NEW all \in Seq(UmUsers)
    PROVE  \E h : UmGoneTurns(h, v0, all)
  <1> DEFINE V == UmSane
             t == all
             len == Len(t)
             Turn(v, x) == UmGone(v, x)
             F == [q \in (1 .. len) \X V |-> Turn(q[2], t[q[1]])]
             iter == CHOOSE g : g = [u \in SUBSET DOMAIN t |->
                        IF u = {} THEN v0 ELSE Turn(g[u \ {Max(u)}], t[Max(u)])]
  <1>0. len \in Nat /\ DOMAIN t = 1 .. len /\ \A k \in 1 .. len : t[k] \in UmUsers
    OBVIOUS
  <1>1. FoldLeft(UmGone, v0, all) = iter[DOMAIN t]
    BY DEF UmSane, FoldLeft, MapThenFoldSet
  <1>2. \A v \in V : \A x \in UmUsers : Turn(v, x) \in V
    BY UmGoneSane
  <1>4. v0 \in V
    OBVIOUS
  <1>11. \A h, k : h[k] = UmGone(h[k - 1], all[k]) <=> h[k] = Turn(h[k - 1], t[k])
    OBVIOUS
  <1> HIDE DEF V, Turn, t
  <1>3. F \in [(1 .. len) \X V -> V] /\ \A k \in 1 .. len, v \in V : F[k, v] = Turn(v, t[k])
    <2>2. \A q \in (1 .. len) \X V : Turn(q[2], t[q[1]]) \in V
      BY <1>0, <1>2
    <2>3. \A k \in 1 .. len, v \in V : <<k, v>> \in (1 .. len) \X V /\ <<k, v>>[1] = k /\ <<k, v>>[2] = v
      OBVIOUS
    <2> QED BY <2>2, <2>3
  <1> HIDE DEF F
  <1>5. PICK g \in [SUBSET (1 .. len) -> V] : FoldOf(g, len, v0, F)
    <2>1. FoldFor(len, V, v0, F)
      BY <1>0, <1>3, <1>4, FoldExists
    <2> QED BY <2>1 DEF FoldFor
  <1>6. g = [u \in SUBSET DOMAIN t |-> IF u = {} THEN v0 ELSE Turn(g[u \ {Max(u)}], t[Max(u)])]
    <2>1. ASSUME NEW u \in SUBSET (1 .. len)
          PROVE  g[u] = IF u = {} THEN v0 ELSE Turn(g[u \ {Max(u)}], t[Max(u)])
      <3>1. g[u] = IF u = {} THEN v0 ELSE F[Max(u), g[u \ {Max(u)}]]
        BY <1>5 DEF FoldOf
      <3>2. u # {} => Max(u) \in 1 .. len
        BY <1>0, MaxIs
      <3>3. g[u \ {Max(u)}] \in V
        BY <1>5
      <3> QED BY <1>3, <3>1, <3>2, <3>3
    <2> QED BY <1>0, <2>1
  <1>7. iter = [u \in SUBSET DOMAIN t |-> IF u = {} THEN v0 ELSE Turn(iter[u \ {Max(u)}], t[Max(u)])]
    BY <1>6
  <1> HIDE DEF iter
  <1>8. iter[{}] = v0
    BY <1>7
  <1>9. ASSUME NEW k \in 1 .. len
        PROVE  iter[1 .. k] = Turn(iter[1 .. k - 1], t[k])
    <2>1. 1 .. k \in SUBSET DOMAIN t /\ 1 .. k # {} /\ Max(1 .. k) = k /\ (1 .. k) \ {Max(1 .. k)} = 1 .. k - 1
      BY <1>0, MaxOfRange
    <2> QED BY <1>7, <2>1
  <1> DEFINE h == [k \in 0 .. len |-> iter[1 .. k]]
  <1>10. h \in [0 .. len -> V]
    <2>1. \A k \in 1 .. len : iter[1 .. k - 1] \in V => iter[1 .. k] \in V
      BY <1>0, <1>2, <1>9
    <2>2. iter[{}] \in V
      BY <1>4, <1>8
    <2> QED BY <1>0, <2>1, <2>2, FoldTurns
  <1>12. h[0] = v0
    <2>1. 1 .. 0 = {} /\ 0 \in 0 .. len
      BY <1>0
    <2> QED BY <1>8, <2>1
  <1>13. h[len] = iter[DOMAIN t]
    BY <1>0
  <1>14. \A k \in 1 .. len : h[k] = Turn(h[k - 1], t[k])
    <2> SUFFICES ASSUME NEW k \in 1 .. len PROVE h[k] = Turn(h[k - 1], t[k])
      OBVIOUS
    <2>1. k \in 0 .. len /\ k - 1 \in 0 .. len
      BY <1>0
    <2> QED BY <1>9, <2>1
  <1> HIDE DEF h, len
  <1>15. \E f \in [0 .. len -> V] : /\ f[0] = v0 /\ f[len] = FoldLeft(UmGone, v0, all)
                                  /\ \A k \in 1 .. len : f[k] = UmGone(f[k - 1], all[k])
    BY <1>1, <1>10, <1>11, <1>12, <1>13, <1>14
  <1>16. PICK h2 \in [0 .. len -> V] : /\ h2[0] = v0 /\ h2[len] = FoldLeft(UmGone, v0, all)
                                  /\ \A k \in 1 .. len : h2[k] = UmGone(h2[k - 1], all[k])
    BY <1>15
  <1>17. UmGoneTurns(h2, v0, all)
    BY <1>16 DEF V, t, len, UmGoneTurns
  <1> QED BY <1>17

\* When the link splits, none of its users is left.
LEMMA UmAllGone ==
    ASSUME NEW v \in UmSane
    PROVE  LET w == FoldLeft(UmGone, v, SetToSeq(v.users)) IN w \in UmSane /\ w.users = {}
  <1> DEFINE all == SetToSeq(v.users)
             n == Len(all)
  <1>1. IsFiniteSet(v.users) /\ v.users \in SUBSET UmUsers
    BY UmSaneParts, UmTyped
  <1>2. all \in Seq(v.users) /\ \A x \in v.users : \E i \in 1 .. n : all[i] = x
    BY <1>1, SetListed
  <1> HIDE DEF all
  <1>3. all \in Seq(UmUsers) /\ n \in Nat
    BY <1>1, <1>2
  <1>4. PICK h : UmGoneTurns(h, v, all)
    BY <1>3, UmGoneTurnsExist
  <1>5. h \in [0 .. n -> UmSane] /\ h[0] = v /\ h[n] = FoldLeft(UmGone, v, all) /\ \A k \in 1 .. n : h[k] = UmGone(h[k - 1], all[k])
    BY <1>4 DEF UmGoneTurns
  <1> HIDE DEF n
  <1> DEFINE S == {k \in 0 .. n : h[k].users \subseteq v.users /\ \A j \in 1 .. k : all[j] \notin h[k].users}
  <1>6. 0 \in S
    BY <1>3, <1>5
  <1>7. ASSUME NEW k \in 1 .. n, k - 1 \in S
        PROVE  k \in S
    <2>1. k - 1 \in 0 .. n /\ k \in 0 .. n /\ all[k] \in UmUsers /\ \A j \in 1 .. k : j = k \/ j \in 1 .. k - 1
      BY <1>3 DEF n
    <2>2. h[k - 1] \in UmSane
      BY <1>5, <2>1
    <2>3. h[k].users = h[k - 1].users \ {all[k]}
      BY <1>5, <2>1, <2>2, UmGoneSane
    <2> QED BY <1>7, <2>1, <2>3
  <1>8. n \in S
    <2> HIDE DEF S
    <2>1. \A k \in 0 .. n : k \in S
      BY <1>3, <1>6, <1>7, TurnsKeep
    <2> QED BY <1>3, <2>1
  <1>9. h[n].users = {}
    BY <1>2, <1>8, SMTT(60) DEF n
  <1>10. h[n] \in UmSane
    BY <1>3, <1>5
  <1> QED BY <1>5, <1>9, <1>10 DEF all

\* What the other server has heard when the users in T were introduced.
UmPart(v, T) ==
    [users |-> T, oper |-> [x \in UmUsers |-> x \in T /\ v.oper[x]],
     io |-> [x \in UmUsers |-> IF x \in T THEN v.modes[x] \cap {"i", "o"} ELSE {}]]

LEMMA UmPartNone ==
    ASSUME NEW v, NEW x \in UmSane, x.users = {}
    PROVE  UmView(x) = UmPart(v, {})
  <1>1. \A y \in UmUsers : ~x.oper[y] /\ x.modes[y] = {}
    BY UmSaneParts
  <1>2. x.oper \in [UmUsers -> BOOLEAN]
    BY UmSaneParts, UmTyped
  <1>3. x.oper = [y \in UmUsers |-> y \in {} /\ v.oper[y]]
    BY <1>1, <1>2
  <1>4. [y \in UmUsers |-> x.modes[y] \cap {"i", "o"}] = [y \in UmUsers |-> IF y \in {} THEN v.modes[y] \cap {"i", "o"} ELSE {}]
    BY <1>1
  <1> QED BY <1>3, <1>4 DEF UmView, UmPart

LEMMA UmPartAll ==
    ASSUME NEW v \in UmSane
    PROVE  UmPart(v, v.users) = UmView(v)
  <1>1. \A y \in UmUsers : (v.oper[y] => y \in v.users) /\ (y \notin v.users => v.modes[y] = {})
    BY UmSaneParts
  <1>2. v.oper \in [UmUsers -> BOOLEAN]
    BY UmSaneParts, UmTyped
  <1>3. v.oper = [y \in UmUsers |-> y \in v.users /\ v.oper[y]]
    <2>1. \A y \in UmUsers : v.oper[y] = (y \in v.users /\ v.oper[y])
      BY <1>1, <1>2
    <2> QED BY <1>2, <2>1
  <1>4. [y \in UmUsers |-> v.modes[y] \cap {"i", "o"}] = [y \in UmUsers |-> IF y \in v.users THEN v.modes[y] \cap {"i", "o"} ELSE {}]
    BY <1>1
  <1> QED BY <1>3, <1>4 DEF UmView, UmPart

LEMMA UmPartOne ==
    ASSUME NEW v \in UmSane, NEW T, NEW w0, NEW wire \in Seq(UmMsg), UmLeads(wire, w0, UmPart(v, T)),
           NEW u \in UmUsers, u \notin T
    PROVE  wire \o UmBurst(v, u) \in Seq(UmMsg) /\ UmLeads(wire \o UmBurst(v, u), w0, UmPart(v, T \cup {u}))
  <1> DEFINE w1 == UmPart(v, T)
             modes == v.modes[u]
             nick == [cmd |-> "NICK", user |-> u, modes |-> modes]
             type == [cmd |-> "OPERTYPE", user |-> u]
             w2 == UmViewNew(w1, u, modes)
             w3 == UmViewGrant(w2, u)
  <1>1. v.oper \in [UmUsers -> BOOLEAN] /\ v.modes \in [UmUsers -> SUBSET UmLetters] /\ (v.oper[u] => "o" \in v.modes[u])
    BY UmSaneParts, UmTyped
  <1>2. modes \in SUBSET UmLetters
    BY <1>1
  <1>3. w1.users = T /\ w1.oper = [x \in UmUsers |-> x \in T /\ v.oper[x]]
          /\ w1.io = [x \in UmUsers |-> IF x \in T THEN v.modes[x] \cap {"i", "o"} ELSE {}]
    BY DEF UmPart
  <1>4. nick \in UmMsg /\ type \in UmMsg /\ UmNick(v, u) = nick /\ UmOperType(u) = type
    BY <1>2 DEF UmMsg, UmNick, UmOperType
  <1>5. w2.users = T \cup {u} /\ w2.oper = w1.oper /\ w2.io = [w1.io EXCEPT ![u] = modes \cap {"i", "o"}]
    BY <1>3 DEF UmViewNew
  <1>6. w3.users = T \cup {u} /\ w3.oper = [w2.oper EXCEPT ![u] = TRUE] /\ w3.io = [w2.io EXCEPT ![u] = w2.io[u] \cup {"o"}]
    BY <1>5 DEF UmViewGrant
  <1>7. UmTold(w1, nick, w2)
    <2> HIDE DEF w1, modes
    <2> QED BY <1>2, <1>3, UmToldNick
  <1>8. w2 = [users |-> w2.users, oper |-> w2.oper, io |-> w2.io] /\ w3 = [users |-> w3.users, oper |-> w3.oper, io |-> w3.io]
    BY DEF UmViewNew, UmViewGrant
  <1>9. UmTold(w2, type, w3)
    <2>1. u \in w2.users /\ ~w2.oper[u]
      BY <1>3, <1>5, ZenonT(60)
    <2> HIDE DEF w2
    <2> QED BY <2>1, UmToldGrant
  <1> DEFINE all == UmPart(v, T \cup {u})
  <1>10. all = [users |-> T \cup {u}, oper |-> [x \in UmUsers |-> x \in T \cup {u} /\ v.oper[x]],
                io |-> [x \in UmUsers |-> IF x \in T \cup {u} THEN v.modes[x] \cap {"i", "o"} ELSE {}]]
    BY DEF UmPart
  <1>11. w2.io = [x \in UmUsers |-> IF x \in T \cup {u} THEN v.modes[x] \cap {"i", "o"} ELSE {}]
    <2> HIDE DEF w1, w2
    <2> QED BY <1>3, <1>5
  <1> HIDE DEF w1, w2, w3, all, nick, type
  <1>12. CASE ~v.oper[u]
    <2>1. UmBurst(v, u) = <<nick>>
      BY <1>4, <1>12 DEF UmBurst
    <2>2. w2.oper = [x \in UmUsers |-> x \in T \cup {u} /\ v.oper[x]]
      <3>1. \A x \in UmUsers : (x \in T /\ v.oper[x]) = (x \in T \cup {u} /\ v.oper[x])
        BY <1>1, <1>12
      <3> QED BY <1>3, <1>5, <3>1
    <2>3. w2 = all
      BY <1>5, <1>8, <1>10, <1>11, <2>2
    <2>4. UmLeads(Append(wire, nick), w0, w2)
      BY <1>4, <1>7, UmLeadsAppend DEF w1
    <2>5. wire \o <<nick>> = Append(wire, nick) /\ Append(wire, nick) \in Seq(UmMsg)
      BY <1>4
    <2> QED BY <2>1, <2>3, <2>4, <2>5 DEF all
  <1>13. CASE v.oper[u]
    <2>1. UmBurst(v, u) = <<nick, type>>
      BY <1>4, <1>13 DEF UmBurst
    <2>2. w3.oper = [x \in UmUsers |-> x \in T \cup {u} /\ v.oper[x]]
      <3>1. w3.oper = [[x \in UmUsers |-> x \in T /\ v.oper[x]] EXCEPT ![u] = TRUE]
        BY <1>3, <1>5, <1>6
      <3>2. \A x \in UmUsers : w3.oper[x] = (x \in T \cup {u} /\ v.oper[x])
        BY <1>1, <1>13, <3>1
      <3> QED BY <3>1, <3>2
    <2>3. w3.io = w2.io
      <3>1. w2.io[u] = v.modes[u] \cap {"i", "o"} /\ "o" \in v.modes[u]
        BY <1>1, <1>11, <1>13
      <3>2. w2.io[u] \cup {"o"} = w2.io[u]
        BY <3>1
      <3> QED BY <1>6, <1>11, <3>2, ZenonT(60)
    <2>4. w3 = all
      BY <1>6, <1>8, <1>10, <1>11, <2>2, <2>3
    <2>5. UmLeads(Append(wire, nick), w0, w2) /\ Append(wire, nick) \in Seq(UmMsg)
      BY <1>4, <1>7, UmLeadsAppend DEF w1
    <2>6. UmLeads(Append(Append(wire, nick), type), w0, w3)
      BY <1>4, <1>9, <2>5, UmLeadsAppend
    <2>7. wire \o <<nick, type>> = Append(Append(wire, nick), type) /\ Append(Append(wire, nick), type) \in Seq(UmMsg)
      BY <1>4
    <2> QED BY <2>1, <2>4, <2>6, <2>7 DEF all
  <1> QED BY <1>1, <1>12, <1>13

UmBurstTurns(h, v0, all) ==
    /\ h \in [0 .. Len(all) -> Seq(UmMsg)]
    /\ h[0] = <<>> /\ h[Len(all)] = FoldLeft(LAMBDA lines, x : lines \o UmBurst(v0, x), <<>>, all)
    /\ \A k \in 1 .. Len(all) : h[k] = h[k - 1] \o UmBurst(v0, all[k])

\* The burst, one user after the other.
LEMMA UmBurstIs ==
    ASSUME NEW v0 \in UmSane, NEW x \in UmUsers
    PROVE  UmBurst(v0, x) \in Seq(UmMsg)
  <1>1. v0.modes[x] \in SUBSET UmLetters
    BY UmSaneParts, UmTyped
  <1>2. UmNick(v0, x) \in UmMsg /\ UmOperType(x) \in UmMsg
    BY <1>1 DEF UmNick, UmOperType, UmMsg
  <1> HIDE DEF UmMsg
  <1> QED BY <1>2 DEF UmBurst

LEMMA UmBurstTurnsExist ==
    ASSUME NEW v0 \in UmSane, NEW all \in Seq(UmUsers)
    PROVE  \E h : UmBurstTurns(h, v0, all)
  <1> DEFINE V == Seq(UmMsg)
             t == all
             len == Len(t)
             Turn(v, x) == v \o UmBurst(v0, x)
             F == [q \in (1 .. len) \X V |-> Turn(q[2], t[q[1]])]
             iter == CHOOSE g : g = [u \in SUBSET DOMAIN t |->
                        IF u = {} THEN <<>> ELSE Turn(g[u \ {Max(u)}], t[Max(u)])]
  <1>0. len \in Nat /\ DOMAIN t = 1 .. len /\ \A k \in 1 .. len : t[k] \in UmUsers
    OBVIOUS
  <1>1. FoldLeft(LAMBDA lines, x : lines \o UmBurst(v0, x), <<>>, all) = iter[DOMAIN t]
    BY DEF UmSane, FoldLeft, MapThenFoldSet
  <1>2. \A v \in V : \A x \in UmUsers : Turn(v, x) \in V
    BY UmBurstIs
  <1>4. <<>> \in V
    OBVIOUS
  <1>11. \A h, k : h[k] = h[k - 1] \o UmBurst(v0, all[k]) <=> h[k] = Turn(h[k - 1], t[k])
    OBVIOUS
  <1> HIDE DEF V, Turn, t
  <1>3. F \in [(1 .. len) \X V -> V] /\ \A k \in 1 .. len, v \in V : F[k, v] = Turn(v, t[k])
    <2>2. \A q \in (1 .. len) \X V : Turn(q[2], t[q[1]]) \in V
      BY <1>0, <1>2
    <2>3. \A k \in 1 .. len, v \in V : <<k, v>> \in (1 .. len) \X V /\ <<k, v>>[1] = k /\ <<k, v>>[2] = v
      OBVIOUS
    <2> QED BY <2>2, <2>3
  <1> HIDE DEF F
  <1>5. PICK g \in [SUBSET (1 .. len) -> V] : FoldOf(g, len, <<>>, F)
    <2>1. FoldFor(len, V, <<>>, F)
      BY <1>0, <1>3, <1>4, FoldExists
    <2> QED BY <2>1 DEF FoldFor
  <1>6. g = [u \in SUBSET DOMAIN t |-> IF u = {} THEN <<>> ELSE Turn(g[u \ {Max(u)}], t[Max(u)])]
    <2>1. ASSUME NEW u \in SUBSET (1 .. len)
          PROVE  g[u] = IF u = {} THEN <<>> ELSE Turn(g[u \ {Max(u)}], t[Max(u)])
      <3>1. g[u] = IF u = {} THEN <<>> ELSE F[Max(u), g[u \ {Max(u)}]]
        BY <1>5 DEF FoldOf
      <3>2. u # {} => Max(u) \in 1 .. len
        BY <1>0, MaxIs
      <3>3. g[u \ {Max(u)}] \in V
        BY <1>5
      <3> QED BY <1>3, <3>1, <3>2, <3>3
    <2> QED BY <1>0, <2>1
  <1>7. iter = [u \in SUBSET DOMAIN t |-> IF u = {} THEN <<>> ELSE Turn(iter[u \ {Max(u)}], t[Max(u)])]
    BY <1>6
  <1> HIDE DEF iter
  <1>8. iter[{}] = <<>>
    BY <1>7
  <1>9. ASSUME NEW k \in 1 .. len
        PROVE  iter[1 .. k] = Turn(iter[1 .. k - 1], t[k])
    <2>1. 1 .. k \in SUBSET DOMAIN t /\ 1 .. k # {} /\ Max(1 .. k) = k /\ (1 .. k) \ {Max(1 .. k)} = 1 .. k - 1
      BY <1>0, MaxOfRange
    <2> QED BY <1>7, <2>1
  <1> DEFINE h == [k \in 0 .. len |-> iter[1 .. k]]
  <1>10. h \in [0 .. len -> V]
    <2>1. \A k \in 1 .. len : iter[1 .. k - 1] \in V => iter[1 .. k] \in V
      BY <1>0, <1>2, <1>9
    <2>2. iter[{}] \in V
      BY <1>4, <1>8
    <2> QED BY <1>0, <2>1, <2>2, FoldTurns
  <1>12. h[0] = <<>>
    <2>1. 1 .. 0 = {} /\ 0 \in 0 .. len
      BY <1>0
    <2> QED BY <1>8, <2>1
  <1>13. h[len] = iter[DOMAIN t]
    BY <1>0
  <1>14. \A k \in 1 .. len : h[k] = Turn(h[k - 1], t[k])
    <2> SUFFICES ASSUME NEW k \in 1 .. len PROVE h[k] = Turn(h[k - 1], t[k])
      OBVIOUS
    <2>1. k \in 0 .. len /\ k - 1 \in 0 .. len
      BY <1>0
    <2> QED BY <1>9, <2>1
  <1> HIDE DEF h, len
  <1>15. \E f \in [0 .. len -> V] : /\ f[0] = <<>> /\ f[len] = FoldLeft(LAMBDA lines, x : lines \o UmBurst(v0, x), <<>>, all)
                                  /\ \A k \in 1 .. len : f[k] = f[k - 1] \o UmBurst(v0, all[k])
    BY <1>1, <1>10, <1>11, <1>12, <1>13, <1>14
  <1>16. PICK h2 \in [0 .. len -> V] : /\ h2[0] = <<>> /\ h2[len] = FoldLeft(LAMBDA lines, x : lines \o UmBurst(v0, x), <<>>, all)
                                  /\ \A k \in 1 .. len : h2[k] = h2[k - 1] \o UmBurst(v0, all[k])
    BY <1>15
  <1>17. UmBurstTurns(h2, v0, all)
    BY <1>16 DEF V, t, len, UmBurstTurns
  <1> QED BY <1>17

LEMMA UmBurstLeads ==
    ASSUME NEW v \in UmSane, NEW x \in UmSane, x.users = {}
    PROVE  LET wire == FoldLeft(LAMBDA lines, u : lines \o UmBurst(v, u), <<>>, SetToSeq(v.users)) IN
           wire \in Seq(UmMsg) /\ UmLeads(wire, UmView(x), UmView(v))
  <1> DEFINE all == SetToSeq(v.users)
             n == Len(all)
             wire == FoldLeft(LAMBDA lines, u : lines \o UmBurst(v, u), <<>>, all)
             Upto(k) == {all[j] : j \in 1 .. k}
  <1>1. IsFiniteSet(v.users) /\ v.users \in SUBSET UmUsers
    BY UmSaneParts, UmTyped
  <1>2. all \in Seq(v.users) /\ (\A y \in v.users : \E i \in 1 .. n : all[i] = y) /\ \A i, j \in 1 .. n : all[i] = all[j] => i = j
    BY <1>1, SetListed
  <1> HIDE DEF all
  <1>3. all \in Seq(UmUsers) /\ n \in Nat
    BY <1>1, <1>2
  <1>4. PICK h : UmBurstTurns(h, v, all)
    BY <1>3, UmBurstTurnsExist
  <1>5. h \in [0 .. n -> Seq(UmMsg)] /\ h[0] = <<>> /\ h[n] = wire /\ \A k \in 1 .. n : h[k] = h[k - 1] \o UmBurst(v, all[k])
    BY <1>4 DEF UmBurstTurns
  <1>6. \A k \in 1 .. n : all[k] \in UmUsers
    BY <1>3
  <1> HIDE DEF n, wire
  <1>7. Upto(0) = {} /\ Upto(n) = v.users
    <2>1. 1 .. 0 = {}
      OBVIOUS
    <2>2. \A k \in 1 .. n : all[k] \in v.users
      BY <1>2 DEF n
    <2> QED BY <1>2, <2>1, <2>2
  <1>8. ASSUME NEW k \in 1 .. n
        PROVE  Upto(k) = Upto(k - 1) \cup {all[k]} /\ all[k] \notin Upto(k - 1)
    <2>1. (\A j \in 1 .. k : j = k \/ j \in 1 .. k - 1) /\ (\A j \in 1 .. k - 1 : j \in 1 .. k /\ j \in 1 .. n /\ j # k) /\ k \in 1 .. k
      BY <1>3
    <2>2. all[k] \notin Upto(k - 1)
      BY <1>2, <2>1
    <2>3. Upto(k) = Upto(k - 1) \cup {all[k]}
      BY <2>1
    <2> QED BY <2>2, <2>3
  <1> HIDE DEF Upto
  <1> DEFINE S == {k \in 0 .. n : UmLeads(h[k], UmPart(v, {}), UmPart(v, Upto(k)))}
  <1>9. 0 \in S
    <2> DEFINE w == UmPart(v, {})
    <2>1. UmLeads(<<>>, w, w)
      BY UmLeadsNone
    <2>2. 0 \in 0 .. n
      BY <1>3
    <2> HIDE DEF w
    <2>3. UmLeads(h[0], w, UmPart(v, Upto(0)))
      BY <1>5, <1>7, <2>1 DEF w
    <2> QED BY <2>2, <2>3 DEF w
  <1>10. ASSUME NEW k \in 1 .. n, k - 1 \in S
         PROVE  k \in S
    <2>1. k - 1 \in 0 .. n /\ k \in 0 .. n
      BY <1>3
    <2>2. h[k - 1] \in Seq(UmMsg) /\ h[k] = h[k - 1] \o UmBurst(v, all[k])
      BY <1>5, <2>1
    <2>3. UmLeads(h[k - 1], UmPart(v, {}), UmPart(v, Upto(k - 1)))
      BY <1>10
    <2> DEFINE T == Upto(k - 1)
               w0 == UmPart(v, {})
               u == all[k]
               a == h[k - 1]
    <2>4. u \in UmUsers /\ u \notin T /\ Upto(k) = T \cup {u} /\ a \in Seq(UmMsg) /\ UmLeads(a, w0, UmPart(v, T))
      BY <1>6, <1>8, <2>2, <2>3
    <2> HIDE DEF T, w0, u, a
    <2>5. UmLeads(a \o UmBurst(v, u), w0, UmPart(v, T \cup {u}))
      BY <2>4, UmPartOne
    <2> QED BY <2>1, <2>2, <2>4, <2>5 DEF w0, u, a
  <1>11. n \in S
    <2> HIDE DEF S
    <2>1. \A k \in 0 .. n : k \in S
      BY <1>3, <1>9, <1>10, TurnsKeep
    <2> QED BY <1>3, <2>1
  <1>12. UmLeads(wire, UmPart(v, {}), UmPart(v, v.users))
    BY <1>5, <1>7, <1>11
  <1>13. UmPart(v, {}) = UmView(x) /\ UmPart(v, v.users) = UmView(v)
    BY UmPartNone, UmPartAll
  <1>14. wire \in Seq(UmMsg)
    BY <1>3, <1>5
  <1> QED BY <1>12, <1>13, <1>14 DEF wire, all

\* Each server is right by itself, and what is on its way leads the other to what the users' server knows.
UmKeepsUp(at, wire, linked) ==
    /\ at \in [{"own", "other"} -> UmSane] /\ wire \in Seq(UmMsg) /\ linked \in BOOLEAN
    /\ linked => UmLeads(wire, UmView(at["other"]), UmView(at["own"]))
    /\ ~linked => wire = <<>> /\ at["other"].users = {}
UmNow == UmKeepsUp(um_at, um_wire, um_linked)

\* Each step keeps this.
LEMMA UmInitKeeps == UserModesInit => UmNow
  <1> SUFFICES ASSUME UserModesInit PROVE UmKeepsUp(um_at, um_wire, um_linked)
    BY DEF UmNow
  <1> DEFINE C == [l \in {"i", "s"} |-> 0]
  <1>1. um_at = [s \in {"own", "other"} |-> UmNothing] /\ um_wire = <<>> /\ um_linked = TRUE
    BY DEF UserModesInit
  <1>2. C \in [{"i", "s"} -> Int] /\ C["i"] = 0
    OBVIOUS
  <1> HIDE DEF C
  <1>3. UmNothing = [users |-> {}, modes |-> [u \in UmUsers |-> {}], masks |-> [u \in UmUsers |-> FALSE],
                     oper |-> [u \in UmUsers |-> FALSE], opers |-> [u \in UmUsers |-> 0], count |-> C]
    BY DEF UmNothing, C
  <1>4. UmNothing \in UmKnows
    BY <1>2, <1>3 DEF UmKnows
  <1>5. UmSaneOf(UmNothing)
    <2>1. UmInvisible({}, UmNothing.modes) = {}
      BY DEF UmInvisible
    <2>2. UmHidden({}, UmNothing.modes) = 0 /\ IsFiniteSet({})
      BY <2>1, FS_EmptySet DEF UmHidden
    <2>3. UmNothing.users = {} /\ UmNothing.count["i"] = 0
      BY <1>2, <1>3
    <2>4. \A x \in UmUsers : UmNothing.opers[x] = 0 /\ UmNothing.oper[x] = FALSE /\ UmNothing.modes[x] = {}
      BY <1>3
    <2> QED BY <2>2, <2>3, <2>4 DEF UmSaneOf
  <1>6. UmNothing \in UmSane
    BY <1>4, <1>5 DEF UmSane
  <1>7. um_at \in [{"own", "other"} -> UmSane] /\ um_at["own"] = UmNothing /\ um_at["other"] = UmNothing
    BY <1>1, <1>6
  <1>8. UmLeads(<<>>, UmView(UmNothing), UmView(UmNothing))
    BY UmLeadsNone
  <1>9. <<>> \in Seq(UmMsg)
    OBVIOUS
  <1> QED BY <1>1, <1>7, <1>8, <1>9 DEF UmKeepsUp

\* The users' server changes and says so, or changes nothing the other would see.
LEMMA UmSays ==
    ASSUME UmNow, NEW v \in UmSane, NEW m \in UmMsg, UmTold(UmView(um_at["own"]), m, UmView(v)),
           um_at' = [um_at EXCEPT !["own"] = v], UmSend(<<m>>), um_linked' = um_linked
    PROVE  UmNow'
  <1>1. /\ um_at \in [{"own", "other"} -> UmSane] /\ um_wire \in Seq(UmMsg) /\ um_linked \in BOOLEAN
        /\ um_linked => UmLeads(um_wire, UmView(um_at["other"]), UmView(um_at["own"]))
        /\ ~um_linked => um_wire = <<>> /\ um_at["other"].users = {}
    BY DEF UmNow, UmKeepsUp
  <1>2. um_at' \in [{"own", "other"} -> UmSane] /\ um_at'["own"] = v /\ um_at'["other"] = um_at["other"]
    BY <1>1
  <1>3. CASE um_linked
    <2>1. um_wire' = Append(um_wire, m) /\ Append(um_wire, m) \in Seq(UmMsg)
      <3>1. um_wire' = um_wire \o <<m>>
        BY <1>3 DEF UmSend
      <3> HIDE DEF UmMsg
      <3> QED BY <1>1, <3>1
    <2>2. UmLeads(Append(um_wire, m), UmView(um_at["other"]), UmView(v))
      BY <1>1, <1>3, UmLeadsAppend
    <2> QED BY <1>1, <1>2, <1>3, <2>1, <2>2 DEF UmNow, UmKeepsUp
  <1>4. CASE ~um_linked
    <2>1. um_wire' = um_wire
      BY <1>4 DEF UmSend
    <2> QED BY <1>1, <1>2, <1>4, <2>1 DEF UmNow, UmKeepsUp
  <1> QED BY <1>1, <1>3, <1>4

LEMMA UmConnectKeeps ==
    ASSUME UmNow, NEW u \in UmUsers, UmConnect(u)
    PROVE  UmNow'
  <1> DEFINE v == um_at["own"]
             m == UmNick(v, u)
  <1>1. v \in UmSane
    BY DEF UmNow, UmKeepsUp
  <1>2. u \notin v.users /\ um_at' = [um_at EXCEPT !["own"] = UmJoined(v, u)] /\ UmSend(<<m>>) /\ um_linked' = um_linked
    BY DEF UmConnect, UmJoined
  <1>3. /\ UmJoined(v, u) \in UmSane /\ v.modes[u] = {}
        /\ UmView(UmJoined(v, u)) = UmViewNew(UmView(v), u, {})
    BY <1>1, <1>2, UmJoinedSane
  <1> DEFINE none == {}
  <1>4. m = [cmd |-> "NICK", user |-> u, modes |-> none] /\ none \in SUBSET UmLetters
    BY <1>3 DEF UmNick
  <1>5. m \in UmMsg
    BY <1>4 DEF UmMsg
  <1>6. u \notin UmView(v).users
    BY <1>2, UmViewParts
  <1>7. UmTold(UmView(v), [cmd |-> "NICK", user |-> u, modes |-> none], UmViewNew(UmView(v), u, none))
    <2> DEFINE w == UmView(v)
    <2>1. none \in SUBSET UmLetters /\ u \notin w.users
      BY <1>4, <1>6
    <2> HIDE DEF w, none
    <2>2. UmTold(w, [cmd |-> "NICK", user |-> u, modes |-> none], UmViewNew(w, u, none))
      BY <2>1, UmToldNick
    <2> QED BY <2>2 DEF w
  <1>8. UmTold(UmView(v), m, UmView(UmJoined(v, u)))
    BY <1>3, <1>4, <1>7
  <1> HIDE DEF m
  <1> QED BY <1>2, <1>3, <1>5, <1>8, UmSays

LEMMA UmOperKeeps ==
    ASSUME UmNow, NEW u \in UmUsers, UmOper(u)
    PROVE  UmNow'
  <1> DEFINE v == um_at["own"]
             m == UmOperType(u)
             d == UmGrant(v, u)
  <1>1. v \in UmSane
    BY DEF UmNow, UmKeepsUp
  <1>2. u \in v.users /\ "o" \notin v.modes[u] /\ um_at' = [um_at EXCEPT !["own"] = d] /\ UmSend(<<m>>) /\ um_linked' = um_linked
    BY DEF UmOper
  <1>3. ~v.oper[u]
    BY <1>1, <1>2, UmSaneParts
  <1>4. d \in UmSane /\ UmView(d) = UmViewGrant(UmView(v), u)
    BY <1>1, <1>2, <1>3, UmGrantSane
  <1>5. m = [cmd |-> "OPERTYPE", user |-> u] /\ m \in UmMsg
    BY DEF UmOperType, UmMsg
  <1>6. UmTold(UmView(v), m, UmView(d))
    <2>1. u \in UmView(v).users /\ ~UmView(v).oper[u]
      BY <1>2, <1>3, UmViewParts
    <2> QED BY <1>4, <1>5, <2>1, UmToldGrant
  <1> HIDE DEF m, d
  <1> QED BY <1>2, <1>4, <1>5, <1>6, UmSays

LEMMA UmQuitKeeps ==
    ASSUME UmNow, NEW u \in UmUsers, UmQuit(u)
    PROVE  UmNow'
  <1> DEFINE v == um_at["own"]
             m == [cmd |-> "QUIT", user |-> u]
             d == UmGone(v, u)
  <1>1. v \in UmSane
    BY DEF UmNow, UmKeepsUp
  <1>2. um_at' = [um_at EXCEPT !["own"] = d] /\ UmSend(<<m>>) /\ um_linked' = um_linked
    BY DEF UmQuit
  <1>3. d \in UmSane /\ UmView(d) = UmViewGone(UmView(v), u)
    BY <1>1, UmGoneSane
  <1>4. m \in UmMsg
    BY DEF UmMsg
  <1>5. UmTold(UmView(v), m, UmView(d))
    BY <1>3, UmToldQuit
  <1> HIDE DEF m, d
  <1> QED BY <1>2, <1>3, <1>4, <1>5, UmSays

LEMMA UmLinesTyped == \A line \in UmLines : line \in Seq(UmItems)
  <1> SUFFICES ASSUME NEW line \in UmLines PROVE line \in Seq(UmItems)
    OBVIOUS
  <1>1. CASE \E a \in UmItems : line = <<a>>
    <2>1. PICK a \in UmItems : line = <<a>>
      BY <1>1
    <2> HIDE DEF UmItems
    <2> QED BY <2>1
  <1>2. CASE \E a \in UmItems : \E b \in UmItems : line = <<a, b>>
    <2>1. PICK a \in UmItems, b \in UmItems : line = <<a, b>>
      BY <1>2
    <2> HIDE DEF UmItems
    <2> QED BY <2>1
  <1> QED BY <1>1, <1>2 DEF UmLines

LEMMA UmModeKeeps ==
    ASSUME UmNow, NEW u \in UmUsers, NEW line \in UmLines, UmMode(u, line)
    PROVE  UmNow'
  <1> DEFINE v == um_at["own"]
             done == UmProcess(v, u, line, TRUE)
             said == done.out
             d == done.v
             m == [cmd |-> "MODE", user |-> u, line |-> said]
  <1>1. v \in UmSane /\ line \in Seq(UmItems)
    BY UmLinesTyped DEF UmNow, UmKeepsUp
  <1>2. /\ u \in v.users /\ um_at' = [um_at EXCEPT !["own"] = d] /\ um_linked' = um_linked
        /\ UmSend(IF said = <<>> THEN <<>> ELSE <<m>>)
    BY DEF UmMode
  <1>3. done \in UmStates(u)
    BY <1>1, <1>2, UmProcessOf
  <1>4. d \in UmSane /\ said \in Seq(UmItems)
    <2> HIDE DEF done
    <2> QED BY <1>3, UmStateIs
  <1>5. m \in UmMsg
    <2> HIDE DEF said
    <2> QED BY <1>4 DEF UmMsg
  <1>6. UmTold(UmView(v), m, UmView(d))
    BY <1>1, <1>2, UmToldMode
  <1>7. CASE said # <<>>
    <2>1. UmSend(<<m>>)
      BY <1>2, <1>7
    <2> HIDE DEF m, d
    <2> QED BY <1>2, <1>4, <1>5, <1>6, <2>1, UmSays
  <1>8. CASE said = <<>>
    <2>1. UmView(d) = UmView(v)
      <3>1. UmView(UmProcess(v, u, UmProcess(v, u, line, TRUE).out, FALSE).v) = UmView(UmProcess(v, u, line, TRUE).v)
        BY <1>1, <1>2, UmReplays
      <3>2. UmProcess(v, u, <<>>, FALSE) = UmFresh(v)
        BY <1>1, <1>2, UmNoLetters
      <3>3. UmFresh(v).v = v
        BY DEF UmFresh
      <3> QED BY <1>8, <3>1, <3>2, <3>3
    <2>2. /\ um_at \in [{"own", "other"} -> UmSane] /\ um_wire \in Seq(UmMsg) /\ um_linked \in BOOLEAN
          /\ um_linked => UmLeads(um_wire, UmView(um_at["other"]), UmView(um_at["own"]))
          /\ ~um_linked => um_wire = <<>> /\ um_at["other"].users = {}
      BY DEF UmNow, UmKeepsUp
    <2>3. um_wire' = um_wire
      <3>1. UmSend(<<>>)
        BY <1>2, <1>8
      <3> HIDE DEF UmMsg
      <3> QED BY <2>2, <3>1 DEF UmSend
    <2> HIDE DEF d
    <2>4. um_at' \in [{"own", "other"} -> UmSane] /\ um_at'["own"] = d /\ um_at'["other"] = um_at["other"]
      BY <1>2, <1>4, <2>2
    <2> QED BY <1>2, <2>1, <2>2, <2>3, <2>4 DEF UmNow, UmKeepsUp
  <1> QED BY <1>7, <1>8

\* Whatever the other server reads takes it one line further.
LEMMA UmReadKeeps ==
    ASSUME UmNow, NEW cmd, NEW result, UmRead(cmd, result), result = UmHear(um_at["other"], Head(um_wire))
    PROVE  UmNow'
  <1>1. /\ um_at \in [{"own", "other"} -> UmSane] /\ um_wire \in Seq(UmMsg) /\ um_linked \in BOOLEAN
        /\ um_linked => UmLeads(um_wire, UmView(um_at["other"]), UmView(um_at["own"]))
        /\ ~um_linked => um_wire = <<>> /\ um_at["other"].users = {}
    BY DEF UmNow, UmKeepsUp
  <1>2. um_wire # <<>> /\ um_wire' = Tail(um_wire) /\ um_at' = [um_at EXCEPT !["other"] = result] /\ um_linked' = um_linked
    BY DEF UmRead
  <1>3. um_linked
    BY <1>1, <1>2
  <1>4. PICK w : UmTold(UmView(um_at["other"]), Head(um_wire), w) /\ UmLeads(Tail(um_wire), w, UmView(um_at["own"]))
    BY <1>1, <1>2, <1>3, UmLeadsTail
  <1>5. result \in UmSane /\ UmView(result) = w
    BY <1>1, <1>4 DEF UmTold
  <1>6. um_at' \in [{"own", "other"} -> UmSane] /\ um_at'["other"] = result /\ um_at'["own"] = um_at["own"]
    BY <1>1, <1>2, <1>5
  <1>7. Tail(um_wire) \in Seq(UmMsg)
    BY <1>1, <1>2
  <1> QED BY <1>2, <1>3, <1>4, <1>5, <1>6, <1>7 DEF UmNow, UmKeepsUp

LEMMA UmReadsKeep ==
    ASSUME UmNow, UmReadNick \/ UmReadOperType \/ UmReadMode \/ UmReadQuit
    PROVE  UmNow'
  <1>1. CASE UmReadNick
    <2>1. UmRead("NICK", UmIntroduce(um_at["other"], Head(um_wire).user, Head(um_wire).modes)) /\ Head(um_wire).cmd = "NICK"
      BY <1>1 DEF UmReadNick, UmRead, UmOther, UmHeard
    <2>2. UmIntroduce(um_at["other"], Head(um_wire).user, Head(um_wire).modes) = UmHear(um_at["other"], Head(um_wire))
      BY <2>1 DEF UmHear
    <2> QED BY <2>1, <2>2, UmReadKeeps
  <1>2. CASE UmReadOperType
    <2>1. UmRead("OPERTYPE", UmGrant(um_at["other"], Head(um_wire).user)) /\ Head(um_wire).cmd = "OPERTYPE"
      BY <1>2 DEF UmReadOperType, UmRead, UmOther, UmHeard
    <2>2. UmGrant(um_at["other"], Head(um_wire).user) = UmHear(um_at["other"], Head(um_wire))
      BY <2>1 DEF UmHear
    <2> QED BY <2>1, <2>2, UmReadKeeps
  <1>3. CASE UmReadMode
    <2>1. UmRead("MODE", UmProcess(um_at["other"], Head(um_wire).user, Head(um_wire).line, FALSE).v) /\ Head(um_wire).cmd = "MODE"
      BY <1>3 DEF UmReadMode, UmRead, UmOther, UmHeard
    <2>2. UmProcess(um_at["other"], Head(um_wire).user, Head(um_wire).line, FALSE).v = UmHear(um_at["other"], Head(um_wire))
      BY <2>1 DEF UmHear
    <2> QED BY <2>1, <2>2, UmReadKeeps
  <1>4. CASE UmReadQuit
    <2>1. UmRead("QUIT", UmGone(um_at["other"], Head(um_wire).user)) /\ Head(um_wire).cmd = "QUIT"
      BY <1>4 DEF UmReadQuit, UmRead, UmOther, UmHeard
    <2>2. UmGone(um_at["other"], Head(um_wire).user) = UmHear(um_at["other"], Head(um_wire))
      BY <2>1 DEF UmHear
    <2> QED BY <2>1, <2>2, UmReadKeeps
  <1> QED BY <1>1, <1>2, <1>3, <1>4

LEMMA UmSplitKeeps ==
    ASSUME UmNow, UmSplit
    PROVE  UmNow'
  <1> DEFINE v == um_at["other"]
             w == FoldLeft(UmGone, v, SetToSeq(v.users))
  <1>1. um_at \in [{"own", "other"} -> UmSane] /\ v \in UmSane
    BY DEF UmNow, UmKeepsUp
  <1>2. um_at' = [um_at EXCEPT !["other"] = w] /\ um_linked' = FALSE /\ um_wire' = <<>>
    BY DEF UmSplit
  <1>3. w \in UmSane /\ w.users = {}
    BY <1>1, UmAllGone
  <1> HIDE DEF w
  <1>4. um_at' \in [{"own", "other"} -> UmSane] /\ um_at'["other"] = w
    BY <1>1, <1>2, <1>3
  <1>5. <<>> \in Seq(UmMsg)
    OBVIOUS
  <1> QED BY <1>2, <1>3, <1>4, <1>5 DEF UmNow, UmKeepsUp

LEMMA UmLinkKeeps ==
    ASSUME UmNow, UmLink
    PROVE  UmNow'
  <1> DEFINE v == um_at["own"]
             x == um_at["other"]
             wire == FoldLeft(LAMBDA lines, u : lines \o UmBurst(v, u), <<>>, SetToSeq(v.users))
  <1>1. um_at \in [{"own", "other"} -> UmSane] /\ v \in UmSane /\ x \in UmSane
    BY DEF UmNow, UmKeepsUp
  <1>2. um_at' = um_at /\ ~um_linked /\ um_linked' = TRUE /\ um_wire' = wire
    BY DEF UmLink
  <1>3. x.users = {}
    BY <1>2 DEF UmNow, UmKeepsUp
  <1>4. wire \in Seq(UmMsg) /\ UmLeads(wire, UmView(x), UmView(v))
    BY <1>1, <1>3, UmBurstLeads
  <1> HIDE DEF wire
  <1> QED BY <1>1, <1>2, <1>4 DEF UmNow, UmKeepsUp

LEMMA UmKeepsSound ==
    ASSUME UmNow
    PROVE  UmSound
  <1>1. /\ um_at \in [{"own", "other"} -> UmSane] /\ um_wire \in Seq(UmMsg) /\ um_linked \in BOOLEAN
        /\ um_linked => UmLeads(um_wire, UmView(um_at["other"]), UmView(um_at["own"]))
        /\ ~um_linked => um_wire = <<>> /\ um_at["other"].users = {}
    BY DEF UmNow, UmKeepsUp
  <1>2. UmOpersOnce
    <2> SUFFICES ASSUME NEW s \in {"own", "other"}, NEW u \in UmUsers
                 PROVE  um_at[s].opers[u] = IF u \in um_at[s].users /\ um_at[s].oper[u] THEN 1 ELSE 0
      BY <1>1 DEF UmOpersOnce
    <2> DEFINE v == um_at[s]
    <2>1. v \in UmSane
      BY <1>1
    <2>2. v.opers[u] = (IF v.oper[u] THEN 1 ELSE 0) /\ (v.oper[u] => u \in v.users)
      BY <2>1, UmSaneParts
    <2> QED BY <2>2
  <1>3. UmInvisibleCounted
    <2> SUFFICES ASSUME NEW s \in {"own", "other"}
                 PROVE  um_at[s].count["i"] = Cardinality({u \in um_at[s].users : "i" \in um_at[s].modes[u]})
      BY <1>1 DEF UmInvisibleCounted
    <2> DEFINE v == um_at[s]
    <2>1. v \in UmSane
      BY <1>1
    <2>2. v.count["i"] = UmHidden(v.users, v.modes)
      BY <2>1, UmSaneParts
    <2> QED BY <2>2 DEF UmHidden, UmInvisible
  <1>4. UmReplayed
    <2> SUFFICES ASSUME um_linked, um_wire = <<>>
                 PROVE  /\ um_at["other"].users = um_at["own"].users
                        /\ um_at["other"].oper = um_at["own"].oper
                        /\ \A u \in UmUsers : um_at["other"].modes[u] \cap {"i", "o"} = um_at["own"].modes[u] \cap {"i", "o"}
      BY DEF UmReplayed
    <2> DEFINE a == um_at["other"]
               b == um_at["own"]
    <2>1. PICK p : UmPath(p, um_wire, UmView(a), UmView(b))
      BY <1>1 DEF UmLeads
    <2>2. Len(um_wire) = 0
      OBVIOUS
    <2>3. UmView(a) = UmView(b)
      BY <2>1, <2>2 DEF UmPath
    <2>4. UmView(a).io = [x \in UmUsers |-> a.modes[x] \cap {"i", "o"}] /\ UmView(b).io = [x \in UmUsers |-> b.modes[x] \cap {"i", "o"}]
      BY UmViewParts
    <2>5. UmView(a).users = a.users /\ UmView(b).users = b.users /\ UmView(a).oper = a.oper /\ UmView(b).oper = b.oper
      BY UmViewParts
    <2> HIDE DEF a, b
    <2>6. \A u \in UmUsers : a.modes[u] \cap {"i", "o"} = b.modes[u] \cap {"i", "o"}
      <3>1. [x \in UmUsers |-> a.modes[x] \cap {"i", "o"}] = [x \in UmUsers |-> b.modes[x] \cap {"i", "o"}]
        BY <2>3, <2>4
      <3> SUFFICES ASSUME NEW u \in UmUsers PROVE a.modes[u] \cap {"i", "o"} = b.modes[u] \cap {"i", "o"}
        OBVIOUS
      <3>2. [x \in UmUsers |-> a.modes[x] \cap {"i", "o"}][u] = [x \in UmUsers |-> b.modes[x] \cap {"i", "o"}][u]
        BY <3>1
      <3> QED BY <3>2
    <2> QED BY <2>3, <2>5, <2>6 DEF a, b
  <1> QED BY <1>2, <1>3, <1>4 DEF UmSound

\* In every state that the program reaches, on both servers, the list of operators holds each operator once and
\* nobody else and the count of +i is the number of invisible users; and when the other server has read every line on
\* its way it knows the users, the operators and who is invisible as their server does: for any users and lines,
\* whatever MODE, OPER, quits, introductions, splits and bursts came before.
THEOREM UserModesSound == UserModesSpec => []UmSound
  <1>1. UserModesInit => UmNow
    BY UmInitKeeps
  <1>2. UmNow /\ [UserModesNext]_um_vars => UmNow'
    <2> SUFFICES ASSUME UmNow, [UserModesNext]_um_vars PROVE UmNow'
      OBVIOUS
    <2>1. ASSUME NEW u \in UmUsers, UmConnect(u) PROVE UmNow'
      BY <2>1, UmConnectKeeps
    <2>2. ASSUME NEW u \in UmUsers, UmOper(u) PROVE UmNow'
      BY <2>2, UmOperKeeps
    <2>3. ASSUME NEW u \in UmUsers, UmQuit(u) PROVE UmNow'
      BY <2>3, UmQuitKeeps
    <2>4. ASSUME NEW u \in UmUsers, NEW line \in UmLines, UmMode(u, line) PROVE UmNow'
      BY <2>4, UmModeKeeps
    <2>5. CASE UmReadNick \/ UmReadOperType \/ UmReadMode \/ UmReadQuit
      BY <2>5, UmReadsKeep
    <2>6. CASE UmSplit
      BY <2>6, UmSplitKeeps
    <2>7. CASE UmLink
      BY <2>7, UmLinkKeeps
    <2>8. CASE UNCHANGED um_vars
      BY <2>8 DEF um_vars, UmNow
    <2> QED BY <2>1, <2>2, <2>3, <2>4, <2>5, <2>6, <2>7, <2>8 DEF UserModesNext
  <1>3. UmNow => UmSound
    BY UmKeepsSound
  <1> QED BY <1>1, <1>2, <1>3, PTL DEF UserModesSpec
=============================================================================

---------------------------- MODULE ServerProofs ----------------------------
(***************************************************************************)
(* Theorems about the tables one server keeps.                              *)
(*                                                                         *)
(* X-lines: a line holds against every client it covers, whatever the      *)
(* order lines, clients, names and expiries come in (XlKept).               *)
(*                                                                         *)
(* WHOWAS: the map and the fifo name the same nicknames, each once, within  *)
(* the limit, and no step makes a group longer than it may be (WhTables,    *)
(* WhGrown).                                                                *)
(*                                                                         *)
(* Loader: whatever order modules ask for, the lists kept by slot stay      *)
(* about the same module, and a hook counts those that implement it (LdKept).*)
(*                                                                         *)
(* Timers: none is missed (a clock that goes ahead one second at a time), a *)
(* deleted one stays silent (its owner deletes one-shot timers, outside a   *)
(* Tick), none is lost and none is touched after it was freed (no Tick      *)
(* deletes a repeating timer the loop has reached).                         *)
(***************************************************************************)
EXTENDS XLines, Whowas, Loader, Timers, FiniteSetTheorems, SequenceTheorems, DataFacts, TLAPS

-----------------------------------------------------------------------------
(* X-lines *)

XlKinds == {"ban", "E"}
XlEntry == [mask : XlMasks, duration : Nat, expiry : Int]
\* t is made of entries of s, each taken once; their times do not matter.
XlFrom(t, s) ==
    \E f \in [DOMAIN t -> DOMAIN s] : \A i, j \in DOMAIN t : t[i].mask = s[f[i]].mask /\ (f[i] = f[j] => i = j)
XlOnce(list, perm) ==
    /\ \A i, j \in DOMAIN list : list[i].mask = list[j].mask => i = j
    /\ \A i \in DOMAIN list : list[i].mask \notin perm
XlMasksOf(list) == {list[i].mask : i \in DOMAIN list}

\* Which clients the lines have been held against: those that are registered, and under Z- and Q-lines those that
\* wait for registration too, as FullConnect does not look at these.
XlHeld(u) ==
    /\ u \notin xl_queued
    /\ xl_state[u] = "online" \/ (xl_state[u] = "waiting" /\ xl_kind \in {"Z", "Q"})
XlListsOK(timed, perm) ==
    /\ timed \in [XlKinds -> Seq(XlEntry)] /\ perm \in [XlKinds -> SUBSET XlMasks]
    /\ \A l \in XlKinds : XlOnce(timed[l], perm[l])
XlClientsOK ==
    /\ xl_kind \in {"G", "K", "Z", "Q"}
    /\ xl_state \in [XlUsers -> {"gone", "waiting", "online"}]
    /\ xl_named \in [XlUsers -> BOOLEAN] /\ xl_found \in [XlUsers -> BOOLEAN] /\ xl_exempt \in [XlUsers -> BOOLEAN]
    /\ \A u \in XlUsers : xl_exempt[u] => u \in xl_excused
XlOut(u) == u \in xl_excused \/ xl_pending \/ xl_lost
XlKept ==
    /\ XlListsOK(xl_timed, xl_perm) /\ XlClientsOK
    /\ \A u \in XlUsers : XlHeld(u) /\ XlBanned(u, xl_timed, xl_perm) => XlOut(u)

-----------------------------------------------------------------------------
(* What is done to a list takes each of its entries at most once *)

\* Keys can be put in order.
XlInOrder(key, n, p) ==
    /\ p \in [1 .. n -> 1 .. n]
    /\ \A i, j \in 1 .. n : p[i] = p[j] => i = j
    /\ \A i, j \in 1 .. n : i < j => key[p[i]] <= key[p[j]]

LEMMA XlInsert ==
    ASSUME NEW n \in Nat \ {0}, NEW key \in [1 .. n -> Int], NEW p, XlInOrder(key, n - 1, p)
    PROVE  \E q : XlInOrder(key, n, q)
  <1> DEFINE over == {i \in 1 .. n : i = n \/ key[p[i]] > key[n]}
             at == CHOOSE i \in over : \A j \in over : i <= j
             q == [i \in 1 .. n |-> IF i < at THEN p[i] ELSE IF i = at THEN n ELSE p[i - 1]]
  <1>1. at \in over /\ \A j \in over : at <= j
    <2>1. over \in SUBSET Nat /\ n \in over
      OBVIOUS
    <2> HIDE DEF over
    <2> QED BY <2>1, Least
  <1> HIDE DEF at
  <1>2. at \in 1 .. n /\ (at < n => key[p[at]] > key[n])
    BY <1>1
  <1>3. \A i \in 1 .. n - 1 : i < at => key[p[i]] <= key[n]
    <2> SUFFICES ASSUME NEW i \in 1 .. n - 1, i < at PROVE key[p[i]] <= key[n]
      OBVIOUS
    <2>1. i \notin over
      <3> HIDE DEF over
      <3> QED BY <1>1, <1>2
    <2>2. p[i] \in 1 .. n - 1
      BY DEF XlInOrder
    <2> QED BY <2>1, <2>2
  <1>4. \A i \in 1 .. n - 1 : p[i] \in 1 .. n - 1
    BY DEF XlInOrder
  <1>5. \A i, j \in 1 .. n - 1 : (p[i] = p[j] => i = j) /\ (i < j => key[p[i]] <= key[p[j]])
    BY DEF XlInOrder
  <1>6. q \in [1 .. n -> 1 .. n]
    BY <1>2, <1>4
  <1>7. \A i \in 1 .. n : /\ i < at => i \in 1 .. n - 1 /\ q[i] = p[i]
                          /\ i = at => q[i] = n
                          /\ i > at => i - 1 \in 1 .. n - 1 /\ q[i] = p[i - 1]
    BY <1>2
  <1> HIDE DEF q, over
  <1>8. ASSUME NEW i \in 1 .. n, NEW j \in 1 .. n, q[i] = q[j] PROVE i = j
    BY <1>2, <1>4, <1>5, <1>7, <1>8, SMTT(60)
  <1>9. \A i \in 1 .. n - 1 : i >= at => key[p[i]] > key[n]
    BY <1>2, <1>4, <1>5, SMTT(60)
  <1>10. ASSUME NEW i \in 1 .. n, NEW j \in 1 .. n, i < j PROVE key[q[i]] <= key[q[j]]
    <2>1. CASE j < at
      BY <1>2, <1>5, <1>7, <1>10, <2>1, SMTT(60)
    <2>2. CASE j = at
      BY <1>2, <1>3, <1>7, <1>10, <2>2
    <2>3. CASE j > at
      <3>1. CASE i < at
        <4>1. j - 1 \in 1 .. n - 1 /\ i \in 1 .. n - 1 /\ i < j - 1 /\ q[j] = p[j - 1] /\ q[i] = p[i]
          BY <1>2, <1>7, <2>3, <3>1
        <4> QED BY <1>5, <4>1
      <3>2. CASE i = at
        <4>1. j - 1 \in 1 .. n - 1 /\ j - 1 >= at /\ q[j] = p[j - 1] /\ q[i] = n
          BY <1>2, <1>7, <2>3, <3>2
        <4>2. key[p[j - 1]] > key[n]
          BY <1>9, <4>1
        <4>3. key[n] \in Int /\ key[p[j - 1]] \in Int
          BY <1>4, <4>1
        <4> QED BY <4>1, <4>2, <4>3
      <3>3. CASE i > at
        <4>1. j - 1 \in 1 .. n - 1 /\ i - 1 \in 1 .. n - 1 /\ i - 1 < j - 1 /\ q[j] = p[j - 1] /\ q[i] = p[i - 1]
          BY <1>2, <1>7, <1>10, <2>3, <3>3
        <4> QED BY <1>5, <4>1
      <3> QED BY <1>2, <3>1, <3>2, <3>3
    <2> QED BY <1>2, <2>1, <2>2, <2>3
  <1> QED BY <1>6, <1>8, <1>10 DEF XlInOrder

LEMMA XlOrderExists ==
    ASSUME NEW n \in Nat, NEW key \in [1 .. n -> Int]
    PROVE  \E p : XlInOrder(key, n, p)
  <1> DEFINE bad == {m \in Nat : \E k \in [1 .. m -> Int] : ~\E p : XlInOrder(k, m, p)}
  <1>1. SUFFICES bad = {}
    OBVIOUS
  <1>2. SUFFICES ASSUME bad # {} PROVE FALSE
    OBVIOUS
  <1>3. PICK m \in bad : \A j \in bad : m <= j
    <2>1. bad \in SUBSET Nat
      OBVIOUS
    <2> HIDE DEF bad
    <2> QED BY <1>2, <2>1, Least
  <1>4. PICK k \in [1 .. m -> Int] : ~\E p : XlInOrder(k, m, p)
    BY <1>3
  <1>5. CASE m = 0
    <2>1. XlInOrder(k, 0, [i \in 1 .. 0 |-> i])
      BY DEF XlInOrder
    <2> QED BY <1>4, <1>5, <2>1
  <1>6. CASE m # 0
    <2> DEFINE h == [i \in 1 .. m - 1 |-> k[i]]
    <2>0. m \in Nat \ {0} /\ m - 1 \in Nat
      BY <1>3, <1>6
    <2>1. m - 1 \notin bad
      <3>1. ~(m <= m - 1)
        BY <2>0
      <3> HIDE DEF bad
      <3> QED BY <1>3, <3>1
    <2>2. h \in [1 .. m - 1 -> Int]
      BY <1>4, <2>0
    <2>3. PICK p : XlInOrder(h, m - 1, p)
      <3> HIDE DEF h
      <3> QED BY <2>0, <2>1, <2>2
    <2>4. XlInOrder(k, m - 1, p)
      <3>1. \A i \in 1 .. m - 1 : p[i] \in 1 .. m - 1 /\ h[p[i]] = k[p[i]]
        BY <2>3 DEF XlInOrder
      <3> HIDE DEF h
      <3> QED BY <2>3, <3>1 DEF XlInOrder
    <2> QED BY <1>4, <2>0, <2>4, XlInsert
  <1> QED BY <1>5, <1>6

LEMMA XlSortFrom ==
    ASSUME NEW list \in Seq(XlEntry)
    PROVE  XlSort(list) \in Seq(XlEntry) /\ XlFrom(XlSort(list), list)
  <1> DEFINE n == Len(list)
             key == [i \in 1 .. n |-> list[i].expiry]
             p == CHOOSE p \in XlOrders(list) :
                    \A i, j \in DOMAIN list : i < j => list[p[i]].expiry <= list[p[j]].expiry
  <1>1. n \in Nat /\ DOMAIN list = 1 .. n /\ \A i \in 1 .. n : list[i] \in XlEntry
    OBVIOUS
  <1>2. key \in [1 .. n -> Int]
    BY <1>1 DEF XlEntry
  <1> HIDE DEF n
  <1>3. PICK q : XlInOrder(key, n, q)
    BY <1>1, <1>2, XlOrderExists
  <1>4. q \in XlOrders(list)
    BY <1>1, <1>3 DEF XlOrders, XlInOrder
  <1>5. \A i, j \in DOMAIN list : i < j => list[q[i]].expiry <= list[q[j]].expiry
    <2>1. \A i \in 1 .. n : q[i] \in 1 .. n /\ key[q[i]] = list[q[i]].expiry
      BY <1>3 DEF XlInOrder
    <2> HIDE DEF key
    <2> QED BY <1>1, <1>3, <2>1, SMTT(60) DEF XlInOrder
  <1>6. p \in XlOrders(list)
    BY <1>4, <1>5
  <1>7. XlSort(list) = [i \in 1 .. n |-> list[p[i]]]
    BY <1>1 DEF XlSort
  <1> HIDE DEF p, key
  <1>8. p \in [1 .. n -> 1 .. n] /\ \A i, j \in 1 .. n : p[i] = p[j] => i = j
    BY <1>1, <1>6 DEF XlOrders
  <1>9. XlSort(list) \in Seq(XlEntry)
    BY <1>1, <1>7, <1>8, IsASeq
  <1>10. DOMAIN XlSort(list) = 1 .. n /\ \A i \in 1 .. n : XlSort(list)[i].mask = list[p[i]].mask
    BY <1>7
  <1>11. p \in [DOMAIN XlSort(list) -> DOMAIN list]
    BY <1>1, <1>8, <1>10
  <1> QED BY <1>1, <1>8, <1>9, <1>10, <1>11 DEF XlFrom

LEMMA XlSuffixFrom ==
    ASSUME NEW list \in Seq(XlEntry), NEW k \in 1 .. Len(list) + 1
    PROVE  LET t == SubSeq(list, k, Len(list)) IN t \in Seq(XlEntry) /\ XlFrom(t, list)
  <1> DEFINE n == Len(list)
             t == SubSeq(list, k, n)
             f == [i \in 1 .. n - k + 1 |-> i + k - 1]
  <1>1. t \in Seq(XlEntry) /\ DOMAIN t = 1 .. n - k + 1 /\ \A i \in 1 .. n - k + 1 : t[i] = list[k + i - 1]
    OBVIOUS
  <1>2. n \in Nat /\ DOMAIN list = 1 .. n /\ k \in 1 .. n + 1
    OBVIOUS
  <1> HIDE DEF t, n
  <1>3. f \in [DOMAIN t -> DOMAIN list]
    <2>1. \A i \in 1 .. n - k + 1 : i + k - 1 \in 1 .. n
      BY <1>2
    <2> QED BY <1>1, <1>2, <2>1
  <1>4. \A i \in DOMAIN t : f[i] = i + k - 1 /\ t[i] = list[f[i]]
    <2>1. \A i \in DOMAIN t : f[i] = i + k - 1 /\ k + i - 1 = i + k - 1
      BY <1>1, <1>2, SMTT(60)
    <2> HIDE DEF f
    <2> QED BY <1>1, <2>1
  <1>5. \A i, j \in DOMAIN t : f[i] = f[j] => i = j
    BY <1>1, <1>2, <1>4
  <1> HIDE DEF f
  <1>6. XlFrom(t, list)
    BY <1>3, <1>4, <1>5, ZenonT(60) DEF XlFrom
  <1> QED BY <1>1, <1>6 DEF t, n

LEMMA XlRemoveFrom ==
    ASSUME NEW list \in Seq(XlEntry), NEW k \in DOMAIN list
    PROVE  LET t == RemoveAt(list, k) IN t \in Seq(XlEntry) /\ XlFrom(t, list)
  <1> DEFINE n == Len(list)
             t == RemoveAt(list, k)
             a == SubSeq(list, 1, k - 1)
             b == SubSeq(list, k + 1, n)
             f == [i \in 1 .. n - 1 |-> IF i < k THEN i ELSE i + 1]
  <1>1. n \in Nat /\ DOMAIN list = 1 .. n /\ k \in 1 .. n
    OBVIOUS
  <1>2. a \in Seq(XlEntry) /\ Len(a) = k - 1 /\ \A i \in 1 .. k - 1 : a[i] = list[i]
    BY <1>1
  <1>3. b \in Seq(XlEntry) /\ Len(b) = n - k /\ \A i \in 1 .. n - k : b[i] = list[k + i]
    BY <1>1
  <1>4. t = a \o b
    BY DEF RemoveAt
  <1> HIDE DEF a, b, t, n
  <1>5. t \in Seq(XlEntry) /\ DOMAIN t = 1 .. n - 1
        /\ \A i \in 1 .. n - 1 : t[i] = IF i <= k - 1 THEN a[i] ELSE b[i - (k - 1)]
    BY <1>1, <1>2, <1>3, <1>4
  <1>6. f \in [DOMAIN t -> DOMAIN list]
    BY <1>1, <1>5
  <1>7. ASSUME NEW i \in DOMAIN t
        PROVE  f[i] = (IF i < k THEN i ELSE i + 1) /\ t[i] = list[f[i]]
    <2>1. i \in 1 .. n - 1 /\ f[i] = IF i < k THEN i ELSE i + 1
      BY <1>5
    <2> HIDE DEF f
    <2>2. CASE i < k
      BY <1>1, <1>2, <1>5, <2>1, <2>2
    <2>3. CASE ~(i < k)
      <3>1. i - (k - 1) \in 1 .. n - k /\ k + (i - (k - 1)) = i + 1 /\ ~(i <= k - 1)
        BY <1>1, <2>1, <2>3
      <3>2. t[i] = b[i - (k - 1)]
        BY <1>5, <2>1, <3>1
      <3>3. b[i - (k - 1)] = list[k + (i - (k - 1))]
        BY <1>3, <3>1
      <3> QED BY <2>1, <2>3, <3>1, <3>2, <3>3
    <2> QED BY <2>2, <2>3
  <1>8. \A i, j \in DOMAIN t : f[i] = f[j] => i = j
    BY <1>1, <1>5, <1>7
  <1> HIDE DEF f
  <1> QED BY <1>5, <1>6, <1>7, <1>8 DEF XlFrom, t

\* What follows for the masks.
LEMMA XlFromOnce ==
    ASSUME NEW t, NEW s, NEW perm, XlFrom(t, s), XlOnce(s, perm)
    PROVE  XlOnce(t, perm) /\ XlMasksOf(t) \subseteq XlMasksOf(s)
  BY DEF XlFrom, XlOnce, XlMasksOf

LEMMA XlAddOnce ==
    ASSUME NEW list \in Seq(XlEntry), NEW perm, XlOnce(list, perm), NEW e \in XlEntry,
           e.mask \notin XlMasksOf(list) \cup perm
    PROVE  XlSort(Append(list, e)) \in Seq(XlEntry) /\ XlOnce(XlSort(Append(list, e)), perm)
  <1> DEFINE more == Append(list, e)
  <1>1. more \in Seq(XlEntry) /\ DOMAIN more = 1 .. Len(list) + 1 /\ DOMAIN list = 1 .. Len(list)
        /\ more[Len(list) + 1] = e /\ \A i \in 1 .. Len(list) : more[i] = list[i]
    OBVIOUS
  <1> HIDE DEF more
  <1>2. XlOnce(more, perm)
    <2>1. \A i \in DOMAIN more : i \in DOMAIN list \/ i = Len(list) + 1
      BY <1>1
    <2>2. \A i \in DOMAIN list : list[i].mask # e.mask /\ more[i] = list[i]
      BY <1>1 DEF XlMasksOf
    <2>3. e.mask \notin perm /\ more[Len(list) + 1] = e
      BY <1>1
    <2> QED BY <2>1, <2>2, <2>3 DEF XlOnce
  <1> QED BY <1>1, <1>2, XlSortFrom, XlFromOnce DEF more

\* Only times are set.
LEMMA XlDated ==
    ASSUME NEW list \in Seq(XlEntry), NEW perm, XlOnce(list, perm), NEW time \in [DOMAIN list -> Int]
    PROVE  LET t == [i \in DOMAIN list |-> [list[i] EXCEPT !.expiry = time[i]]]
           IN t \in Seq(XlEntry) /\ XlOnce(t, perm) /\ XlMasksOf(t) = XlMasksOf(list)
  <1> DEFINE n == Len(list)
             t == [i \in DOMAIN list |-> [list[i] EXCEPT !.expiry = time[i]]]
  <1>1. n \in Nat /\ DOMAIN list = 1 .. n /\ DOMAIN t = 1 .. n /\ \A i \in 1 .. n : list[i] \in XlEntry
    OBVIOUS
  <1> HIDE DEF n
  <1>2. ASSUME NEW i \in 1 .. n PROVE t[i] \in XlEntry /\ t[i].mask = list[i].mask
    <2>1. list[i] \in XlEntry /\ time[i] \in Int /\ t[i] = [list[i] EXCEPT !.expiry = time[i]]
      BY <1>1, <1>2
    <2>2. PICK m \in XlMasks, d \in Nat, x \in Int : list[i] = [mask |-> m, duration |-> d, expiry |-> x]
      BY <2>1 DEF XlEntry
    <2>3. t[i] = [mask |-> m, duration |-> d, expiry |-> time[i]]
      BY <2>1, <2>2
    <2> QED BY <2>1, <2>2, <2>3 DEF XlEntry
  <1>3. t = [i \in 1 .. n |-> t[i]]
    BY <1>1
  <1> HIDE DEF t
  <1>7. \A i \in 1 .. n : t[i].mask = list[i].mask
    BY <1>2
  <1>4. t \in Seq(XlEntry)
    BY <1>1, <1>2, <1>3, IsASeq
  <1>5. XlOnce(t, perm)
    BY <1>1, <1>7 DEF XlOnce
  <1>6. XlMasksOf(t) = XlMasksOf(list)
    BY <1>1, <1>7 DEF XlMasksOf
  <1> QED BY <1>4, <1>5, <1>6 DEF t

LEMMA XlHasMask ==
    ASSUME NEW l, NEW mask, ~XlHas(l, mask)
    PROVE  mask \notin XlMasksOf(xl_timed[l]) \cup xl_perm[l]
  BY DEF XlHas, XlMasksOf

\* add_gline: a list gets one line more.
LEMMA XlAddLists ==
    ASSUME XlKept, NEW l \in XlKinds, NEW mask \in XlMasks, NEW duration \in XlDurations, ~XlHas(l, mask),
           XlAdd(l, mask, duration)
    PROVE  /\ XlListsOK(xl_timed', xl_perm')
           /\ duration = 0 => xl_timed' = xl_timed
           /\ \A k \in XlKinds \ {l} : xl_timed'[k] = xl_timed[k] /\ xl_perm'[k] = xl_perm[k]
  <1> DEFINE e == [mask |-> mask, duration |-> duration, expiry |-> duration]
  <1>1. XlListsOK(xl_timed, xl_perm) /\ mask \notin XlMasksOf(xl_timed[l]) \cup xl_perm[l]
    BY XlHasMask DEF XlKept
  <1>2. CASE duration = 0
    <2>1. xl_timed' = xl_timed /\ xl_perm' = [xl_perm EXCEPT ![l] = @ \cup {mask}]
      BY <1>2 DEF XlAdd
    <2>2. /\ xl_perm' \in [XlKinds -> SUBSET XlMasks] /\ xl_perm'[l] = xl_perm[l] \cup {mask}
          /\ \A k \in XlKinds \ {l} : xl_perm'[k] = xl_perm[k]
      BY <1>1, <2>1 DEF XlListsOK
    <2>3. XlOnce(xl_timed[l], xl_perm'[l])
      BY <1>1, <2>2 DEF XlListsOK, XlOnce, XlMasksOf
    <2>4. XlListsOK(xl_timed, xl_perm')
      BY <1>1, <2>2, <2>3 DEF XlListsOK
    <2> QED BY <1>2, <2>1, <2>2, <2>4
  <1>3. CASE duration # 0
    <2>1. xl_timed' = [xl_timed EXCEPT ![l] = XlSort(Append(xl_timed[l], e))] /\ xl_perm' = xl_perm
      BY <1>3 DEF XlAdd
    <2>2. e \in XlEntry /\ e.mask = mask
      <3>1. duration \in Nat /\ duration \in Int
        BY XLinesOK
      <3> QED BY <3>1 DEF XlEntry
    <2> HIDE DEF e
    <2>3. XlSort(Append(xl_timed[l], e)) \in Seq(XlEntry) /\ XlOnce(XlSort(Append(xl_timed[l], e)), xl_perm[l])
      BY <1>1, <2>2, XlAddOnce DEF XlListsOK
    <2> QED BY <1>1, <1>3, <2>1, <2>3 DEF XlListsOK
  <1> QED BY <1>2, <1>3

-----------------------------------------------------------------------------
(* When the lines stay enforced *)

\* apply_lines holds all lines against all clients.
LEMMA XlAppliedStep ==
    ASSUME XlKept, UNCHANGED <<xl_kind, xl_clients>>, XlListsOK(xl_timed', xl_perm'), XlApply(xl_timed', xl_perm')
    PROVE  XlKept'
  <1>1. UNCHANGED <<xl_kind, xl_state, xl_named, xl_found, xl_exempt>>
    BY DEF xl_clients
  <1>2. XlClientsOK'
    BY <1>1 DEF XlKept, XlClientsOK, XlApply
  <1>3. ASSUME NEW u \in XlUsers, XlHeld(u)', XlBanned(u, xl_timed, xl_perm)' PROVE XlOut(u)'
    <2>1. xl_state[u] # "gone" /\ u \notin xl_queued'
      BY <1>1, <1>3 DEF XlHeld
    <2>2. XlBanned(u, xl_timed', xl_perm')
      BY <1>1, <1>3 DEF XlBanned, XlActive, XlCovers
    <2> QED BY <2>1, <2>2 DEF XlApply, XlOut
  <1> QED BY <1>2, <1>3 DEF XlKept

\* What has been added waits for the end of a burst, or was forgotten.
LEMMA XlExcusedStep ==
    ASSUME XlKept, UNCHANGED <<xl_kind, xl_clients, xl_excused>>, XlListsOK(xl_timed', xl_perm'),
           xl_pending' \/ xl_lost'
    PROVE  XlKept'
  BY DEF XlKept, XlClientsOK, XlOut, xl_clients

\* No line against clients is added.
LEMMA XlFewerStep ==
    ASSUME XlKept, UNCHANGED <<xl_kind, xl_clients, xl_excused>>, XlListsOK(xl_timed', xl_perm'),
           \A mask : mask \in XlActive("ban", xl_timed', xl_perm') => mask \in XlActive("ban", xl_timed, xl_perm),
           xl_queued \subseteq xl_queued', xl_pending \/ xl_lost => xl_pending' \/ xl_lost'
    PROVE  XlKept'
  <1>1. UNCHANGED <<xl_kind, xl_state, xl_named, xl_found, xl_exempt>>
    BY DEF xl_clients
  <1>2. XlClientsOK'
    BY <1>1 DEF XlKept, XlClientsOK
  <1>3. ASSUME NEW u \in XlUsers, XlHeld(u)', XlBanned(u, xl_timed, xl_perm)' PROVE XlOut(u)'
    <2>1. XlHeld(u)
      BY <1>1, <1>3 DEF XlHeld
    <2>2. XlBanned(u, xl_timed, xl_perm)
      BY <1>1, <1>3 DEF XlBanned, XlCovers
    <2> QED BY <2>1, <2>2 DEF XlKept, XlOut
  <1> QED BY <1>2, <1>3 DEF XlKept

-----------------------------------------------------------------------------
(* Steps *)

LEMMA XlInitKept == XLinesInit => XlKept
  <1> SUFFICES ASSUME XLinesInit PROVE XlKept
    OBVIOUS
  <1>1. XlListsOK(xl_timed, xl_perm)
    BY DEF XLinesInit, XlListsOK, XlKinds, XlOnce
  <1>2. XlClientsOK
    BY DEF XLinesInit, XlClientsOK
  <1>3. \A u \in XlUsers : ~XlHeld(u)
    BY DEF XLinesInit, XlHeld
  <1> QED BY <1>1, <1>2, <1>3 DEF XlKept

LEMMA XlBanKept ==
    ASSUME XlKept, NEW mask \in XlMasks, NEW duration \in XlDurations, XlBan(mask, duration)
    PROVE  XlKept'
  <1>1. ~XlHas("ban", mask) /\ XlAdd("ban", mask, duration) /\ UNCHANGED <<xl_kind, xl_clients, xl_pending, xl_lost>>
    BY DEF XlBan
  <1>2. XlListsOK(xl_timed', xl_perm') /\ (duration = 0 => xl_timed' = xl_timed)
    <2>1. "ban" \in XlKinds
      BY DEF XlKinds
    <2> QED BY <1>1, <2>1, XlAddLists
  <1>3. CASE duration # 0
    BY <1>1, <1>2, <1>3, XlAppliedStep DEF XlBan
  <1>4. CASE duration = 0
    <2> DEFINE none == [l \in {"ban", "E"} |-> <<>>]
    <2>1. XlApply(none, xl_perm')
      BY <1>4 DEF XlBan
    <2>2. UNCHANGED <<xl_kind, xl_state, xl_named, xl_found, xl_exempt>>
      BY <1>1 DEF xl_clients
    <2>3. XlClientsOK'
      BY <2>1, <2>2 DEF XlKept, XlClientsOK, XlApply
    <2>4. ASSUME NEW u \in XlUsers, XlHeld(u)', XlBanned(u, xl_timed, xl_perm)' PROVE XlOut(u)'
      <3>1. xl_state[u] # "gone" /\ u \notin xl_queued' /\ u \notin xl_queued /\ XlHeld(u)
        BY <2>1, <2>2, <2>4 DEF XlHeld, XlApply
      <3>2. PICK m \in XlActive("ban", xl_timed', xl_perm') : XlCovers(m, u)
        BY <2>2, <2>4 DEF XlBanned, XlCovers
      <3>3. CASE m \in xl_perm'["ban"]
        <4>1. m \in XlActive("ban", none, xl_perm')
          BY <3>3 DEF XlActive
        <4>2. XlBanned(u, none, xl_perm')
          BY <3>2, <4>1 DEF XlBanned
        <4> QED BY <2>1, <3>1, <4>2 DEF XlApply, XlOut
      <3>4. CASE m \notin xl_perm'["ban"]
        <4>1. m \in XlActive("ban", xl_timed, xl_perm)
          BY <1>2, <1>4, <3>2, <3>4 DEF XlActive
        <4>2. XlOut(u)
          BY <3>1, <3>2, <4>1 DEF XlKept, XlBanned
        <4> QED BY <1>1, <2>1, <4>2 DEF XlOut, XlApply
      <3> QED BY <3>3, <3>4
    <2> QED BY <1>2, <2>3, <2>4 DEF XlKept
  <1> QED BY <1>3, <1>4

LEMMA XlExceptKept ==
    ASSUME XlKept, NEW mask \in XlMasks, NEW duration \in XlDurations, XlExcept(mask, duration)
    PROVE  XlKept'
  <1>1. ~XlHas("E", mask) /\ XlAdd("E", mask, duration) /\ UNCHANGED <<xl_kind, xl_clients, xl_queued, xl_pending, xl_excused, xl_lost>>
    BY DEF XlExcept
  <1>2. "E" \in XlKinds /\ "ban" \in XlKinds \ {"E"}
    BY DEF XlKinds
  <1>3. XlListsOK(xl_timed', xl_perm') /\ xl_timed'["ban"] = xl_timed["ban"] /\ xl_perm'["ban"] = xl_perm["ban"]
    BY <1>1, <1>2, XlAddLists
  <1> QED BY <1>1, <1>3, XlFewerStep DEF XlActive

LEMMA XlDelKept ==
    ASSUME XlKept, NEW mask \in XlMasks, NEW l \in XlKinds, XlDel(l, mask)
    PROVE  XlKept'
  <1> DEFINE at == {i \in DOMAIN xl_timed[l] : xl_timed[l][i].mask = mask}
             k == CHOOSE i \in at : \A j \in at : i <= j
  <1>1. XlListsOK(xl_timed, xl_perm) /\ xl_timed[l] \in Seq(XlEntry) /\ XlOnce(xl_timed[l], xl_perm[l])
    BY DEF XlKept, XlListsOK
  <1>2. UNCHANGED <<xl_kind, xl_clients, xl_queued, xl_pending, xl_excused, xl_lost>>
    BY DEF XlDel
  <1>3. "ban" \in XlKinds
    BY DEF XlKinds
  <1>4. CASE at # {}
    <2>1. xl_timed' = [xl_timed EXCEPT ![l] = RemoveAt(xl_timed[l], k)] /\ xl_perm' = xl_perm
      BY <1>4 DEF XlDel
    <2>2. k \in DOMAIN xl_timed[l]
      <3>1. at \in SUBSET Nat
        BY <1>1
      <3>2. k \in at
        <4> HIDE DEF at
        <4> QED BY <1>4, <3>1, Least
      <3> QED BY <3>2
    <2> HIDE DEF k
    <2>3. /\ RemoveAt(xl_timed[l], k) \in Seq(XlEntry) /\ XlOnce(RemoveAt(xl_timed[l], k), xl_perm[l])
          /\ XlMasksOf(RemoveAt(xl_timed[l], k)) \subseteq XlMasksOf(xl_timed[l])
      BY <1>1, <2>2, XlRemoveFrom, XlFromOnce
    <2>4. XlListsOK(xl_timed', xl_perm')
      BY <1>1, <2>1, <2>3 DEF XlListsOK
    <2>5. XlMasksOf(xl_timed'["ban"]) \subseteq XlMasksOf(xl_timed["ban"])
      BY <1>1, <1>3, <2>1, <2>3 DEF XlListsOK
    <2> QED BY <1>2, <2>1, <2>4, <2>5, XlFewerStep DEF XlActive, XlMasksOf
  <1>5. CASE at = {}
    <2>1. xl_perm' = [xl_perm EXCEPT ![l] = @ \ {mask}] /\ xl_timed' = xl_timed
      BY <1>5 DEF XlDel
    <2>2. XlListsOK(xl_timed', xl_perm')
      BY <1>1, <2>1 DEF XlListsOK, XlOnce
    <2>3. xl_perm'["ban"] \subseteq xl_perm["ban"]
      BY <1>1, <1>3, <2>1 DEF XlListsOK
    <2> QED BY <1>2, <2>1, <2>2, <2>3, XlFewerStep DEF XlActive
  <1> QED BY <1>4, <1>5

LEMMA XlAddLineKept ==
    ASSUME XlKept, NEW s \in XlLinks, NEW l \in XlKinds, NEW mask \in XlMasks, NEW duration \in XlDurations,
           NEW age \in XlAges, XlAddLine(s, l, mask, duration, age)
    PROVE  XlKept'
  <1> DEFINE new == ~XlHas(l, mask)
             waits == (IF s \in xl_bursting THEN xl_pending ELSE FALSE) \/ (new /\ l = "ban")
             e == [mask |-> mask, duration |-> duration, expiry |-> duration]
             list == Append(xl_timed[l], e)
             added == IF new /\ duration # 0 THEN [xl_timed EXCEPT ![l] = XlSort(list)] ELSE xl_timed
             perm == IF new /\ duration = 0 THEN [xl_perm EXCEPT ![l] = @ \cup {mask}] ELSE xl_perm
             time == [i \in DOMAIN added[l] |->
                        IF added[l][i].mask = mask THEN added[l][i].duration - age ELSE added[l][i].expiry]
             dated == [i \in DOMAIN added[l] |-> [added[l][i] EXCEPT !.expiry = time[i]]]
  <1>1. /\ xl_timed' = IF l = "ban" /\ xl_kind = "K" THEN added ELSE XlCreatedAt(added, l, mask, age)
        /\ xl_perm' = perm
        /\ xl_lost' = (xl_lost \/ (s \notin xl_bursting /\ xl_pending))
        /\ IF s \in xl_bursting
           THEN xl_pending' = waits /\ UNCHANGED <<xl_queued, xl_excused>>
           ELSE /\ xl_pending' = FALSE
                /\ IF waits THEN XlApply(xl_timed', xl_perm') ELSE UNCHANGED <<xl_queued, xl_excused>>
        /\ UNCHANGED <<xl_kind, xl_clients, xl_bursting>>
    BY DEF XlAddLine
  <1>2. XlListsOK(xl_timed, xl_perm) /\ (new => mask \notin XlMasksOf(xl_timed[l]) \cup xl_perm[l])
    BY XlHasMask DEF XlKept
  <1>3. /\ XlListsOK(added, perm)
        /\ l # "ban" \/ ~new => added["ban"] = xl_timed["ban"] /\ perm["ban"] = xl_perm["ban"]
    <2>1. "ban" \in XlKinds
      BY DEF XlKinds
    <2>2. CASE ~new
      BY <1>2, <2>2
    <2>3. CASE new /\ duration = 0
      <3>1. /\ perm \in [XlKinds -> SUBSET XlMasks] /\ perm[l] = xl_perm[l] \cup {mask}
            /\ \A k \in XlKinds \ {l} : perm[k] = xl_perm[k]
        BY <1>2, <2>3 DEF XlListsOK
      <3>2. added = xl_timed
        BY <2>3
      <3> HIDE DEF added, perm, new
      <3>3. XlOnce(xl_timed[l], perm[l])
        BY <1>2, <2>3, <3>1 DEF XlListsOK, XlOnce, XlMasksOf
      <3> QED BY <1>2, <2>1, <2>3, <3>1, <3>2, <3>3 DEF XlListsOK
    <2>4. CASE new /\ duration # 0
      <3>1. e \in XlEntry /\ e.mask = mask
        <4>1. duration \in Nat /\ duration \in Int
          BY XLinesOK
        <4> QED BY <4>1 DEF XlEntry
      <3> HIDE DEF e
      <3>2. XlSort(list) \in Seq(XlEntry) /\ XlOnce(XlSort(list), xl_perm[l])
        BY <1>2, <2>4, <3>1, XlAddOnce DEF XlListsOK
      <3> HIDE DEF list
      <3>3. added = [xl_timed EXCEPT ![l] = XlSort(list)] /\ perm = xl_perm
        BY <2>4
      <3> HIDE DEF added, perm, new
      <3> QED BY <1>2, <2>1, <2>4, <3>2, <3>3 DEF XlListsOK
    <2> QED BY <2>2, <2>3, <2>4
  <1> HIDE DEF added, perm, list, e, new
  <1>4. /\ added[l] \in Seq(XlEntry) /\ XlOnce(added[l], perm[l])
        /\ time \in [DOMAIN added[l] -> Int]
    <2>1. added[l] \in Seq(XlEntry) /\ XlOnce(added[l], perm[l])
      BY <1>3 DEF XlListsOK
    <2>2. \A i \in DOMAIN added[l] : added[l][i] \in XlEntry
      BY <2>1
    <2>3. \A i \in DOMAIN added[l] : added[l][i].duration - age \in Int /\ added[l][i].expiry \in Int
      BY <2>2, XLinesOK DEF XlEntry
    <2> QED BY <2>1, <2>3
  <1>5. dated \in Seq(XlEntry) /\ XlOnce(dated, perm[l]) /\ XlMasksOf(dated) = XlMasksOf(added[l])
    <2> HIDE DEF time
    <2> QED BY <1>4, XlDated
  <1>6. XlCreatedAt(added, l, mask, age) = [added EXCEPT ![l] = dated]
    <2>1. \A i \in DOMAIN added[l] :
            [added[l][i] EXCEPT !.expiry = IF added[l][i].mask = mask THEN added[l][i].duration - age ELSE @]
            = [added[l][i] EXCEPT !.expiry = time[i]]
      BY <1>4
    <2> HIDE DEF time
    <2>2. dated = [i \in DOMAIN added[l] |->
            [added[l][i] EXCEPT !.expiry = IF added[l][i].mask = mask THEN added[l][i].duration - age ELSE @]]
      BY <2>1
    <2> HIDE DEF dated
    <2> QED BY <2>2 DEF XlCreatedAt
  <1> HIDE DEF dated, time
  <1>7. XlListsOK(xl_timed', xl_perm') /\ XlMasksOf(xl_timed'["ban"]) = XlMasksOf(added["ban"])
    <2>1. CASE xl_timed' = added
      BY <1>1, <1>3, <2>1
    <2>2. CASE xl_timed' = [added EXCEPT ![l] = dated]
      BY <1>1, <1>3, <1>5, <2>2 DEF XlListsOK, XlKinds
    <2> QED BY <1>1, <1>6, <2>1, <2>2
  <1>8. ASSUME l # "ban" \/ ~new, NEW m, m \in XlActive("ban", xl_timed', xl_perm') PROVE m \in XlActive("ban", xl_timed, xl_perm)
    BY <1>1, <1>3, <1>7, <1>8 DEF XlActive, XlMasksOf
  <1>9. CASE s \in xl_bursting
    <2>1. CASE waits
      BY <1>1, <1>7, <1>9, <2>1, XlExcusedStep
    <2>2. CASE ~waits
      BY <1>1, <1>7, <1>8, <1>9, <2>2, XlFewerStep
    <2> QED BY <2>1, <2>2
  <1>10. CASE s \notin xl_bursting
    <2>1. CASE waits
      BY <1>1, <1>7, <1>10, <2>1, XlAppliedStep
    <2>2. CASE ~waits
      BY <1>1, <1>7, <1>8, <1>10, <2>2, XlFewerStep
    <2> QED BY <2>1, <2>2
  <1> QED BY <1>9, <1>10

LEMMA XlBurstKept ==
    ASSUME XlKept, NEW s \in XlLinks, XlBurst(s) \/ XlEndBurst(s) \/ XlLinkLost(s)
    PROVE  XlKept'
  <1>1. UNCHANGED <<xl_kind, xl_timed, xl_perm, xl_clients, xl_lost>>
    BY DEF XlBurst, XlEndBurst, XlLinkLost, xl_lists
  <1>2. XlListsOK(xl_timed', xl_perm')
    BY <1>1 DEF XlKept
  <1>3. CASE UNCHANGED <<xl_queued, xl_excused, xl_pending>>
    BY <1>1, <1>2, <1>3, XlFewerStep
  <1>4. CASE XlEndBurst(s) /\ xl_pending
    BY <1>1, <1>2, <1>4, XlAppliedStep DEF XlEndBurst
  <1>5. CASE XlEndBurst(s) /\ ~xl_pending
    BY <1>1, <1>2, <1>5, XlFewerStep DEF XlEndBurst
  <1> QED BY <1>3, <1>4, <1>5 DEF XlBurst, XlLinkLost

\* The clients change, the lines do not.
LEMMA XlClientKept ==
    ASSUME XlKept, NEW u \in XlUsers, XlConnect(u) \/ XlResolve(u) \/ XlNick(u) \/ XlFullConnect(u) \/ XlQuit(u)
    PROVE  XlKept'
  <1>1. UNCHANGED <<xl_kind, xl_timed, xl_perm, xl_pending, xl_lost>>
    BY DEF XlConnect, XlResolve, XlNick, XlFullConnect, XlQuit, xl_lists, xl_clients
  <1>2. XlListsOK(xl_timed', xl_perm') /\ XlClientsOK
    BY <1>1 DEF XlKept
  <1>3. XlClientsOK'
    <2>1. CASE XlConnect(u)
      BY <1>1, <1>2, <2>1 DEF XlConnect, XlClientsOK, XlExcepted
    <2>2. CASE XlResolve(u) \/ XlNick(u)
      BY <1>1, <1>2, <2>2 DEF XlResolve, XlNick, XlClientsOK
    <2>3. CASE XlFullConnect(u) \/ XlQuit(u)
      BY <1>1, <1>2, <2>3 DEF XlFullConnect, XlQuit, XlClientsOK, xl_clients
    <2> QED BY <2>1, <2>2, <2>3
  <1>4. ASSUME NEW v \in XlUsers, v # u PROVE (XlHeld(v) /\ XlBanned(v, xl_timed, xl_perm) => XlOut(v))'
    <2>1. /\ xl_state'[v] = xl_state[v] /\ xl_named'[v] = xl_named[v] /\ xl_found'[v] = xl_found[v]
          /\ v \in xl_queued' <=> v \in xl_queued
          /\ v \in xl_excused' <=> v \in xl_excused
      BY <1>2, <1>4 DEF XlClientsOK, XlConnect, XlResolve, XlNick, XlFullConnect, XlQuit, xl_clients
    <2>2. XlHeld(v)' => XlHeld(v)
      BY <1>1, <2>1 DEF XlHeld
    <2>3. XlBanned(v, xl_timed, xl_perm)' => XlBanned(v, xl_timed, xl_perm)
      BY <1>1, <2>1 DEF XlBanned, XlCovers
    <2> QED BY <1>1, <2>1, <2>2, <2>3 DEF XlKept, XlOut
  <1>5. (XlHeld(u) /\ XlBanned(u, xl_timed, xl_perm) => XlOut(u))'
    <2> SUFFICES ASSUME XlHeld(u)', XlBanned(u, xl_timed, xl_perm)' PROVE XlOut(u)'
      OBVIOUS
    <2>1. PICK m \in XlActive("ban", xl_timed, xl_perm) : XlCovers(m, u)'
      BY <1>1 DEF XlBanned
    <2>2. CASE XlConnect(u)
      <3>1. xl_state'[u] = "waiting" /\ ~xl_named'[u] /\ ~xl_found'[u] /\ xl_kind \in {"Z", "Q"}
        BY <1>1, <1>2, <2>2 DEF XlConnect, XlClientsOK, XlHeld
      <3>2. xl_kind = "Z" /\ m \notin XlByHost
        BY <1>1, <2>1, <3>1 DEF XlCovers
      <3>3. XlBanned(u, xl_timed, xl_perm)
        BY <2>1, <3>2 DEF XlBanned, XlCovers
      <3>4. u \in xl_queued' \/ u \in xl_excused'
        BY <2>2, <3>2, <3>3 DEF XlConnect
      <3> QED BY <3>4 DEF XlHeld, XlOut
    <2>3. CASE XlResolve(u)
      <3>1. xl_state[u] = "waiting" /\ xl_kind \in {"Z", "Q"} /\ XlHeld(u) /\ xl_named'[u] = xl_named[u]
        BY <1>1, <2>3 DEF XlResolve, XlHeld
      <3>2. XlBanned(u, xl_timed, xl_perm)
        BY <1>1, <2>1, <3>1 DEF XlBanned, XlCovers
      <3> QED BY <1>1, <2>3, <3>1, <3>2 DEF XlKept, XlOut, XlResolve
    <2>4. CASE XlNick(u)
      <3>1. xl_named[u] \/ XlActive("ban", xl_timed, xl_perm) = {}
        BY <2>4 DEF XlNick
      <3>2. xl_kind = "Q" /\ xl_named'[u] = ~xl_named[u]
        BY <1>2, <2>4 DEF XlNick, XlClientsOK
      <3> QED BY <1>1, <2>1, <3>1, <3>2 DEF XlCovers
    <2>5. CASE XlFullConnect(u)
      <3>1. /\ xl_state[u] = "waiting" /\ u \notin xl_queued /\ UNCHANGED <<xl_named, xl_found, xl_excused>>
            /\ u \notin xl_queued'
        BY <2>5 DEF XlFullConnect, XlHeld
      <3>2. XlBanned(u, xl_timed, xl_perm)
        BY <1>1, <2>1, <3>1 DEF XlBanned, XlCovers
      <3>3. CASE xl_kind \in {"G", "K"}
        <4>1. xl_exempt[u]
          BY <2>5, <3>1, <3>2, <3>3 DEF XlFullConnect
        <4> QED BY <1>2, <3>1, <4>1 DEF XlClientsOK, XlOut
      <3>4. CASE xl_kind \in {"Z", "Q"}
        BY <1>1, <3>1, <3>2, <3>4 DEF XlKept, XlHeld, XlOut
      <3> QED BY <1>2, <3>3, <3>4 DEF XlClientsOK
    <2>6. CASE XlQuit(u)
      BY <2>6 DEF XlQuit, XlHeld
    <2> QED BY <2>2, <2>3, <2>4, <2>5, <2>6
  <1> QED BY <1>2, <1>3, <1>4, <1>5 DEF XlKept

LEMMA XlFloodKept ==
    ASSUME XlKept, NEW u \in XlUsers, NEW mask \in XlMasks, NEW duration \in XlDurations, XlFlood(u, mask, duration)
    PROVE  XlKept'
  <1>1. UNCHANGED <<xl_kind, xl_state, xl_named, xl_found, xl_exempt, xl_pending, xl_lost>>
    BY DEF XlFlood, xl_clients
  <1>2. XlListsOK(xl_timed', xl_perm')
    <2>1. CASE XlHas("ban", mask)
      BY <2>1 DEF XlFlood, XlKept, xl_lists
    <2>2. CASE ~XlHas("ban", mask)
      <3>1. "ban" \in XlKinds /\ XlAdd("ban", mask, duration)
        BY <2>2 DEF XlKinds, XlFlood
      <3> QED BY <2>2, <3>1, XlAddLists
    <2> QED BY <2>1, <2>2
  <1>3. XlClientsOK'
    BY <1>1 DEF XlKept, XlClientsOK, XlFlood
  <1>4. \A v \in XlUsers : xl_state[v] # "gone" => v \in xl_queued' \/ v \in xl_excused'
    BY DEF XlFlood
  <1>5. \A v \in XlUsers : XlHeld(v)' => XlOut(v)'
    BY <1>1, <1>4 DEF XlHeld, XlOut
  <1> QED BY <1>2, <1>3, <1>5 DEF XlKept

LEMMA XlCullKept ==
    ASSUME XlKept, XlCull
    PROVE  XlKept'
  <1>1. UNCHANGED <<xl_kind, xl_timed, xl_perm, xl_pending, xl_lost>>
    BY DEF XlCull, xl_lists
  <1>2. XlListsOK(xl_timed', xl_perm')
    BY <1>1 DEF XlKept
  <1>3. XlClientsOK'
    BY <1>1 DEF XlKept, XlClientsOK, XlCull
  <1>4. ASSUME NEW v \in XlUsers, XlHeld(v)', XlBanned(v, xl_timed, xl_perm)' PROVE XlOut(v)'
    <2>1. v \notin xl_queued /\ XlHeld(v)
      BY <1>1, <1>4 DEF XlCull, XlHeld
    <2>2. xl_named'[v] = xl_named[v] /\ xl_found'[v] = xl_found[v]
      BY <2>1 DEF XlCull, XlKept, XlClientsOK
    <2>3. XlBanned(v, xl_timed, xl_perm)
      BY <1>1, <1>4, <2>2 DEF XlBanned, XlCovers
    <2>4. XlOut(v)
      BY <2>1, <2>3 DEF XlKept
    <2> QED BY <1>1, <2>1, <2>4 DEF XlOut, XlCull
  <1> QED BY <1>2, <1>3, <1>4 DEF XlKept

LEMMA XlTimeKept ==
    ASSUME XlKept, XlTick \/ XlExpire
    PROVE  XlKept'
  <1>1. UNCHANGED <<xl_kind, xl_perm, xl_clients, xl_queued, xl_pending, xl_excused, xl_lost>>
    BY DEF XlTick, XlExpire
  <1>2. XlListsOK(xl_timed, xl_perm)
    BY DEF XlKept
  <1>3. ASSUME NEW l \in XlKinds
        PROVE  /\ xl_timed'[l] \in Seq(XlEntry) /\ XlOnce(xl_timed'[l], xl_perm[l])
               /\ XlMasksOf(xl_timed'[l]) \subseteq XlMasksOf(xl_timed[l])
    <2> DEFINE list == xl_timed[l]
    <2>1. list \in Seq(XlEntry) /\ XlOnce(list, xl_perm[l])
      BY <1>2 DEF XlListsOK
    <2>2. CASE XlTick
      <3> DEFINE time == [i \in DOMAIN list |-> IF list[i].expiry >= 0 THEN list[i].expiry - 1 ELSE list[i].expiry]
      <3>1. xl_timed'[l] = [i \in DOMAIN list |-> [list[i] EXCEPT !.expiry = IF @ >= 0 THEN @ - 1 ELSE @]]
        BY <2>2 DEF XlTick, XlKinds
      <3>2. time \in [DOMAIN list -> Int]
        <4>1. \A i \in DOMAIN list : list[i] \in XlEntry
          BY <2>1
        <4>2. \A i \in DOMAIN list : list[i].expiry \in Int
          BY <4>1 DEF XlEntry
        <4> QED BY <4>2
      <3>3. \A i \in DOMAIN list : [list[i] EXCEPT !.expiry = IF @ >= 0 THEN @ - 1 ELSE @] = [list[i] EXCEPT !.expiry = time[i]]
        OBVIOUS
      <3> HIDE DEF time, list
      <3> DEFINE dated == [i \in DOMAIN list |-> [list[i] EXCEPT !.expiry = time[i]]]
                 perm == xl_perm[l]
      <3>4. xl_timed'[l] = dated
        BY <3>1, <3>3
      <3>5. XlOnce(list, perm)
        BY <2>1
      <3> HIDE DEF perm
      <3>6. dated \in Seq(XlEntry) /\ XlOnce(dated, perm) /\ XlMasksOf(dated) = XlMasksOf(list)
        BY <2>1, <3>2, <3>5, XlDated
      <3> HIDE DEF dated
      <3> QED BY <3>4, <3>6 DEF perm, list
    <2>3. CASE XlExpire
      <3> DEFINE late == {i \in DOMAIN list : list[i].expiry >= 0}
                 some == late \cup {Len(list) + 1}
                 stop == CHOOSE i \in some : \A j \in some : i <= j
                 old == CHOOSE i \in some : \A j \in late : i <= j
      <3>1. xl_timed'[l] = IF XlFront(list) THEN SubSeq(list, old, Len(list)) ELSE list
        BY <2>3 DEF XlExpire, XlKinds
      <3>2. some \in SUBSET Nat /\ some # {} /\ late \subseteq 1 .. Len(list) /\ Len(list) \in Nat
        BY <2>1, SMTT(60)
      <3>3. stop \in some /\ \A j \in some : stop <= j
        <4> HIDE DEF some
        <4> QED BY <3>2, Least
      <3>4. old \in some
        <4>1. stop \in some /\ \A j \in late : stop <= j
          BY <3>3
        <4> HIDE DEF stop
        <4> QED BY <4>1
      <3>5. old \in 1 .. Len(list) + 1
        <4> HIDE DEF old
        <4> QED BY <3>2, <3>4
      <3> HIDE DEF old, list
      <3>6. CASE XlFront(list)
        <4>1. xl_timed'[l] = SubSeq(list, old, Len(list))
          BY <3>1, <3>6
        <4> QED BY <2>1, <3>5, <4>1, XlSuffixFrom, XlFromOnce DEF list
      <3> QED BY <2>1, <3>1, <3>6 DEF list
    <2> QED BY <2>2, <2>3
  <1>4. XlListsOK(xl_timed', xl_perm')
    <2>1. xl_timed' \in [XlKinds -> Seq(XlEntry)]
      <3>1. xl_timed' = [l \in XlKinds |-> xl_timed'[l]]
        BY DEF XlTick, XlExpire, XlKinds
      <3> QED BY <1>3, <3>1
    <2> QED BY <1>1, <1>2, <1>3, <2>1 DEF XlListsOK
  <1>5. \A m : m \in XlActive("ban", xl_timed', xl_perm') => m \in XlActive("ban", xl_timed, xl_perm)
    <2>1. XlMasksOf(xl_timed'["ban"]) \subseteq XlMasksOf(xl_timed["ban"])
      BY <1>3 DEF XlKinds
    <2> QED BY <1>1, <2>1 DEF XlActive, XlMasksOf
  <1> QED BY <1>1, <1>4, <1>5, XlFewerStep

\* XlKept is inductive.
THEOREM XLinesAlwaysKept == XLinesSpec => []XlKept
  <1>1. XlKept /\ [XLinesNext]_xl_vars => XlKept'
    <2> SUFFICES ASSUME XlKept, [XLinesNext]_xl_vars PROVE XlKept'
      OBVIOUS
    <2>1. CASE UNCHANGED xl_vars
      <3>1. UNCHANGED <<xl_kind, xl_timed, xl_perm, xl_clients, xl_queued, xl_pending, xl_excused, xl_lost>>
        BY <2>1 DEF xl_vars, xl_lists
      <3> QED BY <3>1, XlFewerStep DEF XlKept
    <2>2. CASE XLinesNext
      BY <2>2, XlBanKept, XlExceptKept, XlAddLineKept, XlFloodKept, XlDelKept, XlBurstKept, XlClientKept, XlCullKept,
         XlTimeKept DEF XLinesNext, XlKinds
    <2> QED BY <2>1, <2>2
  <1> QED BY <1>1, XlInitKept, PTL DEF XLinesSpec

\* Nobody stays on the server under a line that matches him, whatever the order of lines, exceptions, lookups,
\* nickname changes and bursts, but for an exception found for him and lines of a burst; and no mask has two lines.
THEOREM LinesAlwaysSound == XLinesSpec => []XlSound
  <1>1. ASSUME XlKept PROVE XlSound
    <2>1. XlNoDuplicates
      BY <1>1 DEF XlKept, XlListsOK, XlOnce, XlNoDuplicates, XlKinds
    <2>2. XlEnforced
      BY <1>1 DEF XlKept, XlEnforced, XlHeld, XlOut
    <2> QED BY <2>1, <2>2 DEF XlSound
  <1> QED BY <1>1, XLinesAlwaysKept, PTL

-----------------------------------------------------------------------------
(* WHOWAS: the map and the fifo are two copies of one set of nicknames *)

WhCame == [nick : WhNicks, age : Nat]
WhNicksOf(fifo) == {fifo[i].nick : i \in DOMAIN fifo}
WhEachOnce(fifo) == \A i, j \in DOMAIN fifo : fifo[i].nick = fifo[j].nick => i = j
WhTables(map, fifo, groups) ==
    /\ map \in [DOMAIN map -> Seq(Nat)] /\ fifo \in Seq(WhCame)
    /\ WhNicksOf(fifo) = DOMAIN map /\ WhEachOnce(fifo) /\ Len(fifo) <= groups
WhKept ==
    /\ wh_size \in Nat /\ wh_groups \in Nat
    /\ WhTables(wh_map, wh_fifo, wh_groups)
\* What a step may do to the groups it keeps.
WhGrown(map, new, size) ==
    \A n \in DOMAIN map : n \in DOMAIN new /\ Len(new[n]) > size => Len(new[n]) <= Len(map[n])

LEMMA WhConstants == WhGroupSizes \subseteq Nat /\ WhMaxGroups \subseteq Nat /\ WhKeep \in Nat /\ WhOld \in Nat
  BY WhowasOK

\* A set of numbers up to n has a greatest.
LEMMA WhGreatest ==
    ASSUME NEW n \in Nat, NEW S \in SUBSET (0 .. n), S # {}, NEW k, k = CHOOSE i \in S : \A j \in S : j <= i
    PROVE  k \in S /\ \A j \in S : j <= k
  <1> DEFINE D == {i \in 0 .. n : n - i \in S}
             d == CHOOSE i \in D : \A j \in D : i <= j
  <1>1. D \in SUBSET Nat /\ \A i \in S : n - i \in D /\ n - (n - i) = i
    OBVIOUS
  <1>2. D # {}
    BY <1>1
  <1>3. d \in D /\ \A j \in D : d <= j
    <2> HIDE DEF D
    <2> QED BY <1>1, <1>2, Least
  <1>4. n - d \in S /\ d \in 0 .. n
    BY <1>3
  <1> HIDE DEF d
  <1>5. ASSUME NEW j \in S PROVE j <= n - d
    <2>1. n - j \in D /\ j \in 0 .. n
      BY <1>1
    <2> HIDE DEF D
    <2>2. d <= n - j
      BY <1>3, <2>1
    <2> QED BY <1>4, <2>1, <2>2
  <1>6. \E i \in S : \A j \in S : j <= i
    BY <1>4, <1>5, Zenon
  <1> QED BY <1>6

\* The fifo without its first k names.
LEMMA WhSuffix ==
    ASSUME NEW map, NEW fifo, NEW groups \in Nat, WhTables(map, fifo, groups), NEW k \in 0 .. Len(fifo), NEW most \in Nat,
           Len(fifo) - k <= most,
           NEW rest, rest = SubSeq(fifo, k + 1, Len(fifo)),
           NEW kept, kept = [n \in DOMAIN map \ {fifo[i].nick : i \in 1 .. k} |-> map[n]]
    PROVE  WhTables(kept, rest, most)
  <1> DEFINE len == Len(fifo)
  <1>1. fifo \in Seq(WhCame) /\ WhNicksOf(fifo) = DOMAIN map /\ WhEachOnce(fifo) /\ map \in [DOMAIN map -> Seq(Nat)]
        /\ len \in Nat /\ DOMAIN fifo = 1 .. len
    BY DEF WhTables
  <1>2. rest \in Seq(WhCame) /\ Len(rest) = len - k /\ DOMAIN rest = 1 .. len - k
        /\ \A i \in 1 .. len - k : rest[i] = fifo[k + i]
    BY <1>1
  <1> HIDE DEF len
  <1>3. Len(rest) <= most
    BY <1>2 DEF len
  <1>4. k \in 0 .. len
    BY DEF len
  <1>5. \A i \in 1 .. len - k : k + i \in 1 .. len /\ k + i > k
    BY <1>1, <1>4
  <1>6. WhEachOnce(rest)
    <2> SUFFICES ASSUME NEW i \in 1 .. len - k, NEW j \in 1 .. len - k, rest[i].nick = rest[j].nick PROVE i = j
      BY <1>2 DEF WhEachOnce
    <2>2. fifo[k + i].nick = fifo[k + j].nick /\ k + i \in DOMAIN fifo /\ k + j \in DOMAIN fifo
      BY <1>1, <1>2, <1>5
    <2>1. k + i = k + j
      BY <1>1, <2>2, Zenon DEF WhEachOnce
    <2> QED BY <1>4, <2>1
  <1>7. DOMAIN kept = DOMAIN map \ {fifo[i].nick : i \in 1 .. k} /\ kept \in [DOMAIN kept -> Seq(Nat)]
    BY <1>1
  <1>8. WhNicksOf(rest) = DOMAIN kept
    <2>1. ASSUME NEW i \in 1 .. len - k PROVE rest[i].nick \in DOMAIN kept
      <3>1. rest[i].nick = fifo[k + i].nick /\ k + i \in 1 .. len /\ k + i > k
        BY <1>2, <1>5
      <3>2. fifo[k + i].nick \in DOMAIN map
        BY <1>1, <3>1 DEF WhNicksOf
      <3>3. ASSUME NEW j \in 1 .. k, fifo[j].nick = fifo[k + i].nick PROVE FALSE
        <4>1. j \in 1 .. len /\ j # k + i
          BY <1>1, <1>4, <3>1
        <4> QED BY <1>1, <3>1, <3>3, <4>1 DEF WhEachOnce
      <3> QED BY <1>7, <3>1, <3>2, <3>3
    <2>2. ASSUME NEW n \in DOMAIN kept PROVE \E i \in 1 .. len - k : rest[i].nick = n
      <3>1. n \in DOMAIN map /\ n \notin {fifo[i].nick : i \in 1 .. k}
        BY <1>7
      <3>2. PICK j \in 1 .. len : fifo[j].nick = n
        BY <1>1, <3>1 DEF WhNicksOf
      <3>3. ~(j <= k)
        BY <3>1, <3>2
      <3>4. j - k \in 1 .. len - k /\ k + (j - k) = j
        BY <1>1, <1>4, <3>3
      <3> QED BY <1>2, <3>2, <3>4
    <2>3. WhNicksOf(rest) = {rest[i].nick : i \in 1 .. len - k}
      BY <1>2 DEF WhNicksOf
    <2>4. \A n : n \in WhNicksOf(rest) <=> \E i \in 1 .. len - k : rest[i].nick = n
      BY <2>3, Zenon
    <2>5. \A n : n \in WhNicksOf(rest) <=> n \in DOMAIN kept
      BY <2>1, <2>2, <2>4, Zenon
    <2> HIDE DEF WhNicksOf
    <2> QED BY <2>5
  <1> QED BY <1>2, <1>3, <1>6, <1>7, <1>8 DEF WhTables

\* AddToWhoWas for a new nickname, before the one that came first is forgotten.
LEMMA WhMore ==
    ASSUME NEW map, NEW fifo, NEW groups \in Nat, WhTables(map, fifo, groups), NEW n \in WhNicks \ DOMAIN map, NEW age \in Nat
    PROVE  WhTables([m \in DOMAIN map \cup {n} |-> IF m = n THEN <<age>> ELSE map[m]], Append(fifo, [nick |-> n, age |-> 0]), groups + 1)
  <1> DEFINE len == Len(fifo)
             new == [nick |-> n, age |-> 0]
             more == Append(fifo, new)
             both == [m \in DOMAIN map \cup {n} |-> IF m = n THEN <<age>> ELSE map[m]]
             one == <<age>>
  <1>1. fifo \in Seq(WhCame) /\ WhNicksOf(fifo) = DOMAIN map /\ WhEachOnce(fifo) /\ map \in [DOMAIN map -> Seq(Nat)]
        /\ len \in Nat /\ DOMAIN fifo = 1 .. len /\ len <= groups
    BY DEF WhTables
  <1>2. new \in WhCame /\ new.nick = n
    BY DEF WhCame
  <1> HIDE DEF new
  <1>3. more \in Seq(WhCame) /\ Len(more) = len + 1 /\ DOMAIN more = 1 .. len + 1 /\ more[len + 1] = new
        /\ \A i \in 1 .. len : more[i] = fifo[i]
    BY <1>1, <1>2
  <1>4. one \in Seq(Nat)
    OBVIOUS
  <1>5. both = [m \in DOMAIN map \cup {n} |-> IF m = n THEN one ELSE map[m]]
    OBVIOUS
  <1> HIDE DEF one, both, more, len
  <1>6. both \in [DOMAIN both -> Seq(Nat)] /\ DOMAIN both = DOMAIN map \cup {n}
    BY <1>1, <1>4, <1>5
  <1>7. \A i \in 1 .. len : fifo[i].nick \in DOMAIN map /\ fifo[i].nick # n
    BY <1>1 DEF WhNicksOf
  <1>0. len \in Nat
    BY <1>1
  <1>8. \A i \in 1 .. len + 1 : i \in 1 .. len \/ i = len + 1
    BY <1>0
  <1>9. WhEachOnce(more)
    BY <1>1, <1>2, <1>3, <1>7, <1>8 DEF WhEachOnce
  <1>10. WhNicksOf(more) = DOMAIN both
    <2>1. \A i \in 1 .. len + 1 : more[i].nick \in DOMAIN both
      BY <1>2, <1>3, <1>6, <1>7, <1>8
    <2>2. ASSUME NEW m \in DOMAIN both PROVE \E i \in 1 .. len + 1 : more[i].nick = m
      <3>1. CASE m = n
        <4>1. len + 1 \in 1 .. len + 1
          BY <1>1
        <4> QED BY <1>2, <1>3, <3>1, <4>1
      <3>2. CASE m \in DOMAIN map
        <4>1. PICK i \in 1 .. len : fifo[i].nick = m
          BY <1>1, <3>2 DEF WhNicksOf
        <4>2. i \in 1 .. len + 1
          BY <1>1
        <4> QED BY <1>3, <4>1, <4>2
      <3> QED BY <1>6, <3>1, <3>2
    <2>3. WhNicksOf(more) = {more[i].nick : i \in 1 .. len + 1}
      BY <1>3 DEF WhNicksOf
    <2> QED BY <2>1, <2>2, <2>3
  <1>11. Len(more) <= groups + 1
    BY <1>1, <1>3
  <1> QED BY <1>3, <1>6, <1>9, <1>10, <1>11 DEF WhTables, more, both, new, one

LEMMA WhAddKept ==
    ASSUME WhKept, NEW n \in WhNicks, NEW age \in WhAges, WhAdd(n, age)
    PROVE  WhKept' /\ WhGrown(wh_map, wh_map', wh_size')
  <1>1. WhTables(wh_map, wh_fifo, wh_groups) /\ wh_size \in Nat /\ wh_groups \in Nat /\ UNCHANGED <<wh_size, wh_groups>>
        /\ wh_size # 0 /\ wh_groups # 0 /\ age \in Nat
    BY WhConstants DEF WhKept, WhAdd, WhAges
  <1>2. wh_map \in [DOMAIN wh_map -> Seq(Nat)]
    BY <1>1 DEF WhTables
  <1>3. CASE n \in DOMAIN wh_map
    <2> DEFINE entry == Append(wh_map[n], age)
               new == IF Len(entry) > wh_size THEN Tail(entry) ELSE entry
    <2>1. wh_map' = [wh_map EXCEPT ![n] = new] /\ wh_fifo' = wh_fifo
      <3>1. WhAddKnown(n, age).map = [wh_map EXCEPT ![n] = new] /\ WhAddKnown(n, age).fifo = wh_fifo
        BY DEF WhAddKnown
      <3> QED BY <1>3, <3>1 DEF WhAdd
    <2>2. wh_map[n] \in Seq(Nat)
      BY <1>2, <1>3
    <2>3. entry \in Seq(Nat) /\ Len(entry) = Len(wh_map[n]) + 1 /\ Len(wh_map[n]) \in Nat
      BY <1>1, <2>2
    <2> HIDE DEF entry
    <2>4. new \in Seq(Nat) /\ (Len(new) > wh_size => Len(new) <= Len(wh_map[n]))
      <3>1. entry # <<>>
        BY <2>3
      <3>2. Tail(entry) \in Seq(Nat) /\ Len(Tail(entry)) = Len(entry) - 1
        BY <2>3, <3>1
      <3> QED BY <1>1, <2>3, <3>2
    <2> HIDE DEF new
    <2>5. wh_map' \in [DOMAIN wh_map -> Seq(Nat)] /\ DOMAIN wh_map' = DOMAIN wh_map
          /\ \A m \in DOMAIN wh_map : wh_map'[m] = IF m = n THEN new ELSE wh_map[m]
      BY <1>2, <1>3, <2>1, <2>4
    <2>6. WhTables(wh_map', wh_fifo', wh_groups)
      BY <1>1, <2>1, <2>5 DEF WhTables
    <2>7. WhGrown(wh_map, wh_map', wh_size)
      <3>1. \A m \in DOMAIN wh_map : Len(wh_map[m]) \in Nat
        BY <1>2
      <3> SUFFICES ASSUME NEW m \in DOMAIN wh_map, Len(wh_map'[m]) > wh_size PROVE Len(wh_map'[m]) <= Len(wh_map[m])
        BY DEF WhGrown
      <3>2. CASE m = n
        BY <2>4, <2>5, <3>2
      <3>3. CASE m # n
        <4>1. wh_map'[m] = wh_map[m]
          BY <2>5, <3>3
        <4> QED BY <3>1, <4>1
      <3> QED BY <3>2, <3>3
    <2> QED BY <1>1, <2>6, <2>7 DEF WhKept
  <1>4. CASE n \notin DOMAIN wh_map
    <2> DEFINE both == [m \in DOMAIN wh_map \cup {n} |-> IF m = n THEN <<age>> ELSE wh_map[m]]
               more == Append(wh_fifo, [nick |-> n, age |-> 0])
    <2>1. WhTables(both, more, wh_groups + 1)
      BY <1>1, <1>4, WhMore
    <2>2. wh_map' = WhAddNew(n, age).map /\ wh_fifo' = WhAddNew(n, age).fifo
      BY <1>4 DEF WhAdd
    <2>3. WhAddNew(n, age) = IF Len(more) > wh_groups THEN [map |-> WhWithout(both, more[1].nick), fifo |-> Tail(more)]
                             ELSE [map |-> both, fifo |-> more]
      BY DEF WhAddNew
    <2>4. \A m \in DOMAIN wh_map : m # n /\ both[m] = wh_map[m]
      BY <1>4
    <2>5. more # <<>>
      <3> DEFINE e == [nick |-> n, age |-> 0]
      <3>1. wh_fifo \in Seq(WhCame)
        BY <1>1 DEF WhTables
      <3>3. e \in WhCame
        BY DEF WhCame
      <3> HIDE DEF e
      <3>2. Append(wh_fifo, e) # <<>>
        <4>1. Len(Append(wh_fifo, e)) = Len(wh_fifo) + 1 /\ Len(wh_fifo) \in Nat
          BY <3>1, <3>3
        <4> QED BY <4>1
      <3> QED BY <3>2 DEF e
    <2> HIDE DEF both, more
    <2>6. CASE ~(Len(more) > wh_groups)
      <3>1. wh_map' = both /\ wh_fifo' = more
        BY <2>2, <2>3, <2>6
      <3>2. Len(more) <= wh_groups
        BY <1>1, <2>1, <2>6 DEF WhTables
      <3>3. WhTables(wh_map', wh_fifo', wh_groups)
        BY <2>1, <3>1, <3>2 DEF WhTables
      <3>4. WhGrown(wh_map, wh_map', wh_size)
        BY <1>2, <2>4, <3>1 DEF WhGrown
      <3> QED BY <1>1, <3>3, <3>4 DEF WhKept
    <2>7. CASE Len(more) > wh_groups
      <3>1. wh_map' = WhWithout(both, more[1].nick) /\ wh_fifo' = Tail(more)
        BY <2>2, <2>3, <2>7
      <3>2. more \in Seq(WhCame) /\ Len(more) <= wh_groups + 1
        BY <2>1 DEF WhTables
      <3>3. Tail(more) = SubSeq(more, 2, Len(more)) /\ Len(more) \in Nat /\ 1 \in 0 .. Len(more)
        <4>1. Tail(more) = SubSeq(more, 2, Len(more))
          BY <2>5, <3>2, TailIsSubSeq
        <4>2. Len(more) \in Nat /\ Len(more) # 0
          BY <2>5, <3>2
        <4> QED BY <4>1, <4>2
      <3>4. {more[i].nick : i \in 1 .. 1} = {more[1].nick}
        OBVIOUS
      <3>5. wh_map' = [m \in DOMAIN both \ {more[i].nick : i \in 1 .. 1} |-> both[m]]
        BY <3>1, <3>4 DEF WhWithout
      <3>6. WhTables(wh_map', wh_fifo', wh_groups)
        <4>1. Len(more) - 1 <= wh_groups /\ wh_groups + 1 \in Nat
          BY <1>1, <3>2, <3>3
        <4>2. wh_fifo' = SubSeq(more, 1 + 1, Len(more))
          BY <3>1, <3>3
        <4> QED BY <1>1, <2>1, <3>3, <3>5, <4>1, <4>2, WhSuffix
      <3>7. WhGrown(wh_map, wh_map', wh_size)
        <4>1. \A m \in DOMAIN wh_map' : wh_map'[m] = both[m]
          BY <3>5
        <4>2. \A m \in DOMAIN wh_map : Len(wh_map[m]) \in Nat
          BY <1>2
        <4> QED BY <2>4, <4>1, <4>2 DEF WhGrown
      <3> QED BY <1>1, <3>6, <3>7 DEF WhKept
    <2> QED BY <2>6, <2>7
  <1> QED BY <1>3, <1>4

LEMMA WhRehashKept ==
    ASSUME WhKept, NEW size \in WhGroupSizes, NEW groups \in WhMaxGroups, WhRehash(size, groups)
    PROVE  WhKept' /\ WhGrown(wh_map, wh_map', wh_size')
  <1> DEFINE len == Len(wh_fifo)
             stale == WhStale(wh_fifo, groups)
             k == CHOOSE i \in stale : \A j \in stale : j <= i
             kept == [n \in DOMAIN wh_map \ {wh_fifo[i].nick : i \in 1 .. k} |-> wh_map[n]]
             rest == SubSeq(wh_fifo, k + 1, len)
  <1>1. /\ WhTables(wh_map, wh_fifo, wh_groups) /\ wh_groups \in Nat /\ size \in Nat /\ groups \in Nat
        /\ wh_size' = size /\ wh_groups' = groups
    BY WhConstants DEF WhKept, WhRehash
  <1>2. wh_map \in [DOMAIN wh_map -> Seq(Nat)] /\ wh_fifo \in Seq(WhCame) /\ len \in Nat
    BY <1>1 DEF WhTables
  <1>3. wh_fifo' = rest /\ wh_map' = WhShrink(kept, rest, size)
    BY DEF WhRehash, WhCut
  <1>4. /\ stale \in SUBSET (0 .. len) /\ 0 \in stale
        /\ \A j \in 0 .. len : j \in stale <=> \A i \in 1 .. j : len - i + 1 > groups \/ wh_fifo[i].age > WhKeep
    BY <1>2 DEF WhStale
  <1> HIDE DEF stale, len
  <1>5. k \in stale /\ \A j \in stale : j <= k
    BY <1>2, <1>4, WhGreatest
  <1> HIDE DEF k
  <1>6. k \in 0 .. len
    BY <1>4, <1>5
  <1>7. len - k <= groups
    <2>1. CASE k = len
      BY <1>1, <1>2, <2>1
    <2>2. CASE k # len
      <3>1. k + 1 \in 0 .. len /\ k + 1 \notin stale
        BY <1>2, <1>5, <1>6, <2>2
      <3>2. PICK i \in 1 .. k + 1 : ~(len - i + 1 > groups \/ wh_fifo[i].age > WhKeep)
        BY <1>4, <3>1
      <3>3. ~(i \in 1 .. k)
        BY <1>4, <1>5, <1>6, <3>2
      <3>4. i = k + 1
        BY <1>6, <3>3
      <3> QED BY <1>1, <1>2, <1>6, <3>2, <3>4
    <2> QED BY <2>1, <2>2
  <1>8. WhTables(kept, rest, groups)
    BY <1>1, <1>6, <1>7, WhSuffix DEF len
  <1>9. DOMAIN kept \subseteq DOMAIN wh_map /\ \A n \in DOMAIN kept : kept[n] = wh_map[n]
    OBVIOUS
  <1> HIDE DEF kept, rest
  <1>10. /\ WhTables(wh_map', rest, groups) /\ DOMAIN wh_map' = DOMAIN kept
         /\ \A n \in DOMAIN kept : wh_map'[n] = kept[n] \/ Len(wh_map'[n]) <= size
    <2>1. CASE rest = <<>>
      BY <1>3, <1>8, <2>1 DEF WhShrink
    <2>2. CASE rest # <<>>
      <3> DEFINE n == rest[1].nick
                 g == kept[n]
                 cut == SubSeq(g, Len(g) - size + 1, Len(g))
                 new == IF Len(g) > size THEN cut ELSE g
      <3>1. wh_map' = [kept EXCEPT ![n] = new]
        BY <1>3, <2>2 DEF WhShrink
      <3>2. kept \in [DOMAIN kept -> Seq(Nat)] /\ rest \in Seq(WhCame) /\ WhNicksOf(rest) = DOMAIN kept
        BY <1>8 DEF WhTables
      <3>3. n \in DOMAIN kept
        <4>1. 1 \in DOMAIN rest
          BY <2>2, <3>2
        <4> QED BY <3>2, <4>1 DEF WhNicksOf
      <3>4. g \in Seq(Nat)
        BY <3>2, <3>3
      <3> HIDE DEF g, n
      <3>5. new \in Seq(Nat) /\ (new = g \/ Len(new) <= size)
        <4>1. CASE Len(g) > size
          <5>1. cut \in Seq(Nat) /\ Len(cut) = size
            BY <1>1, <3>4, <4>1
          <5> HIDE DEF cut
          <5> QED BY <1>1, <4>1, <5>1
        <4>2. CASE ~(Len(g) > size)
          BY <3>4, <4>2
        <4> QED BY <4>1, <4>2
      <3> HIDE DEF new
      <3>6. wh_map' \in [DOMAIN kept -> Seq(Nat)] /\ DOMAIN wh_map' = DOMAIN kept
            /\ \A m \in DOMAIN kept : wh_map'[m] = IF m = n THEN new ELSE kept[m]
        BY <3>1, <3>2, <3>3, <3>5
      <3>7. WhTables(wh_map', rest, groups)
        BY <1>8, <3>6 DEF WhTables
      <3> QED BY <3>5, <3>6, <3>7 DEF g
    <2> QED BY <2>1, <2>2
  <1>11. WhGrown(wh_map, wh_map', size)
    <2> SUFFICES ASSUME NEW n \in DOMAIN wh_map, n \in DOMAIN wh_map', Len(wh_map'[n]) > size
                 PROVE  Len(wh_map'[n]) <= Len(wh_map[n])
      BY DEF WhGrown
    <2>1. n \in DOMAIN kept /\ wh_map'[n] \in Seq(Nat)
      <3>1. wh_map' \in [DOMAIN wh_map' -> Seq(Nat)] /\ DOMAIN wh_map' = DOMAIN kept
        BY <1>10 DEF WhTables
      <3> QED BY <3>1
    <2>2. Len(wh_map'[n]) \in Nat /\ Len(wh_map[n]) \in Nat
      BY <1>2, <2>1
    <2>3. wh_map'[n] = kept[n]
      BY <1>1, <1>10, <2>1, <2>2
    <2> QED BY <1>9, <2>1, <2>2, <2>3
  <1> QED BY <1>1, <1>3, <1>10, <1>11 DEF WhKept

LEMMA WhYounger ==
    ASSUME NEW ages \in Seq(Nat)
    PROVE  WhYoung(ages) \in Seq(Nat) /\ Len(WhYoung(ages)) <= Len(ages)
  <1> DEFINE len == Len(ages)
             old == {k \in 0 .. len : \A i \in 1 .. k : ages[i] > WhKeep}
             k == CHOOSE k \in old : \A j \in old : j <= k
  <1>1. len \in Nat /\ old \in SUBSET (0 .. len) /\ 0 \in old
    OBVIOUS
  <1>2. k \in 0 .. len
    <2> HIDE DEF old, len
    <2>1. k \in old
      BY <1>1, WhGreatest
    <2> QED BY <1>1, <2>1
  <1>3. WhYoung(ages) = SubSeq(ages, k + 1, len)
    BY DEF WhYoung
  <1> HIDE DEF k
  <1> QED BY <1>1, <1>2, <1>3

LEMMA WhStillKept ==
    ASSUME WhKept, WhMaintain \/ WhReload \/ WhTime
    PROVE  WhKept' /\ WhGrown(wh_map, wh_map', wh_size')
  <1>1. WhTables(wh_map, wh_fifo, wh_groups) /\ UNCHANGED <<wh_size, wh_groups>> /\ wh_size \in Nat /\ wh_groups \in Nat
    BY DEF WhKept, WhMaintain, WhReload, WhTime
  <1>2. wh_map \in [DOMAIN wh_map -> Seq(Nat)] /\ wh_fifo \in Seq(WhCame)
    BY <1>1 DEF WhTables
  <1>3. CASE WhReload
    <2>1. wh_map' = <<>> /\ wh_fifo' = <<>>
      BY <1>3 DEF WhReload
    <2> DEFINE none == <<>>
    <2>2. DOMAIN none = {} /\ none \in [DOMAIN none -> Seq(Nat)] /\ none \in Seq(WhCame) /\ Len(none) = 0
      OBVIOUS
    <2> HIDE DEF none
    <2>5. WhNicksOf(none) = DOMAIN none /\ WhEachOnce(none)
      BY <2>2 DEF WhNicksOf, WhEachOnce
    <2>3. WhTables(none, none, wh_groups)
      BY <1>1, <2>2, <2>5 DEF WhTables
    <2>4. WhGrown(wh_map, none, wh_size)
      BY <2>2 DEF WhGrown
    <2> QED BY <1>1, <2>1, <2>3, <2>4 DEF WhKept, none
  <1>4. CASE WhMaintain
    <2>1. wh_map' = [n \in DOMAIN wh_map |-> WhYoung(wh_map[n])] /\ wh_fifo' = wh_fifo
      BY <1>4 DEF WhMaintain
    <2>2. \A n \in DOMAIN wh_map : WhYoung(wh_map[n]) \in Seq(Nat) /\ Len(WhYoung(wh_map[n])) <= Len(wh_map[n])
      BY <1>2, WhYounger
    <2>3. wh_map' \in [DOMAIN wh_map' -> Seq(Nat)] /\ DOMAIN wh_map' = DOMAIN wh_map
      BY <2>1, <2>2
    <2>4. WhTables(wh_map', wh_fifo', wh_groups)
      BY <1>1, <2>1, <2>3 DEF WhTables
    <2>5. WhGrown(wh_map, wh_map', wh_size)
      BY <2>1, <2>2 DEF WhGrown
    <2> QED BY <1>1, <2>4, <2>5 DEF WhKept
  <1>5. CASE WhTime
    <2>1. \A a \in Nat : WhOlder(a) \in Nat
      BY WhConstants DEF WhOlder
    <2>2. /\ wh_map' = [n \in DOMAIN wh_map |-> [i \in DOMAIN wh_map[n] |-> WhOlder(wh_map[n][i])]]
          /\ wh_fifo' = [i \in DOMAIN wh_fifo |-> [wh_fifo[i] EXCEPT !.age = WhOlder(@)]]
      BY <1>5 DEF WhTime
    <2>3. ASSUME NEW n \in DOMAIN wh_map
          PROVE  wh_map'[n] \in Seq(Nat) /\ Len(wh_map'[n]) = Len(wh_map[n])
      <3> DEFINE g == wh_map[n]
                 h == [i \in 1 .. Len(g) |-> WhOlder(g[i])]
      <3>1. g \in Seq(Nat)
        BY <1>2
      <3>2. wh_map'[n] = h
        BY <2>2, <3>1
      <3> HIDE DEF g
      <3>3. \A i \in 1 .. Len(g) : g[i] \in Nat
        BY <3>1
      <3>4. \A i \in 1 .. Len(g) : WhOlder(g[i]) \in Nat
        BY <2>1, <3>3
      <3>5. h \in Seq(Nat) /\ Len(h) = Len(g)
        BY <3>1, <3>4, IsASeq
      <3> QED BY <3>2, <3>5 DEF g
    <2>4. wh_map' \in [DOMAIN wh_map' -> Seq(Nat)] /\ DOMAIN wh_map' = DOMAIN wh_map
      BY <2>2, <2>3
    <2>5. wh_fifo' \in Seq(WhCame) /\ DOMAIN wh_fifo' = DOMAIN wh_fifo /\ Len(wh_fifo') = Len(wh_fifo)
          /\ \A i \in DOMAIN wh_fifo : wh_fifo'[i].nick = wh_fifo[i].nick
      <3> DEFINE n == Len(wh_fifo)
      <3>1. n \in Nat /\ DOMAIN wh_fifo = 1 .. n /\ wh_fifo' = [i \in 1 .. n |-> wh_fifo'[i]] /\ DOMAIN wh_fifo' = 1 .. n
        BY <1>2, <2>2
      <3> HIDE DEF n
      <3>2. ASSUME NEW i \in 1 .. n PROVE wh_fifo'[i] \in WhCame /\ wh_fifo'[i].nick = wh_fifo[i].nick
        <4>1. wh_fifo[i] \in WhCame /\ wh_fifo'[i] = [wh_fifo[i] EXCEPT !.age = WhOlder(@)]
          BY <1>2, <2>2, <3>1
        <4>2. PICK m \in WhNicks, a \in Nat : wh_fifo[i] = [nick |-> m, age |-> a]
          BY <4>1 DEF WhCame
        <4>3. wh_fifo'[i] = [nick |-> m, age |-> WhOlder(a)]
          BY <4>1, <4>2
        <4> QED BY <2>1, <4>2, <4>3 DEF WhCame
      <3>3. wh_fifo' \in Seq(WhCame)
        BY <3>1, <3>2, IsASeq
      <3>4. Len(wh_fifo') = n
        BY <3>1, <3>3
      <3> QED BY <3>1, <3>2, <3>3, <3>4 DEF n
    <2>6. WhNicksOf(wh_fifo') = WhNicksOf(wh_fifo) /\ (WhEachOnce(wh_fifo) => WhEachOnce(wh_fifo'))
      BY <2>5 DEF WhNicksOf, WhEachOnce
    <2>7. WhTables(wh_map', wh_fifo', wh_groups)
      BY <1>1, <2>4, <2>5, <2>6 DEF WhTables
    <2>8. \A n \in DOMAIN wh_map : Len(wh_map[n]) \in Nat
      BY <1>2
    <2>9. WhGrown(wh_map, wh_map', wh_size)
      BY <2>3, <2>4, <2>8 DEF WhGrown
    <2> QED BY <1>1, <2>7, <2>9 DEF WhKept
  <1> QED BY <1>3, <1>4, <1>5

LEMMA WhInitKept == WhowasInit => WhKept
  <1> SUFFICES ASSUME WhowasInit PROVE WhKept
    OBVIOUS
  <1> DEFINE none == <<>>
  <1>1. wh_map = none /\ wh_fifo = none /\ wh_size \in Nat /\ wh_groups \in Nat
    BY WhConstants DEF WhowasInit
  <1>2. DOMAIN none = {} /\ none \in [DOMAIN none -> Seq(Nat)] /\ none \in Seq(WhCame) /\ Len(none) = 0
    OBVIOUS
  <1> HIDE DEF none
  <1>4. WhNicksOf(none) = DOMAIN none /\ WhEachOnce(none)
    BY <1>2 DEF WhNicksOf, WhEachOnce
  <1>3. WhTables(none, none, wh_groups)
    BY <1>1, <1>2, <1>4 DEF WhTables
  <1> QED BY <1>1, <1>3 DEF WhKept

\* The map and the fifo name the same nicknames, each once and no more than <whowas:maxgroups>, through any clients
\* that leave, rehashes, hourly prunings and reloads, and a group over its limit never grows.
THEOREM AlwaysRemembered == WhowasSpec => WhRemembered
  <1>1. ASSUME WhKept, [WhowasNext]_wh_vars PROVE WhKept' /\ (WhGrown(wh_map, wh_map', wh_size') \/ UNCHANGED wh_vars)
    <2>1. CASE UNCHANGED wh_vars
      BY <1>1, <2>1 DEF wh_vars, WhKept
    <2>2. CASE WhowasNext
      BY <1>1, <2>2, WhAddKept, WhRehashKept, WhStillKept DEF WhowasNext
    <2> QED BY <1>1, <2>1, <2>2
  <1>2. WhKept => WhFifoIsMap /\ WhWithinGroups
    BY DEF WhKept, WhTables, WhNicksOf, WhEachOnce, WhFifoIsMap, WhWithinGroups
  <1>3. WhGrown(wh_map, wh_map', wh_size') <=>
            (\A n \in DOMAIN wh_map :
                n \in DOMAIN wh_map' /\ Len(wh_map'[n]) > wh_size' => Len(wh_map'[n]) <= Len(wh_map[n]))
    BY DEF WhGrown
  <1>4. WhowasSpec => []WhKept
    BY <1>1, WhInitKept, PTL DEF WhowasSpec
  <1>5. WhowasSpec => WhNoGrowth
    BY <1>1, <1>3, <1>4, PTL DEF WhowasSpec, WhNoGrowth
  <1> QED BY <1>2, <1>4, <1>5, PTL DEF WhRemembered

-----------------------------------------------------------------------------
(* Timers *)

\* Every component keeps its type: each key is at most MaxSecs + Lag away.
THEOREM TypeCorrect == Spec => []TypeOK
<1>1. Init => TypeOK
  <2>1. Past \in Past .. MaxSecs + Lag
    BY TimersOK DEF Past
  <2> QED  BY <2>1 DEF Init, TypeOK
<1>2. TypeOK /\ [Next]_vars => TypeOK'
  <2> SUFFICES ASSUME TypeOK, [Next]_vars
               PROVE  TypeOK'
    OBVIOUS
  <2>1. ASSUME NEW k \in Steps, TimePasses(k)
        PROVE  TypeOK'
    <3>1. k \in Nat /\ k > 0 /\ MaxSecs \in Nat /\ Lag \in Nat
      BY TimersOK
    <3>2. \A t \in Timers : (IF due[t] >= k THEN due[t] - k ELSE Past) \in Past .. MaxSecs + Lag
      BY <3>1 DEF TypeOK, Past
    <3> QED  BY <2>1, <3>2 DEF TimePasses, TypeOK
  <2>2. ASSUME NEW t \in Timers, Create(t)
        PROVE  TypeOK'
    <3>1. \A lag \in 0 .. Lag : Secs[t] + lag \in Past .. MaxSecs + Lag
      BY TimersOK DEF Past
    <3>2. due' \in [Timers -> Past .. MaxSecs + Lag]
      BY <2>2, <3>1 DEF Create, TypeOK
    <3> QED  BY <2>2, <3>2 DEF Create, TypeOK
  <2>3. ASSUME NEW t \in Timers, EndTick(t)
        PROVE  TypeOK'
    <3>1. Secs[t] \in Past .. MaxSecs + Lag
      BY TimersOK DEF Past
    <3> QED  BY <2>3, <3>1 DEF EndTick, TypeOK
  <2>4. ASSUME NEW t \in Timers, BeginTick(t) \/ CancelRepeat(t)
        PROVE  TypeOK'
    BY <2>4 DEF BeginTick, CancelRepeat, TypeOK
  <2>5. ASSUME NEW t \in Timers, DelTimer(t)
        PROVE  TypeOK'
    BY <2>5 DEF DelTimer, TypeOK
  <2>6. ASSUME NEW t \in Timers, DelTimerInTick(t)
        PROVE  TypeOK'
    <3>1. corrupt' \in BOOLEAN
      BY <2>6 DEF DelTimerInTick, TypeOK, Reached
    <3>2. alive' \subseteq alive /\ queue' \subseteq queue /\ group' \subseteq group /\ repeating' \subseteq repeating
      BY <2>6 DEF DelTimerInTick
    <3> QED  BY <2>6, <3>1, <3>2 DEF DelTimerInTick, TypeOK
  <2>7. CASE UNCHANGED vars
    BY <2>7 DEF vars, TypeOK
  <2> QED  BY <2>1, <2>2, <2>3, <2>4, <2>5, <2>6, <2>7 DEF Next
<1> QED  BY <1>1, <1>2, PTL DEF Spec

-----------------------------------------------------------------------------
\* No timer is queued under a second that has passed, whatever its owners and
\* the Ticks do with AddTimer, DelTimer and CancelRepeat, as long as TIME
\* advances by one second at a time.
THEOREM NeverMissed ==
  ASSUME Steps = {1}
  PROVE  Spec => []NoneMissed
<1>1. Init => NoneMissed
  BY DEF Init, NoneMissed
<1>2. TypeOK /\ NoneMissed /\ [Next]_vars => NoneMissed'
  <2> SUFFICES ASSUME TypeOK, NoneMissed, [Next]_vars
               PROVE  NoneMissed'
    OBVIOUS
  <2>1. ASSUME TimePasses(1)
        PROVE  NoneMissed'
    BY <2>1 DEF TimePasses, NoneMissed, TypeOK, Past
  <2>2. ASSUME NEW t \in Timers, Create(t)
        PROVE  NoneMissed'
    <3>1. \A lag \in 0 .. Lag : Secs[t] + lag > 0
      BY TimersOK
    <3> QED  BY <2>2, <3>1 DEF Create, NoneMissed, TypeOK
  <2>3. ASSUME NEW t \in Timers, EndTick(t)
        PROVE  NoneMissed'
    <3>1. Secs[t] > 0
      BY TimersOK
    <3> QED  BY <2>3, <3>1 DEF EndTick, NoneMissed, TypeOK
  <2>4. ASSUME NEW t \in Timers, BeginTick(t) \/ CancelRepeat(t)
        PROVE  NoneMissed'
    BY <2>4 DEF BeginTick, CancelRepeat, NoneMissed
  <2>5. ASSUME NEW t \in Timers, DelTimer(t) \/ DelTimerInTick(t)
        PROVE  NoneMissed'
    BY <2>5 DEF DelTimer, DelTimerInTick, NoneMissed
  <2>6. CASE UNCHANGED vars
    BY <2>6 DEF vars, NoneMissed
  <2> QED  BY <2>1, <2>2, <2>3, <2>4, <2>5, <2>6 DEF Next
<1> QED  BY <1>1, <1>2, TypeCorrect, PTL DEF Spec

-----------------------------------------------------------------------------
\* Until a freed timer is touched, each allocated timer is in exactly one of the
\* queue, the group being ticked and the running Tick.
Placed ==
    ~corrupt =>
      /\ NoneLost
      /\ queue \cap group = {}
      /\ current \notin queue \cup group

LEMMA PlacedStep ==
  ASSUME TypeOK, Placed, [Next]_vars
  PROVE  Placed'
<1>1. ASSUME NEW k \in Steps, TimePasses(k)
      PROVE  Placed'
  BY <1>1 DEF TimePasses, CantDeleteHere, Placed, NoneLost, TypeOK
<1>2. ASSUME NEW t \in Timers, Create(t)
      PROVE  Placed'
  BY <1>2, TimersOK DEF Create, Placed, NoneLost, TypeOK
<1>3. ASSUME NEW t \in Timers, BeginTick(t)
      PROVE  Placed'
  BY <1>3, TimersOK DEF BeginTick, Placed, NoneLost, TypeOK
<1>4. ASSUME NEW t \in Timers, EndTick(t)
      PROVE  Placed'
  BY <1>4, TimersOK DEF EndTick, Placed, NoneLost, TypeOK
<1>5. ASSUME NEW t \in Timers, CancelRepeat(t)
      PROVE  Placed'
  BY <1>5 DEF CancelRepeat, Placed, NoneLost, TypeOK
<1>6. ASSUME NEW t \in Timers, DelTimer(t)
      PROVE  Placed'
  BY <1>6, TimersOK DEF DelTimer, Found, CantDeleteHere, Placed, NoneLost, TypeOK
<1>7. ASSUME NEW t \in Timers, DelTimerInTick(t)
      PROVE  Placed'
  <2>1. CASE Found(t) \/ t \in group \ moved
    BY <1>7, <2>1, TimersOK DEF DelTimerInTick, Found, Placed, NoneLost, TypeOK
  <2>2. CASE ~(Found(t) \/ t \in group \ moved)
    BY <1>7, <2>2 DEF DelTimerInTick, Reached, Placed, NoneLost, TypeOK
  <2> QED  BY <2>1, <2>2
<1>8. CASE UNCHANGED vars
  BY <1>8 DEF vars, Placed, NoneLost
<1> QED  BY <1>1, <1>2, <1>3, <1>4, <1>5, <1>6, <1>7, <1>8 DEF Next

LEMMA PlacedAlways == Spec => [](TypeOK /\ Placed)
<1>1. Init => Placed
  BY TimersOK DEF Init, Placed, NoneLost
<1>2. TypeOK /\ Placed /\ [Next]_vars => Placed'
  BY PlacedStep
<1> QED  BY <1>1, <1>2, TypeCorrect, PTL DEF Spec

\* No freed timer is ever touched, as long as no Tick deletes a repeating timer
\* the loop has reached.
THEOREM NeverFreed ==
  ASSUME DelReached = {}
  PROVE  Spec => []NoneFreed
<1> USE DEF NoneFreed
<1>1. TypeOK /\ Placed /\ ~corrupt /\ [Next]_vars => ~corrupt'
  <2> SUFFICES ASSUME TypeOK, Placed, ~corrupt, [Next]_vars
               PROVE  ~corrupt'
    OBVIOUS
  <2>1. ASSUME NEW t \in Timers, BeginTick(t)
        PROVE  ~corrupt'
    BY <2>1 DEF BeginTick, Placed, NoneLost
  <2>2. ASSUME NEW t \in Timers, DelTimerInTick(t)
        PROVE  ~corrupt'
    BY <2>2 DEF DelTimerInTick, TypeOK
  <2>3. ASSUME NEW t \in Timers, Create(t) \/ EndTick(t) \/ CancelRepeat(t) \/ DelTimer(t)
        PROVE  ~corrupt'
    BY <2>3 DEF Create, EndTick, CancelRepeat, DelTimer
  <2>4. ASSUME NEW k \in Steps, TimePasses(k)
        PROVE  ~corrupt'
    BY <2>4 DEF TimePasses
  <2>5. CASE UNCHANGED vars
    BY <2>5 DEF vars
  <2> QED  BY <2>1, <2>2, <2>3, <2>4, <2>5 DEF Next
<1>2. Init => ~corrupt
  BY DEF Init
<1> QED  BY <1>1, <1>2, PlacedAlways, PTL DEF Spec

\* Then the manager leaks no timer and queues none that it has freed, whatever
\* its owners and the Ticks create, cancel and delete.
THEOREM NeverLost ==
  ASSUME DelReached = {}
  PROVE  Spec => []NoneLost
<1>1. Placed /\ NoneFreed => NoneLost
  BY DEF Placed, NoneFreed
<1> QED  BY <1>1, PlacedAlways, NeverFreed, PTL

-----------------------------------------------------------------------------
\* What makes a deletion effective: a one-shot timer stays under its own trigger
\* and a timer its owner has deleted is not allocated.
Custody ==
    /\ DeletedStaysSilent
    /\ ~corrupt => /\ (queue \cup group) \cap moved \subseteq Repeating
                   /\ deleted \cap alive = {}

LEMMA CustodyStep ==
  ASSUME DelOutside \cap Repeating = {},
         TypeOK, Placed, Custody, [Next]_vars
  PROVE  Custody'
<1> USE DEF Custody, DeletedStaysSilent, TypeOK
<1>1. ASSUME NEW k \in Steps, TimePasses(k)
      PROVE  Custody'
  BY <1>1 DEF TimePasses, CantDeleteHere
<1>2. ASSUME NEW t \in Timers, Create(t)
      PROVE  Custody'
  <2>1. t # current
    BY <1>2, TimersOK DEF Create, Placed, NoneLost
  <2> QED  BY <1>2, <2>1 DEF Create
<1>3. ASSUME NEW t \in Timers, BeginTick(t)
      PROVE  Custody'
  BY <1>3 DEF BeginTick, Placed, NoneLost
<1>4. ASSUME NEW t \in Timers, EndTick(t)
      PROVE  Custody'
  BY <1>4, TimersOK DEF EndTick
<1>5. ASSUME NEW t \in Timers, CancelRepeat(t)
      PROVE  Custody'
  BY <1>5 DEF CancelRepeat
<1>6. ASSUME NEW t \in Timers, DelTimer(t)
      PROVE  Custody'
  <2>1. t \in queue \ moved /\ t # current
    BY <1>6, TimersOK DEF DelTimer, CantDeleteHere, Placed, NoneLost
  <2> QED  BY <1>6, <2>1, TimersOK DEF DelTimer, Found
<1>7. ASSUME NEW t \in Timers, DelTimerInTick(t)
      PROVE  Custody'
  BY <1>7 DEF DelTimerInTick
<1>8. CASE UNCHANGED vars
  BY <1>8 DEF vars
<1> QED  BY <1>1, <1>2, <1>3, <1>4, <1>5, <1>6, <1>7, <1>8 DEF Next

LEMMA CustodyAlways ==
  ASSUME DelOutside \cap Repeating = {}
  PROVE  Spec => []Custody
<1>1. Init => Custody
  BY TimersOK DEF Init, Custody, DeletedStaysSilent
<1>2. TypeOK /\ Placed /\ Custody /\ [Next]_vars => Custody'
  BY CustodyStep
<1> QED  BY <1>1, <1>2, PlacedAlways, PTL DEF Spec

\* DelTimer does delete a one-shot timer: it never ticks again, whatever Ticks
\* delete.
THEOREM DeletedNeverTicks ==
  ASSUME DelOutside \cap Repeating = {}
  PROVE  Spec => []DeletedStaysSilent
<1>1. Custody => DeletedStaysSilent
  BY DEF Custody
<1> QED  BY <1>1, CustodyAlways, PTL

\* TimersKept for any set of timers, Ticks that create, cancel and delete timers
\* but no repeating one the loop has reached, a clock that advances by one second
\* at a time and owners that call DelTimer outside a Tick on one-shot timers only.
THEOREM TimersAlwaysKept ==
  ASSUME Steps = {1}, DelOutside \cap Repeating = {}, DelReached = {}
  PROVE  Spec => []TimersKept
<1>1. Spec => []NoneMissed
  BY NeverMissed
<1>2. Spec => []DeletedStaysSilent
  BY DeletedNeverTicks
<1>3. Spec => []NoneLost
  BY NeverLost
<1>4. Spec => []NoneFreed
  BY NeverFreed
<1> QED  BY <1>1, <1>2, <1>3, <1>4, PTL DEF TimersKept

-----------------------------------------------------------------------------
(* The loader's slots: what LdMoveTo, LdMove and LdMoveAll do *)

LdRecords(n) == [names : [1 .. n -> LdModules], objects : [1 .. n -> LdModules], impl : [1 .. n -> SUBSET LdAllHooks]]
LdAligned(n) == {s \in LdRecords(n) : s.objects = s.names /\ \A j \in 1 .. n : s.impl[j] = LdHooks[s.names[j]]}

LdShuffle(n, p) ==
    /\ p \in [1 .. n -> 1 .. n]
    /\ \A i, j \in 1 .. n : p[i] = p[j] => i = j
    /\ \A j \in 1 .. n : \E i \in 1 .. n : p[i] = j
LdMixed(n, a, b) == \E p : LdShuffle(n, p) /\ \A j \in 1 .. n : b[j] = a[p[j]]
LdMixes(n, names) == {s \in LdAligned(n) : LdMixed(n, names, s.names)}

LEMMA LdMixedSelf ==
    ASSUME NEW n \in Nat, NEW a
    PROVE  LdMixed(n, a, a)
  <1>1. LdShuffle(n, [j \in 1 .. n |-> j])
    BY DEF LdShuffle
  <1> QED BY <1>1 DEF LdMixed

LEMMA LdMixedOn ==
    ASSUME NEW n \in Nat, NEW a, NEW b, NEW c, LdMixed(n, a, b), LdMixed(n, b, c)
    PROVE  LdMixed(n, a, c)
  <1>1. PICK p : LdShuffle(n, p) /\ \A j \in 1 .. n : b[j] = a[p[j]]
    BY DEF LdMixed
  <1>2. PICK q : LdShuffle(n, q) /\ \A j \in 1 .. n : c[j] = b[q[j]]
    BY DEF LdMixed
  <1> DEFINE r == [j \in 1 .. n |-> p[q[j]]]
  <1>3. r \in [1 .. n -> 1 .. n]
    BY <1>1, <1>2 DEF LdShuffle
  <1>4. ASSUME NEW i \in 1 .. n, NEW j \in 1 .. n, r[i] = r[j]
        PROVE  i = j
    <2>1. q[i] \in 1 .. n /\ q[j] \in 1 .. n /\ p[q[i]] = p[q[j]]
      BY <1>2, <1>4 DEF LdShuffle
    <2>2. q[i] = q[j]
      BY <1>1, <2>1 DEF LdShuffle
    <2> QED BY <1>2, <2>2 DEF LdShuffle
  <1>5. ASSUME NEW j \in 1 .. n PROVE \E i \in 1 .. n : r[i] = j
    <2>1. PICK k \in 1 .. n : p[k] = j
      BY <1>1 DEF LdShuffle
    <2>2. PICK i \in 1 .. n : q[i] = k
      BY <1>2 DEF LdShuffle
    <2> QED BY <2>1, <2>2
  <1>6. \A j \in 1 .. n : c[j] = a[r[j]]
    BY <1>1, <1>2 DEF LdShuffle
  <1> HIDE DEF r
  <1>7. LdShuffle(n, r)
    BY <1>3, <1>4, <1>5 DEF LdShuffle
  <1> QED BY <1>6, <1>7 DEF LdMixed

LdSwapped(n, S, f, i, j, x) ==
    /\ x \in [1 .. n -> S] /\ LdMixed(n, f, x)
    /\ \A k \in 1 .. n : x[k] = IF k = j THEN f[i] ELSE IF k = i THEN f[j] ELSE f[k]

LEMMA LdSwapMixes ==
    ASSUME NEW n \in Nat, NEW i \in 1 .. n, NEW j \in 1 .. n, NEW S, NEW f \in [1 .. n -> S]
    PROVE  LdSwapped(n, S, f, i, j, LdSwap(f, i, j))
  <1>1. LdSwap(f, i, j) \in [1 .. n -> S]
        /\ \A k \in 1 .. n : LdSwap(f, i, j)[k] = IF k = j THEN f[i] ELSE IF k = i THEN f[j] ELSE f[k]
    BY DEF LdSwap
  <1> DEFINE p == [k \in 1 .. n |-> IF k = j THEN i ELSE IF k = i THEN j ELSE k]
  <1>2. LdShuffle(n, p)
    <2>1. p \in [1 .. n -> 1 .. n] /\ \A k, l \in 1 .. n : p[k] = p[l] => k = l
      OBVIOUS
    <2>2. ASSUME NEW k \in 1 .. n PROVE \E l \in 1 .. n : p[l] = k
      <3>1. p[p[k]] = k
        OBVIOUS
      <3> QED BY <2>1, <3>1
    <2> QED BY <2>1, <2>2 DEF LdShuffle
  <1>3. \A k \in 1 .. n : LdSwap(f, i, j)[k] = f[p[k]]
    BY <1>1
  <1> QED BY <1>1, <1>2, <1>3 DEF LdMixed, LdSwapped

\* MoveTo of a module that is loaded.
LEMMA LdMoveToMixes ==
    ASSUME NEW n \in Nat, NEW s \in LdAligned(n), NEW m, LdLoaded(s, m), NEW slot \in 1 .. n
    PROVE  LdMoveTo(s, m, slot) \in LdMixes(n, s.names)
  <1> DEFINE at == CHOOSE i \in DOMAIN s.names : s.names[i] = m
             t == LdMoveTo(s, m, slot)
  <1>1. s.names \in [1 .. n -> LdModules] /\ s.objects = s.names /\ s.impl \in [1 .. n -> SUBSET LdAllHooks]
        /\ \A j \in 1 .. n : s.impl[j] = LdHooks[s.names[j]]
    BY DEF LdAligned, LdRecords
  <1>2. at \in 1 .. n
    BY <1>1 DEF LdLoaded
  <1>3. t = [names |-> LdSwap(s.names, at, slot), objects |-> LdSwap(s.objects, at, slot),
             impl |-> LdSwap(s.impl, at, slot)]
    BY DEF LdMoveTo
  <1> HIDE DEF at, t
  <1>4. PICK f : f = s.names
    OBVIOUS
  <1>5. PICK g : g = s.impl
    OBVIOUS
  <1>6. f \in [1 .. n -> LdModules] /\ g \in [1 .. n -> SUBSET LdAllHooks] /\ \A j \in 1 .. n : g[j] = LdHooks[f[j]]
    BY <1>1, <1>4, <1>5
  <1>7. PICK x : x = LdSwap(f, at, slot)
    OBVIOUS
  <1>8. PICK y : y = LdSwap(g, at, slot)
    OBVIOUS
  <1>9. x \in [1 .. n -> LdModules] /\ LdMixed(n, f, x)
        /\ \A k \in 1 .. n : x[k] = IF k = slot THEN f[at] ELSE IF k = at THEN f[slot] ELSE f[k]
    <2>1. LdSwapped(n, LdModules, f, at, slot, LdSwap(f, at, slot))
      BY <1>2, <1>6, LdSwapMixes
    <2> QED BY <1>7, <2>1 DEF LdSwapped
  <1>10. y \in [1 .. n -> SUBSET LdAllHooks]
         /\ \A k \in 1 .. n : y[k] = IF k = slot THEN g[at] ELSE IF k = at THEN g[slot] ELSE g[k]
    <2>1. LdSwapped(n, SUBSET LdAllHooks, g, at, slot, LdSwap(g, at, slot))
      BY <1>2, <1>6, LdSwapMixes
    <2> QED BY <1>8, <2>1 DEF LdSwapped
  <1>11. \A k \in 1 .. n : y[k] = LdHooks[x[k]]
    BY <1>2, <1>6, <1>9, <1>10
  <1>12. t = [names |-> x, objects |-> x, impl |-> y]
    BY <1>1, <1>3, <1>4, <1>5, <1>7, <1>8
  <1>13. t \in LdRecords(n) /\ t.names = x /\ t.objects = x /\ t.impl = y
    BY <1>9, <1>10, <1>12 DEF LdRecords
  <1>14. t \in LdAligned(n)
    BY <1>11, <1>13 DEF LdAligned
  <1>15. t \in LdMixes(n, s.names)
    BY <1>4, <1>9, <1>13, <1>14 DEF LdMixes
  <1> QED BY <1>15 DEF t

\* A module loaded before the moves is still loaded after some of them, in one of the slots.
LEMMA LdStillLoaded ==
    ASSUME NEW n \in Nat, NEW s \in LdAligned(n), NEW t \in LdMixes(n, s.names), NEW m, LdLoaded(s, m)
    PROVE  LdLoaded(t, m) /\ LdSlotOf(t, m) \in 1 .. n /\ Len(t.names) = n /\ n > 0
  <1>1. s.names \in [1 .. n -> LdModules] /\ t.names \in [1 .. n -> LdModules]
    BY DEF LdMixes, LdAligned, LdRecords
  <1>2. PICK p : LdShuffle(n, p) /\ \A j \in 1 .. n : t.names[j] = s.names[p[j]]
    BY DEF LdMixes, LdMixed
  <1>3. PICK i \in 1 .. n : s.names[i] = m
    BY <1>1 DEF LdLoaded
  <1>4. PICK j \in 1 .. n : p[j] = i
    BY <1>2 DEF LdShuffle
  <1>5. t.names[j] = m
    BY <1>2, <1>3, <1>4
  <1>6. LdSlotOf(t, m) \in 1 .. n /\ LdLoaded(t, m)
    BY <1>1, <1>5 DEF LdSlotOf, LdLoaded
  <1>7. Len(t.names) = n
    BY <1>1
  <1> QED BY <1>6, <1>7

\* One turn of LdMoveAll keeps the slots a permutation of what they were.
LEMMA LdMoveMixes ==
    ASSUME NEW n \in Nat, NEW s \in LdAligned(n), NEW t \in LdMixes(n, s.names), NEW m, LdLoaded(s, m),
           LdWish(s, m) \in {"last", "first", "before", "after"}
    PROVE  LdMove(t, m, LdWish(s, m)) \in LdMixes(n, s.names)
  <1> DEFINE at == LdWish(s, m)
             of == LdPriority[m].of
  <1>1. t \in LdAligned(n) /\ LdMixed(n, s.names, t.names)
    BY DEF LdMixes
  <1>2. LdLoaded(t, m) /\ Len(t.names) = n /\ n > 0
    BY LdStillLoaded
  <1>3. \A slot \in 1 .. n : LdMoveTo(t, m, slot) \in LdMixes(n, s.names)
    <2> SUFFICES ASSUME NEW slot \in 1 .. n
                 PROVE  LdMoveTo(t, m, slot) \in LdMixes(n, s.names)
      OBVIOUS
    <2> DEFINE u == LdMoveTo(t, m, slot)
    <2>1. u \in LdMixes(n, t.names)
      BY <1>1, <1>2, LdMoveToMixes
    <2> HIDE DEF u
    <2>2. u \in LdAligned(n) /\ LdMixed(n, t.names, u.names)
      BY <2>1 DEF LdMixes
    <2>3. LdMixed(n, s.names, u.names)
      BY <1>1, <2>2, LdMixedOn
    <2>4. u \in LdMixes(n, s.names)
      BY <2>2, <2>3 DEF LdMixes
    <2> QED BY <2>4 DEF u
  <1>4. CASE at = "last"
    BY <1>2, <1>3, <1>4 DEF LdMove
  <1>5. CASE at = "first"
    BY <1>2, <1>3, <1>5 DEF LdMove
  <1>6. CASE at \in {"before", "after"}
    <2>1. LdLoaded(s, of)
      BY <1>6 DEF LdWish
    <2>2. LdSlotOf(t, of) \in 1 .. n
      BY <2>1, LdStillLoaded
    <2>3. LdMove(t, m, at) \in {LdMoveBefore(t, m, of), LdMoveAfter(t, m, of)}
      BY <1>6 DEF LdMove
    <2>4. LdSlotOf(t, of) > 1 => LdSlotOf(t, of) - 1 \in 1 .. n
      BY <2>2
    <2> QED BY <1>3, <2>2, <2>3, <2>4 DEF LdMoveBefore, LdMoveAfter
  <1> QED BY <1>4, <1>5, <1>6

LEMMA LdMoveAllMixes ==
    ASSUME NEW n \in Nat, NEW s \in LdAligned(n), NEW t \in LdMixes(n, s.names),
           NEW at \in {"last", "first", "before", "after"}, NEW order \in Seq(LdModules)
    PROVE  LdMoveAll(s, at, t, order) \in LdMixes(n, s.names)
  <1> DEFINE V == LdMixes(n, s.names)
             len == Len(order)
             Turn(v, m) == IF LdLoaded(s, m) /\ LdWish(s, m) = at THEN LdMove(v, m, at) ELSE v
             F == [q \in (1 .. len) \X V |-> Turn(q[2], order[q[1]])]
             iter == CHOOSE g : g = [u \in SUBSET DOMAIN order |->
                        IF u = {} THEN t ELSE Turn(g[u \ {Max(u)}], order[Max(u)])]
  <1>0. len \in Nat /\ DOMAIN order = 1 .. len
    OBVIOUS
  <1>1. LdMoveAll(s, at, t, order) = iter[DOMAIN order]
    BY DEF LdMoveAll, FoldLeft, MapThenFoldSet
  <1>2. \A v \in V : \A m \in LdModules : Turn(v, m) \in V
    BY LdMoveMixes
  <1> HIDE DEF V, Turn
  <1>3. F \in [(1 .. len) \X V -> V] /\ \A k \in 1 .. len, v \in V : F[k, v] = Turn(v, order[k])
    <2>1. \A k \in 1 .. len : order[k] \in LdModules
      BY <1>0
    <2>2. \A q \in (1 .. len) \X V : Turn(q[2], order[q[1]]) \in V
      BY <1>2, <2>1
    <2>3. \A k \in 1 .. len, v \in V : <<k, v>> \in (1 .. len) \X V /\ <<k, v>>[1] = k /\ <<k, v>>[2] = v
      OBVIOUS
    <2> QED BY <2>2, <2>3
  <1> HIDE DEF F
  <1>4. t \in V
    BY DEF V
  <1>5. PICK g \in [SUBSET (1 .. len) -> V] : FoldOf(g, len, t, F)
    <2>1. FoldFor(len, V, t, F)
      BY <1>0, <1>3, <1>4, FoldExists
    <2> QED BY <2>1 DEF FoldFor
  <1>6. g = [u \in SUBSET DOMAIN order |-> IF u = {} THEN t ELSE Turn(g[u \ {Max(u)}], order[Max(u)])]
    <2>1. ASSUME NEW u \in SUBSET (1 .. len)
          PROVE  g[u] = IF u = {} THEN t ELSE Turn(g[u \ {Max(u)}], order[Max(u)])
      <3>1. g[u] = IF u = {} THEN t ELSE F[Max(u), g[u \ {Max(u)}]]
        BY <1>5 DEF FoldOf
      <3>2. u # {} => Max(u) \in 1 .. len
        BY <1>0, MaxIs
      <3>3. g[u \ {Max(u)}] \in V
        BY <1>5
      <3> QED BY <1>3, <3>1, <3>2, <3>3
    <2> QED BY <1>0, <2>1
  <1>7. iter = [u \in SUBSET DOMAIN order |-> IF u = {} THEN t ELSE Turn(iter[u \ {Max(u)}], order[Max(u)])]
    BY <1>6
  <1> HIDE DEF iter
  <1>8. iter[{}] = t
    BY <1>7
  <1>9. ASSUME NEW k \in 1 .. len, iter[1 .. k - 1] \in V
        PROVE  iter[1 .. k] \in V
    <2>1. 1 .. k \in SUBSET DOMAIN order /\ 1 .. k # {} /\ Max(1 .. k) = k /\ (1 .. k) \ {Max(1 .. k)} = 1 .. k - 1
      BY <1>0, MaxOfRange
    <2>2. iter[1 .. k] = Turn(iter[1 .. k - 1], order[k])
      BY <1>7, <2>1
    <2> QED BY <1>0, <1>2, <1>9, <2>2
  <1>10. iter[1 .. len] \in V
    BY <1>0, <1>4, <1>8, <1>9, FoldStays
  <1> QED BY <1>0, <1>1, <1>10 DEF V

LEMMA LdPrioritiseMixes ==
    ASSUME NEW n \in Nat, NEW s \in LdAligned(n)
    PROVE  LdPrioritise(s) \in LdMixes(n, s.names)
  <1> DEFINE last   == LdMoveAll(s, "last", s, s.names)
             first  == LdMoveAll(s, "first", last, s.names)
             before == LdMoveAll(s, "before", first, LdAlphabet)
             after == LdMoveAll(s, "after", before, LdAlphabet)
  <1>1. s \in LdMixes(n, s.names)
    BY LdMixedSelf DEF LdMixes
  <1>2. s.names \in Seq(LdModules) /\ LdAlphabet \in Seq(LdModules)
    BY LoaderOK DEF LdAligned, LdRecords
  <1>3. last \in LdMixes(n, s.names)
    BY <1>1, <1>2, LdMoveAllMixes
  <1> HIDE DEF last
  <1>4. first \in LdMixes(n, s.names)
    BY <1>3, <1>2, LdMoveAllMixes
  <1> HIDE DEF first
  <1>5. before \in LdMixes(n, s.names)
    BY <1>4, <1>2, LdMoveAllMixes
  <1> HIDE DEF before
  <1>6. after \in LdMixes(n, s.names)
    BY <1>5, <1>2, LdMoveAllMixes
  <1> QED BY <1>6 DEF LdPrioritise, last, first, before

-----------------------------------------------------------------------------
(* The number of modules that implement a hook *)

LdSlotsOf(n, names, h) == {j \in 1 .. n : h \in LdHooks[names[j]]}

LEMMA LdSlotsFinite ==
    ASSUME NEW n \in Nat, NEW names, NEW h
    PROVE  IsFiniteSet(LdSlotsOf(n, names, h)) /\ Cardinality(LdSlotsOf(n, names, h)) \in Nat
  <1>1. LdSlotsOf(n, names, h) \in SUBSET (1 .. n) /\ IsFiniteSet(1 .. n)
    BY FS_Interval DEF LdSlotsOf
  <1>2. IsFiniteSet(LdSlotsOf(n, names, h))
    BY <1>1, FS_Subset
  <1> QED BY <1>2, FS_CardinalityType

\* Swaps do not change it.
LEMMA LdMixedSlots ==
    ASSUME NEW n \in Nat, NEW a, NEW b, LdMixed(n, a, b), NEW h
    PROVE  Cardinality(LdSlotsOf(n, b, h)) = Cardinality(LdSlotsOf(n, a, h))
  <1>1. PICK p : LdShuffle(n, p) /\ \A j \in 1 .. n : b[j] = a[p[j]]
    BY DEF LdMixed
  <1> DEFINE S == LdSlotsOf(n, b, h)
             T == LdSlotsOf(n, a, h)
             q == [j \in S |-> p[j]]
  <1>2. q \in [S -> T] /\ \A i, j \in S : q[i] = q[j] => i = j
    <2>1. \A j \in S : j \in 1 .. n /\ p[j] \in 1 .. n /\ h \in LdHooks[a[p[j]]]
      BY <1>1 DEF LdSlotsOf, LdShuffle
    <2>2. \A j \in S : p[j] \in T
      BY <2>1 DEF LdSlotsOf
    <2>3. \A i, j \in S : p[i] = p[j] => i = j
      BY <1>1, <2>1 DEF LdShuffle
    <2> HIDE DEF S, T
    <2> QED BY <2>2, <2>3
  <1>3. ASSUME NEW j \in T PROVE \E i \in S : q[i] = j
    <2>1. j \in 1 .. n /\ h \in LdHooks[a[j]]
      BY DEF LdSlotsOf
    <2>2. PICK i \in 1 .. n : p[i] = j
      BY <1>1, <2>1 DEF LdShuffle
    <2>3. i \in S
      BY <1>1, <2>1, <2>2 DEF LdSlotsOf
    <2> QED BY <2>2, <2>3
  <1>4. IsFiniteSet(S)
    BY LdSlotsFinite
  <1> HIDE DEF S, T, q
  <1>5. q \in Bijection(S, T)
    BY <1>2, <1>3 DEF Bijection, Injection, Surjection, IsInjective
  <1>6. Cardinality(T) = Cardinality(S)
    BY <1>4, <1>5, FS_Bijection DEF ExistsBijection
  <1> QED BY <1>6 DEF S, T

\* A module more.
LEMMA LdMoreSlots ==
    ASSUME NEW names \in Seq(LdModules), NEW m \in LdModules, NEW h
    PROVE  Cardinality(LdSlotsOf(Len(names) + 1, Append(names, m), h))
           = Cardinality(LdSlotsOf(Len(names), names, h)) + (IF h \in LdHooks[m] THEN 1 ELSE 0)
  <1> DEFINE n == Len(names)
             more == Append(names, m)
             S == LdSlotsOf(n, names, h)
             T == LdSlotsOf(n + 1, more, h)
  <1>1. n \in Nat /\ \A j \in 1 .. n : more[j] = names[j]
    OBVIOUS
  <1>2. more[n + 1] = m
    OBVIOUS
  <1> HIDE DEF more, n
  <1>3. IsFiniteSet(S) /\ Cardinality(S) \in Nat
    BY <1>1, LdSlotsFinite
  <1>4. n + 1 \notin S
    BY <1>1 DEF LdSlotsOf
  <1>5. CASE h \in LdHooks[m]
    <2>1. T = S \cup {n + 1}
      BY <1>1, <1>2, <1>5 DEF LdSlotsOf
    <2> HIDE DEF S, T
    <2>2. Cardinality(S \cup {n + 1}) = Cardinality(S) + 1
      BY <1>3, <1>4, FS_AddElement
    <2> QED BY <2>1, <2>2, <1>5 DEF n, more, S, T
  <1>6. CASE h \notin LdHooks[m]
    <2>1. T = S
      BY <1>1, <1>2, <1>6 DEF LdSlotsOf
    <2> HIDE DEF S, T
    <2>2. Cardinality(T) = Cardinality(S) + 0
      BY <2>1, <1>3
    <2> QED BY <2>2, <1>6 DEF n, more, S, T
  <1> QED BY <1>5, <1>6

\* A module less.
LEMMA LdFewerSlots ==
    ASSUME NEW names \in Seq(LdModules), NEW k \in 1 .. Len(names), NEW h
    PROVE  Cardinality(LdSlotsOf(Len(names) - 1, RemoveAt(names, k), h))
           = Cardinality(LdSlotsOf(Len(names), names, h)) - (IF h \in LdHooks[names[k]] THEN 1 ELSE 0)
  <1> DEFINE n == Len(names)
             fewer == RemoveAt(names, k)
             S == LdSlotsOf(n, names, h)
             T == LdSlotsOf(n - 1, fewer, h)
             q == [j \in T |-> IF j < k THEN j ELSE j + 1]
  <1>1. n \in Nat /\ n - 1 \in Nat /\ k \in 1 .. n
    OBVIOUS
  <1>2. \A i \in 1 .. n - 1 : fewer[i] = IF i < k THEN names[i] ELSE names[i + 1]
    BY RemoveAtIs
  <1> HIDE DEF fewer, n
  <1>3. \A j \in T : j \in 1 .. n - 1 /\ (IF j < k THEN j ELSE j + 1) \in S \ {k}
    <2> SUFFICES ASSUME NEW j \in T
                 PROVE  j \in 1 .. n - 1 /\ (IF j < k THEN j ELSE j + 1) \in S \ {k}
      OBVIOUS
    <2>1. j \in 1 .. n - 1 /\ h \in LdHooks[fewer[j]]
      BY DEF LdSlotsOf
    <2>2. CASE j < k
      BY <1>1, <1>2, <2>1, <2>2 DEF LdSlotsOf
    <2>3. CASE ~(j < k)
      BY <1>1, <1>2, <2>1, <2>3 DEF LdSlotsOf
    <2> QED BY <2>2, <2>3
  <1>4. ASSUME NEW i \in S \ {k} PROVE \E j \in T : q[j] = i
    <2>1. i \in 1 .. n /\ i # k /\ h \in LdHooks[names[i]]
      BY DEF LdSlotsOf
    <2>2. CASE i < k
      <3>1. i \in T
        BY <1>1, <1>2, <2>1, <2>2 DEF LdSlotsOf
      <3> QED BY <2>2, <3>1
    <2>3. CASE ~(i < k)
      <3>1. i - 1 \in 1 .. n - 1 /\ ~(i - 1 < k) /\ (i - 1) + 1 = i
        BY <1>1, <2>1, <2>3
      <3>2. i - 1 \in T
        BY <1>2, <2>1, <3>1 DEF LdSlotsOf
      <3> QED BY <3>1, <3>2
    <2> QED BY <2>2, <2>3
  <1>5. \A i, j \in T : (IF i < k THEN i ELSE i + 1) = (IF j < k THEN j ELSE j + 1) => i = j
    BY <1>1, <1>3
  <1>6. IsFiniteSet(S) /\ Cardinality(S) \in Nat /\ IsFiniteSet(T)
    BY <1>1, LdSlotsFinite
  <1>7. h \in LdHooks[names[k]] <=> k \in S
    BY <1>1 DEF LdSlotsOf
  <1> HIDE DEF S, T
  <1>8. q \in [T -> S \ {k}] /\ \A i, j \in T : q[i] = q[j] => i = j
    BY <1>3, <1>5
  <1> HIDE DEF q
  <1>9. q \in Bijection(T, S \ {k})
    BY <1>4, <1>8 DEF Bijection, Injection, Surjection, IsInjective
  <1>10. Cardinality(S \ {k}) = Cardinality(T)
    BY <1>6, <1>9, FS_Bijection DEF ExistsBijection
  <1>11. Cardinality(S \ {k}) = IF k \in S THEN Cardinality(S) - 1 ELSE Cardinality(S)
    BY <1>6, FS_RemoveElement
  <1>12. Cardinality(T) = Cardinality(S) - (IF h \in LdHooks[names[k]] THEN 1 ELSE 0)
    BY <1>6, <1>7, <1>10, <1>11
  <1> QED BY <1>12 DEF n, fewer, S, T

-----------------------------------------------------------------------------
(* The operations *)

LdKept ==
    /\ ld_names \in Seq(LdModules) /\ ld_impl \in Seq(SUBSET LdAllHooks)
    /\ SlotsAligned
    /\ ld_global \in [LdAllHooks -> Int]
    /\ HooksCounted

LEMMA LdCounted ==
    ASSUME ld_names \in Seq(LdModules)
    PROVE  HooksCounted <=> \A h \in LdAllHooks : ld_global[h] = Cardinality(LdSlotsOf(Len(ld_names), ld_names, h))
  <1>1. DOMAIN ld_names = 1 .. Len(ld_names)
    OBVIOUS
  <1>2. \A h \in LdAllHooks : {j \in DOMAIN ld_names : h \in LdHooks[ld_names[j]]} = LdSlotsOf(Len(ld_names), ld_names, h)
    BY <1>1 DEF LdSlotsOf
  <1> QED BY <1>2 DEF HooksCounted

LEMMA LdCountedNext ==
    ASSUME ld_names' \in Seq(LdModules)
    PROVE  HooksCounted' <=> \A h \in LdAllHooks : ld_global'[h] = Cardinality(LdSlotsOf(Len(ld_names'), ld_names', h))
  <1>1. DOMAIN ld_names' = 1 .. Len(ld_names')
    OBVIOUS
  <1>2. \A h \in LdAllHooks : {j \in DOMAIN ld_names' : h \in LdHooks[ld_names'[j]]} = LdSlotsOf(Len(ld_names'), ld_names', h)
    BY <1>1 DEF LdSlotsOf
  <1> QED BY <1>2 DEF HooksCounted

LEMMA LdInitKept == LoaderInit => LdKept
  <1> SUFFICES ASSUME LoaderInit
               PROVE  LdKept
    OBVIOUS
  <1>1. ld_names = <<>> /\ ld_objects = <<>> /\ ld_impl = <<>> /\ ld_global = [h \in LdAllHooks |-> 0]
    BY DEF LoaderInit
  <1>2. HooksCounted
    <2>1. \A h \in LdAllHooks : {j \in DOMAIN ld_names : h \in LdHooks[ld_names[j]]} = {}
      BY <1>1
    <2> QED BY <1>1, <2>1, FS_EmptySet DEF HooksCounted
  <1> QED BY <1>1, <1>2 DEF LdKept, SlotsAligned

LEMMA LdLoadKept ==
    ASSUME LdKept, NEW m \in LdModules, LdLoad(m)
    PROVE  LdKept'
  <1> DEFINE n == Len(ld_names) + 1
             s == [names |-> Append(ld_names, m), objects |-> Append(ld_objects, m),
                   impl |-> Append(ld_impl, LdHooks[m])]
             t == LdPrioritise(s)
  <1>1. ld_names \in Seq(LdModules) /\ ld_impl \in Seq(SUBSET LdAllHooks) /\ ld_objects = ld_names
        /\ Len(ld_impl) = Len(ld_names) /\ (\A j \in 1 .. Len(ld_names) : ld_impl[j] = LdHooks[ld_names[j]])
        /\ ld_global \in [LdAllHooks -> Int]
    BY DEF LdKept, SlotsAligned
  <1>2. LdHooks[m] \in SUBSET LdAllHooks
    BY DEF LdAllHooks
  <1>3. n \in Nat /\ Append(ld_names, m) \in [1 .. n -> LdModules]
        /\ Append(ld_impl, LdHooks[m]) \in [1 .. n -> SUBSET LdAllHooks]
    <2>1. n \in Nat /\ Append(ld_names, m) \in Seq(LdModules) /\ Len(Append(ld_names, m)) = n
      BY <1>1
    <2>2. Append(ld_impl, LdHooks[m]) \in Seq(SUBSET LdAllHooks) /\ Len(Append(ld_impl, LdHooks[m])) = n
      BY <1>1, <1>2
    <2> HIDE DEF n
    <2>3. \A S : \A f \in Seq(S) : Len(f) = n => f \in [1 .. n -> S]
      BY LenProperties
    <2> QED BY <2>1, <2>2, <2>3
  <1>4. ASSUME NEW j \in 1 .. n
        PROVE  Append(ld_impl, LdHooks[m])[j] = LdHooks[Append(ld_names, m)[j]]
    <2>1. CASE j = n
      BY <1>1, <1>2, <2>1
    <2>2. CASE j # n
      <3>1. j \in 1 .. Len(ld_names)
        BY <1>1, <2>2
      <3>2. Append(ld_impl, LdHooks[m])[j] = ld_impl[j] /\ Append(ld_names, m)[j] = ld_names[j]
        BY <1>1, <1>2, <3>1
      <3> QED BY <1>1, <3>1, <3>2
    <2> QED BY <2>1, <2>2
  <1>5. s \in LdAligned(n) /\ s.names = Append(ld_names, m)
    BY <1>1, <1>3, <1>4 DEF LdAligned, LdRecords
  <1>6. t \in LdMixes(n, Append(ld_names, m))
    <2> HIDE DEF s, n
    <2> QED BY <1>3, <1>5, LdPrioritiseMixes
  <1>7. ld_names' = t.names /\ ld_objects' = t.objects /\ ld_impl' = t.impl
        /\ ld_global' = [h \in LdAllHooks |-> ld_global[h] + (IF h \in LdHooks[m] THEN 1 ELSE 0)]
    BY DEF LdLoad
  <1> HIDE DEF t, s, n
  <1>8. t.names \in [1 .. n -> LdModules] /\ t.impl \in [1 .. n -> SUBSET LdAllHooks] /\ t.objects = t.names
        /\ (\A j \in 1 .. n : t.impl[j] = LdHooks[t.names[j]]) /\ LdMixed(n, Append(ld_names, m), t.names)
    BY <1>6 DEF LdMixes, LdAligned, LdRecords
  <1>9. ld_names' \in Seq(LdModules) /\ ld_impl' \in Seq(SUBSET LdAllHooks) /\ Len(ld_names') = n /\ Len(ld_impl') = n
    BY <1>3, <1>7, <1>8
  <1>10. SlotsAligned'
    <2>1. DOMAIN ld_names' = 1 .. n
      BY <1>9
    <2> QED BY <1>7, <1>8, <1>9, <2>1 DEF SlotsAligned
  <1>11. ld_global' \in [LdAllHooks -> Int]
    BY <1>1, <1>7
  <1>12. ASSUME NEW h \in LdAllHooks
         PROVE  ld_global'[h] = Cardinality(LdSlotsOf(Len(ld_names'), ld_names', h))
    <2>1. ld_global[h] = Cardinality(LdSlotsOf(Len(ld_names), ld_names, h))
      BY <1>1, LdCounted DEF LdKept
    <2>2. Cardinality(LdSlotsOf(n, Append(ld_names, m), h)) = ld_global[h] + (IF h \in LdHooks[m] THEN 1 ELSE 0)
      BY <1>1, <2>1, LdMoreSlots DEF n
    <2>3. Cardinality(LdSlotsOf(n, t.names, h)) = Cardinality(LdSlotsOf(n, Append(ld_names, m), h))
      BY <1>3, <1>8, LdMixedSlots
    <2>4. ld_global'[h] = ld_global[h] + (IF h \in LdHooks[m] THEN 1 ELSE 0)
      BY <1>7
    <2> QED BY <1>7, <1>9, <2>2, <2>3, <2>4
  <1>13. HooksCounted'
    BY <1>9, <1>12, LdCountedNext
  <1> QED BY <1>9, <1>10, <1>11, <1>13 DEF LdKept

LEMMA LdUnloadKept ==
    ASSUME LdKept, NEW m \in LdModules, LdUnload(m)
    PROVE  LdKept'
  <1> DEFINE n == Len(ld_names)
             j == LdSlotOf([names |-> ld_names], m)
  <1>1. ld_names \in Seq(LdModules) /\ ld_impl \in Seq(SUBSET LdAllHooks) /\ ld_objects = ld_names
        /\ Len(ld_impl) = n /\ (\A i \in 1 .. n : ld_impl[i] = LdHooks[ld_names[i]])
        /\ ld_global \in [LdAllHooks -> Int] /\ n \in Nat
    BY DEF LdKept, SlotsAligned
  <1>2. j \in 1 .. n
    <2>1. LdLoaded([names |-> ld_names], m)
      BY DEF LdUnload
    <2>2. \E i \in DOMAIN ld_names : ld_names[i] = m
      BY <2>1 DEF LdLoaded
    <2>3. j = CHOOSE i \in DOMAIN ld_names : ld_names[i] = m
      BY DEF LdSlotOf
    <2> HIDE DEF j
    <2> QED BY <1>1, <2>2, <2>3
  <1>3. ld_names' = RemoveAt(ld_names, j) /\ ld_objects' = RemoveAt(ld_objects, j) /\ ld_impl' = RemoveAt(ld_impl, j)
        /\ ld_global' = [h \in LdAllHooks |-> ld_global[h] - (IF h \in ld_impl[j] THEN 1 ELSE 0)]
    BY DEF LdUnload, LdErase
  <1> HIDE DEF j, n
  <1>4. ld_names' \in Seq(LdModules) /\ Len(ld_names') = n - 1 /\ DOMAIN ld_names' = 1 .. n - 1
        /\ \A i \in 1 .. n - 1 : ld_names'[i] = IF i < j THEN ld_names[i] ELSE ld_names[i + 1]
    BY <1>1, <1>2, <1>3, RemoveAtIs DEF n
  <1>5. ld_impl' \in Seq(SUBSET LdAllHooks) /\ Len(ld_impl') = n - 1
        /\ \A i \in 1 .. n - 1 : ld_impl'[i] = IF i < j THEN ld_impl[i] ELSE ld_impl[i + 1]
    BY <1>1, <1>2, <1>3, RemoveAtIs
  <1>6. SlotsAligned'
    <2>1. \A i \in 1 .. n - 1 : ld_impl'[i] = LdHooks[ld_names'[i]]
      <3> SUFFICES ASSUME NEW i \in 1 .. n - 1
                   PROVE  ld_impl'[i] = LdHooks[ld_names'[i]]
        OBVIOUS
      <3>1. i \in 1 .. n /\ i + 1 \in 1 .. n
        BY <1>1
      <3> QED BY <1>1, <1>4, <1>5, <3>1
    <2> QED BY <1>1, <1>3, <1>4, <1>5, <2>1 DEF SlotsAligned
  <1>7. ld_global' \in [LdAllHooks -> Int]
    BY <1>1, <1>3
  <1>8. ASSUME NEW h \in LdAllHooks
        PROVE  ld_global'[h] = Cardinality(LdSlotsOf(Len(ld_names'), ld_names', h))
    <2>1. ld_global[h] = Cardinality(LdSlotsOf(n, ld_names, h))
      BY <1>1, LdCounted DEF LdKept, n
    <2>2. Cardinality(LdSlotsOf(n - 1, RemoveAt(ld_names, j), h))
          = Cardinality(LdSlotsOf(n, ld_names, h)) - (IF h \in LdHooks[ld_names[j]] THEN 1 ELSE 0)
      BY <1>1, <1>2, LdFewerSlots DEF n
    <2>3. ld_global'[h] = ld_global[h] - (IF h \in LdHooks[ld_names[j]] THEN 1 ELSE 0)
      BY <1>1, <1>2, <1>3
    <2> QED BY <1>3, <1>4, <2>1, <2>2, <2>3
  <1>9. HooksCounted'
    BY <1>4, <1>8, LdCountedNext
  <1> QED BY <1>4, <1>5, <1>6, <1>7, <1>9 DEF LdKept

\* LdSlotsSound: after any loads, moves and unloads each slot of the parallel arrays InspIRCd keeps is about one
\* module, and every hook is counted for exactly the modules that implement it.
THEOREM SlotsAlwaysSound == LoaderSpec => []LdSlotsSound
  <1>1. LdKept /\ [LoaderNext]_ld_vars => LdKept'
    <2> SUFFICES ASSUME LdKept, [LoaderNext]_ld_vars
                 PROVE  LdKept'
      OBVIOUS
    <2>1. ASSUME UNCHANGED <<ld_slots, ld_global>>
          PROVE  LdKept'
      BY <2>1 DEF LdKept, SlotsAligned, HooksCounted, ld_slots
    <2>2. ASSUME NEW m \in LdModules, LdLoadThrows(m) PROVE LdKept'
      BY <2>1, <2>2 DEF LdLoadThrows
    <2>3. ASSUME NEW c \in LdCoreOwned, LdReload(c) PROVE LdKept'
      BY <2>1, <2>3 DEF LdReload
    <2>4. ASSUME UNCHANGED ld_vars PROVE LdKept'
      BY <2>1, <2>4 DEF ld_vars
    <2> QED BY <2>2, <2>3, <2>4, LdLoadKept, LdUnloadKept DEF LoaderNext
  <1>2. LdKept => LdSlotsSound
    BY DEF LdKept, LdSlotsSound
  <1> QED BY <1>1, <1>2, LdInitKept, PTL DEF LoaderSpec
=============================================================================

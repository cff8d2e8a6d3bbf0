-------------------------- MODULE ServerTreeProofs --------------------------
(***************************************************************************)
(* Proofs about the trees of the servers of a network, for any servers, any *)
(* link blocks that close no circle, and any number of links made and lost. *)
(*                                                                         *)
(* With one way at most between two servers (TrOneWay), a server can be in  *)
(* a tree in one place only. What is on its way from one server to another  *)
(* is read as what it makes of the reader's side of the writer: line by     *)
(* line it leads him to have what the writer would have him have, or to the *)
(* end of the stream (TrSays, TrLeads, TrPairOK). Each handler is one lemma *)
(* about the record of a server: what it leaves sound, and that what it     *)
(* writes to each neighbour leads that one on (TrMoves). TrKept is the      *)
(* invariant of it all, TrNews what it takes for a notice to be heard once: *)
(* it only moves away from whom it is of.                                   *)
(***************************************************************************)
EXTENDS ServerTree, DataFacts, SequenceTheorems, FiniteSetTheorems, TLAPS

\* n leads from s over link blocks and comes nowhere twice; the empty one stays at s.
TrWay(plan, s, n) ==
    /\ n \in Seq(TrServers)
    /\ \A i, j \in 1 .. Len(n) : n[i] = n[j] => i = j
    /\ \A i \in 1 .. Len(n) : n[i] # s /\ TrLinked(plan, IF i = 1 THEN s ELSE n[i - 1], n[i])

\* No way is longer than there are servers.
LEMMA TrWayListed ==
    ASSUME NEW plan, NEW s \in TrServers, NEW n, TrWay(plan, s, n), n # <<>>
    PROVE  n \in TrWays(plan, s)
  <1> DEFINE k == Len(n)
             T == TrServers \ {s}
  <1>1. n \in Seq(TrServers) /\ k \in Nat /\ k # 0 /\ n \in [1 .. k -> TrServers] /\ DOMAIN n = 1 .. k
    BY DEF TrWay
  <1>2. n \in Injection(1 .. k, T)
    <2>1. n \in [1 .. k -> T]
      BY <1>1 DEF TrWay
    <2>2. \A a, b \in 1 .. k : n[a] = n[b] => a = b
      BY DEF TrWay
    <2> QED BY <2>1, <2>2 DEF Injection, IsInjective
  <1>3. IsFiniteSet(T) /\ Cardinality(T) = Cardinality(TrServers) - 1 /\ Cardinality(TrServers) \in Nat
    BY ServerTreeOK, FS_RemoveElement, FS_CardinalityType
  <1>4. Cardinality(1 .. k) = k
    BY <1>1, FS_Interval
  <1>5. k <= Cardinality(T)
    BY <1>2, <1>3, <1>4, FS_Injection
  <1>6. k \in 1 .. Cardinality(TrServers) - 1
    BY <1>1, <1>3, <1>5
  <1>7. n \in UNION {[1 .. m -> TrServers] : m \in 1 .. Cardinality(TrServers) - 1}
    BY <1>1, <1>6
  <1> HIDE DEF k
  <1> QED BY <1>1, <1>7 DEF TrWays, TrWay, k

\* In a tree there is one way at most.
LEMMA TrOneWay ==
    ASSUME NEW plan \in TrTrees, NEW s \in TrServers, NEW m, NEW n, TrWay(plan, s, m), TrWay(plan, s, n),
           m # <<>>, n # <<>>, m[Len(m)] = n[Len(n)]
    PROVE  m = n
  <1>1. m \in TrWays(plan, s) /\ n \in TrWays(plan, s)
    BY TrWayListed
  <1>2. Last(m) = Last(n)
    BY DEF Last
  <1> QED BY <1>1, <1>2 DEF TrTrees

LEMMA TrLinkedBoth ==
    ASSUME NEW plan, NEW s, NEW t, TrLinked(plan, s, t)
    PROVE  TrLinked(plan, t, s)
  BY DEF TrLinked

\* The beginning of a way is one, and a link is one.
LEMMA TrWayUpTo ==
    ASSUME NEW plan, NEW s \in TrServers, NEW n, TrWay(plan, s, n), NEW k \in 0 .. Len(n)
    PROVE  /\ TrWay(plan, s, SubSeq(n, 1, k)) /\ Len(SubSeq(n, 1, k)) = k
           /\ \A i \in 1 .. k : SubSeq(n, 1, k)[i] = n[i]
  <1> DEFINE m == SubSeq(n, 1, k)
  <1>1. n \in Seq(TrServers) /\ Len(n) \in Nat
    BY DEF TrWay
  <1>2. m \in Seq(TrServers) /\ Len(m) = k /\ \A i \in 1 .. k : m[i] = n[i]
    BY <1>1
  <1> HIDE DEF m
  <1>3. \A i \in 1 .. k : i \in 1 .. Len(n) /\ (i # 1 => i - 1 \in 1 .. k)
    BY <1>1
  <1>4. ASSUME NEW i \in 1 .. k
        PROVE  m[i] # s /\ TrLinked(plan, IF i = 1 THEN s ELSE m[i - 1], m[i])
    <2>1. n[i] # s /\ TrLinked(plan, IF i = 1 THEN s ELSE n[i - 1], n[i])
      BY <1>3 DEF TrWay
    <2>2. i # 1 => m[i - 1] = n[i - 1]
      BY <1>2, <1>3
    <2> QED BY <1>2, <2>1, <2>2
  <1>5. \A i, j \in 1 .. k : m[i] = m[j] => i = j
    BY <1>2, <1>3 DEF TrWay
  <1>6. TrWay(plan, s, m)
    BY <1>2, <1>4, <1>5 DEF TrWay
  <1> QED BY <1>2, <1>6 DEF m

LEMMA TrWayLink ==
    ASSUME NEW plan, NEW s \in TrServers, NEW t \in TrServers, s # t, TrLinked(plan, s, t)
    PROVE  TrWay(plan, s, <<t>>)
  <1>1. <<t>> \in Seq(TrServers) /\ Len(<<t>>) = 1 /\ <<t>>[1] = t
    OBVIOUS
  <1> QED BY <1>1 DEF TrWay

\* A way that does not begin with a neighbour does not pass him, and he can put his own first step before it.
LEMMA TrWayAvoids ==
    ASSUME NEW plan \in TrTrees, NEW a \in TrServers, NEW b \in TrServers, a # b, TrLinked(plan, a, b),
           NEW n, TrWay(plan, a, n), n # <<>> => n[1] # b
    PROVE  \A i \in 1 .. Len(n) : n[i] # b
  <1>1. SUFFICES ASSUME NEW i \in 1 .. Len(n), n[i] = b PROVE FALSE
    OBVIOUS
  <1> DEFINE m == SubSeq(n, 1, i)
  <1>2. n \in Seq(TrServers) /\ Len(n) \in Nat /\ i \in 0 .. Len(n) /\ i \in 1 .. i /\ 1 \in 1 .. i
    BY DEF TrWay
  <1>3. TrWay(plan, a, m) /\ Len(m) = i /\ \A j \in 1 .. i : m[j] = n[j]
    BY <1>2, TrWayUpTo
  <1> HIDE DEF m
  <1>4. m # <<>> /\ m[Len(m)] = b
    BY <1>1, <1>2, <1>3
  <1>5. TrWay(plan, a, <<b>>) /\ <<b>> # <<>> /\ <<b>>[Len(<<b>>)] = b /\ <<b>>[1] = b
    BY TrWayLink
  <1>6. m = <<b>>
    BY <1>3, <1>4, <1>5, TrOneWay
  <1>7. n[1] = b
    BY <1>2, <1>3, <1>5, <1>6
  <1>8. n # <<>>
    BY <1>2
  <1> QED BY <1>7, <1>8

LEMMA TrWayFrom ==
    ASSUME NEW plan \in TrTrees, NEW a \in TrServers, NEW b \in TrServers, a # b, TrLinked(plan, a, b),
           NEW n, TrWay(plan, a, n), n # <<>> => n[1] # b
    PROVE  TrWay(plan, b, <<a>> \o n)
  <1> DEFINE m == <<a>> \o n
             l == Len(n)
  <1>1. n \in Seq(TrServers) /\ l \in Nat
    BY DEF TrWay
  <1>2. m \in Seq(TrServers) /\ Len(m) = l + 1 /\ m[1] = a /\ \A i \in 2 .. l + 1 : m[i] = n[i - 1]
    BY <1>1
  <1>3. \A i \in 1 .. l : n[i] # b
    BY TrWayAvoids
  <1>4. \A i \in 1 .. l : n[i] # a /\ TrLinked(plan, IF i = 1 THEN a ELSE n[i - 1], n[i])
    BY DEF TrWay
  <1>5. \A i, j \in 1 .. l : n[i] = n[j] => i = j
    BY DEF TrWay
  <1> HIDE DEF m, l
  <1>6. ASSUME NEW i \in 1 .. l + 1
        PROVE  m[i] # b /\ TrLinked(plan, IF i = 1 THEN b ELSE m[i - 1], m[i])
    <2>1. CASE i = 1
      BY <1>2, <2>1, TrLinkedBoth
    <2>2. CASE i # 1
      <3>1. i \in 2 .. l + 1 /\ i - 1 \in 1 .. l /\ m[i] = n[i - 1]
        BY <1>1, <1>2, <2>2
      <3>2. m[i - 1] = IF i - 1 = 1 THEN a ELSE n[(i - 1) - 1]
        BY <1>1, <1>2, <3>1
      <3> QED BY <1>3, <1>4, <2>2, <3>1, <3>2
    <2> QED BY <2>1, <2>2
  <1>7. ASSUME NEW i \in 1 .. l + 1, NEW j \in 1 .. l + 1, m[i] = m[j]
        PROVE  i = j
    <2>1. \A k \in 1 .. l + 1 : k # 1 => k - 1 \in 1 .. l /\ m[k] = n[k - 1]
      BY <1>1, <1>2
    <2> QED BY <1>1, <1>2, <1>4, <1>5, <1>7, <2>1
  <1>8. TrWay(plan, b, m)
    BY <1>2, <1>6, <1>7 DEF TrWay
  <1> QED BY <1>8 DEF m

TrLines ==
    [cmd : {"EOF", "BURST", "SERVER", "SQUIT", "NOTICE"}, prefix : TrServers \cup {TrNone}, x : TrServers \cup {TrNone}]

\* What b has of the side of a, and what a would have him have: the servers a reaches otherwise than over b.
TrVia(nodes, a) == {n \in nodes : n # <<>> /\ n[1] = a}
TrTells(nodes, a, b) == {<<a>> \o n : n \in {m \in nodes : m # <<>> => m[1] # b}}

\* What a line from a makes, for b who reads it, of what he has of the side of a.
TrSays(plan, b, a, Q, l, R) ==
    \/ l.cmd = "EOF"
    \/ l.cmd = "NOTICE" /\ R = Q
    \/ l.cmd = "BURST" /\ R = Q \cup {<<a>>}
    \/ /\ l.cmd = "SERVER"
       /\ \E q \in Q : /\ q # <<>> /\ q[Len(q)] = l.prefix /\ l.x \in TrServers
                       /\ Append(q, l.x) \notin Q /\ TrWay(plan, b, Append(q, l.x))
                       /\ R = Q \cup {Append(q, l.x)}
    \/ /\ l.cmd = "SQUIT"
       /\ \E n \in Q : /\ Len(n) >= 2 /\ n[Len(n)] = l.x /\ n[Len(n) - 1] = l.prefix
                       /\ R = {m \in Q : ~IsPrefix(n, m)}
TrTrail(p, plan, b, a, wire, Q, R) ==
    /\ p[0] = Q /\ p[Len(wire)] = R
    /\ \A k \in 1 .. Len(wire) : TrSays(plan, b, a, p[k - 1], wire[k], p[k])
TrLeads(plan, b, a, wire, Q, R) == \E p : TrTrail(p, plan, b, a, wire, Q, R)

\* No line, one more, one less.
LEMMA TrLeadsNone ==
    ASSUME NEW plan, NEW b, NEW a, NEW Q
    PROVE  TrLeads(plan, b, a, <<>>, Q, Q)
  <1> DEFINE p == [k \in 0 .. 0 |-> Q]
  <1>1. TrTrail(p, plan, b, a, <<>>, Q, Q)
    BY DEF TrTrail
  <1> HIDE DEF p
  <1> QED BY <1>1 DEF TrLeads

LEMMA TrLeadsAppend ==
    ASSUME NEW plan, NEW b, NEW a, NEW wire \in Seq(TrLines), NEW l \in TrLines, NEW Q, NEW R, NEW R2,
           TrLeads(plan, b, a, wire, Q, R), TrSays(plan, b, a, R, l, R2)
    PROVE  TrLeads(plan, b, a, Append(wire, l), Q, R2)
  <1> DEFINE n == Len(wire)
             long == Append(wire, l)
  <1>1. PICK p : TrTrail(p, plan, b, a, wire, Q, R)
    BY DEF TrLeads
  <1>2. p[0] = Q /\ p[n] = R /\ \A k \in 1 .. n : TrSays(plan, b, a, p[k - 1], wire[k], p[k])
    BY <1>1 DEF TrTrail
  <1>3. n \in Nat /\ Len(long) = n + 1 /\ long[n + 1] = l /\ \A k \in 1 .. n : long[k] = wire[k]
    OBVIOUS
  <1> DEFINE q == [k \in 0 .. n + 1 |-> IF k = n + 1 THEN R2 ELSE p[k]]
  <1> HIDE DEF n, long
  <1>4. q[n + 1] = R2 /\ \A k \in 0 .. n : q[k] = p[k]
    BY <1>3
  <1> HIDE DEF q
  <1>5. q[0] = Q
    BY <1>2, <1>3, <1>4
  <1>6. ASSUME NEW k \in 1 .. n + 1
        PROVE  TrSays(plan, b, a, q[k - 1], long[k], q[k])
    <2>1. CASE k = n + 1
      <3>1. k - 1 = n /\ n \in 0 .. n
        BY <1>3, <2>1
      <3>2. q[k - 1] = R /\ q[k] = R2 /\ long[k] = l
        BY <1>2, <1>3, <1>4, <2>1, <3>1
      <3> QED BY <3>2
    <2>2. CASE k # n + 1
      <3>1. k \in 1 .. n /\ k \in 0 .. n /\ k - 1 \in 0 .. n
        BY <1>3, <2>2
      <3>2. q[k - 1] = p[k - 1] /\ q[k] = p[k] /\ long[k] = wire[k]
        BY <1>3, <1>4, <3>1
      <3> QED BY <1>2, <3>1, <3>2
    <2> QED BY <2>1, <2>2
  <1>7. TrTrail(q, plan, b, a, long, Q, R2)
    BY <1>3, <1>4, <1>5, <1>6 DEF TrTrail
  <1> QED BY <1>7 DEF TrLeads, long

LEMMA TrLeadsTail ==
    ASSUME NEW plan, NEW b, NEW a, NEW wire \in Seq(TrLines), wire # <<>>, NEW Q, NEW R,
           TrLeads(plan, b, a, wire, Q, R)
    PROVE  \E Q2 : TrSays(plan, b, a, Q, Head(wire), Q2) /\ TrLeads(plan, b, a, Tail(wire), Q2, R)
  <1> DEFINE n == Len(wire)
             short == Tail(wire)
  <1>1. PICK p : TrTrail(p, plan, b, a, wire, Q, R)
    BY DEF TrLeads
  <1>2. p[0] = Q /\ p[n] = R /\ \A k \in 1 .. n : TrSays(plan, b, a, p[k - 1], wire[k], p[k])
    BY <1>1 DEF TrTrail
  <1>3. n \in Nat \ {0} /\ Len(short) = n - 1 /\ Head(wire) = wire[1] /\ \A k \in 1 .. n - 1 : short[k] = wire[k + 1]
    OBVIOUS
  <1> DEFINE q == [k \in 0 .. n - 1 |-> p[k + 1]]
  <1> HIDE DEF n, short
  <1>4. \A k \in 0 .. n - 1 : q[k] = p[k + 1]
    OBVIOUS
  <1> HIDE DEF q
  <1>5. q[0] = p[1] /\ q[n - 1] = R
    <2>1. 0 \in 0 .. n - 1 /\ n - 1 \in 0 .. n - 1 /\ 0 + 1 = 1 /\ (n - 1) + 1 = n
      BY <1>3
    <2> QED BY <1>2, <1>4, <2>1
  <1>6. ASSUME NEW k \in 1 .. n - 1
        PROVE  TrSays(plan, b, a, q[k - 1], short[k], q[k])
    <2>1. k \in 0 .. n - 1 /\ k - 1 \in 0 .. n - 1 /\ k + 1 \in 1 .. n /\ (k + 1) - 1 = k /\ (k - 1) + 1 = k
      BY <1>3
    <2>2. q[k - 1] = p[k] /\ q[k] = p[k + 1] /\ short[k] = wire[k + 1]
      BY <1>3, <1>4, <2>1
    <2>3. TrSays(plan, b, a, p[(k + 1) - 1], wire[k + 1], p[k + 1])
      BY <1>2, <2>1
    <2> QED BY <2>1, <2>2, <2>3
  <1>7. TrTrail(q, plan, b, a, short, p[1], R)
    BY <1>3, <1>5, <1>6 DEF TrTrail
  <1>8. TrSays(plan, b, a, Q, Head(wire), p[1])
    <2>1. 1 \in 1 .. n /\ 1 - 1 = 0
      BY <1>3
    <2>2. TrSays(plan, b, a, p[1 - 1], wire[1], p[1])
      BY <1>2, <2>1
    <2> QED BY <1>2, <1>3, <2>1, <2>2
  <1>9. TrLeads(plan, b, a, short, p[1], R)
    BY <1>7 DEF TrLeads
  <1> QED BY <1>8, <1>9 DEF short

-----------------------------------------------------------------------------
\* What a server keeps: its tree, in which each server is where the one way leads, and the list of names of it.
TrLinks == {"none", "dialled", "auth2", "up"}
TrStates ==
    [me : TrServers, nodes : SUBSET Seq(TrServers), hash : [TrServers -> SUBSET Seq(TrServers)],
     sock : [TrServers -> TrLinks], out : [TrServers -> Seq(TrLines)]]
TrNamed(nodes, me, x) == {n \in nodes : IF n = <<>> THEN x = me ELSE n[Len(n)] = x}
TrBook(plan, S) ==
    /\ S \in TrStates
    /\ <<>> \in S.nodes
    /\ \A n \in S.nodes : TrWay(plan, S.me, n) /\ (n # <<>> => SubSeq(n, 1, Len(n) - 1) \in S.nodes)
    /\ \A x \in TrServers : S.hash[x] = TrNamed(S.nodes, S.me, x)
\* Its sockets: the ones that are up are the first steps into the tree.
TrPlugged(plan, S) ==
    /\ \A n \in S.nodes : n # <<>> => S.sock[n[1]] = "up"
    /\ \A t \in TrServers : /\ S.sock[t] = "up" => <<t>> \in S.nodes
                            /\ S.sock[t] # "none" => t # S.me /\ TrLinked(plan, S.me, t)

LEMMA TrWayEnds ==
    ASSUME NEW plan, NEW s \in TrServers, NEW n, TrWay(plan, s, n), n # <<>>
    PROVE  n \in Seq(TrServers) /\ Len(n) \in Nat \ {0} /\ n[1] \in TrServers /\ n[1] # s
           /\ n[Len(n)] \in TrServers /\ n[Len(n)] # s
  BY DEF TrWay

\* Who is in the tree is found by his name, and only there.
LEMMA TrKnown ==
    ASSUME NEW plan \in TrTrees, NEW S, TrBook(plan, S), NEW n \in S.nodes, n # <<>>
    PROVE  LET x == n[Len(n)] IN
           /\ x \in TrServers /\ x # S.me /\ x # TrNone /\ S.hash[x] = {n}
           /\ TrKnows(S, x) /\ TrFind(S, x) = n /\ TrRoute(S, x) = n[1]
  <1> DEFINE x == n[Len(n)]
  <1>1. S.me \in TrServers /\ \A m \in S.nodes : TrWay(plan, S.me, m)
    BY DEF TrBook, TrStates
  <1>2. x \in TrServers /\ x # S.me /\ x # TrNone
    BY <1>1, TrWayEnds, ServerTreeOK
  <1>3. ASSUME NEW m \in S.nodes PROVE (IF m = <<>> THEN x = S.me ELSE m[Len(m)] = x) <=> m = n
    <2>1. m # <<>> /\ m[Len(m)] = x => m = n
      BY <1>1, TrOneWay
    <2> QED BY <1>2, <2>1
  <1>4. S.hash[x] = {n}
    <2>1. S.hash[x] = TrNamed(S.nodes, S.me, x)
      BY <1>2 DEF TrBook
    <2> HIDE DEF x
    <2> QED BY <2>1, <1>3 DEF TrNamed
  <1> HIDE DEF x
  <1>5. TrKnows(S, x)
    BY <1>2, <1>4 DEF TrKnows
  <1>6. TrFind(S, x) = n
    BY <1>4 DEF TrFind
  <1>7. TrRoute(S, x) = n[1]
    BY <1>2, <1>5, <1>6 DEF TrRoute
  <1> QED BY <1>2, <1>4, <1>5, <1>6, <1>7 DEF x

\* And who is found by his name is in the tree.
LEMMA TrFoundIs ==
    ASSUME NEW plan \in TrTrees, NEW S, TrBook(plan, S), NEW x \in TrServers, x # S.me, TrKnows(S, x)
    PROVE  \E n \in S.nodes : n # <<>> /\ n[Len(n)] = x
  <1>1. S.hash[x] # {}
    BY DEF TrKnows
  <1>2. S.hash[x] = TrNamed(S.nodes, S.me, x)
    BY DEF TrBook
  <1> QED BY <1>1, <1>2 DEF TrNamed

-----------------------------------------------------------------------------
\* IsPrefix, element by element.
LEMMA TrPrefixIs ==
    ASSUME NEW T, NEW m \in Seq(T), NEW n \in Seq(T)
    PROVE  IsPrefix(m, n) <=> Len(m) <= Len(n) /\ \A i \in 1 .. Len(m) : m[i] = n[i]
  <1>1. SUFFICES ASSUME Len(m) <= Len(n)
                 PROVE  SubSeq(m, 1, Len(m)) = SubSeq(n, 1, Len(m)) <=> \A i \in 1 .. Len(m) : m[i] = n[i]
    BY DEF IsPrefix
  <1> DEFINE a == SubSeq(m, 1, Len(m))
             b == SubSeq(n, 1, Len(m))
  <1>2. a \in Seq(T) /\ Len(a) = Len(m) /\ \A i \in 1 .. Len(m) : a[i] = m[i]
    OBVIOUS
  <1>3. b \in Seq(T) /\ Len(b) = Len(m) /\ \A i \in 1 .. Len(m) : b[i] = n[i]
    BY <1>1
  <1> HIDE DEF a, b
  <1>4. a = b <=> \A i \in 1 .. Len(m) : a[i] = b[i]
    <2>1. (\A i \in 1 .. Len(a) : a[i] = b[i]) => a = b
      BY <1>2, <1>3, SeqEqual
    <2> QED BY <1>2, <2>1
  <1>5. a = b <=> \A i \in 1 .. Len(m) : m[i] = n[i]
    BY <1>2, <1>3, <1>4
  <1> QED BY <1>5 DEF a, b

\* A way is shorter than there are servers, so a tree is finite.
LEMMA TrWayShort ==
    ASSUME NEW plan, NEW s \in TrServers, NEW n, TrWay(plan, s, n)
    PROVE  n \in Seq(TrServers) /\ Len(n) <= Cardinality(TrServers) /\ Cardinality(TrServers) \in Nat
  <1>1. Cardinality(TrServers) \in Nat /\ n \in Seq(TrServers)
    BY ServerTreeOK, FS_CardinalityType DEF TrWay
  <1>2. CASE n = <<>>
    BY <1>1, <1>2
  <1>3. CASE n # <<>>
    <2>1. n \in TrWays(plan, s)
      BY <1>3, TrWayListed
    <2>2. PICK k \in 1 .. Cardinality(TrServers) - 1 : n \in [1 .. k -> TrServers]
      BY <2>1 DEF TrWays
    <2>3. Len(n) = k
      BY <1>1, <2>2
    <2> QED BY <1>1, <2>2, <2>3
  <1> QED BY <1>2, <1>3

LEMMA TrNodesFinite ==
    ASSUME NEW plan \in TrTrees, NEW S, TrBook(plan, S)
    PROVE  IsFiniteSet(S.nodes)
  <1> DEFINE f == [n \in S.nodes |-> IF n = <<>> THEN S.me ELSE n[Len(n)]]
  <1>1. S.me \in TrServers /\ \A m \in S.nodes : TrWay(plan, S.me, m)
    BY DEF TrBook, TrStates
  <1>2. ASSUME NEW n \in S.nodes PROVE f[n] \in TrServers /\ (n # <<>> => f[n] # S.me)
    BY <1>1, <1>2, TrWayEnds
  <1>3. ASSUME NEW m \in S.nodes, NEW n \in S.nodes, f[m] = f[n]
        PROVE  m = n
    <2>1. CASE m = <<>> \/ n = <<>>
      BY <1>1, <1>2, <1>3, <2>1, TrWayEnds
    <2>2. CASE m # <<>> /\ n # <<>>
      BY <1>1, <1>3, <2>2, TrOneWay
    <2> QED BY <2>1, <2>2
  <1>4. f \in Injection(S.nodes, TrServers)
    <2>1. f \in [S.nodes -> TrServers]
      BY <1>2
    <2> HIDE DEF f
    <2> QED BY <2>1, <1>3 DEF Injection, IsInjective
  <1> QED BY <1>4, ServerTreeOK, FS_Injection

\* There is an order with each server after the one it is linked to, and it has all of them.
LEMMA TrLongest ==
    ASSUME NEW told, told # {}, NEW c \in Nat, \A n \in told : n \in Seq(TrServers) /\ Len(n) <= c
    PROVE  \E x \in told : \A y \in told : Len(y) <= Len(x)
  <1> DEFINE short == {c - Len(n) : n \in told}
  <1>1. short \in SUBSET Nat /\ short # {}
    <2>1. \A n \in told : c - Len(n) \in Nat
      OBVIOUS
    <2> QED BY <2>1
  <1>2. PICK d \in short : \A g \in short : d <= g
    BY <1>1, Least
  <1>3. PICK x \in told : d = c - Len(x)
    BY <1>2
  <1>4. \A y \in told : c - Len(x) <= c - Len(y)
    BY <1>2, <1>3
  <1>5. \A y \in told : Len(y) <= Len(x)
    BY <1>4
  <1> QED BY <1>5

LEMMA TrOrderExists ==
    ASSUME NEW told, IsFiniteSet(told), NEW c \in Nat, \A n \in told : n \in Seq(TrServers) /\ Len(n) <= c
    PROVE  (CHOOSE f \in TrOrders(told) : TRUE) \in TrOrders(told)
  <1> DEFINE K == {t \in SUBSET told : TrOrders(t) # {}}
  <1>1. {} \in K
    <2>1. Cardinality({}) = 0 /\ 1 .. 0 = {}
      BY FS_EmptySet
    <2>2. [i \in {} |-> {}] \in [{} -> {}]
      OBVIOUS
    <2>3. [i \in {} |-> {}] \in TrOrders({})
      BY <2>1, <2>2 DEF TrOrders
    <2> QED BY <2>3
  <1>2. ASSUME NEW t \in SUBSET told, t # {}
        PROVE  \E x \in t : t \ {x} \in K => t \in K
    <2>1. PICK x \in t : \A y \in t : Len(y) <= Len(x)
      BY <1>2, TrLongest
    <2> SUFFICES ASSUME TrOrders(t \ {x}) # {} PROVE TrOrders(t) # {}
      BY <2>1
    <2> DEFINE m == Cardinality(t \ {x})
    <2>2. IsFiniteSet(t) /\ IsFiniteSet(t \ {x}) /\ m \in Nat /\ Cardinality(t) = m + 1
      BY <2>1, FS_Subset, FS_RemoveElement, FS_CardinalityType
    <2>3. PICK f \in [1 .. m -> t \ {x}] : \A i, j \in 1 .. m : i < j => ~IsPrefix(f[j], f[i])
      BY DEF TrOrders
    <2> HIDE DEF m
    <2> DEFINE g == [i \in 1 .. m + 1 |-> IF i = m + 1 THEN x ELSE f[i]]
    <2>4. g \in [1 .. m + 1 -> t] /\ g[m + 1] = x /\ \A i \in 1 .. m : g[i] = f[i] /\ f[i] \in t \ {x}
      BY <2>1, <2>2, <2>3
    <2> HIDE DEF g
    <2>5. ASSUME NEW i \in 1 .. m + 1, NEW j \in 1 .. m + 1, i < j
          PROVE  ~IsPrefix(g[j], g[i])
      <3>1. i \in 1 .. m
        BY <2>2, <2>5
      <3>2. CASE j = m + 1
        <4>1. x \in Seq(TrServers) /\ f[i] \in Seq(TrServers) /\ f[i] # x /\ Len(f[i]) <= Len(x)
          BY <2>1, <2>4, <3>1
        <4>2. SUFFICES ASSUME IsPrefix(x, f[i]) PROVE FALSE
          BY <2>4, <3>1, <3>2
        <4>3. Len(x) <= Len(f[i]) /\ \A k \in 1 .. Len(x) : x[k] = f[i][k]
          BY <4>1, <4>2, TrPrefixIs
        <4>4. Len(x) = Len(f[i])
          BY <4>1, <4>3
        <4> QED BY <4>1, <4>3, <4>4, SeqEqual
      <3>3. CASE j # m + 1
        BY <2>2, <2>3, <2>4, <2>5, <3>1, <3>3
      <3> QED BY <3>2, <3>3
    <2>6. DOMAIN g = 1 .. m + 1
      BY <2>4
    <2>7. g \in TrOrders(t)
      BY <2>2, <2>4, <2>5, <2>6 DEF TrOrders
    <2> QED BY <2>7
  <1>3. told \in K
    <2> HIDE DEF K
    <2> QED BY <1>1, <1>2, SetInduct
  <1> QED BY <1>3

LEMMA TrOrderHas ==
    ASSUME NEW told, IsFiniteSet(told), told \subseteq Seq(TrServers), NEW f \in TrOrders(told)
    PROVE  /\ Cardinality(told) \in Nat /\ f \in [1 .. Cardinality(told) -> told]
           /\ DOMAIN f = 1 .. Cardinality(told)
           /\ \A i, j \in 1 .. Cardinality(told) : f[i] = f[j] => i = j
           /\ \A i, j \in 1 .. Cardinality(told) : IsPrefix(f[j], f[i]) => j <= i
           /\ \A n \in told : \E i \in 1 .. Cardinality(told) : f[i] = n
  <1> DEFINE c == Cardinality(told)
  <1>1. c \in Nat
    BY FS_CardinalityType
  <1>2. f \in [1 .. c -> told] /\ \A i, j \in 1 .. c : i < j => ~IsPrefix(f[j], f[i])
    BY DEF TrOrders
  <1> HIDE DEF c
  <1>3. \A i, j \in 1 .. c : IsPrefix(f[j], f[i]) => j <= i
    BY <1>1, <1>2
  <1>4. \A i \in 1 .. c : IsPrefix(f[i], f[i])
    <2>1. \A i \in 1 .. c : f[i] \in Seq(TrServers)
      BY <1>2
    <2>2. \A m \in Seq(TrServers) : IsPrefix(m, m)
      BY DEF IsPrefix
    <2> QED BY <2>1, <2>2
  <1>5. \A i, j \in 1 .. c : f[i] = f[j] => i = j
    <2> SUFFICES ASSUME NEW i \in 1 .. c, NEW j \in 1 .. c, f[i] = f[j] PROVE i = j
      OBVIOUS
    <2>1. IsPrefix(f[j], f[i]) /\ IsPrefix(f[i], f[j])
      BY <1>4
    <2>2. j <= i /\ i <= j
      BY <1>3, <2>1
    <2> QED BY <2>2
  <1>6. f \in Injection(1 .. c, told)
    BY <1>2, <1>5 DEF Injection, IsInjective
  <1>7. Cardinality(1 .. c) = c
    BY <1>1, FS_Interval
  <1>8. f \in Surjection(1 .. c, told)
    BY <1>6, <1>7, FS_Injection DEF c
  <1>9. \A n \in told : \E i \in 1 .. c : f[i] = n
    BY <1>8 DEF Surjection
  <1> QED BY <1>1, <1>2, <1>3, <1>5, <1>9 DEF c

\* A step before a way.
LEMMA TrStepBefore ==
    ASSUME NEW a \in TrServers, NEW n \in Seq(TrServers)
    PROVE  /\ <<a>> \o n \in Seq(TrServers) /\ Len(<<a>> \o n) = Len(n) + 1 /\ Len(n) \in Nat /\ (<<a>> \o n)[1] = a
           /\ \A i \in 1 .. Len(n) : (<<a>> \o n)[i + 1] = n[i]
           /\ <<a>> \o n # <<>>
           /\ (<<a>> \o n)[Len(n) + 1] = IF n = <<>> THEN a ELSE n[Len(n)]
  <1>1. <<a>> \o n \in Seq(TrServers) /\ Len(<<a>> \o n) = Len(n) + 1 /\ Len(n) \in Nat /\ (<<a>> \o n)[1] = a
    OBVIOUS
  <1>2. \A i \in 1 .. Len(n) : (<<a>> \o n)[i + 1] = n[i]
    OBVIOUS
  <1>3. n # <<>> => Len(n) \in 1 .. Len(n)
    OBVIOUS
  <1> QED BY <1>1, <1>2, <1>3

LEMMA TrStepOnce ==
    ASSUME NEW a \in TrServers, NEW m \in Seq(TrServers), NEW n \in Seq(TrServers), <<a>> \o m = <<a>> \o n
    PROVE  m = n
  <1>1. Len(m) = Len(n)
    BY TrStepBefore
  <1>2. \A i \in 1 .. Len(m) : m[i] = n[i]
    <2>1. \A i \in 1 .. Len(m) : (<<a>> \o m)[i + 1] = m[i] /\ (<<a>> \o n)[i + 1] = n[i]
      BY <1>1, TrStepBefore
    <2> QED BY <2>1
  <1> QED BY <1>1, <1>2, SeqEqual

LEMMA TrStepAppend ==
    ASSUME NEW a \in TrServers, NEW q \in Seq(TrServers), NEW x \in TrServers
    PROVE  /\ Append(q, x) \in Seq(TrServers) /\ Len(Append(q, x)) = Len(q) + 1 /\ Append(q, x)[Len(q) + 1] = x
           /\ Append(q, x)[1] = (IF q = <<>> THEN x ELSE q[1])
           /\ SubSeq(Append(q, x), 1, Len(q)) = q
           /\ Append(<<a>> \o q, x) = <<a>> \o Append(q, x)
  <1>1. Append(q, x) \in Seq(TrServers) /\ Len(Append(q, x)) = Len(q) + 1 /\ Append(q, x)[Len(q) + 1] = x
    OBVIOUS
  <1>2. Append(q, x)[1] = (IF q = <<>> THEN x ELSE q[1])
    OBVIOUS
  <1>3. SubSeq(Append(q, x), 1, Len(q)) = q
    <2>1. SubSeq(Append(q, x), 1, Len(q)) \in Seq(TrServers) /\ Len(SubSeq(Append(q, x), 1, Len(q))) = Len(q)
          /\ \A i \in 1 .. Len(q) : SubSeq(Append(q, x), 1, Len(q))[i] = q[i]
      OBVIOUS
    <2> QED BY <2>1, SeqEqual
  <1>4. Append(<<a>> \o q, x) = <<a>> \o Append(q, x)
    <2> DEFINE s == Append(<<a>> \o q, x)
               t == <<a>> \o Append(q, x)
    <2>1. s \in Seq(TrServers) /\ t \in Seq(TrServers) /\ Len(s) = Len(q) + 2 /\ Len(t) = Len(q) + 2
      OBVIOUS
    <2>2. \A i \in 1 .. Len(s) : s[i] = t[i]
      OBVIOUS
    <2> HIDE DEF s, t
    <2>3. s = t
      BY <2>1, <2>2, SeqEqual
    <2> QED BY <2>3 DEF s, t
  <1> QED BY <1>1, <1>2, <1>3, <1>4

LEMMA TrStepPrefix ==
    ASSUME NEW a \in TrServers, NEW m \in Seq(TrServers), NEW n \in Seq(TrServers)
    PROVE  IsPrefix(<<a>> \o n, <<a>> \o m) <=> IsPrefix(n, m)
  <1> DEFINE p == <<a>> \o n
             q == <<a>> \o m
  <1>1. /\ p \in Seq(TrServers) /\ Len(p) = Len(n) + 1 /\ Len(n) \in Nat /\ p[1] = a
        /\ \A i \in 1 .. Len(n) : p[i + 1] = n[i]
    BY TrStepBefore
  <1>2. /\ q \in Seq(TrServers) /\ Len(q) = Len(m) + 1 /\ Len(m) \in Nat /\ q[1] = a
        /\ \A i \in 1 .. Len(m) : q[i + 1] = m[i]
    BY TrStepBefore
  <1> HIDE DEF p, q
  <1>3. IsPrefix(p, q) <=> Len(p) <= Len(q) /\ \A i \in 1 .. Len(p) : p[i] = q[i]
    BY <1>1, <1>2, TrPrefixIs
  <1>4. IsPrefix(n, m) <=> Len(n) <= Len(m) /\ \A i \in 1 .. Len(n) : n[i] = m[i]
    BY TrPrefixIs
  <1>5. ASSUME Len(n) <= Len(m)
        PROVE  (\A i \in 1 .. Len(p) : p[i] = q[i]) <=> (\A i \in 1 .. Len(n) : n[i] = m[i])
    <2>1. ASSUME \A i \in 1 .. Len(p) : p[i] = q[i], NEW i \in 1 .. Len(n)
          PROVE  n[i] = m[i]
      <3>1. i + 1 \in 1 .. Len(p) /\ i \in 1 .. Len(m)
        BY <1>1, <1>2, <1>5
      <3> QED BY <1>1, <1>2, <2>1, <3>1
    <2>2. ASSUME \A i \in 1 .. Len(n) : n[i] = m[i], NEW i \in 1 .. Len(p)
          PROVE  p[i] = q[i]
      <3>1. CASE i = 1
        BY <1>1, <1>2, <3>1
      <3>2. CASE i # 1
        <4>1. i - 1 \in 1 .. Len(n) /\ i - 1 \in 1 .. Len(m) /\ (i - 1) + 1 = i
          BY <1>1, <1>2, <1>5, <3>2
        <4> QED BY <1>1, <1>2, <2>2, <4>1
      <3> QED BY <3>1, <3>2
    <2> QED BY <2>1, <2>2
  <1>6. Len(p) <= Len(q) <=> Len(n) <= Len(m)
    BY <1>1, <1>2
  <1> QED BY <1>3, <1>4, <1>5, <1>6 DEF p, q

\* TrLeads: one line after the other.
LEMMA TrLeadsOne ==
    ASSUME NEW plan, NEW b, NEW a, NEW l \in TrLines, NEW Q, NEW R, TrSays(plan, b, a, Q, l, R)
    PROVE  TrLeads(plan, b, a, <<l>>, Q, R)
  <1>1. <<>> \in Seq(TrLines) /\ TrLeads(plan, b, a, <<>>, Q, Q) /\ Append(<<>>, l) = <<l>>
    BY TrLeadsNone
  <1> QED BY <1>1, TrLeadsAppend

LEMMA TrLeadsOn ==
    ASSUME NEW plan, NEW b, NEW a, NEW wire \in Seq(TrLines), NEW more \in Seq(TrLines), NEW Q, NEW R, NEW R2,
           TrLeads(plan, b, a, wire, Q, R), TrLeads(plan, b, a, more, R, R2)
    PROVE  TrLeads(plan, b, a, wire \o more, Q, R2)
  <1> DEFINE n == Len(wire)
             m == Len(more)
             long == wire \o more
  <1>1. PICK p : TrTrail(p, plan, b, a, wire, Q, R)
    BY DEF TrLeads
  <1>2. PICK r : TrTrail(r, plan, b, a, more, R, R2)
    BY DEF TrLeads
  <1>3. p[0] = Q /\ p[n] = R /\ \A k \in 1 .. n : TrSays(plan, b, a, p[k - 1], wire[k], p[k])
    BY <1>1 DEF TrTrail
  <1>4. r[0] = R /\ r[m] = R2 /\ \A k \in 1 .. m : TrSays(plan, b, a, r[k - 1], more[k], r[k])
    BY <1>2 DEF TrTrail
  <1>5. /\ n \in Nat /\ m \in Nat /\ Len(long) = n + m
        /\ \A k \in 1 .. n : long[k] = wire[k]
        /\ \A k \in n + 1 .. n + m : long[k] = more[k - n]
    OBVIOUS
  <1> DEFINE q == [k \in 0 .. n + m |-> IF k <= n THEN p[k] ELSE r[k - n]]
  <1> HIDE DEF n, m, long
  <1>6. \A k \in 0 .. n : k \in 0 .. n + m /\ q[k] = p[k]
    BY <1>5
  <1>7. \A k \in n .. n + m : k \in 0 .. n + m /\ q[k] = r[k - n]
    <2>1. ASSUME NEW k \in n .. n + m PROVE k \in 0 .. n + m /\ q[k] = r[k - n]
      <3>1. CASE k = n
        <4>1. k - n = 0 /\ k \in 0 .. n
          BY <1>5, <3>1
        <4> QED BY <1>3, <1>4, <1>6, <3>1, <4>1
      <3>2. CASE k # n
        BY <1>5, <3>2
      <3> QED BY <3>1, <3>2
    <2> QED BY <2>1
  <1> HIDE DEF q
  <1>8. q[0] = Q /\ q[n + m] = R2
    <2>1. 0 \in 0 .. n /\ n + m \in n .. n + m /\ (n + m) - n = m
      BY <1>5
    <2> QED BY <1>3, <1>4, <1>6, <1>7, <2>1
  <1>9. ASSUME NEW k \in 1 .. n + m
        PROVE  TrSays(plan, b, a, q[k - 1], long[k], q[k])
    <2>1. CASE k <= n
      <3>1. k \in 1 .. n /\ k \in 0 .. n /\ k - 1 \in 0 .. n
        BY <1>5, <2>1
      <3> QED BY <1>3, <1>5, <1>6, <3>1
    <2>2. CASE ~(k <= n)
      <3>1. k \in n + 1 .. n + m /\ k \in n .. n + m /\ k - 1 \in n .. n + m /\ k - n \in 1 .. m
            /\ (k - 1) - n = (k - n) - 1
        BY <1>5, <2>2
      <3>2. q[k - 1] = r[(k - n) - 1] /\ q[k] = r[k - n] /\ long[k] = more[k - n]
        BY <1>5, <1>7, <3>1
      <3> QED BY <1>4, <3>1, <3>2
    <2> QED BY <2>1, <2>2
  <1>10. TrTrail(q, plan, b, a, long, Q, R2)
    BY <1>5, <1>8, <1>9 DEF TrTrail
  <1> QED BY <1>10 DEF TrLeads, long

LEMMA TrLineIs ==
    ASSUME NEW cmd \in {"EOF", "BURST", "SERVER", "SQUIT", "NOTICE"}, NEW prefix \in TrServers \cup {TrNone},
           NEW x \in TrServers \cup {TrNone}
    PROVE  LET l == TrLine(cmd, prefix, x) IN l \in TrLines /\ l.cmd = cmd /\ l.prefix = prefix /\ l.x = x
  BY DEF TrLine, TrLines

LEMMA TrNodeIs ==
    ASSUME NEW plan, NEW S, TrBook(plan, S), NEW n \in S.nodes
    PROVE  n \in Seq(TrServers) /\ TrWay(plan, S.me, n) /\ S.me \in TrServers
  BY DEF TrBook, TrStates, TrWay

\* DoOneToAllButSender writes to some neighbours, and changes nothing else.
LEMMA TrSpreadIs ==
    ASSUME NEW S \in TrStates, NEW l \in TrLines, NEW omit
    PROVE  LET T == TrSpread(S, l, omit) IN
           /\ T \in TrStates /\ T.me = S.me /\ T.nodes = S.nodes /\ T.hash = S.hash /\ T.sock = S.sock
           /\ \A v \in TrServers :
                 T.out[v] = IF <<v>> \in S.nodes /\ v # omit /\ v # TrRoute(S, omit) /\ S.sock[v] # "none"
                            THEN Append(S.out[v], l) ELSE S.out[v]
  <1> DEFINE to == {t \in TrKids(S) : t # omit /\ t # TrRoute(S, omit)}
             out == [t \in TrServers |-> IF t \in to THEN TrWrite(S, t, l) ELSE S.out[t]]
             T == TrSpread(S, l, omit)
  <1>1. T = [S EXCEPT !.out = out]
    BY DEF TrSpread
  <1>2. \A v \in TrServers : v \in to <=> <<v>> \in S.nodes /\ v # omit /\ v # TrRoute(S, omit)
    BY DEF TrKids
  <1>3. \A v \in TrServers : S.out[v] \in Seq(TrLines) /\ TrWrite(S, v, l) \in Seq(TrLines)
    BY DEF TrStates, TrWrite
  <1> HIDE DEF to
  <1>4. out \in [TrServers -> Seq(TrLines)]
    BY <1>3
  <1>5. \A v \in TrServers : out[v] = IF v \in to THEN TrWrite(S, v, l) ELSE S.out[v]
    OBVIOUS
  <1> HIDE DEF out, T
  <1>6. T \in TrStates /\ T.me = S.me /\ T.nodes = S.nodes /\ T.hash = S.hash /\ T.sock = S.sock /\ T.out = out
    BY <1>1, <1>4 DEF TrStates
  <1>7. \A v \in TrServers :
            T.out[v] = IF <<v>> \in S.nodes /\ v # omit /\ v # TrRoute(S, omit) /\ S.sock[v] # "none"
                       THEN Append(S.out[v], l) ELSE S.out[v]
    BY <1>2, <1>5, <1>6 DEF TrWrite
  <1> QED BY <1>6, <1>7 DEF T

\* A server that is added where the way leads.
LEMMA TrAddKeeps ==
    ASSUME NEW plan \in TrTrees, NEW S, TrBook(plan, S), NEW q \in S.nodes, NEW x \in TrServers,
           TrWay(plan, S.me, Append(q, x)), S.hash[x] = {}
    PROVE  LET n == Append(q, x)
               T == TrAdd(S, n)
           IN T.me = S.me /\ T.sock = S.sock /\ T.out = S.out /\ T.nodes = S.nodes \cup {n} /\ TrBook(plan, T)
  <1> DEFINE n == Append(q, x)
             T == TrAdd(S, n)
  <1>0. S \in TrStates /\ q \in Seq(TrServers) /\ S.me \in TrServers
    BY TrNodeIs DEF TrBook
  <1>1. /\ n \in Seq(TrServers) /\ Len(n) = Len(q) + 1 /\ Len(q) \in Nat /\ n[Len(n)] = x
        /\ SubSeq(n, 1, Len(n) - 1) = q /\ n # <<>>
    BY <1>0, TrStepAppend
  <1>2. Last(n) = x
    BY <1>1 DEF Last
  <1> HIDE DEF n
  <1>3. T = [S EXCEPT !.nodes = S.nodes \cup {n}, !.hash = [S.hash EXCEPT ![x] = {n}]]
    BY <1>0, <1>2 DEF TrAdd, TrStates
  <1> HIDE DEF T
  <1>4. /\ T \in TrStates /\ T.me = S.me /\ T.sock = S.sock /\ T.out = S.out /\ T.nodes = S.nodes \cup {n}
        /\ T.hash = [S.hash EXCEPT ![x] = {n}]
    BY <1>0, <1>1, <1>3 DEF TrStates
  <1>5. ASSUME NEW m \in T.nodes
        PROVE  TrWay(plan, T.me, m) /\ (m # <<>> => SubSeq(m, 1, Len(m) - 1) \in T.nodes)
    <2>1. CASE m = n
      BY <1>1, <1>4, <2>1 DEF n
    <2>2. CASE m \in S.nodes
      BY <1>4, <2>2 DEF TrBook
    <2> QED BY <1>4, <2>1, <2>2
  <1>6. ASSUME NEW y \in TrServers
        PROVE  T.hash[y] = TrNamed(T.nodes, T.me, y)
    <2>1. S.hash[y] = TrNamed(S.nodes, S.me, y) /\ S.hash \in [TrServers -> SUBSET Seq(TrServers)]
      BY <1>0 DEF TrBook, TrStates
    <2>2. CASE y = x
      <3>1. TrNamed(T.nodes, T.me, y) = {n}
        BY <1>1, <1>4, <2>1, <2>2 DEF TrNamed
      <3> QED BY <1>4, <2>1, <2>2, <3>1
    <2>3. CASE y # x
      <3>1. TrNamed(T.nodes, T.me, y) = TrNamed(S.nodes, S.me, y)
        BY <1>1, <1>4, <2>3 DEF TrNamed
      <3> QED BY <1>4, <2>1, <2>3, <3>1
    <2> QED BY <2>2, <2>3
  <1>7. <<>> \in T.nodes
    BY <1>4 DEF TrBook
  <1>8. TrBook(plan, T)
    BY <1>4, <1>5, <1>6, <1>7 DEF TrBook
  <1> QED BY <1>4, <1>8 DEF n, T

\* What SERVER says to a neighbour in another direction, and that there is nothing to say in the direction itself.
LEMMA TrAddTells ==
    ASSUME NEW plan \in TrTrees, NEW S, TrBook(plan, S), NEW q \in S.nodes, NEW x \in TrServers,
           TrWay(plan, S.me, Append(q, x)), Append(q, x) \notin S.nodes, NEW v \in TrServers
    PROVE  LET n == Append(q, x)
               Q == TrTells(S.nodes, S.me, v)
               R == TrTells(S.nodes \cup {n}, S.me, v)
           IN /\ n[1] = v => R = Q
              /\ n[1] # v /\ v # S.me /\ TrLinked(plan, S.me, v) =>
                    TrSays(plan, v, S.me, Q, TrLine("SERVER", IF q = <<>> THEN S.me ELSE q[Len(q)], x), R)
  <1> DEFINE n == Append(q, x)
             a == S.me
             Q == TrTells(S.nodes, a, v)
             R == TrTells(S.nodes \cup {n}, a, v)
             l == TrLine("SERVER", IF q = <<>> THEN a ELSE q[Len(q)], x)
  <1>0. q \in Seq(TrServers) /\ a \in TrServers /\ TrWay(plan, a, q)
    BY TrNodeIs
  <1>1. n \in Seq(TrServers) /\ n # <<>> /\ n[1] = IF q = <<>> THEN x ELSE q[1]
    <2>1. n \in Seq(TrServers) /\ Len(n) = Len(q) + 1 /\ Len(q) \in Nat /\ n[1] = (IF q = <<>> THEN x ELSE q[1])
      BY <1>0, TrStepAppend
    <2> HIDE DEF n
    <2> QED BY <2>1
  <1>2. n[1] = v => R = Q
    BY <1>1 DEF TrTells
  <1>3. ASSUME n[1] # v, v # a, TrLinked(plan, a, v)
        PROVE  TrSays(plan, v, a, Q, l, R)
    <2> DEFINE p == <<a>> \o q
    <2>1. p \in Q
      BY <1>1, <1>3 DEF TrTells
    <2>2. p # <<>> /\ p[Len(p)] = IF q = <<>> THEN a ELSE q[Len(q)]
      BY <1>0, TrStepBefore
    <2>3. Append(p, x) = <<a>> \o n
      BY <1>0, TrStepAppend
    <2>4. R = Q \cup {<<a>> \o n}
      BY <1>1, <1>3 DEF TrTells
    <2>5. <<a>> \o n \notin Q
      <3>1. \A m \in S.nodes : m \in Seq(TrServers)
        BY TrNodeIs
      <3> HIDE DEF n
      <3>2. \A m \in S.nodes : <<a>> \o m # <<a>> \o n
        BY <1>0, <1>1, <3>1, TrStepOnce DEF n
      <3> QED BY <3>2 DEF TrTells
    <2>6. TrWay(plan, v, <<a>> \o n)
      <3> HIDE DEF n
      <3>1. TrWay(plan, a, n)
        BY DEF n
      <3> QED BY <1>0, <1>3, <3>1, TrWayFrom
    <2>7. l.cmd = "SERVER" /\ l.x = x /\ l.prefix = IF q = <<>> THEN a ELSE q[Len(q)]
      BY DEF TrLine
    <2> HIDE DEF p, n, Q, R, l, a
    <2>8. Append(p, x) \notin Q /\ TrWay(plan, v, Append(p, x)) /\ R = Q \cup {Append(p, x)}
      BY <2>3, <2>4, <2>5, <2>6
    <2> QED BY <2>1, <2>2, <2>7, <2>8 DEF TrSays
  <1> QED BY <1>2, <1>3

\* And SQUIT.
LEMMA TrCutTells ==
    ASSUME NEW plan \in TrTrees, NEW S, TrBook(plan, S), NEW n \in S.nodes, n # <<>>, NEW v \in TrServers
    PROVE  LET Q == TrTells(S.nodes, S.me, v)
               R == TrTells({m \in S.nodes : ~IsPrefix(n, m)}, S.me, v)
           IN /\ n[1] = v => R = Q
              /\ n[1] # v => TrSays(plan, v, S.me, Q, TrLine("SQUIT", TrParent(S, n), n[Len(n)]), R)
  <1> DEFINE a == S.me
             Q == TrTells(S.nodes, a, v)
             left == {m \in S.nodes : ~IsPrefix(n, m)}
             R == TrTells(left, a, v)
             l == TrLine("SQUIT", TrParent(S, n), n[Len(n)])
  <1>0. \A m \in S.nodes : m \in Seq(TrServers) /\ a \in TrServers
    BY TrNodeIs
  <1>1. n \in Seq(TrServers) /\ Len(n) \in Nat \ {0} /\ 1 \in 1 .. Len(n)
    BY <1>0
  <1>2. ASSUME n[1] = v PROVE R = Q
    <2>1. \A m \in S.nodes : IsPrefix(n, m) => m # <<>> /\ m[1] = v
      <3> SUFFICES ASSUME NEW m \in S.nodes, IsPrefix(n, m) PROVE m # <<>> /\ m[1] = v
        OBVIOUS
      <3>1. Len(n) <= Len(m) /\ \A i \in 1 .. Len(n) : n[i] = m[i]
        BY <1>0, <1>1, TrPrefixIs
      <3> QED BY <1>1, <1>2, <3>1
    <2> QED BY <2>1 DEF TrTells
  <1>3. ASSUME n[1] # v
        PROVE  TrSays(plan, v, a, Q, l, R)
    <2> DEFINE p == <<a>> \o n
    <2>1. p \in Q
      BY <1>3 DEF TrTells
    <2>2. Len(p) = Len(n) + 1 /\ p[1] = a /\ \A i \in 1 .. Len(n) : p[i + 1] = n[i]
      BY <1>0, <1>1, TrStepBefore
    <2>3. Len(p) >= 2 /\ p[Len(p)] = n[Len(n)]
      <3>1. Len(n) \in 1 .. Len(n)
        BY <1>1
      <3> QED BY <1>1, <2>2, <3>1
    <2>4. p[Len(p) - 1] = TrParent(S, n)
      <3>1. CASE Len(n) = 1
        BY <2>2, <3>1 DEF TrParent
      <3>2. CASE Len(n) # 1
        <4>1. Len(n) - 1 \in 1 .. Len(n) /\ Len(p) - 1 = (Len(n) - 1) + 1
          BY <1>1, <2>2, <3>2
        <4> HIDE DEF p
        <4> QED BY <2>2, <3>2, <4>1 DEF TrParent
      <3> QED BY <3>1, <3>2
    <2>5. R = {m \in Q : ~IsPrefix(p, m)}
      <3>1. \A m \in S.nodes : IsPrefix(p, <<a>> \o m) <=> IsPrefix(n, m)
        BY <1>0, <1>1, TrStepPrefix
      <3> QED BY <3>1 DEF TrTells
    <2>6. l.cmd = "SQUIT" /\ l.x = n[Len(n)] /\ l.prefix = TrParent(S, n)
      BY DEF TrLine
    <2> HIDE DEF p, Q, R, l, a
    <2> QED BY <2>1, <2>3, <2>4, <2>5, <2>6 DEF TrSays
  <1> QED BY <1>2, <1>3

\* Tidy takes away the server and all behind him, from the tree and from the list of names.
LEMMA TrDeleteKeeps ==
    ASSUME NEW plan \in TrTrees, NEW S, TrBook(plan, S), NEW n \in S.nodes, n # <<>>
    PROVE  LET T == TrDelete(S, n) IN
           /\ T.me = S.me /\ T.sock = S.sock /\ T.out = S.out /\ T.nodes = {m \in S.nodes : ~IsPrefix(n, m)}
           /\ TrBook(plan, T)
  <1> DEFINE T == TrDelete(S, n)
             lost == {m \in S.nodes : IsPrefix(n, m)}
             left == {m \in S.nodes : ~IsPrefix(n, m)}
             hash == [x \in TrServers |-> IF \E m \in lost : Last(m) = x THEN {} ELSE S.hash[x]]
  <1>0. S \in TrStates
    BY DEF TrBook
  <1>1. \A m \in S.nodes : m \in Seq(TrServers) /\ TrWay(plan, S.me, m) /\ S.me \in TrServers
    BY TrNodeIs
  <1>2. T = [S EXCEPT !.nodes = left, !.hash = hash]
    <2>1. S.nodes \ lost = left
      OBVIOUS
    <2> HIDE DEF left
    <2> QED BY <2>1 DEF TrDelete
  <1>3. hash \in [TrServers -> SUBSET Seq(TrServers)]
    BY <1>0 DEF TrStates
  <1>4. \A x \in TrServers : hash[x] = IF \E m \in lost : Last(m) = x THEN {} ELSE S.hash[x]
    OBVIOUS
  <1>5. \A m \in S.nodes : m \in lost <=> IsPrefix(n, m)
    OBVIOUS
  <1>6. \A m \in S.nodes : m \in left <=> m \notin lost
    OBVIOUS
  <1>7. left \subseteq S.nodes /\ lost \subseteq S.nodes
    OBVIOUS
  <1> HIDE DEF T, hash, lost
  <1>8. /\ T \in TrStates /\ T.me = S.me /\ T.sock = S.sock /\ T.out = S.out /\ T.nodes = left /\ T.hash = hash
    <2> HIDE DEF left
    <2> QED BY <1>0, <1>2, <1>3, <1>7 DEF TrStates
  <1>9. \A m \in S.nodes : m \in lost <=> Len(n) <= Len(m) /\ \A i \in 1 .. Len(n) : n[i] = m[i]
    BY <1>1, <1>5, TrPrefixIs
  <1>10. Len(n) \in Nat \ {0}
    BY <1>1
  <1>11. <<>> \in T.nodes
    <2>1. <<>> \in S.nodes /\ Len(<<>>) = 0
      BY DEF TrBook
    <2>2. <<>> \notin lost
      BY <1>9, <1>10, <2>1
    <2> QED BY <1>6, <1>8, <2>1, <2>2
  <1>12. ASSUME NEW m \in T.nodes
         PROVE  TrWay(plan, T.me, m) /\ (m # <<>> => SubSeq(m, 1, Len(m) - 1) \in T.nodes)
    <2>1. m \in S.nodes /\ m \notin lost /\ m \in Seq(TrServers)
      BY <1>1, <1>6, <1>7, <1>8
    <2>2. TrWay(plan, T.me, m)
      BY <1>1, <1>8, <2>1
    <2>3. ASSUME m # <<>> PROVE SubSeq(m, 1, Len(m) - 1) \in T.nodes
      <3> DEFINE p == SubSeq(m, 1, Len(m) - 1)
      <3>1. p \in S.nodes
        BY <2>1, <2>3 DEF TrBook
      <3> DEFINE k == Len(m)
      <3>0. k \in Nat /\ k # 0
        BY <2>1, <2>3
      <3>2. k \in Nat \ {0} /\ Len(p) = k - 1 /\ \A i \in 1 .. Len(p) : p[i] = m[i]
        <4>1. k - 1 \in 0 .. k
          <5> HIDE DEF k
          <5> QED BY <3>0
        <4>2. \A i \in 0 .. Len(m) : Len(SubSeq(m, 1, i)) = i /\ \A j \in 1 .. i : SubSeq(m, 1, i)[j] = m[j]
          BY <1>1, <2>1, TrWayUpTo
        <4> HIDE DEF k
        <4> QED BY <3>0, <4>1, <4>2 DEF k
      <3> HIDE DEF p
      <3>3. p \in lost => m \in lost
        <4> SUFFICES ASSUME Len(n) <= Len(p), \A i \in 1 .. Len(n) : n[i] = p[i]
                     PROVE  Len(n) <= Len(m) /\ \A i \in 1 .. Len(n) : n[i] = m[i]
          BY <1>9, <2>1, <3>1
        <4>1. \A i \in 1 .. Len(n) : i \in 1 .. Len(p)
          BY <1>10, <3>2
        <4> QED BY <1>10, <3>2, <4>1
      <3> QED BY <1>6, <1>8, <2>1, <3>1, <3>3 DEF p
    <2> QED BY <2>2, <2>3
  <1>13. ASSUME NEW x \in TrServers
         PROVE  T.hash[x] = TrNamed(T.nodes, T.me, x)
    <2>1. S.hash[x] = TrNamed(S.nodes, S.me, x)
      BY DEF TrBook
    <2>2. \A m \in lost : m # <<>> /\ Last(m) = m[Len(m)]
      BY <1>7, <1>9, <1>10 DEF Last
    <2>3. CASE \E m \in lost : Last(m) = x
      <3>1. PICK m \in lost : m # <<>> /\ m[Len(m)] = x
        BY <2>2, <2>3
      <3>2. \A k \in S.nodes : (IF k = <<>> THEN x = S.me ELSE k[Len(k)] = x) => k = m
        BY <1>1, <1>7, <3>1, TrOneWay, TrWayEnds
      <3>3. TrNamed(T.nodes, T.me, x) = {}
        BY <1>6, <1>7, <1>8, <3>1, <3>2 DEF TrNamed
      <3> QED BY <1>4, <1>8, <2>3, <3>3
    <2>4. CASE ~\E m \in lost : Last(m) = x
      <3>1. \A m \in S.nodes : m # <<>> /\ m[Len(m)] = x => m \in left
        BY <1>6, <2>4 DEF Last
      <3>2. <<>> \in left
        BY <1>8, <1>11
      <3> HIDE DEF left
      <3>3. TrNamed(left, S.me, x) = TrNamed(S.nodes, S.me, x)
        BY <1>7, <3>1, <3>2 DEF TrNamed
      <3> QED BY <1>4, <1>8, <2>1, <2>4, <3>3
    <2> QED BY <2>3, <2>4
  <1>14. TrBook(plan, T)
    BY <1>8, <1>11, <1>12, <1>13 DEF TrBook
  <1> QED BY <1>8, <1>14 DEF T

LEMMA TrSquitKeeps ==
    ASSUME NEW plan \in TrTrees, NEW S, TrBook(plan, S), NEW n \in S.nodes, n # <<>>
    PROVE  LET T == TrSquit(S, n[Len(n)]) IN
           /\ T.me = S.me /\ T.sock = S.sock /\ T.nodes = {m \in S.nodes : ~IsPrefix(n, m)}
           /\ TrBook(plan, T)
           /\ \A v \in TrServers :
                 T.out[v] = IF <<v>> \in S.nodes /\ v # n[1] /\ S.sock[v] # "none"
                            THEN Append(S.out[v], TrLine("SQUIT", TrParent(S, n), n[Len(n)])) ELSE S.out[v]
  <1> DEFINE x == n[Len(n)]
             l == TrLine("SQUIT", TrParent(S, n), x)
             U == TrSpread(S, l, x)
             T == TrSquit(S, x)
  <1>0. \A m \in S.nodes : m \in Seq(TrServers) /\ TrWay(plan, S.me, m) /\ S.me \in TrServers
    BY TrNodeIs
  <1>1. /\ x \in TrServers /\ x # S.me /\ S.hash[x] = {n}
        /\ TrKnows(S, x) /\ TrFind(S, x) = n /\ TrRoute(S, x) = n[1]
    BY TrKnown
  <1>2. TrParent(S, n) \in TrServers
    <2>1. n \in Seq(TrServers) /\ Len(n) \in Nat \ {0}
      BY <1>0
    <2>2. ASSUME NEW k \in Nat \ {0}, k # 1 PROVE k - 1 \in 1 .. k
      BY <2>2
    <2>3. Len(n) # 1 => n[Len(n) - 1] \in TrServers
      <3> DEFINE k == Len(n)
      <3> SUFFICES ASSUME k # 1 PROVE n[k - 1] \in TrServers
        OBVIOUS
      <3>1. k - 1 \in 1 .. k
        <4> HIDE DEF k
        <4> QED BY <2>1, <2>2 DEF k
      <3>2. \A i \in 1 .. k : n[i] \in TrServers
        BY <2>1
      <3> QED BY <3>1, <3>2
    <2> QED BY <1>0, <2>3 DEF TrParent
  <1>3. T = TrDelete(U, n)
    BY <1>1 DEF TrSquit
  <1>4. S \in TrStates /\ l \in TrLines
    BY <1>1, <1>2, TrLineIs DEF TrBook
  <1> HIDE DEF x, l
  <1>5. /\ U \in TrStates /\ U.me = S.me /\ U.nodes = S.nodes /\ U.hash = S.hash /\ U.sock = S.sock
        /\ \A v \in TrServers :
              U.out[v] = IF <<v>> \in S.nodes /\ v # x /\ v # TrRoute(S, x) /\ S.sock[v] # "none"
                         THEN Append(S.out[v], l) ELSE S.out[v]
    BY <1>4, TrSpreadIs
  <1> HIDE DEF U, T
  <1>6. TrBook(plan, U)
    BY <1>5 DEF TrBook
  <1>7. /\ T.me = U.me /\ T.sock = U.sock /\ T.out = U.out /\ T.nodes = {m \in U.nodes : ~IsPrefix(n, m)}
        /\ TrBook(plan, T)
    BY <1>3, <1>5, <1>6, TrDeleteKeeps
  <1>8. \A v \in TrServers : <<v>> \in S.nodes /\ v # n[1] => v # x
    <2> SUFFICES ASSUME NEW v \in TrServers, <<v>> \in S.nodes, v = x PROVE v = n[1]
      OBVIOUS
    <2>1. <<v>> # <<>> /\ <<v>>[Len(<<v>>)] = v /\ <<v>>[1] = v
      OBVIOUS
    <2>2. <<v>> = n
      BY <1>0, <2>1, TrOneWay DEF x
    <2> QED BY <2>1, <2>2
  <1>9. \A v \in TrServers :
           T.out[v] = IF <<v>> \in S.nodes /\ v # n[1] /\ S.sock[v] # "none" THEN Append(S.out[v], l) ELSE S.out[v]
    BY <1>1, <1>5, <1>7, <1>8
  <1> QED BY <1>5, <1>7, <1>9 DEF T, l, x

\* What a server writes to v when it goes from S to T: nothing but the end of the stream when it closes the socket,
\* nothing before the link is up, and then what leads v to have what it would have him have.
TrWrites(plan, S, T, v) ==
    LET tells == TrTells(T.nodes, S.me, v) IN
    \/ S.sock[v] # "none" /\ T.sock[v] = "none" /\ T.out[v] = <<TrEof>>
    \/ T.sock[v] = S.sock[v] /\ S.sock[v] # "up" /\ T.out[v] = <<>>
    \/ T.sock[v] = "up" /\ S.sock[v] = "up" /\ TrLeads(plan, v, S.me, T.out[v], TrTells(S.nodes, S.me, v), tells)
    \/ /\ T.sock[v] = "up" /\ S.sock[v] \in {"dialled", "auth2"}
       /\ \A Q \in SUBSET {<<S.me>>} : TrLeads(plan, v, S.me, T.out[v], Q, tells)
TrMoves(plan, S, T) ==
    T.me = S.me /\ TrBook(plan, T) /\ TrPlugged(plan, T) /\ \A v \in TrServers : TrWrites(plan, S, T, v)
TrStarts(plan, S) == TrBook(plan, S) /\ TrPlugged(plan, S) /\ \A v \in TrServers : S.out[v] = <<>>
TrSilent(T) == \A v \in TrServers : \A i \in 1 .. Len(T.out[v]) : T.out[v][i].cmd # "NOTICE"
\* Only what lies in the direction of t changes.
TrElse(S, T, t) == \A v \in TrServers \ {t} : TrVia(T.nodes, v) = TrVia(S.nodes, v) /\ T.sock[v] = S.sock[v]

LEMMA TrFirstIs ==
    ASSUME NEW t \in TrServers, NEW m \in Seq(TrServers)
    PROVE  IsPrefix(<<t>>, m) <=> m # <<>> /\ m[1] = t
  <1>1. <<t>> \in Seq(TrServers) /\ Len(<<t>>) = 1 /\ <<t>>[1] = t
    OBVIOUS
  <1>2. IsPrefix(<<t>>, m) <=> Len(<<t>>) <= Len(m) /\ \A i \in 1 .. Len(<<t>>) : <<t>>[i] = m[i]
    <2> DEFINE k == <<t>>
    <2> HIDE DEF k
    <2>1. k \in Seq(TrServers)
      BY <1>1 DEF k
    <2>2. IsPrefix(k, m) <=> Len(k) <= Len(m) /\ \A i \in 1 .. Len(k) : k[i] = m[i]
      BY <2>1, TrPrefixIs
    <2> QED BY <2>2 DEF k
  <1>3. 1 <= Len(m) <=> m # <<>>
    OBVIOUS
  <1> QED BY <1>1, <1>2, <1>3

\* A server is a first step into the tree if and only if the socket to him is up.
LEMMA TrUpIs ==
    ASSUME NEW plan \in TrTrees, NEW S, TrBook(plan, S), TrPlugged(plan, S), NEW t \in TrServers
    PROVE  /\ <<t>> \in S.nodes <=> S.sock[t] = "up"
           /\ \A n \in S.nodes : n # <<>> /\ n[1] = t => S.sock[t] = "up"
           /\ S.sock[t] # "none" => t # S.me /\ TrLinked(plan, S.me, t) /\ TrWay(plan, S.me, <<t>>)
           /\ S.sock[t] \notin {"none", "up"} =>
                 ~TrKnows(S, t) /\ S.hash[t] = {} /\ TrVia(S.nodes, t) = {} /\ <<t>> \notin S.nodes
  <1>1. S.me \in TrServers /\ \A n \in S.nodes : TrWay(plan, S.me, n)
    BY DEF TrBook, TrStates
  <1>2. \A n \in S.nodes : n # <<>> /\ n[1] = t => S.sock[t] = "up"
    BY DEF TrPlugged
  <1>3. <<t>> # <<>> /\ <<t>>[1] = t /\ <<t>>[Len(<<t>>)] = t
    OBVIOUS
  <1>4. <<t>> \in S.nodes <=> S.sock[t] = "up"
    BY <1>2, <1>3 DEF TrPlugged
  <1>5. S.sock[t] # "none" => t # S.me /\ TrLinked(plan, S.me, t) /\ TrWay(plan, S.me, <<t>>)
    BY <1>1, TrWayLink DEF TrPlugged
  <1>6. ASSUME S.sock[t] \notin {"none", "up"} PROVE S.hash[t] = {}
    <2> SUFFICES ASSUME TrKnows(S, t) PROVE FALSE
      BY ServerTreeOK DEF TrKnows
    <2>1. PICK n \in S.nodes : n # <<>> /\ n[Len(n)] = t
      BY <1>5, <1>6, TrFoundIs
    <2>2. n = <<t>>
      BY <1>1, <1>3, <1>5, <1>6, <2>1, TrOneWay
    <2> QED BY <1>4, <1>6, <2>2
  <1>7. S.sock[t] \notin {"none", "up"} => TrVia(S.nodes, t) = {} /\ ~TrKnows(S, t) /\ <<t>> \notin S.nodes
    BY <1>2, <1>4, <1>6 DEF TrVia, TrKnows
  <1> QED BY <1>2, <1>4, <1>5, <1>6, <1>7

LEMMA TrStill ==
    ASSUME NEW plan \in TrTrees, NEW S, TrStarts(plan, S)
    PROVE  TrMoves(plan, S, S) /\ TrSilent(S)
  <1>1. \A v \in TrServers : S.out[v] = <<>>
    BY DEF TrStarts
  <1>2. TrSilent(S)
    BY <1>1 DEF TrSilent
  <1>3. ASSUME NEW v \in TrServers PROVE TrWrites(plan, S, S, v)
    <2>1. TrLeads(plan, v, S.me, <<>>, TrTells(S.nodes, S.me, v), TrTells(S.nodes, S.me, v))
      BY TrLeadsNone
    <2> QED BY <1>1, <2>1 DEF TrWrites
  <1> QED BY <1>2, <1>3 DEF TrMoves, TrStarts

\* A notice changes nothing but what is written.
TrSentOn(plan, S, T, l, omit) ==
    /\ TrMoves(plan, S, T) /\ T.nodes = S.nodes /\ T.sock = S.sock
    /\ \A v \in TrServers : T.out[v] = IF v # omit /\ v # TrRoute(S, omit) /\ S.sock[v] = "up" THEN <<l>> ELSE <<>>
LEMMA TrSpreadMoves ==
    ASSUME NEW plan \in TrTrees, NEW S, TrStarts(plan, S), NEW l \in TrLines, l.cmd = "NOTICE", NEW omit
    PROVE  TrSentOn(plan, S, TrSpread(S, l, omit), l, omit)
  <1> DEFINE T == TrSpread(S, l, omit)
  <1>1. S \in TrStates /\ TrBook(plan, S) /\ TrPlugged(plan, S) /\ \A v \in TrServers : S.out[v] = <<>>
    BY DEF TrStarts, TrBook
  <1>2. /\ T \in TrStates /\ T.me = S.me /\ T.nodes = S.nodes /\ T.hash = S.hash /\ T.sock = S.sock
        /\ \A v \in TrServers :
              T.out[v] = IF <<v>> \in S.nodes /\ v # omit /\ v # TrRoute(S, omit) /\ S.sock[v] # "none"
                         THEN Append(S.out[v], l) ELSE S.out[v]
    BY <1>1, TrSpreadIs
  <1> HIDE DEF T
  <1>3. Append(<<>>, l) = <<l>>
    OBVIOUS
  <1>4. \A v \in TrServers : <<v>> \in S.nodes <=> S.sock[v] = "up"
    BY <1>1, TrUpIs
  <1>5. \A v \in TrServers : T.out[v] = IF v # omit /\ v # TrRoute(S, omit) /\ S.sock[v] = "up" THEN <<l>> ELSE <<>>
    BY <1>1, <1>2, <1>3, <1>4
  <1>6. TrBook(plan, T) /\ TrPlugged(plan, T)
    BY <1>1, <1>2 DEF TrBook, TrPlugged
  <1>7. ASSUME NEW v \in TrServers PROVE TrWrites(plan, S, T, v)
    <2> DEFINE Q == TrTells(S.nodes, S.me, v)
    <2>1. TrLeads(plan, v, S.me, <<>>, Q, Q)
      BY TrLeadsNone
    <2>2. TrLeads(plan, v, S.me, <<l>>, Q, Q)
      <3>1. TrSays(plan, v, S.me, Q, l, Q)
        BY DEF TrSays
      <3> HIDE DEF Q
      <3> QED BY <3>1, TrLeadsOne
    <2> QED BY <1>2, <1>5, <2>1, <2>2 DEF TrWrites
  <1> QED BY <1>2, <1>5, <1>6, <1>7 DEF TrMoves, TrSentOn, T

\* A socket is closed: the server behind it is lost, and the others hear of it.
LEMMA TrCloseMoves ==
    ASSUME NEW plan \in TrTrees, NEW S, TrStarts(plan, S), NEW t \in TrServers, S.sock[t] # "none"
    PROVE  LET T == TrClose(S, t) IN
           TrMoves(plan, S, T) /\ TrSilent(T) /\ TrElse(S, T, t) /\ T.sock[t] = "none"
  <1> DEFINE U == [S EXCEPT !.sock = [S.sock EXCEPT ![t] = "none"], !.out = [S.out EXCEPT ![t] = <<TrEof>>]]
             T == TrClose(S, t)
             n == <<t>>
             l == TrLine("SQUIT", TrParent(U, n), n[Len(n)])
  <1>0. S \in TrStates /\ TrBook(plan, S) /\ TrPlugged(plan, S) /\ \A v \in TrServers : S.out[v] = <<>>
    BY DEF TrStarts, TrBook
  <1>1. \A m \in S.nodes : m \in Seq(TrServers) /\ TrWay(plan, S.me, m) /\ S.me \in TrServers
    BY <1>0, TrNodeIs
  <1>2. n # <<>> /\ n[1] = t /\ n[Len(n)] = t /\ Len(n) = 1
    OBVIOUS
  <1>3. T = TrSquit(U, t)
    <2>1. Append(<<>>, TrEof) = <<TrEof>>
      OBVIOUS
    <2> QED BY <1>0, <2>1 DEF TrClose
  <1>4. TrEof \in TrLines /\ TrEof.cmd = "EOF"
    BY DEF TrEof, TrLine, TrLines
  <1>5. <<TrEof>> \in Seq(TrLines)
    BY <1>4
  <1>6. /\ U \in TrStates /\ U.me = S.me /\ U.nodes = S.nodes /\ U.hash = S.hash
        /\ U.sock = [S.sock EXCEPT ![t] = "none"] /\ U.out = [S.out EXCEPT ![t] = <<TrEof>>]
    BY <1>0, <1>5 DEF TrStates, TrLinks
  <1> HIDE DEF U, T
  <1>7. TrBook(plan, U)
    BY <1>0, <1>6 DEF TrBook
  <1>8. \A v \in TrServers : /\ U.sock[v] = IF v = t THEN "none" ELSE S.sock[v]
                             /\ U.out[v] = IF v = t THEN <<TrEof>> ELSE <<>>
    BY <1>0, <1>6 DEF TrStates
  <1>9. \A v \in TrServers : <<v>> \in S.nodes <=> S.sock[v] = "up"
    BY <1>0, TrUpIs
  <1>10. CASE n \in S.nodes
    <2>1. /\ T.me = S.me /\ T.sock = U.sock /\ T.nodes = {m \in S.nodes : ~IsPrefix(n, m)}
          /\ TrBook(plan, T)
          /\ \A v \in TrServers :
                T.out[v] = IF <<v>> \in S.nodes /\ v # n[1] /\ U.sock[v] # "none" THEN Append(U.out[v], l) ELSE U.out[v]
      <3> HIDE DEF n
      <3> DEFINE V == TrSquit(U, n[Len(n)])
      <3>1. /\ V.me = U.me /\ V.sock = U.sock /\ V.nodes = {m \in U.nodes : ~IsPrefix(n, m)}
            /\ TrBook(plan, V)
            /\ \A v \in TrServers :
                  V.out[v] = IF <<v>> \in U.nodes /\ v # n[1] /\ U.sock[v] # "none" THEN Append(U.out[v], l) ELSE U.out[v]
        <4>1. n \in U.nodes /\ n # <<>>
          BY <1>2, <1>6, <1>10
        <4> QED BY <1>7, <4>1, TrSquitKeeps, ZenonT(60)
      <3>2. V = T
        BY <1>2, <1>3
      <3> HIDE DEF V, l
      <3> QED BY <1>6, <3>1, <3>2
    <2>2. \A m \in S.nodes : IsPrefix(n, m) <=> m # <<>> /\ m[1] = t
      BY <1>1, TrFirstIs
    <2>3. \A m : m \in T.nodes <=> m \in S.nodes /\ ~(m # <<>> /\ m[1] = t)
      BY <2>1, <2>2
    <2>4. l \in TrLines /\ l.cmd = "SQUIT"
      <3>1. TrParent(U, n) = S.me
        BY <1>2, <1>6 DEF TrParent
      <3> QED BY <1>1, <1>2, <1>10, <3>1, TrLineIs
    <2>5. \A v \in TrServers : T.out[v] = IF v = t THEN <<TrEof>> ELSE IF S.sock[v] = "up" THEN <<l>> ELSE <<>>
      <3>1. Append(<<>>, l) = <<l>>
        OBVIOUS
      <3> HIDE DEF l, n
      <3> QED BY <1>2, <1>8, <1>9, <2>1, <3>1
    <2>6. TrPlugged(plan, T)
      <3>1. \A m \in T.nodes : m # <<>> => T.sock[m[1]] = "up"
        <4>1. \A m \in T.nodes : m # <<>> => m[1] \in TrServers
          BY <1>1, <2>3
        <4> QED BY <1>0, <1>8, <2>1, <2>3, <4>1 DEF TrPlugged
      <3>2. \A v \in TrServers : T.sock[v] = "up" => <<v>> \in T.nodes
        <4>1. \A v \in TrServers : <<v>>[1] = v
          OBVIOUS
        <4> QED BY <1>8, <1>9, <2>1, <2>3, <4>1
      <3>3. \A v \in TrServers : T.sock[v] # "none" => v # T.me /\ TrLinked(plan, T.me, v)
        BY <1>0, <1>8, <2>1 DEF TrPlugged
      <3> QED BY <3>1, <3>2, <3>3 DEF TrPlugged
    <2>7. ASSUME NEW v \in TrServers PROVE TrWrites(plan, S, T, v)
      <3>1. CASE v = t
        BY <1>8, <2>1, <2>5, <3>1 DEF TrWrites
      <3>2. CASE v # t /\ S.sock[v] # "up"
        BY <1>8, <2>1, <2>5, <3>2 DEF TrWrites
      <3>3. CASE v # t /\ S.sock[v] = "up"
        <4> DEFINE Q == TrTells(U.nodes, U.me, v)
                   R == TrTells({m \in U.nodes : ~IsPrefix(n, m)}, U.me, v)
        <4>1. TrSays(plan, v, U.me, Q, l, R)
          <5> HIDE DEF n
          <5> QED BY <1>2, <1>6, <1>7, <1>10, <3>3, TrCutTells
        <4>2. TrLeads(plan, v, U.me, <<l>>, Q, R)
          <5> HIDE DEF l, Q, R
          <5> QED BY <2>4, <4>1, TrLeadsOne
        <4>3. Q = TrTells(S.nodes, S.me, v) /\ R = TrTells(T.nodes, S.me, v) /\ U.me = S.me
          BY <1>6, <2>1
        <4>4. TrLeads(plan, v, S.me, <<l>>, TrTells(S.nodes, S.me, v), TrTells(T.nodes, S.me, v))
          <5> HIDE DEF l, Q, R
          <5> QED BY <4>2, <4>3
        <4> HIDE DEF l
        <4> QED BY <1>8, <2>1, <2>5, <3>3, <4>4 DEF TrWrites
      <3> QED BY <3>1, <3>2, <3>3
    <2>8. TrElse(S, T, t)
      BY <1>8, <2>1, <2>3 DEF TrElse, TrVia
    <2>9. TrSilent(T)
      <3>1. \A i \in 1 .. Len(<<TrEof>>) : <<TrEof>>[i].cmd # "NOTICE"
        BY <1>4
      <3>2. \A i \in 1 .. Len(<<l>>) : <<l>>[i].cmd # "NOTICE"
        <4> HIDE DEF l
        <4> QED BY <2>4
      <3> HIDE DEF l
      <3> QED BY <2>5, <3>1, <3>2 DEF TrSilent
    <2> QED BY <1>8, <2>1, <2>6, <2>7, <2>8, <2>9 DEF TrMoves, T
  <1>11. CASE n \notin S.nodes
    <2>1. S.sock[t] \notin {"none", "up"}
      BY <1>9, <1>11
    <2>2. ~TrKnows(S, t) /\ TrVia(S.nodes, t) = {}
      BY <1>0, <2>1, TrUpIs
    <2>3. T = U
      BY <1>3, <1>6, <2>2 DEF TrSquit, TrKnows
    <2>4. TrPlugged(plan, T)
      <3>1. \A m \in S.nodes : m # <<>> => m[1] \in TrServers /\ m[1] # t
        BY <1>1, <2>2 DEF TrVia
      <3>2. ASSUME NEW m \in S.nodes, m # <<>> PROVE T.sock[m[1]] = "up"
        <4>1. S.sock[m[1]] = "up"
          BY <1>0, <3>2 DEF TrPlugged
        <4> QED BY <1>8, <2>3, <3>1, <3>2, <4>1
      <3>3. ASSUME NEW v \in TrServers
            PROVE  /\ T.sock[v] = "up" => <<v>> \in S.nodes
                   /\ T.sock[v] # "none" => v # S.me /\ TrLinked(plan, S.me, v)
        <4>1. /\ S.sock[v] = "up" => <<v>> \in S.nodes
              /\ S.sock[v] # "none" => v # S.me /\ TrLinked(plan, S.me, v)
          BY <1>0 DEF TrPlugged
        <4> QED BY <1>8, <2>3, <4>1
      <3>4. T.nodes = S.nodes /\ T.me = S.me
        BY <1>6, <2>3
      <3> QED BY <3>2, <3>3, <3>4 DEF TrPlugged
    <2>5. ASSUME NEW v \in TrServers PROVE TrWrites(plan, S, T, v)
      <3>1. CASE v = t
        BY <1>8, <2>3, <3>1 DEF TrWrites
      <3>2. CASE v # t
        <4>1. TrLeads(plan, v, S.me, <<>>, TrTells(S.nodes, S.me, v), TrTells(S.nodes, S.me, v))
          BY TrLeadsNone
        <4> QED BY <1>6, <1>8, <2>3, <3>2, <4>1 DEF TrWrites
      <3> QED BY <3>1, <3>2
    <2>6. TrElse(S, T, t)
      BY <1>6, <1>8, <2>3 DEF TrElse
    <2>7. TrSilent(T)
      <3>1. \A i \in 1 .. Len(<<TrEof>>) : <<TrEof>>[i].cmd # "NOTICE"
        BY <1>4
      <3> QED BY <1>8, <2>3, <3>1 DEF TrSilent
    <2> QED BY <1>6, <1>7, <1>8, <2>3, <2>4, <2>5, <2>6, <2>7 DEF TrMoves, T
  <1> QED BY <1>10, <1>11 DEF T

\* The lines of SendServers lead a neighbour who has the first step to all that he should have.
LEMMA TrBurstLeads ==
    ASSUME NEW plan \in TrTrees, NEW S, TrBook(plan, S), NEW t \in TrServers, t # S.me, TrLinked(plan, S.me, t)
    PROVE  LET lines == TrBurstLines(S, t) IN
           /\ lines \in Seq(TrLines) /\ \A i \in 1 .. Len(lines) : lines[i].cmd # "NOTICE"
           /\ TrLeads(plan, t, S.me, lines, {<<S.me>>}, TrTells(S.nodes, S.me, t))
  <1> DEFINE a == S.me
             told == {n \in S.nodes \ {TrRoot} : n[1] # t}
             f == CHOOSE g \in TrOrders(told) : TRUE
             c == Cardinality(told)
             lines == TrBurstLines(S, t)
             p == [k \in 0 .. c |-> {<<a>>} \cup {<<a>> \o f[i] : i \in 1 .. k}]
  <1>0. \A n \in S.nodes : n \in Seq(TrServers) /\ TrWay(plan, a, n) /\ a \in TrServers
    BY TrNodeIs
  <1>00. a \in TrServers
    BY DEF TrBook, TrStates
  <1>1. IsFiniteSet(told) /\ \A n \in told : n \in S.nodes /\ n # <<>> /\ n[1] # t /\ n \in Seq(TrServers)
    <2>1. IsFiniteSet(S.nodes) /\ told \subseteq S.nodes
      BY TrNodesFinite
    <2> QED BY <1>0, <2>1, FS_Subset DEF TrRoot
  <1>2. f \in TrOrders(told)
    <2>1. Cardinality(TrServers) \in Nat /\ \A n \in told : n \in Seq(TrServers) /\ Len(n) <= Cardinality(TrServers)
      BY <1>0, <1>1, TrWayShort, ServerTreeOK, FS_CardinalityType
    <2> HIDE DEF told
    <2> QED BY <1>1, <2>1, TrOrderExists
  <1>3. lines = [i \in DOMAIN f |-> TrLine("SERVER", TrParent(S, f[i]), Last(f[i]))]
    BY DEF TrBurstLines
  <1>4. \A n \in S.nodes : n # <<>> /\ n[1] # t => n \in told
    BY DEF TrRoot
  <1> HIDE DEF f, told, lines
  <1>5. /\ c \in Nat /\ f \in [1 .. c -> told] /\ DOMAIN f = 1 .. c
        /\ \A i, j \in 1 .. c : f[i] = f[j] => i = j
        /\ \A i, j \in 1 .. c : IsPrefix(f[j], f[i]) => j <= i
        /\ \A n \in told : \E i \in 1 .. c : f[i] = n
    <2>1. told \subseteq Seq(TrServers)
      BY <1>1
    <2> QED BY <1>1, <1>2, <2>1, TrOrderHas, SMTT(30)
  <1>6. \A k \in 0 .. c : p[k] = {<<a>>} \cup {<<a>> \o f[i] : i \in 1 .. k}
    OBVIOUS
  <1> HIDE DEF c, p
  <1>7. ASSUME NEW k \in 1 .. c
        PROVE  LET n == f[k]
                   m == SubSeq(n, 1, Len(n) - 1)
                   x == n[Len(n)]
               IN /\ n \in told /\ m \in S.nodes /\ m \in Seq(TrServers) /\ x \in TrServers
                  /\ n = Append(m, x) /\ Len(m) = Len(n) - 1 /\ Len(n) \in Nat \ {0} /\ Last(n) = x
                  /\ TrParent(S, n) = (IF m = <<>> THEN a ELSE m[Len(m)])
                  /\ (m # <<>> => m \in told /\ IsPrefix(m, n))
    <2> DEFINE n == f[k]
               m == SubSeq(n, 1, Len(n) - 1)
               x == n[Len(n)]
    <2>1. n \in told /\ n \in S.nodes /\ n \in Seq(TrServers) /\ n # <<>> /\ n[1] # t
      BY <1>1, <1>5
    <2> HIDE DEF n
    <2>2. m \in S.nodes
      BY <2>1 DEF TrBook
    <2>3. Len(n) \in Nat \ {0}
      BY <2>1
    <2>4. m \in Seq(TrServers) /\ x \in TrServers /\ Len(m) = Len(n) - 1 /\ \A i \in 1 .. Len(m) : m[i] = n[i]
      <3>1. ASSUME NEW j \in Nat \ {0} PROVE j - 1 \in 0 .. j /\ j \in 1 .. j
        BY <3>1
      <3>2. \A i \in 0 .. Len(n) : Len(SubSeq(n, 1, i)) = i /\ \A j \in 1 .. i : SubSeq(n, 1, i)[j] = n[j]
        BY <1>0, <2>1, TrWayUpTo
      <3>3. \A i \in 1 .. Len(n) : n[i] \in TrServers
        BY <2>1
      <3>4. Len(n) - 1 \in 0 .. Len(n) /\ Len(n) \in 1 .. Len(n)
        BY <2>3, <3>1
      <3> QED BY <1>0, <2>2, <3>2, <3>3, <3>4
    <2> HIDE DEF m
    <2>5. n = Append(m, x)
      <3>1. Append(m, x) \in Seq(TrServers) /\ Len(Append(m, x)) = Len(n)
            /\ \A i \in 1 .. Len(n) : Append(m, x)[i] = n[i]
        BY <2>3, <2>4
      <3> QED BY <2>1, <3>1, SeqEqual
    <2>6. TrParent(S, n) = (IF m = <<>> THEN a ELSE m[Len(m)])
      <3>1. CASE Len(n) = 1
        <4>1. m = <<>>
          BY <2>4, <3>1
        <4> QED BY <3>1, <4>1 DEF TrParent
      <3>2. CASE Len(n) # 1
        <4>1. m # <<>> /\ Len(m) \in 1 .. Len(m)
          BY <2>3, <2>4, <3>2
        <4>2. m[Len(m)] = n[Len(n) - 1]
          BY <2>4, <4>1
        <4> QED BY <3>2, <4>1, <4>2 DEF TrParent
      <3> QED BY <3>1, <3>2
    <2>7. ASSUME m # <<>> PROVE m \in told /\ IsPrefix(m, n)
      <3>1. Len(m) <= Len(n) /\ 1 \in 1 .. Len(m)
        BY <2>3, <2>4, <2>7
      <3>2. m[1] # t
        BY <2>1, <2>4, <3>1
      <3>3. IsPrefix(m, n)
        BY <2>1, <2>4, <3>1, TrPrefixIs
      <3> QED BY <1>4, <2>2, <2>7, <3>2, <3>3
    <2> QED BY <2>1, <2>2, <2>3, <2>4, <2>5, <2>6, <2>7 DEF n, m, Last
  <1>8. /\ lines \in Seq(TrLines) /\ Len(lines) = c
        /\ \A k \in 1 .. c : lines[k] = TrLine("SERVER", TrParent(S, f[k]), Last(f[k]))
        /\ \A k \in 1 .. c : lines[k].cmd = "SERVER"
    <2>1. \A k \in 1 .. c : lines[k] = TrLine("SERVER", TrParent(S, f[k]), Last(f[k]))
      BY <1>3, <1>5
    <2>2. ASSUME NEW k \in 1 .. c PROVE lines[k] \in TrLines /\ lines[k].cmd = "SERVER"
      <3> DEFINE n == f[k]
                 m == SubSeq(n, 1, Len(n) - 1)
      <3>1. m \in Seq(TrServers) /\ TrParent(S, n) = (IF m = <<>> THEN a ELSE m[Len(m)]) /\ Last(n) \in TrServers
        BY <1>7
      <3> HIDE DEF n, m
      <3>2. TrParent(S, n) \in TrServers
        <4>1. m # <<>> => m[Len(m)] \in TrServers
          BY <3>1
        <4> QED BY <1>00, <3>1, <4>1
      <3> QED BY <2>1, <3>1, <3>2, TrLineIs DEF n
    <2>3. lines \in [1 .. c -> TrLines]
      BY <1>3, <1>5, <2>1, <2>2
    <2>4. lines \in Seq(TrLines) /\ Len(lines) = c
      BY <1>5, <2>3
    <2> QED BY <2>1, <2>2, <2>4
  <1>9. ASSUME NEW k \in 1 .. c
        PROVE  TrSays(plan, t, a, p[k - 1], lines[k], p[k])
    <2> DEFINE n == f[k]
               m == SubSeq(n, 1, Len(n) - 1)
               x == n[Len(n)]
               q == <<a>> \o m
    <2>1. /\ n \in told /\ m \in S.nodes /\ m \in Seq(TrServers) /\ x \in TrServers
          /\ n = Append(m, x) /\ Len(m) = Len(n) - 1 /\ Len(n) \in Nat \ {0} /\ Last(n) = x
          /\ TrParent(S, n) = (IF m = <<>> THEN a ELSE m[Len(m)])
          /\ (m # <<>> => m \in told /\ IsPrefix(m, n))
      BY <1>7
    <2>2. n \in S.nodes /\ n \in Seq(TrServers) /\ n # <<>> /\ n[1] # t /\ TrWay(plan, a, n)
      BY <1>0, <1>1, <2>1
    <2>3. lines[k] = TrLine("SERVER", TrParent(S, n), x)
      BY <1>8, <2>1
    <2> HIDE DEF n, m, x
    <2>4. k - 1 \in 0 .. c /\ k \in 0 .. c /\ k \in 1 .. k /\ \A i \in 1 .. k : i = k \/ i \in 1 .. k - 1
      BY <1>5
    <2>5. p[k] = {<<a>>} \cup {<<a>> \o f[i] : i \in 1 .. k} /\ p[k - 1] = {<<a>>} \cup {<<a>> \o f[i] : i \in 1 .. k - 1}
      BY <1>6, <2>4
    <2>6. p[k] = p[k - 1] \cup {<<a>> \o n}
      <3>1. \A i \in 1 .. k - 1 : i \in 1 .. k
        BY <1>5
      <3> QED BY <2>4, <2>5, <3>1 DEF n
    <2>7. q \in p[k - 1]
      <3>1. CASE m = <<>>
        <4>1. q = <<a>>
          BY <1>00, <3>1
        <4> QED BY <2>5, <4>1
      <3>2. CASE m # <<>>
        <4>1. PICK j \in 1 .. c : f[j] = m
          BY <1>5, <2>1, <3>2
        <4>2. j <= k
          BY <1>5, <2>1, <3>2, <4>1 DEF n
        <4>3. j # k
          <5>1. Len(m) # Len(n)
            BY <2>1
          <5> QED BY <4>1, <5>1 DEF n
        <4>4. j \in 1 .. k - 1
          BY <1>5, <4>2, <4>3
        <4> QED BY <2>5, <4>1, <4>4
      <3> QED BY <3>1, <3>2
    <2>8. q # <<>> /\ q[Len(q)] = TrParent(S, n)
      BY <1>00, <2>1, TrStepBefore
    <2>9. Append(q, x) = <<a>> \o n
      BY <1>00, <2>1, TrStepAppend
    <2>10. <<a>> \o n \notin p[k - 1]
      <3>1. <<a>> \o n # <<a>>
        <4>1. Len(<<a>> \o n) = Len(n) + 1 /\ Len(<<a>>) = 1
          BY <1>00, <2>2, TrStepBefore
        <4> QED BY <2>1, <4>1
      <3>2. ASSUME NEW i \in 1 .. k - 1 PROVE <<a>> \o n # <<a>> \o f[i]
        <4>1. i \in 1 .. c /\ i # k
          BY <1>5
        <4>2. f[i] # n /\ f[i] \in Seq(TrServers)
          BY <1>1, <1>5, <4>1 DEF n
        <4> QED BY <1>00, <2>2, <4>2, TrStepOnce
      <3> QED BY <2>5, <3>1, <3>2
    <2>11. TrWay(plan, t, <<a>> \o n)
      <3> HIDE DEF a
      <3>1. TrLinked(plan, a, t) /\ a # t
        BY DEF a
      <3> QED BY <1>00, <2>2, <3>1, TrWayFrom
    <2>12. lines[k].cmd = "SERVER" /\ lines[k].prefix = TrParent(S, n) /\ lines[k].x = x
      BY <2>3 DEF TrLine
    <2> HIDE DEF q, a
    <2>13. Append(q, x) \notin p[k - 1] /\ TrWay(plan, t, Append(q, x)) /\ p[k] = p[k - 1] \cup {Append(q, x)}
      BY <2>6, <2>9, <2>10, <2>11
    <2> QED BY <2>1, <2>7, <2>8, <2>12, <2>13 DEF TrSays
  <1>10. p[0] = {<<a>>}
    BY <1>5, <1>6
  <1>11. p[c] = TrTells(S.nodes, a, t)
    <2>1. <<a>> \o <<>> = <<a>> /\ <<>> \in S.nodes
      BY <1>00 DEF TrBook
    <2>2. p[c] = {<<a>>} \cup {<<a>> \o f[i] : i \in 1 .. c}
      <3>1. c \in 0 .. c
        BY <1>5
      <3> QED BY <1>6, <3>1
    <2>3. \A i \in 1 .. c : f[i] \in S.nodes /\ f[i] # <<>> /\ f[i][1] # t
      BY <1>1, <1>5
    <2>4. \A n \in S.nodes : n # <<>> /\ n[1] # t => \E i \in 1 .. c : f[i] = n
      BY <1>4, <1>5
    <2> HIDE DEF a
    <2>5. \A z \in p[c] : z \in TrTells(S.nodes, a, t)
      BY <2>1, <2>2, <2>3 DEF TrTells
    <2>6. ASSUME NEW n \in S.nodes, n # <<>> => n[1] # t PROVE <<a>> \o n \in p[c]
      <3>1. CASE n = <<>>
        BY <2>1, <2>2, <3>1
      <3>2. CASE n # <<>>
        BY <2>2, <2>4, <2>6, <3>2
      <3> QED BY <3>1, <3>2
    <2>7. \A z \in TrTells(S.nodes, a, t) : z \in p[c]
      BY <2>6 DEF TrTells
    <2> QED BY <2>5, <2>7
  <1>12. TrTrail(p, plan, t, a, lines, {<<a>>}, TrTells(S.nodes, a, t))
    BY <1>8, <1>9, <1>10, <1>11 DEF TrTrail
  <1>13. TrLeads(plan, t, a, lines, {<<a>>}, TrTells(S.nodes, a, t))
    BY <1>12 DEF TrLeads
  <1> QED BY <1>8, <1>13 DEF lines

\* The link is accepted: the neighbour is the first step to all behind him, who hears what there is otherwise.
LEMMA TrJoinMoves ==
    ASSUME NEW plan \in TrTrees, NEW S, TrStarts(plan, S), NEW t \in TrServers, S.sock[t] \in {"dialled", "auth2"}
    PROVE  LET T == TrJoin(S, t, <<TrLine("BURST", TrNone, TrNone)>>) IN
           TrMoves(plan, S, T) /\ TrSilent(T) /\ TrElse(S, T, t) /\ T.sock[t] = "up" /\ TrVia(T.nodes, t) = {<<t>>}
  <1> DEFINE a == S.me
             B == TrLine("BURST", TrNone, TrNone)
             V == [S EXCEPT !.sock = [S.sock EXCEPT ![t] = "up"]]
             W == TrAdd(V, <<t>>)
             l == TrLine("SERVER", a, t)
             U == TrSpread(W, l, t)
             lines == TrBurstLines(W, t)
             T == TrJoin(S, t, <<B>>)
  <1>0. S \in TrStates /\ TrBook(plan, S) /\ TrPlugged(plan, S) /\ \A v \in TrServers : S.out[v] = <<>>
    BY DEF TrStarts, TrBook
  <1>1. a \in TrServers /\ <<>> \in S.nodes /\ \A n \in S.nodes : n \in Seq(TrServers)
    BY <1>0, TrNodeIs DEF TrBook, TrStates
  <1>2. t # a /\ TrLinked(plan, a, t) /\ TrWay(plan, a, <<t>>) /\ S.hash[t] = {} /\ <<t>> \notin S.nodes
        /\ TrVia(S.nodes, t) = {}
    BY <1>0, TrUpIs
  <1>3. /\ V \in TrStates /\ V.me = a /\ V.nodes = S.nodes /\ V.hash = S.hash /\ V.out = S.out
        /\ V.sock = [S.sock EXCEPT ![t] = "up"]
    BY <1>0 DEF TrStates, TrLinks
  <1>4. TrBook(plan, V)
    BY <1>0, <1>3 DEF TrBook
  <1>5. Append(<<>>, t) = <<t>> /\ <<t>> # <<>> /\ <<t>>[1] = t /\ <<t>>[Len(<<t>>)] = t
    OBVIOUS
  <1> HIDE DEF V
  <1>6. W.me = a /\ W.sock = V.sock /\ W.out = S.out /\ W.nodes = S.nodes \cup {<<t>>} /\ TrBook(plan, W)
    <2> DEFINE q == <<>>
    <2>1. q \in V.nodes /\ TrWay(plan, V.me, Append(q, t)) /\ V.hash[t] = {}
      BY <1>1, <1>2, <1>3, <1>5
    <2> HIDE DEF q
    <2> DEFINE X == TrAdd(V, Append(q, t))
    <2>2. X.me = V.me /\ X.sock = V.sock /\ X.out = V.out /\ X.nodes = V.nodes \cup {Append(q, t)} /\ TrBook(plan, X)
      BY <1>4, <2>1, TrAddKeeps, ZenonT(60)
    <2>3. X = W /\ Append(q, t) = <<t>>
      BY <1>5 DEF q
    <2> HIDE DEF X
    <2> QED BY <1>3, <2>2, <2>3
  <1>7. l \in TrLines /\ l.cmd = "SERVER" /\ B \in TrLines /\ B.cmd = "BURST"
    BY <1>1 DEF TrLine, TrLines
  <1> HIDE DEF W
  <1>8. TrRoute(W, t) = t
    <2>1. <<t>> \in W.nodes
      BY <1>6
    <2>2. TrRoute(W, <<t>>[Len(<<t>>)]) = <<t>>[1]
      <3> DEFINE n == <<t>>
      <3>1. n \in W.nodes /\ n # <<>>
        BY <1>5, <2>1
      <3> HIDE DEF n
      <3>2. TrRoute(W, n[Len(n)]) = n[1]
        BY <1>6, <3>1, TrKnown
      <3> QED BY <3>2 DEF n
    <2> QED BY <1>5, <2>2
  <1>9. /\ U \in TrStates /\ U.me = a /\ U.nodes = W.nodes /\ U.hash = W.hash /\ U.sock = W.sock
        /\ \A v \in TrServers :
              U.out[v] = IF <<v>> \in W.nodes /\ v # t /\ v # TrRoute(W, t) /\ W.sock[v] # "none"
                         THEN Append(W.out[v], l) ELSE W.out[v]
    <2>1. W \in TrStates
      BY <1>6 DEF TrBook
    <2> HIDE DEF l
    <2> QED BY <1>6, <1>7, <2>1, TrSpreadIs
  <1> HIDE DEF B, lines
  <1>10. lines \in Seq(TrLines) /\ (\A i \in 1 .. Len(lines) : lines[i].cmd # "NOTICE")
         /\ TrLeads(plan, t, a, lines, {<<a>>}, TrTells(W.nodes, a, t))
    <2>1. TrBook(plan, W) /\ t # W.me /\ TrLinked(plan, W.me, t)
      BY <1>2, <1>6
    <2>2. lines = TrBurstLines(W, t)
      BY DEF lines
    <2> QED BY <1>6, <2>1, <2>2, TrBurstLeads
  <1>11. T = [U EXCEPT !.out = [U.out EXCEPT ![t] = U.out[t] \o <<B>> \o lines]]
    <2>1. V = [S EXCEPT !.sock[t] = "up"]
      BY <1>0 DEF V, TrStates
    <2> QED BY <1>9, <2>1 DEF TrJoin, W, V, B, lines, TrStates
  <1> HIDE DEF U
  <1>12. U.out[t] = <<>>
    BY <1>0, <1>6, <1>9
  <1>13. U.out[t] \o <<B>> \o lines = <<B>> \o lines /\ <<B>> \o lines \in Seq(TrLines)
    BY <1>7, <1>10, <1>12
  <1> HIDE DEF T
  <1>14. /\ T \in TrStates /\ T.me = a /\ T.nodes = W.nodes /\ T.hash = W.hash /\ T.sock = W.sock
         /\ T.out = [U.out EXCEPT ![t] = <<B>> \o lines]
    <2> DEFINE o == <<B>> \o lines
    <2>1. T = [U EXCEPT !.out = [U.out EXCEPT ![t] = o]] /\ o \in Seq(TrLines)
      BY <1>11, <1>13
    <2> HIDE DEF o
    <2>2. T \in TrStates /\ T.me = U.me /\ T.nodes = U.nodes /\ T.hash = U.hash /\ T.sock = U.sock
          /\ T.out = [U.out EXCEPT ![t] = o]
      BY <1>9, <2>1 DEF TrStates
    <2> QED BY <1>9, <2>2 DEF o
  <1>15. TrBook(plan, T)
    BY <1>6, <1>14 DEF TrBook
  <1>16. \A v \in TrServers : T.sock[v] = IF v = t THEN "up" ELSE S.sock[v]
    BY <1>0, <1>3, <1>6, <1>14 DEF TrStates
  <1>17. \A v \in TrServers : <<v>> \in S.nodes <=> S.sock[v] = "up"
    BY <1>0, TrUpIs
  <1>18. \A v \in TrServers : T.out[v] = IF v = t THEN <<B>> \o lines ELSE IF S.sock[v] = "up" THEN <<l>> ELSE <<>>
    <2>1. Append(<<>>, l) = <<l>>
      OBVIOUS
    <2>2. \A v \in TrServers : T.out[v] = IF v = t THEN <<B>> \o lines ELSE U.out[v]
      BY <1>9, <1>14 DEF TrStates
    <2> HIDE DEF l
    <2>3. ASSUME NEW v \in TrServers, v # t PROVE U.out[v] = IF S.sock[v] = "up" THEN <<l>> ELSE <<>>
      <3>1. <<v>> \in W.nodes <=> S.sock[v] = "up"
        <4>1. <<v>>[1] = v
          OBVIOUS
        <4>2. <<v>> # <<t>>
          BY <1>5, <2>3, <4>1
        <4> QED BY <1>6, <1>17, <4>2
      <3>2. W.sock[v] = S.sock[v]
        BY <1>14, <1>16, <2>3
      <3> QED BY <1>0, <1>6, <1>8, <1>9, <2>1, <2>3, <3>1, <3>2
    <2> QED BY <2>2, <2>3
  <1>19. TrPlugged(plan, T)
    <2>1. \A n \in T.nodes : n # <<>> => n[1] \in TrServers
      BY <1>1, <1>5, <1>6, <1>14
    <2>2. \A n \in T.nodes : n # <<>> => T.sock[n[1]] = "up"
      BY <1>0, <1>5, <1>6, <1>14, <1>16, <2>1 DEF TrPlugged
    <2>3. \A v \in TrServers : T.sock[v] = "up" => <<v>> \in T.nodes
      BY <1>6, <1>14, <1>16, <1>17
    <2>4. \A v \in TrServers : T.sock[v] # "none" => v # T.me /\ TrLinked(plan, T.me, v)
      BY <1>0, <1>2, <1>14, <1>16 DEF TrPlugged
    <2> QED BY <2>2, <2>3, <2>4 DEF TrPlugged
  <1>20. ASSUME NEW v \in TrServers PROVE TrWrites(plan, S, T, v)
    <2>1. CASE v = t
      <3>1. ASSUME NEW Q \in SUBSET {<<a>>}
            PROVE  TrLeads(plan, t, a, <<B>> \o lines, Q, TrTells(T.nodes, a, t))
        <4>1. TrSays(plan, t, a, Q, B, {<<a>>})
          BY <1>7 DEF TrSays
        <4>2. TrLeads(plan, t, a, <<B>>, Q, {<<a>>}) /\ <<B>> \in Seq(TrLines)
          BY <1>7, <4>1, TrLeadsOne
        <4>3. TrLeads(plan, t, a, <<B>> \o lines, Q, TrTells(W.nodes, a, t))
          BY <1>10, <4>2, TrLeadsOn
        <4> QED BY <1>14, <4>3
      <3> QED BY <1>16, <1>18, <2>1, <3>1 DEF TrWrites
    <2>2. CASE v # t /\ S.sock[v] # "up"
      BY <1>16, <1>18, <2>2 DEF TrWrites
    <2>3. CASE v # t /\ S.sock[v] = "up"
      <3> DEFINE Q == TrTells(S.nodes, a, v)
                 R == TrTells(S.nodes \cup {<<t>>}, a, v)
      <3>1. v # a /\ TrLinked(plan, a, v)
        BY <1>0, <2>3, TrUpIs
      <3>2. TrSays(plan, v, a, Q, l, R)
        <4> DEFINE q == <<>>
                   n == Append(q, t)
        <4>1. q \in S.nodes /\ TrWay(plan, S.me, n) /\ n \notin S.nodes
          BY <1>1, <1>2, <1>5
        <4>2. n[1] # v
          BY <1>5, <2>3
        <4> DEFINE R2 == TrTells(S.nodes \cup {n}, a, v)
                   l2 == TrLine("SERVER", IF q = <<>> THEN a ELSE q[Len(q)], t)
        <4>4. R2 = R /\ l2 = l
          BY <1>5
        <4> HIDE DEF q
        <4>3. TrSays(plan, v, a, Q, l2, R2)
          BY <1>0, <3>1, <4>1, <4>2, TrAddTells, ZenonT(60)
        <4> HIDE DEF R2, l2
        <4> QED BY <4>3, <4>4
      <3>3. TrLeads(plan, v, a, <<l>>, Q, R)
        <4> HIDE DEF Q, R, l
        <4> QED BY <1>7, <3>2, TrLeadsOne
      <3>4. R = TrTells(T.nodes, a, v)
        BY <1>6, <1>14
      <3> HIDE DEF R, l
      <3> QED BY <1>16, <1>18, <2>3, <3>3, <3>4 DEF TrWrites
    <2> QED BY <2>1, <2>2, <2>3
  <1>21. TrSilent(T)
    <2>1. \A i \in 1 .. Len(<<l>>) : <<l>>[i].cmd # "NOTICE"
      <3> HIDE DEF l
      <3> QED BY <1>7
    <2>2. \A i \in 1 .. Len(<<B>> \o lines) : (<<B>> \o lines)[i].cmd # "NOTICE"
      <3> SUFFICES ASSUME NEW i \in 1 .. Len(<<B>> \o lines) PROVE (<<B>> \o lines)[i].cmd # "NOTICE"
        OBVIOUS
      <3>1. CASE i = 1
        <4>1. (<<B>> \o lines)[1] = B
          BY <1>10
        <4> QED BY <1>7, <3>1, <4>1
      <3>2. CASE i # 1
        <4>1. i - 1 \in 1 .. Len(lines) /\ (<<B>> \o lines)[i] = lines[i - 1]
          BY <1>10, <3>2
        <4> QED BY <1>10, <4>1
      <3> QED BY <3>1, <3>2
    <2>3. \A i \in 1 .. Len(<<>>) : FALSE
      OBVIOUS
    <2> DEFINE o == <<B>> \o lines
               m == <<l>>
    <2> HIDE DEF m, o
    <2>4. ASSUME NEW v \in TrServers PROVE T.out[v] \in {o, m, <<>>}
      BY <1>18 DEF o, m
    <2>5. ASSUME NEW v \in TrServers, NEW i \in 1 .. Len(T.out[v]) PROVE T.out[v][i].cmd # "NOTICE"
      <3>1. CASE T.out[v] = o
        BY <2>2, <2>5, <3>1 DEF o
      <3>2. CASE T.out[v] = m
        BY <2>1, <2>5, <3>2 DEF m
      <3>3. CASE T.out[v] = <<>>
        BY <2>3, <2>5, <3>3
      <3> QED BY <2>4, <3>1, <3>2, <3>3
    <2> QED BY <2>5 DEF TrSilent
  <1>22. TrElse(S, T, t)
    <2>1. \A v \in TrServers \ {t} : TrVia(T.nodes, v) = TrVia(S.nodes, v)
      BY <1>5, <1>6, <1>14 DEF TrVia
    <2> QED BY <1>16, <2>1 DEF TrElse
  <1>23. TrVia(T.nodes, t) = {<<t>>}
    BY <1>2, <1>5, <1>6, <1>14 DEF TrVia
  <1>24. T.sock[t] = "up"
    BY <1>16
  <1> QED BY <1>14, <1>15, <1>19, <1>20, <1>21, <1>22, <1>23, <1>24 DEF TrMoves, T, B

LEMMA TrOneLine ==
    ASSUME NEW T, NEW l, l.cmd # "NOTICE", \A v \in TrServers : T.out[v] \in {<<>>, <<l>>}
    PROVE  TrSilent(T)
  <1> SUFFICES ASSUME NEW v \in TrServers, NEW i \in 1 .. Len(T.out[v]) PROVE T.out[v][i].cmd # "NOTICE"
    BY DEF TrSilent
  <1>1. \A j \in 1 .. Len(<<>>) : FALSE
    OBVIOUS
  <1>2. Len(<<l>>) = 1 /\ <<l>>[1] = l /\ \A j \in 1 .. 1 : j = 1
    OBVIOUS
  <1> DEFINE m == <<l>>
  <1> HIDE DEF m
  <1>3. T.out[v] = <<>> \/ T.out[v] = m
    BY DEF m
  <1>4. CASE T.out[v] = m
    BY <1>2, <1>4 DEF m
  <1>5. CASE T.out[v] = <<>>
    BY <1>1, <1>5
  <1> QED BY <1>3, <1>4, <1>5

\* The node a SERVER line names is nobody's yet, and what it hangs on is found.
TrFresh(S, t, q, x, n, r) ==
    /\ q \in S.nodes /\ q \in Seq(TrServers) /\ q[1] = t /\ S.hash[x] = {}
    /\ n \notin S.nodes /\ n[1] = t /\ n # <<>>
    /\ TrRoute(S, r) = t /\ TrFind(S, r) = q
    /\ \A v \in TrServers : <<v>> \in S.nodes /\ v # t => v # r
LEMMA TrServerNews ==
    ASSUME NEW plan \in TrTrees, NEW S, TrBook(plan, S), NEW t \in TrServers,
           NEW q \in TrVia(S.nodes, t), q # <<>>, NEW x \in TrServers, Append(q, x) \notin TrVia(S.nodes, t),
           TrWay(plan, S.me, Append(q, x))
    PROVE  TrFresh(S, t, q, x, Append(q, x), q[Len(q)])
  <1> DEFINE n == Append(q, x)
  <1>1. q \in S.nodes /\ q[1] = t /\ \A m \in S.nodes : m \in Seq(TrServers) /\ TrWay(plan, S.me, m) /\ S.me \in TrServers
    BY TrNodeIs DEF TrVia
  <1>2. n \in Seq(TrServers) /\ n[1] = t /\ n # <<>> /\ n[Len(n)] = x
    <2>1. n \in Seq(TrServers) /\ Len(n) = Len(q) + 1 /\ Len(q) \in Nat /\ n[Len(q) + 1] = x
          /\ n[1] = (IF q = <<>> THEN x ELSE q[1])
      BY <1>1, TrStepAppend
    <2> QED BY <1>1, <2>1
  <1>3. n \notin S.nodes
    <2> HIDE DEF n
    <2>1. n \notin TrVia(S.nodes, t)
      BY DEF n
    <2> QED BY <1>2, <2>1 DEF TrVia
  <1>4. TrRoute(S, q[Len(q)]) = t /\ TrFind(S, q[Len(q)]) = q
    BY <1>1, TrKnown
  <1>5. S.hash[x] = {}
    <2> HIDE DEF n
    <2>1. \A m \in S.nodes : m # <<>> => m[Len(m)] # x
      <3> SUFFICES ASSUME NEW m \in S.nodes, m # <<>>, m[Len(m)] = x PROVE FALSE
        OBVIOUS
      <3>1. TrWay(plan, S.me, n)
        BY DEF n
      <3>2. m = n
        BY <1>1, <1>2, <3>1, TrOneWay
      <3> QED BY <1>3, <3>2
    <2>2. x # S.me
      <3>1. TrWay(plan, S.me, n)
        BY DEF n
      <3> QED BY <1>1, <1>2, <3>1, TrWayEnds
    <2> QED BY <2>1, <2>2 DEF TrBook, TrNamed
  <1>6. ASSUME NEW v \in TrServers, <<v>> \in S.nodes, v = q[Len(q)] PROVE v = t
    <2>1. <<v>> # <<>> /\ <<v>>[Len(<<v>>)] = v /\ <<v>>[1] = v
      OBVIOUS
    <2>2. <<v>> = q
      BY <1>1, <1>6, <2>1, TrOneWay
    <2> QED BY <1>1, <2>1, <2>2
  <1> QED BY <1>1, <1>2, <1>3, <1>4, <1>5, <1>6 DEF TrFresh

LEMMA TrServerMoves ==
    ASSUME NEW plan \in TrTrees, NEW S, TrStarts(plan, S), NEW t \in TrServers, S.sock[t] = "up",
           NEW q \in TrVia(S.nodes, t), q # <<>>, NEW x \in TrServers,
           Append(q, x) \notin TrVia(S.nodes, t), TrWay(plan, S.me, Append(q, x))
    PROVE  LET l == TrLine("SERVER", q[Len(q)], x)
               T == TrRemoteServer(S, t, l)
           IN
           /\ TrMoves(plan, S, T) /\ TrSilent(T) /\ TrElse(S, T, t) /\ T.sock = S.sock
           /\ TrVia(T.nodes, t) = TrVia(S.nodes, t) \cup {Append(q, x)}
  <1> DEFINE a == S.me
             r == q[Len(q)]
             l == TrLine("SERVER", r, x)
             T == TrRemoteServer(S, t, l)
  <1>0. S \in TrStates /\ TrBook(plan, S) /\ TrPlugged(plan, S) /\ \A v \in TrServers : S.out[v] = <<>>
    BY DEF TrStarts, TrBook
  <1> DEFINE n == Append(q, x)
             W == TrAdd(S, n)
  <1>1. /\ q \in S.nodes /\ q \in Seq(TrServers) /\ q[1] = t /\ S.hash[x] = {}
        /\ n \notin S.nodes /\ n[1] = t /\ n # <<>>
        /\ TrRoute(S, r) = t /\ TrFind(S, r) = q
        /\ \A v \in TrServers : <<v>> \in S.nodes /\ v # t => v # r
    <2>1. TrFresh(S, t, q, x, n, r)
      BY <1>0, TrServerNews
    <2> HIDE DEF n, r
    <2> QED BY <2>1 DEF TrFresh
  <1>a. l \in TrLines /\ l.cmd = "SERVER" /\ l.prefix = r /\ l.x = x
    <2>1. r \in TrServers
      <3>1. Len(q) \in 1 .. Len(q)
        BY <1>1
      <3> QED BY <1>1, <3>1
    <2> QED BY <2>1 DEF TrLine, TrLines
  <1>2. T = TrSpread(W, l, r)
    <2> HIDE DEF l
    <2> QED BY <1>1, <1>a, ZenonT(60) DEF TrRemoteServer, TrDupe, TrKnows, T, W
  <1> HIDE DEF l, r
  <1>3. W.me = a /\ W.sock = S.sock /\ W.out = S.out /\ W.nodes = S.nodes \cup {n} /\ TrBook(plan, W)
    BY <1>0, <1>1, TrAddKeeps
  <1> HIDE DEF W
  <1>4. TrRoute(W, r) = t
    <2>1. q \in W.nodes
      BY <1>1, <1>3
    <2> QED BY <1>1, <1>3, <2>1, TrKnown DEF r
  <1> HIDE DEF T
  <1>5. /\ T \in TrStates /\ T.me = a /\ T.nodes = W.nodes /\ T.hash = W.hash /\ T.sock = W.sock
        /\ \A v \in TrServers :
              T.out[v] = IF <<v>> \in W.nodes /\ v # r /\ v # TrRoute(W, r) /\ W.sock[v] # "none"
                         THEN Append(W.out[v], l) ELSE W.out[v]
    <2>1. W \in TrStates
      BY <1>3 DEF TrBook
    <2> DEFINE Z == TrSpread(W, l, r)
    <2>2. /\ Z \in TrStates /\ Z.me = W.me /\ Z.nodes = W.nodes /\ Z.hash = W.hash /\ Z.sock = W.sock
          /\ \A v \in TrServers :
                Z.out[v] = IF <<v>> \in W.nodes /\ v # r /\ v # TrRoute(W, r) /\ W.sock[v] # "none"
                           THEN Append(W.out[v], l) ELSE W.out[v]
      BY <1>a, <2>1, TrSpreadIs
    <2>3. Z = T
      BY <1>2
    <2> HIDE DEF Z
    <2> QED BY <1>3, <2>2, <2>3, ZenonT(60)
  <1>6. TrBook(plan, T)
    BY <1>3, <1>5 DEF TrBook
  <1>7. \A v \in TrServers : <<v>> \in S.nodes <=> S.sock[v] = "up"
    BY <1>0, TrUpIs
  <1>8. \A v \in TrServers : T.out[v] = IF v # t /\ S.sock[v] = "up" THEN <<l>> ELSE <<>>
    <2>1. Append(<<>>, l) = <<l>>
      OBVIOUS
    <2>2. ASSUME NEW v \in TrServers, v # t PROVE <<v>> \in W.nodes <=> S.sock[v] = "up"
      <3>1. <<v>>[1] = v
        OBVIOUS
      <3> HIDE DEF n
      <3>2. <<v>> # n
        BY <1>1, <2>2, <3>1
      <3> QED BY <1>3, <1>7, <3>2
    <2>3. W.out = S.out /\ W.sock = S.sock
      BY <1>3
    <2> SUFFICES ASSUME NEW v \in TrServers PROVE T.out[v] = IF v # t /\ S.sock[v] = "up" THEN <<l>> ELSE <<>>
      OBVIOUS
    <2> HIDE DEF n, a
    <2>4. T.out[v] = IF <<v>> \in W.nodes /\ v # r /\ v # t /\ S.sock[v] # "none" THEN Append(<<>>, l) ELSE <<>>
      <3>1. T.out[v] = IF <<v>> \in W.nodes /\ v # r /\ v # TrRoute(W, r) /\ W.sock[v] # "none"
                       THEN Append(W.out[v], l) ELSE W.out[v]
        BY <1>5
      <3>2. W.out[v] = <<>> /\ W.sock[v] = S.sock[v] /\ TrRoute(W, r) = t
        BY <1>0, <1>4, <2>3
      <3> HIDE DEF l, W, r
      <3> QED BY <3>1, <3>2
    <2>5. CASE v = t
      BY <2>4, <2>5
    <2>6. CASE v # t
      <3>1. <<v>> \in S.nodes => v # r
        BY <1>1, <2>6
      <3> QED BY <1>7, <2>1, <2>2, <2>4, <2>6, <3>1
    <2> QED BY <2>5, <2>6
  <1>9. TrPlugged(plan, T)
    <2> HIDE DEF n
    <2>1. \A m \in T.nodes : m # <<>> => T.sock[m[1]] = "up"
      BY <1>0, <1>1, <1>3, <1>5 DEF TrPlugged
    <2>2. \A v \in TrServers : T.sock[v] = "up" => <<v>> \in T.nodes
      BY <1>3, <1>5, <1>7
    <2>3. \A v \in TrServers : T.sock[v] # "none" => v # T.me /\ TrLinked(plan, T.me, v)
      <3>1. T.sock = S.sock /\ T.me = S.me
        BY <1>3, <1>5
      <3> QED BY <1>0, <3>1, ZenonT(30) DEF TrPlugged
    <2> QED BY <2>1, <2>2, <2>3 DEF TrPlugged
  <1>10. ASSUME NEW v \in TrServers PROVE TrWrites(plan, S, T, v)
    <2> DEFINE Q == TrTells(S.nodes, a, v)
               R == TrTells(S.nodes \cup {n}, a, v)
    <2>0. R = TrTells(T.nodes, a, v) /\ T.sock = S.sock
      BY <1>3, <1>5
    <2>1. CASE S.sock[v] # "up"
      BY <1>8, <2>0, <2>1 DEF TrWrites
    <2>2. CASE S.sock[v] = "up" /\ v = t
      <3>1. R = Q
        <4> HIDE DEF n
        <4>1. n # <<>> /\ n[1] = v
          BY <1>1, <2>2
        <4> QED BY <4>1 DEF TrTells
      <3>2. TrLeads(plan, v, a, <<>>, Q, R)
        <4> HIDE DEF Q, R
        <4> QED BY <3>1, TrLeadsNone
      <3> QED BY <1>8, <2>0, <2>2, <3>2 DEF TrWrites
    <2>3. CASE S.sock[v] = "up" /\ v # t
      <3>1. v # a /\ TrLinked(plan, a, v)
        BY <1>0, <2>3, TrUpIs
      <3> DEFINE m == TrLine("SERVER", IF q = <<>> THEN a ELSE r, x)
      <3>2. TrSays(plan, v, a, Q, m, R)
        BY <1>0, <1>1, <2>3, <3>1, TrAddTells, ZenonT(60) DEF r
      <3>3. m = l
        BY DEF l
      <3> HIDE DEF Q, R, m
      <3>4. TrSays(plan, v, a, Q, l, R)
        BY <3>2, <3>3
      <3>5. TrLeads(plan, v, a, <<l>>, Q, R)
        BY <1>a, <3>4, TrLeadsOne
      <3>6. TrLeads(plan, v, a, <<l>>, TrTells(S.nodes, a, v), TrTells(T.nodes, a, v))
        BY <2>0, <3>5 DEF Q
      <3> QED BY <1>8, <2>0, <2>3, <3>6 DEF TrWrites
    <2> QED BY <2>1, <2>2, <2>3
  <1>11. TrSilent(T)
    <2>1. \A v \in TrServers : T.out[v] \in {<<>>, <<l>>}
      BY <1>8
    <2>2. l.cmd # "NOTICE"
      BY <1>a
    <2> QED BY <2>1, <2>2, TrOneLine
  <1>12. TrElse(S, T, t)
    <2> HIDE DEF n
    <2> QED BY <1>1, <1>3, <1>5 DEF TrElse, TrVia
  <1>13. TrVia(T.nodes, t) = TrVia(S.nodes, t) \cup {n}
    <2> HIDE DEF n
    <2> QED BY <1>1, <1>3, <1>5 DEF TrVia
  <1> QED BY <1>3, <1>5, <1>6, <1>9, <1>10, <1>11, <1>12, <1>13 DEF TrMoves, T, l, r

LEMMA TrSquitMoves ==
    ASSUME NEW plan \in TrTrees, NEW S, TrStarts(plan, S), NEW t \in TrServers, S.sock[t] = "up",
           NEW n \in TrVia(S.nodes, t), Len(n) >= 2
    PROVE  LET T == TrSquit(S, n[Len(n)]) IN
           /\ TrMoves(plan, S, T) /\ TrSilent(T) /\ TrElse(S, T, t) /\ T.sock = S.sock
           /\ TrVia(T.nodes, t) = {m \in TrVia(S.nodes, t) : ~IsPrefix(n, m)}
           /\ TrRoute(S, n[Len(n) - 1]) = t
  <1> DEFINE a == S.me
             T == TrSquit(S, n[Len(n)])
             l == TrLine("SQUIT", TrParent(S, n), n[Len(n)])
  <1>0. S \in TrStates /\ TrBook(plan, S) /\ TrPlugged(plan, S) /\ \A v \in TrServers : S.out[v] = <<>>
    BY DEF TrStarts, TrBook
  <1>1. /\ n \in S.nodes /\ n # <<>> /\ n[1] = t /\ n \in Seq(TrServers)
        /\ \A m \in S.nodes : m \in Seq(TrServers) /\ TrWay(plan, S.me, m) /\ S.me \in TrServers
    BY <1>0, TrNodeIs DEF TrVia
  <1>2. /\ T.me = S.me /\ T.sock = S.sock /\ T.nodes = {m \in S.nodes : ~IsPrefix(n, m)}
        /\ TrBook(plan, T)
        /\ \A v \in TrServers :
              T.out[v] = IF <<v>> \in S.nodes /\ v # n[1] /\ S.sock[v] # "none" THEN Append(S.out[v], l) ELSE S.out[v]
    BY <1>0, <1>1, TrSquitKeeps, ZenonT(60)
  <1> HIDE DEF T
  <1>3. \A v \in TrServers : <<v>> \in S.nodes <=> S.sock[v] = "up"
    BY <1>0, TrUpIs
  <1>4. \A v \in TrServers : T.out[v] = IF v # t /\ S.sock[v] = "up" THEN <<l>> ELSE <<>>
    <2>1. Append(<<>>, l) = <<l>>
      OBVIOUS
    <2> HIDE DEF l, a
    <2> SUFFICES ASSUME NEW v \in TrServers PROVE T.out[v] = IF v # t /\ S.sock[v] = "up" THEN <<l>> ELSE <<>>
      OBVIOUS
    <2>2. T.out[v] = IF <<v>> \in S.nodes /\ v # n[1] /\ S.sock[v] # "none" THEN Append(S.out[v], l) ELSE S.out[v]
      BY <1>2
    <2>3. S.out[v] = <<>> /\ (<<v>> \in S.nodes <=> S.sock[v] = "up") /\ n[1] = t
      BY <1>0, <1>1, <1>3
    <2> QED BY <2>1, <2>2, <2>3
  <1>5. n[Len(n) - 1] \in TrServers /\ Len(n) \in 1 .. Len(n) /\ Len(n) # 1 /\ Len(n) \in Nat
    <2> DEFINE k == Len(n)
    <2>1. k \in Nat /\ k >= 2
      BY <1>1
    <2>2. k - 1 \in 1 .. k /\ k \in 1 .. k /\ k # 1
      <3> HIDE DEF k
      <3> QED BY <2>1
    <2>3. \A i \in 1 .. k : n[i] \in TrServers
      BY <1>1
    <2> QED BY <2>1, <2>2, <2>3
  <1>6. l \in TrLines /\ l.cmd = "SQUIT"
    <2>1. n[Len(n)] \in TrServers /\ TrParent(S, n) \in TrServers
      BY <1>1, <1>5 DEF TrParent
    <2> QED BY <2>1, TrLineIs
  <1>7. \A m \in S.nodes : IsPrefix(n, m) => m # <<>> /\ m[1] = t /\ Len(m) >= 2
    <2> SUFFICES ASSUME NEW m \in S.nodes, IsPrefix(n, m) PROVE m # <<>> /\ m[1] = t /\ Len(m) >= 2
      OBVIOUS
    <2>1. Len(n) <= Len(m) /\ \A i \in 1 .. Len(n) : n[i] = m[i]
      BY <1>1, TrPrefixIs
    <2>2. 1 \in 1 .. Len(n) /\ Len(m) \in Nat
      BY <1>1, <1>5
    <2> QED BY <1>1, <1>5, <2>1, <2>2
  <1>8. TrPlugged(plan, T)
    <2>1. \A m \in T.nodes : m # <<>> => T.sock[m[1]] = "up"
      BY <1>0, <1>2 DEF TrPlugged
    <2>2. \A v \in TrServers : T.sock[v] = "up" => <<v>> \in T.nodes
      <3> SUFFICES ASSUME NEW v \in TrServers, T.sock[v] = "up" PROVE <<v>> \in T.nodes
        OBVIOUS
      <3> DEFINE m == <<v>>
      <3>1. Len(m) = 1
        OBVIOUS
      <3>2. m \in S.nodes
        BY <1>2, <1>3
      <3> HIDE DEF m
      <3>3. ~IsPrefix(n, m)
        BY <1>7, <3>1, <3>2
      <3> QED BY <1>2, <3>2, <3>3 DEF m
    <2>3. \A v \in TrServers : T.sock[v] # "none" => v # T.me /\ TrLinked(plan, T.me, v)
      BY <1>0, <1>2 DEF TrPlugged
    <2> QED BY <2>1, <2>2, <2>3 DEF TrPlugged
  <1>9. ASSUME NEW v \in TrServers PROVE TrWrites(plan, S, T, v)
    <2> DEFINE Q == TrTells(S.nodes, a, v)
               R == TrTells({m \in S.nodes : ~IsPrefix(n, m)}, a, v)
    <2>0. R = TrTells(T.nodes, a, v)
      BY <1>2
    <2>1. CASE S.sock[v] # "up"
      BY <1>2, <1>4, <2>1 DEF TrWrites
    <2>2. CASE S.sock[v] = "up" /\ v = t
      <3>1. R = Q
        BY <1>0, <1>1, TrCutTells, <2>2, ZenonT(60)
      <3>2. TrLeads(plan, v, a, <<>>, Q, R)
        <4> HIDE DEF Q, R
        <4> QED BY <3>1, TrLeadsNone
      <3> QED BY <1>2, <1>4, <2>0, <2>2, <3>2 DEF TrWrites
    <2>3. CASE S.sock[v] = "up" /\ v # t
      <3>2. TrSays(plan, v, a, Q, l, R)
        BY <1>0, <1>1, <2>3, TrCutTells, ZenonT(60)
      <3> HIDE DEF Q, R, l
      <3>5. TrLeads(plan, v, a, <<l>>, Q, R)
        BY <1>6, <3>2, TrLeadsOne
      <3>6. TrLeads(plan, v, a, <<l>>, TrTells(S.nodes, a, v), TrTells(T.nodes, a, v))
        BY <2>0, <3>5 DEF Q
      <3> QED BY <1>2, <1>4, <2>3, <3>6 DEF TrWrites
    <2> QED BY <2>1, <2>2, <2>3
  <1>10. TrSilent(T)
    <2>1. \A v \in TrServers : T.out[v] \in {<<>>, <<l>>}
      BY <1>4
    <2>2. l.cmd # "NOTICE"
      BY <1>6
    <2> HIDE DEF l
    <2> QED BY <2>1, <2>2, TrOneLine
  <1>11. TrElse(S, T, t)
    BY <1>2, <1>7 DEF TrElse, TrVia
  <1>12. TrVia(T.nodes, t) = {m \in TrVia(S.nodes, t) : ~IsPrefix(n, m)}
    BY <1>2 DEF TrVia
  <1>13. TrRoute(S, n[Len(n) - 1]) = t
    <2> DEFINE k == Len(n) - 1
               m == SubSeq(n, 1, k)
    <2>1. m \in S.nodes
      BY <1>0, <1>1 DEF TrBook
    <2>2. k \in 0 .. Len(n) /\ k \in 1 .. k /\ 1 \in 1 .. k
      BY <1>5
    <2>3. Len(m) = k /\ \A i \in 1 .. k : m[i] = n[i]
      BY <1>1, <2>2, TrWayUpTo
    <2>4. m # <<>> /\ m[1] = t /\ m[Len(m)] = n[k]
      <3>1. Len(m) # 0 /\ k \in 1 .. k
        BY <1>5, <2>2, <2>3
      <3> HIDE DEF m, k
      <3>2. m # <<>>
        BY <3>1
      <3>3. m[1] = n[1] /\ m[k] = n[k]
        BY <2>2, <2>3
      <3> QED BY <1>1, <2>3, <3>2, <3>3
    <2> HIDE DEF m
    <2>5. TrRoute(S, m[Len(m)]) = m[1]
      BY <1>0, <2>1, <2>4, TrKnown
    <2> QED BY <2>4, <2>5
  <1> QED BY <1>2, <1>8, <1>9, <1>10, <1>11, <1>12, <1>13 DEF TrMoves, T

TrHeard(S, t, l) == l.cmd = "NOTICE" /\ S.sock[t] = "up" /\ TrFrom(S, t, l.prefix)

LEMMA TrElseSame ==
    ASSUME NEW S, NEW T, NEW t, T.nodes = S.nodes, T.sock = S.sock
    PROVE  TrElse(S, T, t)
  BY DEF TrElse

LEMMA TrHandleMoves ==
    ASSUME NEW plan \in TrTrees, NEW S, TrStarts(plan, S), NEW t \in TrServers, S.sock[t] # "none",
           NEW l \in TrLines, NEW R, TrSays(plan, S.me, t, TrVia(S.nodes, t), l, R),
           S.sock[t] = "dialled" => l.cmd = "EOF"
    PROVE  LET T == TrHandle(S, t, l) IN
           /\ TrMoves(plan, S, T) /\ TrElse(S, T, t)
           /\ l.cmd = "EOF" => T.sock[t] = "none"
           /\ l.cmd # "EOF" => T.sock[t] # "none" /\ T.sock[t] \in {S.sock[t], "up"} /\ TrVia(T.nodes, t) = R
           /\ IF TrHeard(S, t, l) THEN T = TrSpread(S, l, l.prefix) ELSE TrSilent(T)
  <1> DEFINE T == TrHandle(S, t, l)
             Q == TrVia(S.nodes, t)
  <1>0. S \in TrStates /\ TrBook(plan, S) /\ TrPlugged(plan, S)
    BY DEF TrStarts, TrBook
  <1>1. S.sock[t] \in TrLinks /\ l.cmd \in {"EOF", "BURST", "SERVER", "SQUIT", "NOTICE"}
    BY <1>0 DEF TrStates, TrLines
  <1>2. /\ S.sock[t] = "up" => <<t>> \in Q
        /\ S.sock[t] # "up" => Q = {}
    <2>1. <<t>> # <<>> /\ <<t>>[1] = t
      OBVIOUS
    <2>2. S.sock[t] = "up" <=> <<t>> \in S.nodes
      BY <1>0, TrUpIs
    <2>3. S.sock[t] # "up" => Q = {}
      <3>1. S.sock[t] # "up" => \A n \in S.nodes : ~(n # <<>> /\ n[1] = t)
        BY <1>0, TrUpIs
      <3> QED BY <3>1 DEF TrVia
    <2> QED BY <2>1, <2>2, <2>3 DEF TrVia
  <1>3. TrMoves(plan, S, S) /\ TrSilent(S) /\ TrElse(S, S, t)
    BY TrStill, TrElseSame
  <1>4. CASE l.cmd = "EOF"
    <2>1. T = TrClose(S, t) /\ ~TrHeard(S, t, l)
      BY <1>4 DEF TrHandle, TrHeard
    <2> HIDE DEF T, Q
    <2>2. TrMoves(plan, S, T) /\ TrSilent(T) /\ TrElse(S, T, t) /\ T.sock[t] = "none"
      BY <2>1, TrCloseMoves
    <2> QED BY <1>4, <2>1, <2>2 DEF T
  <1>5. CASE l.cmd = "BURST"
    <2>0. ~TrHeard(S, t, l)
      BY <1>5 DEF TrHeard
    <2>1. R = Q \cup {<<t>>}
      BY <1>5 DEF TrSays
    <2>2. CASE S.sock[t] = "auth2"
      <3>1. T = TrJoin(S, t, <<TrLine("BURST", TrNone, TrNone)>>)
        BY <1>5, <2>2 DEF TrHandle
      <3>2. R = {<<t>>}
        BY <1>2, <2>1, <2>2
      <3> HIDE DEF T, Q
      <3>3. TrMoves(plan, S, T) /\ TrSilent(T) /\ TrElse(S, T, t) /\ T.sock[t] = "up" /\ TrVia(T.nodes, t) = {<<t>>}
        BY <2>2, <3>1, TrJoinMoves
      <3> QED BY <1>5, <2>0, <3>2, <3>3 DEF T
    <2>3. CASE S.sock[t] # "auth2"
      <3>1. T = S
        BY <1>5, <2>3 DEF TrHandle
      <3>2. S.sock[t] = "up"
        BY <1>1, <1>5, <2>3 DEF TrLinks
      <3>3. R = Q
        BY <1>2, <2>1, <3>2
      <3> HIDE DEF T
      <3> QED BY <1>3, <1>5, <2>0, <3>1, <3>2, <3>3 DEF T
    <2> QED BY <2>2, <2>3
  <1>6. CASE l.cmd = "NOTICE"
    <2>1. R = Q
      BY <1>6 DEF TrSays
    <2>2. CASE TrHeard(S, t, l)
      <3>1. T = TrSpread(S, l, l.prefix)
        BY <1>6, <2>2 DEF TrHandle, TrHeard
      <3> DEFINE p == l.prefix
      <3> HIDE DEF T, Q, p
      <3>2. T = TrSpread(S, l, p)
        BY <3>1 DEF p
      <3>3. TrMoves(plan, S, T) /\ T.nodes = S.nodes /\ T.sock = S.sock
        <4>1. TrSentOn(plan, S, TrSpread(S, l, p), l, p)
          BY <1>6, TrSpreadMoves
        <4> QED BY <3>2, <4>1 DEF TrSentOn
      <3>4. TrElse(S, T, t)
        BY <3>3, TrElseSame
      <3> QED BY <1>6, <2>1, <2>2, <3>1, <3>3, <3>4 DEF T, Q
    <2>3. CASE ~TrHeard(S, t, l)
      <3>1. T = S
        BY <1>6, <2>3 DEF TrHandle, TrHeard
      <3> HIDE DEF T
      <3> QED BY <1>3, <1>6, <2>1, <2>3, <3>1 DEF T
    <2> QED BY <2>2, <2>3
  <1>7. CASE l.cmd = "SERVER"
    <2>0. ~TrHeard(S, t, l)
      BY <1>7 DEF TrHeard
    <2>1. PICK q \in Q : /\ q # <<>> /\ q[Len(q)] = l.prefix /\ l.x \in TrServers
                         /\ Append(q, l.x) \notin Q /\ TrWay(plan, S.me, Append(q, l.x))
                         /\ R = Q \cup {Append(q, l.x)}
      BY <1>7 DEF TrSays
    <2>2. S.sock[t] = "up"
      BY <1>2, <2>1
    <2>3. PICK x : x = l.x
      OBVIOUS
    <2>4. x \in TrServers /\ Append(q, x) \notin TrVia(S.nodes, t) /\ TrWay(plan, S.me, Append(q, x))
          /\ R = Q \cup {Append(q, x)}
      BY <2>1, <2>3
    <2>5. l = TrLine("SERVER", q[Len(q)], x)
      BY <1>7, <2>1, <2>3 DEF TrLines, TrLine
    <2>6. TrRoute(S, q[Len(q)]) = t
      <3>1. TrFresh(S, t, q, x, Append(q, x), q[Len(q)])
        BY <1>0, <2>1, <2>4, TrServerNews
      <3> QED BY <3>1 DEF TrFresh
    <2>7. TrFrom(S, t, l.prefix)
      BY <2>1, <2>6 DEF TrFrom
    <2>8. T = TrRemoteServer(S, t, l)
      BY <1>7, <2>2, <2>7 DEF TrHandle
    <2>9. /\ TrMoves(plan, S, T) /\ TrSilent(T) /\ TrElse(S, T, t) /\ T.sock = S.sock
          /\ TrVia(T.nodes, t) = R
      <3> DEFINE m == TrLine("SERVER", q[Len(q)], x)
                 Z == TrRemoteServer(S, t, m)
      <3>1. /\ TrMoves(plan, S, Z) /\ TrSilent(Z) /\ TrElse(S, Z, t) /\ Z.sock = S.sock
            /\ TrVia(Z.nodes, t) = TrVia(S.nodes, t) \cup {Append(q, x)}
        BY <2>1, <2>2, <2>4, TrServerMoves
      <3>2. Z = T
        BY <2>5, <2>8
      <3> HIDE DEF Z, T
      <3> QED BY <2>4, <3>1, <3>2
    <2> HIDE DEF T
    <2> QED BY <1>7, <2>0, <2>2, <2>9 DEF T
  <1>8. CASE l.cmd = "SQUIT"
    <2>0. ~TrHeard(S, t, l)
      BY <1>8 DEF TrHeard
    <2>1. PICK n \in Q : /\ Len(n) >= 2 /\ n[Len(n)] = l.x /\ n[Len(n) - 1] = l.prefix
                         /\ R = {m \in Q : ~IsPrefix(n, m)}
      BY <1>8 DEF TrSays
    <2>2. S.sock[t] = "up"
      BY <1>2, <2>1
    <2> DEFINE Z == TrSquit(S, n[Len(n)])
    <2>3. /\ TrMoves(plan, S, Z) /\ TrSilent(Z) /\ TrElse(S, Z, t) /\ Z.sock = S.sock
          /\ TrVia(Z.nodes, t) = {m \in TrVia(S.nodes, t) : ~IsPrefix(n, m)}
          /\ TrRoute(S, n[Len(n) - 1]) = t
      <3>1. n \in TrVia(S.nodes, t) /\ Len(n) >= 2
        BY <2>1
      <3> QED BY <2>2, <3>1, TrSquitMoves, SMTT(60)
    <2>4. T = TrSquit(S, l.x)
      <3>1. TrFrom(S, t, l.prefix)
        BY <2>1, <2>3 DEF TrFrom
      <3> QED BY <1>8, <2>2, <3>1 DEF TrHandle
    <2>5. Z = T
      BY <2>1, <2>4
    <2> HIDE DEF Z, T
    <2>6. TrVia(T.nodes, t) = R
      BY <2>1, <2>3, <2>5
    <2> QED BY <1>8, <2>0, <2>2, <2>3, <2>5, <2>6 DEF T
  <1> QED BY <1>1, <1>4, <1>5, <1>6, <1>7, <1>8

\* Of what a (with nodes na, his socket to b in state sa) writes to b (nb, sb), w is on its way: it leads b to have
\* what a would have him have, or to the end of the stream.
TrPairOK(plan, a, b, sa, sb, w, na, nb) ==
    /\ sb = "none" => w = <<>>
    /\ sb = "dialled" => sa \in {"auth2", "none"} /\ w \in {<<>>, <<TrEof>>}
    /\ sb # "none" =>
          /\ sa = "none" => w # <<>> /\ w[Len(w)] = TrEof /\ \E U : TrLeads(plan, b, a, w, TrVia(nb, a), U)
          /\ sa \in {"dialled", "auth2"} => w = <<>> /\ TrVia(nb, a) \subseteq {<<a>>}
          /\ sa = "up" => TrLeads(plan, b, a, w, TrVia(nb, a), TrTells(na, a, b))

LEMMA TrEofIs == TrEof \in TrLines /\ TrEof.cmd = "EOF" /\ <<TrEof>> \in Seq(TrLines) /\ Len(<<TrEof>>) = 1 /\ <<TrEof>>[1] = TrEof
  <1>1. TrEof \in TrLines /\ TrEof.cmd = "EOF"
    BY DEF TrEof, TrLine, TrLines
  <1> QED BY <1>1

LEMMA TrEofLeads ==
    ASSUME NEW plan, NEW b, NEW a, NEW Q, NEW R
    PROVE  TrLeads(plan, b, a, <<TrEof>>, Q, R)
  <1>1. TrSays(plan, b, a, Q, TrEof, R)
    BY TrEofIs DEF TrSays
  <1> QED BY <1>1, TrEofIs, TrLeadsOne

LEMMA TrPairClosed ==
    ASSUME NEW plan, NEW a, NEW b, NEW sa, NEW na, NEW nb
    PROVE  TrPairOK(plan, a, b, sa, "none", <<>>, na, nb)
  BY DEF TrPairOK

\* b accepts the link.
LEMMA TrPairJoined ==
    ASSUME NEW plan, NEW a, NEW b, NEW sa, NEW w, NEW na, NEW nb, NEW nb2,
           TrPairOK(plan, a, b, sa, "dialled", w, na, nb), TrVia(nb2, a) = {<<a>>}
    PROVE  TrPairOK(plan, a, b, sa, "up", w, na, nb2)
  <1>1. sa \in {"auth2", "none"} /\ w \in {<<>>, <<TrEof>>}
    BY DEF TrPairOK
  <1>2. CASE sa = "none"
    <2>1. w = <<TrEof>>
      BY <1>1, <1>2 DEF TrPairOK
    <2>2. TrLeads(plan, b, a, <<TrEof>>, TrVia(nb2, a), {})
      BY TrEofLeads
    <2>3. w # <<>> /\ w[Len(w)] = TrEof
      BY <2>1, TrEofIs
    <2> QED BY <1>2, <2>1, <2>2, <2>3 DEF TrPairOK
  <1>3. CASE sa = "auth2"
    <2>1. w = <<>>
      BY <1>3 DEF TrPairOK
    <2> QED BY <1>3, <2>1 DEF TrPairOK
  <1> QED BY <1>1, <1>2, <1>3

\* b reads a line, and has R of the side of a then.
TrReadsTo(plan, a, b, sa, sb, w, na, nb, R) ==
    /\ TrSays(plan, b, a, TrVia(nb, a), Head(w), R)
    /\ Head(w).cmd # "EOF" =>
          \A nb2 : TrVia(nb2, a) = R =>
              \A sb2 \in {sb, "up"} : TrPairOK(plan, a, b, sa, sb2, Tail(w), na, nb2)

LEMMA TrPairReads ==
    ASSUME NEW plan, NEW a, NEW b, NEW sa \in TrLinks, NEW sb, NEW w \in Seq(TrLines), NEW na, NEW nb,
           w # <<>>, sb # "none", TrPairOK(plan, a, b, sa, sb, w, na, nb)
    PROVE  /\ Head(w) \in TrLines /\ (sb = "dialled" => Head(w).cmd = "EOF")
           /\ \E R : TrReadsTo(plan, a, b, sa, sb, w, na, nb, R)
  <1>1. Head(w) \in TrLines /\ Tail(w) \in Seq(TrLines)
    OBVIOUS
  <1>2. sb = "dialled" => Head(w).cmd = "EOF"
    <2>1. w = <<TrEof>> => Head(w) = TrEof
      OBVIOUS
    <2> QED BY <2>1, TrEofIs DEF TrPairOK
  <1>3. \E U : /\ TrLeads(plan, b, a, w, TrVia(nb, a), U)
               /\ sa = "up" => U = TrTells(na, a, b)
               /\ sa \in {"none", "up"}
    <2>1. CASE sa = "none"
      BY <2>1 DEF TrPairOK
    <2>2. CASE sa = "up"
      BY <2>2 DEF TrPairOK
    <2>3. sa \in {"none", "up"}
      BY DEF TrPairOK, TrLinks
    <2> QED BY <2>1, <2>2, <2>3
  <1>4. PICK U : /\ TrLeads(plan, b, a, w, TrVia(nb, a), U)
                 /\ sa = "up" => U = TrTells(na, a, b)
                 /\ sa \in {"none", "up"}
    BY <1>3
  <1>5. PICK R : TrSays(plan, b, a, TrVia(nb, a), Head(w), R) /\ TrLeads(plan, b, a, Tail(w), R, U)
    BY <1>4, TrLeadsTail
  <1>6. ASSUME Head(w).cmd # "EOF", NEW nb2, TrVia(nb2, a) = R, NEW sb2 \in {sb, "up"}
        PROVE  TrPairOK(plan, a, b, sa, sb2, Tail(w), na, nb2)
    <2>1. sb # "dialled" /\ sb2 # "dialled" /\ sb2 # "none"
      BY <1>2, <1>6
    <2>2. TrLeads(plan, b, a, Tail(w), TrVia(nb2, a), U)
      BY <1>5, <1>6
    <2>3. CASE sa = "up"
      BY <1>4, <2>1, <2>2, <2>3 DEF TrPairOK
    <2>4. CASE sa = "none"
      <3>1. w[Len(w)] = TrEof
        BY <2>4 DEF TrPairOK
      <3>2. Len(w) # 1
        <4>1. Head(w) = w[1]
          OBVIOUS
        <4> QED BY <1>6, <3>1, <4>1, TrEofIs
      <3>3. Tail(w) # <<>> /\ Tail(w)[Len(Tail(w))] = w[Len(w)]
        <4> DEFINE short == Tail(w)
                   k == Len(w)
        <4>1. k \in Nat /\ k # 0 /\ Len(short) = k - 1 /\ short \in Seq(TrLines)
              /\ \A i \in 1 .. k - 1 : short[i] = w[i + 1]
          OBVIOUS
        <4> HIDE DEF short, k
        <4>2. k - 1 \in 1 .. k - 1 /\ (k - 1) + 1 = k /\ k - 1 # 0
          BY <3>2, <4>1 DEF k
        <4>3. short[k - 1] = w[k]
          BY <4>1, <4>2
        <4>4. short # <<>>
          BY <4>1, <4>2
        <4>5. short[Len(short)] = w[k]
          BY <4>1, <4>3
        <4> QED BY <4>4, <4>5 DEF short, k
      <3> QED BY <2>1, <2>2, <2>4, <3>1, <3>3 DEF TrPairOK
    <2> QED BY <1>4, <2>3, <2>4
  <1>7. TrReadsTo(plan, a, b, sa, sb, w, na, nb, R)
    BY <1>5, <1>6 DEF TrReadsTo
  <1> QED BY <1>1, <1>2, <1>7

\* a writes.
LEMMA TrPairWrites ==
    ASSUME NEW plan, NEW S, NEW T, NEW b, NEW sb, NEW w \in Seq(TrLines), NEW nb,
           S.sock[b] \in TrLinks, T.out[b] \in Seq(TrLines), TrWrites(plan, S, T, b),
           TrPairOK(plan, S.me, b, S.sock[b], sb, w, S.nodes, nb),
           S.sock[b] = "auth2" /\ T.sock[b] = "up" => sb # "dialled"
    PROVE  TrPairOK(plan, S.me, b, T.sock[b], sb, w \o (IF sb = "none" THEN <<>> ELSE T.out[b]), T.nodes, nb)
  <1> DEFINE a == S.me
             o == T.out[b]
             V == TrVia(nb, a)
  <1>1. CASE sb = "none"
    <2>1. w = <<>> /\ <<>> \o <<>> = <<>>
      BY <1>1 DEF TrPairOK
    <2> QED BY <1>1, <2>1 DEF TrPairOK
  <1>2. CASE sb # "none"
    <2>0. w \o <<>> = w /\ w \o o \in Seq(TrLines) /\ <<>> \o o = o
      OBVIOUS
    <2> SUFFICES TrPairOK(plan, a, b, T.sock[b], sb, w \o o, T.nodes, nb)
      BY <1>2
    <2>1. CASE S.sock[b] # "none" /\ T.sock[b] = "none" /\ o = <<TrEof>>
      <3>1. w \o o # <<>> /\ (w \o o)[Len(w \o o)] = TrEof
        <4>1. Len(w \o o) = Len(w) + 1 /\ Len(w) \in Nat /\ (w \o o)[Len(w) + 1] = TrEof
          BY <2>1
        <4> QED BY <2>0, <4>1
      <3>2. \E U : TrLeads(plan, b, a, w, V, U)
        <4>1. TrLeads(plan, b, a, <<>>, V, V)
          BY TrLeadsNone
        <4> QED BY <1>2, <2>1, <4>1 DEF TrPairOK, TrLinks
      <3>3. PICK U : TrLeads(plan, b, a, w, V, U)
        BY <3>2
      <3>4. TrLeads(plan, b, a, w \o o, V, {})
        BY <2>1, <3>3, TrEofIs, TrEofLeads, TrLeadsOn
      <3>5. sb = "dialled" => w \o o = <<TrEof>>
        <4> SUFFICES ASSUME sb = "dialled" PROVE w \o o = <<TrEof>>
          OBVIOUS
        <4>1. w = <<>>
          BY <2>1 DEF TrPairOK
        <4> QED BY <2>0, <2>1, <4>1
      <3> QED BY <1>2, <2>1, <3>1, <3>4, <3>5 DEF TrPairOK
    <2>2. CASE T.sock[b] = S.sock[b] /\ S.sock[b] # "up" /\ o = <<>>
      <3>1. w \o o = w
        BY <2>0, <2>2
      <3> HIDE DEF o
      <3> QED BY <2>2, <3>1 DEF TrPairOK
    <2>3. CASE T.sock[b] = "up" /\ S.sock[b] = "up" /\ TrLeads(plan, b, a, o, TrTells(S.nodes, a, b), TrTells(T.nodes, a, b))
      <3>1. TrLeads(plan, b, a, w, V, TrTells(S.nodes, a, b)) /\ sb # "dialled"
        BY <1>2, <2>3 DEF TrPairOK
      <3>2. TrLeads(plan, b, a, w \o o, V, TrTells(T.nodes, a, b))
        BY <2>3, <3>1, TrLeadsOn
      <3> QED BY <1>2, <2>3, <3>1, <3>2 DEF TrPairOK
    <2>4. CASE /\ T.sock[b] = "up" /\ S.sock[b] \in {"dialled", "auth2"}
               /\ \A Q \in SUBSET {<<a>>} : TrLeads(plan, b, a, o, Q, TrTells(T.nodes, a, b))
      <3>1. w = <<>> /\ V \subseteq {<<a>>} /\ sb # "dialled"
        BY <1>2, <2>4 DEF TrPairOK
      <3>2. TrLeads(plan, b, a, o, V, TrTells(T.nodes, a, b)) /\ w \o o = o
        BY <2>0, <2>4, <3>1
      <3> HIDE DEF o
      <3> QED BY <1>2, <2>4, <3>1, <3>2 DEF TrPairOK
    <2> QED BY <2>1, <2>2, <2>3, <2>4 DEF TrWrites
  <1> QED BY <1>1, <1>2

\* While no circle of link blocks is configured: the trees, lists of names and sockets of every server stand as one
\* step needs them, and so does what is on its way between every two servers.
TrTypes ==
    /\ tr_plan \in TrTrees
    /\ tr_nodes \in [TrServers -> SUBSET Seq(TrServers)]
    /\ tr_hash \in [TrServers -> [TrServers -> SUBSET Seq(TrServers)]]
    /\ tr_sock \in [TrServers -> [TrServers -> TrLinks]]
    /\ tr_wire \in [TrServers -> [TrServers -> Seq(TrLines)]]
TrPair(a, b) ==
    TrPairOK(tr_plan, a, b, tr_sock[a][b], tr_sock[b][a], tr_wire[a][b], tr_nodes[a], tr_nodes[b])
TrKept ==
    /\ TrTypes
    /\ \A s \in TrServers : TrStarts(tr_plan, TrState(s))
    /\ \A a, b \in TrServers : a # b => TrPair(a, b)

LEMMA TrMadeIs ==
    ASSUME NEW s \in TrServers, NEW nodes \in SUBSET Seq(TrServers), NEW hash \in [TrServers -> SUBSET Seq(TrServers)],
           NEW sock \in [TrServers -> TrLinks]
    PROVE  LET S == [me |-> s, nodes |-> nodes, hash |-> hash, sock |-> sock, out |-> [t \in TrServers |-> <<>>]] IN
           /\ S \in TrStates /\ S.me = s /\ S.nodes = nodes /\ S.hash = hash /\ S.sock = sock
           /\ \A v \in TrServers : S.out[v] = <<>>
  <1> DEFINE out == [t \in TrServers |-> <<>>]
  <1>1. out \in [TrServers -> Seq(TrLines)] /\ \A v \in TrServers : out[v] = <<>>
    OBVIOUS
  <1> HIDE DEF out
  <1>2. [me |-> s, nodes |-> nodes, hash |-> hash, sock |-> sock, out |-> out] \in TrStates
    BY <1>1 DEF TrStates
  <1> QED BY <1>1, <1>2 DEF out

LEMMA TrStateIs ==
    ASSUME TrTypes, NEW s \in TrServers
    PROVE  LET S == TrState(s) IN
           /\ S \in TrStates /\ S.me = s /\ S.nodes = tr_nodes[s] /\ S.hash = tr_hash[s] /\ S.sock = tr_sock[s]
           /\ \A v \in TrServers : S.out[v] = <<>>
  <1>1. tr_nodes[s] \in SUBSET Seq(TrServers) /\ tr_hash[s] \in [TrServers -> SUBSET Seq(TrServers)]
        /\ tr_sock[s] \in [TrServers -> TrLinks]
    BY DEF TrTypes
  <1> QED BY <1>1, TrMadeIs DEF TrState

LEMMA TrStateIsNext ==
    ASSUME TrTypes', NEW s \in TrServers
    PROVE  LET S == TrState(s)' IN
           /\ S \in TrStates /\ S.me = s /\ S.nodes = tr_nodes'[s] /\ S.hash = tr_hash'[s] /\ S.sock = tr_sock'[s]
           /\ \A v \in TrServers : S.out[v] = <<>>
  <1>1. tr_nodes'[s] \in SUBSET Seq(TrServers) /\ tr_hash'[s] \in [TrServers -> SUBSET Seq(TrServers)]
        /\ tr_sock'[s] \in [TrServers -> TrLinks]
    BY DEF TrTypes
  <1> QED BY <1>1, TrMadeIs DEF TrState

\* A state is sound whatever it has written.
LEMMA TrBookSame ==
    ASSUME NEW plan, NEW S, NEW T, TrBook(plan, T), TrPlugged(plan, T), S \in TrStates,
           S.me = T.me, S.nodes = T.nodes, S.hash = T.hash, S.sock = T.sock,
           \A v \in TrServers : S.out[v] = <<>>
    PROVE  TrStarts(plan, S)
  <1>1. TrBook(plan, S)
    BY DEF TrBook
  <1>2. TrPlugged(plan, S)
    BY DEF TrPlugged
  <1> QED BY <1>1, <1>2 DEF TrStarts

\* TrCommit, server by server.
TrTook(s, T, read) ==
    /\ \A u \in TrServers : /\ tr_nodes'[u] = IF u = s THEN T.nodes ELSE tr_nodes[u]
                            /\ tr_hash'[u] = IF u = s THEN T.hash ELSE tr_hash[u]
                            /\ tr_sock'[u] = IF u = s THEN T.sock ELSE tr_sock[u]
    /\ \A v \in TrServers : tr_wire'[s][v] = tr_wire[s][v] \o (IF tr_sock[v][s] = "none" THEN <<>> ELSE T.out[v])
    /\ \A u, v \in TrServers \ {s} : tr_wire'[u][v] = tr_wire[u][v]
    /\ \A u \in TrServers \ {s} :
          tr_wire'[u][s] = IF T.sock[u] = "none" THEN <<>>
                           ELSE IF u = read THEN Tail(tr_wire[u][s]) ELSE tr_wire[u][s]

LEMMA TrCommitIs ==
    ASSUME TrTypes, NEW s \in TrServers, NEW T \in TrStates, T.me = s, NEW read, TrCommit(T, read), tr_plan' = tr_plan,
           read \in TrServers => tr_wire[read][s] # <<>>
    PROVE  TrTypes' /\ TrTook(s, T, read)
  <1>1. /\ T.nodes \in SUBSET Seq(TrServers) /\ T.hash \in [TrServers -> SUBSET Seq(TrServers)]
        /\ T.sock \in [TrServers -> TrLinks] /\ T.out \in [TrServers -> Seq(TrLines)]
    BY DEF TrStates
  <1>2. /\ tr_nodes' = [tr_nodes EXCEPT ![s] = T.nodes] /\ tr_hash' = [tr_hash EXCEPT ![s] = T.hash]
        /\ tr_sock' = [tr_sock EXCEPT ![s] = T.sock]
    BY DEF TrCommit
  <1> DEFINE Wire(u, v) ==
               IF u = s THEN tr_wire[s][v] \o (IF tr_sock[v][s] = "none" THEN <<>> ELSE T.out[v])
               ELSE IF v # s \/ T.sock[u] = "none" THEN IF v = s THEN <<>> ELSE tr_wire[u][v]
               ELSE IF u = read THEN Tail(tr_wire[u][s]) ELSE tr_wire[u][s]
  <1>3. tr_wire' = [u \in TrServers |-> [v \in TrServers |-> Wire(u, v)]]
    BY DEF TrCommit
  <1>4. ASSUME NEW u \in TrServers, NEW v \in TrServers PROVE Wire(u, v) \in Seq(TrLines)
    <2>1. tr_wire[u][v] \in Seq(TrLines) /\ tr_wire[s][v] \in Seq(TrLines) /\ tr_wire[u][s] \in Seq(TrLines)
      BY DEF TrTypes
    <2>2. T.out[v] \in Seq(TrLines)
      BY <1>1
    <2>3. ASSUME NEW x \in Seq(TrLines), NEW y \in Seq(TrLines) PROVE x \o y \in Seq(TrLines)
      BY <2>3
    <2>4. tr_wire[s][v] \o (IF tr_sock[v][s] = "none" THEN <<>> ELSE T.out[v]) \in Seq(TrLines)
      BY <2>1, <2>2, <2>3
    <2>5. u = read => Tail(tr_wire[u][s]) \in Seq(TrLines)
      BY <2>1
    <2> QED BY <2>1, <2>4, <2>5
  <1>5. \A u, v \in TrServers : tr_wire'[u][v] = Wire(u, v)
    BY <1>3
  <1>6. tr_wire' \in [TrServers -> [TrServers -> Seq(TrLines)]]
    <2> HIDE DEF Wire
    <2> QED BY <1>3, <1>4
  <1>7. /\ tr_nodes' \in [TrServers -> SUBSET Seq(TrServers)]
        /\ tr_hash' \in [TrServers -> [TrServers -> SUBSET Seq(TrServers)]]
        /\ tr_sock' \in [TrServers -> [TrServers -> TrLinks]]
    BY <1>1, <1>2 DEF TrTypes
  <1>8. TrTypes'
    BY <1>6, <1>7 DEF TrTypes
  <1>9. \A u \in TrServers : /\ tr_nodes'[u] = IF u = s THEN T.nodes ELSE tr_nodes[u]
                             /\ tr_hash'[u] = IF u = s THEN T.hash ELSE tr_hash[u]
                             /\ tr_sock'[u] = IF u = s THEN T.sock ELSE tr_sock[u]
    BY <1>2 DEF TrTypes
  <1>10. \A v \in TrServers : tr_wire'[s][v] = tr_wire[s][v] \o (IF tr_sock[v][s] = "none" THEN <<>> ELSE T.out[v])
    BY <1>5
  <1>11. \A u, v \in TrServers \ {s} : tr_wire'[u][v] = tr_wire[u][v]
    BY <1>5
  <1>12. \A u \in TrServers \ {s} :
           tr_wire'[u][s] = IF T.sock[u] = "none" THEN <<>>
                            ELSE IF u = read THEN Tail(tr_wire[u][s]) ELSE tr_wire[u][s]
    BY <1>5
  <1> HIDE DEF Wire
  <1> QED BY <1>8, <1>9, <1>10, <1>11, <1>12 DEF TrTook

\* One step of s keeps the invariant, if what t had sent it, when it reads of t, is rightly read.
LEMMA TrCommitKeeps ==
    ASSUME TrKept, NEW s \in TrServers, NEW T, NEW t \in TrServers \cup {TrNone}, t # s, NEW read \in {t, TrNone},
           TrMoves(tr_plan, TrState(s), T), TrElse(TrState(s), T, t), TrCommit(T, read), tr_plan' = tr_plan,
           read \in TrServers => tr_wire[read][s] # <<>>,
           \A v \in TrServers : tr_sock[s][v] = "auth2" /\ T.sock[v] = "up" => tr_sock[v][s] # "dialled",
           t \in TrServers /\ T.sock[t] # "none" =>
              TrPairOK(tr_plan, t, s, tr_sock[t][s], T.sock[t],
                       IF t = read THEN Tail(tr_wire[t][s]) ELSE tr_wire[t][s], tr_nodes[t], T.nodes)
    PROVE  TrKept'
  <1> DEFINE S == TrState(s)
  <1>1. TrTypes /\ tr_plan \in TrTrees /\ TrStarts(tr_plan, S)
    BY DEF TrKept, TrTypes
  <1>2. T.me = s /\ TrBook(tr_plan, T) /\ TrPlugged(tr_plan, T) /\ T \in TrStates
        /\ \A v \in TrServers : TrWrites(tr_plan, S, T, v)
    <2>1. S.me = s
      BY <1>1, TrStateIs
    <2> QED BY <2>1 DEF TrMoves, TrBook
  <1>3. S.me = s /\ S.nodes = tr_nodes[s] /\ S.sock = tr_sock[s]
    BY <1>1, TrStateIs
  <1>5. TrTypes' /\ TrTook(s, T, read)
    BY <1>1, <1>2, TrCommitIs
  <1>6. ASSUME NEW u \in TrServers PROVE TrStarts(tr_plan, TrState(u)')
    <2>1. LET U == TrState(u)' IN
          /\ U \in TrStates /\ U.me = u /\ U.nodes = tr_nodes'[u] /\ U.hash = tr_hash'[u] /\ U.sock = tr_sock'[u]
          /\ \A v \in TrServers : U.out[v] = <<>>
      BY <1>5, TrStateIsNext
    <2>2. CASE u = s
      BY <1>2, <1>5, <2>1, <2>2, TrBookSame DEF TrTook
    <2>3. CASE u # s
      <3>1. TrStarts(tr_plan, TrState(u))
        BY DEF TrKept
      <3>2. TrState(u)' = TrState(u)
        BY <1>5, <2>3 DEF TrState, TrTook
      <3> QED BY <3>1, <3>2
    <2> QED BY <2>2, <2>3
  <1>7. ASSUME NEW v \in TrServers, v # s
        PROVE  TrPairOK(tr_plan, s, v, tr_sock'[s][v], tr_sock'[v][s], tr_wire'[s][v], tr_nodes'[s], tr_nodes'[v])
    <2>1. TrPairOK(tr_plan, s, v, S.sock[v], tr_sock[v][s], tr_wire[s][v], S.nodes, tr_nodes[v])
      BY <1>3, <1>7 DEF TrKept, TrPair
    <2>2. S.sock[v] \in TrLinks /\ T.out[v] \in Seq(TrLines) /\ tr_wire[s][v] \in Seq(TrLines)
      BY <1>1, <1>2, <1>3 DEF TrTypes, TrStates
    <2>3. S.sock[v] = "auth2" /\ T.sock[v] = "up" => tr_sock[v][s] # "dialled"
      BY <1>3
    <2>4. TrPairOK(tr_plan, s, v, T.sock[v], tr_sock[v][s],
                   tr_wire[s][v] \o (IF tr_sock[v][s] = "none" THEN <<>> ELSE T.out[v]), T.nodes, tr_nodes[v])
      <3> HIDE DEF S
      <3> QED BY <1>2, <1>3, <2>1, <2>2, <2>3, TrPairWrites
    <2> QED BY <1>5, <1>7, <2>4 DEF TrTook
  <1>8. ASSUME NEW u \in TrServers, u # s
        PROVE  TrPairOK(tr_plan, u, s, tr_sock'[u][s], tr_sock'[s][u], tr_wire'[u][s], tr_nodes'[u], tr_nodes'[s])
    <2>0. /\ tr_sock'[u][s] = tr_sock[u][s] /\ tr_sock'[s][u] = T.sock[u] /\ tr_nodes'[u] = tr_nodes[u] /\ tr_nodes'[s] = T.nodes
          /\ tr_wire'[u][s] = IF T.sock[u] = "none" THEN <<>> ELSE IF u = read THEN Tail(tr_wire[u][s]) ELSE tr_wire[u][s]
      BY <1>5, <1>8 DEF TrTook
    <2>1. CASE T.sock[u] = "none"
      BY <2>0, <2>1, TrPairClosed
    <2>2. CASE T.sock[u] # "none" /\ u = t
      BY <2>0, <2>2
    <2>3. CASE T.sock[u] # "none" /\ u # t
      <3>1. T.sock[u] = tr_sock[s][u] /\ TrVia(T.nodes, u) = TrVia(tr_nodes[s], u)
        BY <1>3, <2>3 DEF TrElse
      <3>2. u # read
        BY <2>3, ServerTreeOK
      <3>3. TrPairOK(tr_plan, u, s, tr_sock[u][s], tr_sock[s][u], tr_wire[u][s], tr_nodes[u], tr_nodes[s])
        BY <1>8 DEF TrKept, TrPair
      <3>4. TrPairOK(tr_plan, u, s, tr_sock[u][s], tr_sock[s][u], tr_wire[u][s], tr_nodes[u], T.nodes)
        BY <3>1, <3>3 DEF TrPairOK
      <3> QED BY <2>0, <2>3, <3>1, <3>2, <3>4
    <2> QED BY <2>1, <2>2, <2>3
  <1>9. ASSUME NEW a \in TrServers, NEW b \in TrServers, a # b
        PROVE  TrPairOK(tr_plan, a, b, tr_sock'[a][b], tr_sock'[b][a], tr_wire'[a][b], tr_nodes'[a], tr_nodes'[b])
    <2>1. CASE a = s
      BY <1>7, <1>9, <2>1
    <2>2. CASE b = s
      BY <1>8, <1>9, <2>2
    <2>3. CASE a # s /\ b # s
      <3>1. tr_sock'[a][b] = tr_sock[a][b] /\ tr_sock'[b][a] = tr_sock[b][a] /\ tr_wire'[a][b] = tr_wire[a][b]
            /\ tr_nodes'[a] = tr_nodes[a] /\ tr_nodes'[b] = tr_nodes[b]
        BY <1>5, <2>3 DEF TrTook
      <3>2. TrPairOK(tr_plan, a, b, tr_sock[a][b], tr_sock[b][a], tr_wire[a][b], tr_nodes[a], tr_nodes[b])
        BY <1>9 DEF TrKept, TrPair
      <3> QED BY <3>1, <3>2
    <2> QED BY <2>1, <2>2, <2>3
  <1> QED BY <1>5, <1>6, <1>9 DEF TrKept, TrPair

LEMMA TrKeptInit ==
    ASSUME ServerTreeInit, TrTreePlan
    PROVE  TrKept
  <1>1. TrTypes
    <2>1. <<>> \in Seq(TrServers) /\ <<>> \in Seq(TrLines)
      OBVIOUS
    <2>2. {<<>>} \in SUBSET Seq(TrServers) /\ {} \in SUBSET Seq(TrServers) /\ "none" \in TrLinks
      BY <2>1 DEF TrLinks
    <2>3. tr_nodes \in [TrServers -> SUBSET Seq(TrServers)]
      BY <2>2 DEF ServerTreeInit, TrRoot
    <2>4. tr_hash \in [TrServers -> [TrServers -> SUBSET Seq(TrServers)]]
      BY <2>2 DEF ServerTreeInit, TrRoot
    <2>5. tr_sock \in [TrServers -> [TrServers -> TrLinks]]
      BY <2>2 DEF ServerTreeInit
    <2>6. tr_wire \in [TrServers -> [TrServers -> Seq(TrLines)]]
      BY <2>1 DEF ServerTreeInit
    <2> QED BY <2>3, <2>4, <2>5, <2>6 DEF TrTypes, TrTreePlan
  <1>2. ASSUME NEW s \in TrServers PROVE TrStarts(tr_plan, TrState(s))
    <2> DEFINE S == TrState(s)
    <2>1. /\ S \in TrStates /\ S.me = s /\ S.nodes = tr_nodes[s] /\ S.hash = tr_hash[s] /\ S.sock = tr_sock[s]
          /\ \A v \in TrServers : S.out[v] = <<>>
      BY <1>1, TrStateIs
    <2>2. tr_nodes[s] = {<<>>} /\ (\A x \in TrServers : tr_hash[s][x] = IF x = s THEN {<<>>} ELSE {})
          /\ \A t \in TrServers : tr_sock[s][t] = "none"
      BY DEF ServerTreeInit, TrRoot
    <2> HIDE DEF S
    <2>3. TrWay(tr_plan, s, <<>>)
      BY DEF TrWay
    <2>4. \A x \in TrServers : S.hash[x] = TrNamed(S.nodes, S.me, x)
      BY <2>1, <2>2 DEF TrNamed
    <2>5. TrBook(tr_plan, S)
      BY <2>1, <2>2, <2>3, <2>4 DEF TrBook
    <2>6. TrPlugged(tr_plan, S)
      BY <2>1, <2>2 DEF TrPlugged
    <2> QED BY <2>1, <2>5, <2>6 DEF TrStarts, S
  <1>3. ASSUME NEW a \in TrServers, NEW b \in TrServers PROVE TrPair(a, b)
    <2>1. tr_sock[b][a] = "none" /\ tr_wire[a][b] = <<>>
      BY DEF ServerTreeInit
    <2> QED BY <2>1, TrPairClosed DEF TrPair
  <1> QED BY <1>1, <1>2, <1>3 DEF TrKept

\* What a step of s starts from.
LEMMA TrKeptIs ==
    ASSUME TrKept, NEW s \in TrServers
    PROVE  LET S == TrState(s) IN
           /\ tr_plan \in TrTrees /\ TrTypes /\ TrStarts(tr_plan, S) /\ TrBook(tr_plan, S) /\ TrPlugged(tr_plan, S)
           /\ S \in TrStates /\ S.me = s /\ S.nodes = tr_nodes[s] /\ S.hash = tr_hash[s] /\ S.sock = tr_sock[s]
           /\ \A t \in TrServers : /\ tr_sock[s][t] \in TrLinks /\ tr_wire[t][s] \in Seq(TrLines)
                                   /\ tr_sock[s][t] # "none" => t # s
                                   /\ t # s => TrPairOK(tr_plan, t, s, tr_sock[t][s], tr_sock[s][t], tr_wire[t][s],
                                                        tr_nodes[t], tr_nodes[s])
  <1> DEFINE S == TrState(s)
  <1>1. tr_plan \in TrTrees /\ TrTypes
    BY DEF TrKept, TrTypes
  <1>2. TrStarts(tr_plan, S) /\ TrBook(tr_plan, S) /\ TrPlugged(tr_plan, S)
    BY DEF TrKept, TrStarts
  <1>3. S \in TrStates /\ S.me = s /\ S.nodes = tr_nodes[s] /\ S.hash = tr_hash[s] /\ S.sock = tr_sock[s]
    BY <1>1, TrStateIs
  <1>4. ASSUME NEW t \in TrServers
        PROVE  /\ tr_sock[s][t] \in TrLinks /\ tr_wire[t][s] \in Seq(TrLines)
               /\ tr_sock[s][t] # "none" => t # s
               /\ t # s => TrPairOK(tr_plan, t, s, tr_sock[t][s], tr_sock[s][t], tr_wire[t][s], tr_nodes[t], tr_nodes[s])
    <2>1. tr_sock[s][t] \in TrLinks /\ tr_wire[t][s] \in Seq(TrLines)
      BY <1>1 DEF TrTypes
    <2>2. tr_sock[s][t] # "none" => t # s
      <3> HIDE DEF S
      <3> QED BY <1>2, <1>3 DEF TrPlugged
    <2>3. t # s => TrPairOK(tr_plan, t, s, tr_sock[t][s], tr_sock[s][t], tr_wire[t][s], tr_nodes[t], tr_nodes[s])
      BY DEF TrKept, TrPair
    <2> QED BY <2>1, <2>2, <2>3
  <1> HIDE DEF S
  <1> QED BY <1>1, <1>2, <1>3, <1>4 DEF S

LEMMA TrReplyKeeps ==
    ASSUME TrKept, NEW s \in TrServers, NEW t \in TrServers, TrReply(s, t)
    PROVE  TrKept'
  <1> DEFINE S == TrState(s)
             T == TrJoin(S, t, <<TrLine("BURST", TrNone, TrNone)>>)
  <1>1. /\ tr_plan \in TrTrees /\ TrStarts(tr_plan, S) /\ TrBook(tr_plan, S) /\ TrPlugged(tr_plan, S)
        /\ S.me = s /\ S.nodes = tr_nodes[s] /\ S.sock = tr_sock[s]
    BY TrKeptIs
  <1>2. /\ tr_sock[s][t] = "dialled" /\ tr_plan' = tr_plan
        /\ TrCommit(IF TrKnows(S, t) THEN TrClose(S, t) ELSE T, TrNone)
    BY DEF TrReply
  <1>3. t # s
    BY <1>2, TrKeptIs
  <1> HIDE DEF S
  <1>4. ~TrKnows(S, t)
    BY <1>1, <1>2, TrUpIs
  <1>5. TrMoves(tr_plan, S, T) /\ TrElse(S, T, t) /\ T.sock[t] = "up" /\ TrVia(T.nodes, t) = {<<t>>}
    <2>1. S.sock[t] \in {"dialled", "auth2"}
      BY <1>1, <1>2
    <2> QED BY <1>1, <2>1, TrJoinMoves
  <1> HIDE DEF T
  <1>6. TrCommit(T, TrNone)
    BY <1>2, <1>4
  <1>7. TrPairOK(tr_plan, t, s, tr_sock[t][s], "up", tr_wire[t][s], tr_nodes[t], T.nodes)
    <2>1. TrPairOK(tr_plan, t, s, tr_sock[t][s], "dialled", tr_wire[t][s], tr_nodes[t], tr_nodes[s])
      BY <1>2, <1>3, TrKeptIs
    <2> QED BY <1>5, <2>1, TrPairJoined
  <1>8. TrNone # t /\ TrNone \notin TrServers
    BY ServerTreeOK
  <1>9. \A v \in TrServers : tr_sock[s][v] = "auth2" /\ T.sock[v] = "up" => tr_sock[v][s] # "dialled"
    BY <1>1, <1>2, <1>5 DEF TrElse
  <1>10. TrMoves(tr_plan, TrState(s), T) /\ TrElse(TrState(s), T, t)
    BY <1>5 DEF S
  <1> QED BY <1>2, <1>3, <1>5, <1>6, <1>7, <1>8, <1>9, <1>10, TrCommitKeeps

LEMMA TrReadKeeps ==
    ASSUME TrKept, NEW s \in TrServers, NEW t \in TrServers, TrRead(s, t)
    PROVE  TrKept'
  <1> DEFINE S == TrState(s)
             w == tr_wire[t][s]
             l == Head(w)
             T == TrHandle(S, t, l)
  <1>1. /\ tr_plan \in TrTrees /\ TrStarts(tr_plan, S)
        /\ S.me = s /\ S.nodes = tr_nodes[s] /\ S.sock = tr_sock[s]
    BY TrKeptIs
  <1>2. tr_sock[s][t] # "none" /\ w # <<>> /\ tr_plan' = tr_plan /\ TrCommit(T, t)
    BY DEF TrRead
  <1>3. /\ t # s /\ w \in Seq(TrLines) /\ tr_sock[t][s] \in TrLinks
        /\ TrPairOK(tr_plan, t, s, tr_sock[t][s], tr_sock[s][t], w, tr_nodes[t], tr_nodes[s])
    BY <1>2, TrKeptIs
  <1> HIDE DEF S, w
  <1>4. /\ Head(w) \in TrLines /\ (tr_sock[s][t] = "dialled" => Head(w).cmd = "EOF")
        /\ \E R : TrReadsTo(tr_plan, t, s, tr_sock[t][s], tr_sock[s][t], w, tr_nodes[t], tr_nodes[s], R)
    BY <1>2, <1>3, TrPairReads
  <1>4a. PICK R : TrReadsTo(tr_plan, t, s, tr_sock[t][s], tr_sock[s][t], w, tr_nodes[t], tr_nodes[s], R)
    BY <1>4
  <1>5. /\ TrSays(tr_plan, s, t, TrVia(tr_nodes[s], t), l, R)
        /\ l.cmd # "EOF" =>
              \A nb2 : TrVia(nb2, t) = R =>
                  \A sb2 \in {tr_sock[s][t], "up"} :
                      TrPairOK(tr_plan, t, s, tr_sock[t][s], sb2, Tail(w), tr_nodes[t], nb2)
    BY <1>4a DEF TrReadsTo
  <1>4b. l \in TrLines /\ (tr_sock[s][t] = "dialled" => l.cmd = "EOF")
    BY <1>4
  <1> HIDE DEF l
  <1>6. /\ TrMoves(tr_plan, S, T) /\ TrElse(S, T, t)
        /\ l.cmd = "EOF" => T.sock[t] = "none"
        /\ l.cmd # "EOF" => T.sock[t] # "none" /\ T.sock[t] \in {S.sock[t], "up"} /\ TrVia(T.nodes, t) = R
    <2>1. S.sock[t] # "none" /\ (S.sock[t] = "dialled" => l.cmd = "EOF")
          /\ TrSays(tr_plan, S.me, t, TrVia(S.nodes, t), l, R)
      BY <1>1, <1>2, <1>4b, <1>5
    <2> QED BY <1>1, <1>4b, <2>1, TrHandleMoves
  <1> HIDE DEF T
  <1>7. T.sock[t] # "none" => TrPairOK(tr_plan, t, s, tr_sock[t][s], T.sock[t], Tail(w), tr_nodes[t], T.nodes)
    BY <1>1, <1>5, <1>6
  <1>8. \A v \in TrServers : tr_sock[s][v] = "auth2" /\ T.sock[v] = "up" => tr_sock[v][s] # "dialled"
    <2>1. tr_sock[s][t] = "auth2" => tr_sock[t][s] # "dialled"
      BY <1>2, <1>3 DEF TrPairOK
    <2> QED BY <1>1, <1>6, <2>1 DEF TrElse
  <1>9. TrMoves(tr_plan, TrState(s), T) /\ TrElse(TrState(s), T, t)
    BY <1>6 DEF S
  <1>10. tr_wire[t][s] # <<>> /\ (T.sock[t] # "none" =>
             TrPairOK(tr_plan, t, s, tr_sock[t][s], T.sock[t], Tail(tr_wire[t][s]), tr_nodes[t], T.nodes))
    BY <1>2, <1>7 DEF w
  <1> QED BY <1>2, <1>3, <1>8, <1>9, <1>10, TrCommitKeeps

LEMMA TrLoseKeeps ==
    ASSUME TrKept, NEW s \in TrServers, NEW t \in TrServers, TrLose(s, t)
    PROVE  TrKept'
  <1> DEFINE S == TrState(s)
             T == TrClose(S, t)
  <1>1. tr_plan \in TrTrees /\ TrStarts(tr_plan, S) /\ S.sock = tr_sock[s]
    BY TrKeptIs
  <1>2. tr_sock[s][t] # "none" /\ tr_plan' = tr_plan /\ TrCommit(T, TrNone)
    BY DEF TrLose
  <1>3. t # s
    BY <1>2, TrKeptIs
  <1> HIDE DEF S
  <1>4. TrMoves(tr_plan, S, T) /\ TrElse(S, T, t) /\ T.sock[t] = "none"
    BY <1>1, <1>2, TrCloseMoves
  <1> HIDE DEF T
  <1>5. \A v \in TrServers : tr_sock[s][v] = "auth2" /\ T.sock[v] = "up" => tr_sock[v][s] # "dialled"
    BY <1>1, <1>4 DEF TrElse
  <1>6. TrMoves(tr_plan, TrState(s), T) /\ TrElse(TrState(s), T, t)
    BY <1>4 DEF S
  <1>7. TrNone \notin TrServers
    BY ServerTreeOK
  <1> QED BY <1>2, <1>3, <1>4, <1>5, <1>6, <1>7, TrCommitKeeps

LEMMA TrNoticeMoves ==
    ASSUME TrKept, NEW s \in TrServers
    PROVE  LET S == TrState(s)
               l == TrLine("NOTICE", s, TrNone)
               T == TrSpread(S, l, TrNone)
           IN /\ TrMoves(tr_plan, S, T) /\ TrElse(S, T, TrNone) /\ T.sock = tr_sock[s]
              /\ l \in TrLines /\ l.cmd = "NOTICE" /\ l.prefix = s
              /\ \A v \in TrServers : T.out[v] = IF tr_sock[s][v] = "up" THEN <<l>> ELSE <<>>
  <1> DEFINE S == TrState(s)
             l == TrLine("NOTICE", s, TrNone)
             T == TrSpread(S, l, TrNone)
  <1>1. tr_plan \in TrTrees /\ TrStarts(tr_plan, S) /\ S.sock = tr_sock[s]
    BY TrKeptIs
  <1>2. l \in TrLines /\ l.cmd = "NOTICE" /\ l.prefix = s
    BY TrLineIs
  <1>3. TrRoute(S, TrNone) = TrNone
    BY DEF TrRoute
  <1> HIDE DEF S, l
  <1>4. /\ TrMoves(tr_plan, S, T) /\ T.nodes = S.nodes /\ T.sock = S.sock
        /\ \A v \in TrServers : T.out[v] = IF v # TrNone /\ v # TrRoute(S, TrNone) /\ S.sock[v] = "up" THEN <<l>> ELSE <<>>
    <2>1. TrSentOn(tr_plan, S, T, l, TrNone)
      BY <1>1, <1>2, TrSpreadMoves
    <2> HIDE DEF T
    <2> QED BY <2>1 DEF TrSentOn
  <1> HIDE DEF T
  <1>5. \A v \in TrServers : T.out[v] = IF tr_sock[s][v] = "up" THEN <<l>> ELSE <<>>
    BY <1>1, <1>3, <1>4, ServerTreeOK
  <1>6. TrElse(S, T, TrNone)
    BY <1>4, TrElseSame
  <1> QED BY <1>1, <1>2, <1>4, <1>5, <1>6 DEF S, l, T

LEMMA TrNoticeKeeps ==
    ASSUME TrKept, NEW s \in TrServers, TrNotice(s)
    PROVE  TrKept'
  <1> DEFINE S == TrState(s)
             T == TrSpread(S, TrLine("NOTICE", s, TrNone), TrNone)
  <1>1. TrMoves(tr_plan, S, T) /\ TrElse(S, T, TrNone) /\ T.sock = tr_sock[s]
    BY TrNoticeMoves
  <1>2. tr_plan' = tr_plan /\ TrCommit(T, TrNone)
    BY DEF TrNotice
  <1>3. TrNone \notin TrServers /\ TrNone # s
    BY ServerTreeOK
  <1> HIDE DEF T
  <1> QED BY <1>1, <1>2, <1>3, TrCommitKeeps

\* Of a server whose socket to t, which was closed, is not up yet.
LEMMA TrDialled ==
    ASSUME NEW plan \in TrTrees, NEW S, NEW T, TrStarts(plan, S), NEW t \in TrServers, t # S.me, TrLinked(plan, S.me, t),
           S.sock[t] = "none", T \in TrStates, T.me = S.me, T.nodes = S.nodes, T.hash = S.hash,
           \A v \in TrServers : T.out[v] = <<>>,
           T.sock[t] \in {"dialled", "auth2"}, \A v \in TrServers \ {t} : T.sock[v] = S.sock[v]
    PROVE  TrStarts(plan, T) /\ TrVia(S.nodes, t) = {}
  <1>1. TrBook(plan, S) /\ TrPlugged(plan, S)
    BY DEF TrStarts
  <1>2. TrBook(plan, T)
    BY <1>1 DEF TrBook
  <1>3. \A n \in S.nodes : n # <<>> => n[1] # t
    BY <1>1, TrUpIs
  <1>4. TrPlugged(plan, T)
    <2>1. ASSUME NEW n \in S.nodes, n # <<>> PROVE T.sock[n[1]] = "up"
      <3>1. n[1] \in TrServers
        BY <1>1, <2>1, TrNodeIs, TrWayEnds
      <3> QED BY <1>1, <1>3, <2>1, <3>1 DEF TrPlugged
    <2>2. ASSUME NEW v \in TrServers
          PROVE  /\ T.sock[v] = "up" => <<v>> \in S.nodes
                 /\ T.sock[v] # "none" => v # S.me /\ TrLinked(plan, S.me, v)
      <3>1. CASE v = t
        BY <3>1
      <3>2. CASE v # t
        BY <1>1, <3>2 DEF TrPlugged
      <3> QED BY <3>1, <3>2
    <2> QED BY <2>1, <2>2 DEF TrPlugged
  <1>5. TrVia(S.nodes, t) = {}
    BY <1>3 DEF TrVia
  <1> QED BY <1>2, <1>4, <1>5 DEF TrStarts

LEMMA TrDialKeeps ==
    ASSUME TrKept, NEW s \in TrServers, NEW t \in TrServers, TrDial(s, t)
    PROVE  TrKept'
  <1>1. /\ <<s, t>> \in tr_plan /\ tr_sock[s][t] = "none" /\ tr_sock[t][s] = "none"
        /\ tr_hash[s][t] = {}
        /\ tr_sock' = [tr_sock EXCEPT ![s][t] = "dialled", ![t][s] = "auth2"]
        /\ tr_plan' = tr_plan /\ tr_nodes' = tr_nodes /\ tr_hash' = tr_hash /\ tr_wire' = tr_wire
    BY DEF TrDial
  <1>2. tr_plan \in TrTrees /\ TrTypes
    BY DEF TrKept, TrTypes
  <1>3. s # t
    <2> DEFINE S == TrState(s)
    <2>1. TrBook(tr_plan, S) /\ S.me = s /\ S.nodes = tr_nodes[s] /\ S.hash = tr_hash[s]
      BY TrKeptIs
    <2> HIDE DEF S
    <2>2. <<>> \in tr_hash[s][s]
      BY <2>1 DEF TrBook, TrNamed
    <2> QED BY <1>1, <2>2
  <1>4. /\ tr_sock'[s][t] = "dialled" /\ tr_sock'[t][s] = "auth2"
        /\ \A a, b \in TrServers : <<a, b>> # <<s, t>> /\ <<a, b>> # <<t, s>> => tr_sock'[a][b] = tr_sock[a][b]
    BY <1>1, <1>2, <1>3 DEF TrTypes
  <1>5. TrTypes'
    <2>1. tr_sock' \in [TrServers -> [TrServers -> TrLinks]]
      BY <1>1, <1>2 DEF TrTypes, TrLinks
    <2> QED BY <1>1, <1>2, <2>1 DEF TrTypes
  <1>6. ASSUME NEW a \in TrServers, NEW b \in TrServers, a # b, tr_sock[a][b] = "none", TrLinked(tr_plan, a, b),
               tr_sock'[a][b] \in {"dialled", "auth2"}, \A v \in TrServers \ {b} : tr_sock'[a][v] = tr_sock[a][v]
        PROVE  TrStarts(tr_plan, TrState(a)') /\ TrVia(tr_nodes[a], b) = {}
    <2> DEFINE S == TrState(a)
               T == TrState(a)'
    <2>1. TrStarts(tr_plan, S) /\ S.me = a /\ S.nodes = tr_nodes[a] /\ S.hash = tr_hash[a] /\ S.sock = tr_sock[a]
      BY TrKeptIs
    <2>2. /\ T \in TrStates /\ T.me = a /\ T.nodes = tr_nodes'[a] /\ T.hash = tr_hash'[a] /\ T.sock = tr_sock'[a]
          /\ \A v \in TrServers : T.out[v] = <<>>
      BY <1>5, TrStateIsNext
    <2> HIDE DEF S, T
    <2>3. /\ T.me = S.me /\ T.nodes = S.nodes /\ T.hash = S.hash /\ b # S.me /\ TrLinked(tr_plan, S.me, b)
          /\ S.sock[b] = "none" /\ T.sock[b] \in {"dialled", "auth2"}
          /\ \A v \in TrServers \ {b} : T.sock[v] = S.sock[v]
      BY <1>1, <1>6, <2>1, <2>2
    <2>4. tr_plan \in TrTrees /\ T \in TrStates /\ TrStarts(tr_plan, S) /\ \A v \in TrServers : T.out[v] = <<>>
      BY <1>2, <2>1, <2>2
    <2>5. TrStarts(tr_plan, T) /\ TrVia(S.nodes, b) = {}
      BY <2>3, <2>4, TrDialled
    <2> QED BY <2>1, <2>5 DEF T
  <1>7. /\ TrStarts(tr_plan, TrState(s)') /\ TrVia(tr_nodes[s], t) = {}
        /\ TrStarts(tr_plan, TrState(t)') /\ TrVia(tr_nodes[t], s) = {}
    <2>1. TrLinked(tr_plan, s, t) /\ TrLinked(tr_plan, t, s)
      BY <1>1 DEF TrLinked
    <2>2. (\A v \in TrServers \ {t} : tr_sock'[s][v] = tr_sock[s][v])
          /\ \A v \in TrServers \ {s} : tr_sock'[t][v] = tr_sock[t][v]
      BY <1>3, <1>4
    <2>3. tr_sock'[s][t] \in {"dialled", "auth2"} /\ tr_sock'[t][s] \in {"dialled", "auth2"}
      BY <1>4
    <2>4. TrStarts(tr_plan, TrState(s)') /\ TrVia(tr_nodes[s], t) = {}
      BY <1>1, <1>3, <1>6, <2>1, <2>2, <2>3
    <2>5. TrStarts(tr_plan, TrState(t)') /\ TrVia(tr_nodes[t], s) = {}
      BY <1>1, <1>3, <1>6, <2>1, <2>2, <2>3
    <2> QED BY <2>4, <2>5
  <1>8. ASSUME NEW u \in TrServers PROVE TrStarts(tr_plan, TrState(u)')
    <2>1. CASE u \in {s, t}
      BY <1>7, <2>1
    <2>2. CASE u \notin {s, t}
      <3>1. TrStarts(tr_plan, TrState(u))
        BY DEF TrKept
      <3>2. tr_sock'[u] = tr_sock[u]
        BY <1>1, <1>2, <2>2 DEF TrTypes
      <3>3. TrState(u)' = TrState(u)
        BY <1>1, <3>2 DEF TrState
      <3> QED BY <3>1, <3>3
    <2> QED BY <2>1, <2>2
  <1>9. ASSUME NEW a \in TrServers, NEW b \in TrServers, a # b
        PROVE  TrPairOK(tr_plan, a, b, tr_sock'[a][b], tr_sock'[b][a], tr_wire[a][b], tr_nodes[a], tr_nodes[b])
    <2>1. TrPairOK(tr_plan, a, b, tr_sock[a][b], tr_sock[b][a], tr_wire[a][b], tr_nodes[a], tr_nodes[b])
      BY <1>9 DEF TrKept, TrPair
    <2>2. CASE a = s /\ b = t
      <3>1. tr_wire[a][b] = <<>>
        BY <1>1, <2>1, <2>2 DEF TrPairOK
      <3>2. tr_sock'[a][b] = "dialled" /\ tr_sock'[b][a] = "auth2" /\ TrVia(tr_nodes[b], a) = {}
        BY <1>4, <1>7, <2>2
      <3> QED BY <3>1, <3>2 DEF TrPairOK
    <2>3. CASE a = t /\ b = s
      <3>1. tr_wire[a][b] = <<>>
        BY <1>1, <2>1, <2>3 DEF TrPairOK
      <3>2. tr_sock'[a][b] = "auth2" /\ tr_sock'[b][a] = "dialled" /\ TrVia(tr_nodes[b], a) = {}
        BY <1>4, <1>7, <2>3
      <3> QED BY <3>1, <3>2 DEF TrPairOK
    <2>4. CASE ~(a = s /\ b = t) /\ ~(a = t /\ b = s)
      <3>1. tr_sock'[a][b] = tr_sock[a][b] /\ tr_sock'[b][a] = tr_sock[b][a]
        BY <1>4, <2>4
      <3> QED BY <2>1, <3>1
    <2> QED BY <2>2, <2>3, <2>4
  <1> QED BY <1>1, <1>5, <1>8, <1>9 DEF TrKept, TrPair

LEMMA TrStepKeeps ==
    ASSUME TrKept, [ServerTreeNext]_tr_vars
    PROVE  TrKept'
  <1>1. CASE UNCHANGED tr_vars
    <2>1. \A s \in TrServers : TrState(s)' = TrState(s)
      BY <1>1 DEF tr_vars, TrState
    <2>2. TrTypes'
      BY <1>1 DEF TrKept, tr_vars, TrTypes
    <2>3. \A a, b \in TrServers : a # b => TrPair(a, b)'
      BY <1>1 DEF TrKept, tr_vars, TrPair
    <2>4. \A s \in TrServers : TrStarts(tr_plan, TrState(s))'
      BY <1>1, <2>1 DEF TrKept, tr_vars
    <2> QED BY <2>2, <2>3, <2>4 DEF TrKept
  <1>2. CASE ServerTreeNext
    BY <1>2, TrDialKeeps, TrReplyKeeps, TrReadKeeps, TrLoseKeeps, TrNoticeKeeps DEF ServerTreeNext
  <1> QED BY <1>1, <1>2

-----------------------------------------------------------------------------
LEMMA TrKeptFinds ==
    ASSUME TrKept
    PROVE  TrFoundByName
  <1> SUFFICES ASSUME NEW s \in TrServers, NEW x \in TrServers
               PROVE  tr_hash[s][x] = {n \in tr_nodes[s] : IF n = TrRoot THEN x = s ELSE Last(n) = x}
    BY DEF TrFoundByName
  <1> DEFINE S == TrState(s)
  <1>1. TrBook(tr_plan, S) /\ S.me = s /\ S.nodes = tr_nodes[s] /\ S.hash = tr_hash[s]
    BY TrKeptIs
  <1> HIDE DEF S
  <1>2. tr_hash[s][x] = TrNamed(tr_nodes[s], s, x)
    BY <1>1 DEF TrBook
  <1> QED BY <1>2 DEF TrNamed, TrRoot, Last

LEMMA TrKeptOpens ==
    ASSUME TrKept
    PROVE  TrRoutesOpen
  <1> SUFFICES ASSUME NEW s \in TrServers, NEW n \in tr_nodes[s], n # TrRoot
               PROVE  tr_sock[s][n[1]] = "up"
    BY DEF TrRoutesOpen
  <1> DEFINE S == TrState(s)
  <1>1. TrPlugged(tr_plan, S) /\ S.nodes = tr_nodes[s] /\ S.sock = tr_sock[s]
    BY TrKeptIs
  <1> HIDE DEF S
  <1> QED BY <1>1 DEF TrPlugged, TrRoot

\* Whom t's record n is of.
TrEnds(t, n) == IF n = <<>> THEN t ELSE n[Len(n)]
TrHas(t, x) == \E n \in tr_nodes[t] : TrEnds(t, n) = x

LEMMA TrHasIs ==
    ASSUME TrKept, NEW s \in TrServers
    PROVE  /\ \A x \in TrServers : tr_hash[s][x] # {} <=> TrHas(s, x)
           /\ <<>> \in tr_nodes[s]
           /\ \A n \in tr_nodes[s] : /\ n \in Seq(TrServers) /\ Len(n) \in Nat /\ TrEnds(s, n) \in TrServers
                                     /\ n # <<>> => n[1] \in TrServers /\ n[1] # s /\ tr_sock[s][n[1]] = "up"
           /\ \A t \in TrServers : tr_sock[s][t] = "up" => <<t>> \in tr_nodes[s] /\ TrHas(s, t)
  <1> DEFINE S == TrState(s)
  <1>1. /\ TrBook(tr_plan, S) /\ TrPlugged(tr_plan, S)
        /\ S.me = s /\ S.nodes = tr_nodes[s] /\ S.hash = tr_hash[s] /\ S.sock = tr_sock[s]
    BY TrKeptIs
  <1> HIDE DEF S
  <1>2. \A x \in TrServers : tr_hash[s][x] # {} <=> TrHas(s, x)
    <2> SUFFICES ASSUME NEW x \in TrServers PROVE tr_hash[s][x] # {} <=> TrHas(s, x)
      OBVIOUS
    <2>1. tr_hash[s][x] = TrNamed(tr_nodes[s], s, x)
      BY <1>1 DEF TrBook
    <2> QED BY <2>1 DEF TrNamed, TrHas, TrEnds
  <1>3. <<>> \in tr_nodes[s]
    BY <1>1 DEF TrBook
  <1>4. ASSUME NEW n \in tr_nodes[s]
        PROVE  /\ n \in Seq(TrServers) /\ Len(n) \in Nat /\ TrEnds(s, n) \in TrServers
               /\ n # <<>> => n[1] \in TrServers /\ n[1] # s /\ tr_sock[s][n[1]] = "up"
    <2>1. n \in Seq(TrServers) /\ TrWay(tr_plan, s, n)
      BY <1>1, TrNodeIs
    <2>2. n # <<>> => n[1] \in TrServers /\ n[1] # s /\ n[Len(n)] \in TrServers
      BY <2>1, TrWayEnds
    <2>3. n # <<>> => tr_sock[s][n[1]] = "up"
      BY <1>1 DEF TrPlugged
    <2>4. Len(n) \in Nat
      BY <2>1
    <2> QED BY <2>1, <2>2, <2>3, <2>4 DEF TrEnds
  <1>5. ASSUME NEW t \in TrServers, tr_sock[s][t] = "up" PROVE <<t>> \in tr_nodes[s] /\ TrHas(s, t)
    <2>1. <<t>> \in tr_nodes[s]
      BY <1>1, <1>5 DEF TrPlugged
    <2> DEFINE n == <<t>>
    <2>2. n # <<>> /\ n[Len(n)] = t
      OBVIOUS
    <2> HIDE DEF n
    <2>3. TrEnds(s, n) = t
      BY <2>2 DEF TrEnds
    <2> QED BY <2>1, <2>3 DEF TrHas, n
  <1> QED BY <1>2, <1>3, <1>4, <1>5

LEMMA TrLeadsEmpty ==
    ASSUME NEW plan, NEW b, NEW a, NEW Q, NEW R, TrLeads(plan, b, a, <<>>, Q, R)
    PROVE  R = Q
  <1>1. Len(<<>>) = 0
    OBVIOUS
  <1> QED BY <1>1 DEF TrLeads, TrTrail

\* With nothing on its way what a server has of the side of another is what that one would have him have.
LEMMA TrQuietPair ==
    ASSUME TrKept, TrQuiet, NEW a \in TrServers, NEW b \in TrServers, tr_sock[b][a] = "up"
    PROVE  a # b /\ tr_sock[a][b] = "up" /\ TrVia(tr_nodes[b], a) = TrTells(tr_nodes[a], a, b)
  <1>1. a # b /\ TrPairOK(tr_plan, a, b, tr_sock[a][b], tr_sock[b][a], tr_wire[a][b], tr_nodes[a], tr_nodes[b])
    BY TrKeptIs
  <1>2. tr_wire[a][b] = <<>> /\ tr_sock[a][b] \in {"none", "up"}
    BY DEF TrQuiet
  <1>3. tr_sock[a][b] = "up" /\ TrLeads(tr_plan, b, a, <<>>, TrVia(tr_nodes[b], a), TrTells(tr_nodes[a], a, b))
    BY <1>1, <1>2 DEF TrPairOK
  <1> QED BY <1>1, <1>3, TrLeadsEmpty

LEMMA TrQuietAhead ==
    ASSUME TrKept, TrQuiet, NEW s \in TrServers, NEW n \in tr_nodes[s], n # <<>>
    PROVE  \E b \in TrServers : \E m \in tr_nodes[b] :
              /\ Len(n) = Len(m) + 1 /\ TrEnds(s, n) = TrEnds(b, m) /\ n[1] = b
              /\ tr_sock[s][b] = "up" /\ tr_sock[b][s] = "up"
  <1> DEFINE b == n[1]
  <1>1. b \in TrServers /\ tr_sock[s][b] = "up"
    BY TrHasIs
  <1>2. tr_sock[b][s] = "up" /\ TrVia(tr_nodes[s], b) = TrTells(tr_nodes[b], b, s)
    BY <1>1, TrQuietPair
  <1>3. n \in TrVia(tr_nodes[s], b)
    BY DEF TrVia
  <1> HIDE DEF b
  <1>4. PICK m \in tr_nodes[b] : n = <<b>> \o m
    BY <1>2, <1>3 DEF TrTells
  <1>5. m \in Seq(TrServers)
    BY <1>1, TrHasIs
  <1>6. Len(n) = Len(m) + 1 /\ n[Len(m) + 1] = IF m = <<>> THEN b ELSE m[Len(m)]
    BY <1>1, <1>4, <1>5, TrStepBefore
  <1>7. TrEnds(s, n) = TrEnds(b, m)
    BY <1>6 DEF TrEnds
  <1> QED BY <1>1, <1>2, <1>6, <1>7 DEF b

LEMMA TrQuietBack ==
    ASSUME TrKept, TrQuiet, NEW a \in TrServers, NEW b \in TrServers, tr_sock[b][a] = "up",
           NEW m \in tr_nodes[a], m # <<>> => m[1] # b
    PROVE  TrHas(b, TrEnds(a, m))
  <1>1. TrVia(tr_nodes[b], a) = TrTells(tr_nodes[a], a, b)
    BY TrQuietPair
  <1> DEFINE n == <<a>> \o m
  <1>2. n \in TrTells(tr_nodes[a], a, b)
    BY DEF TrTells
  <1>3. m \in Seq(TrServers)
    BY TrHasIs
  <1>4. n # <<>> /\ Len(n) = Len(m) + 1 /\ n[Len(m) + 1] = IF m = <<>> THEN a ELSE m[Len(m)]
    BY <1>3, TrStepBefore
  <1> HIDE DEF n
  <1>5. TrEnds(b, n) = TrEnds(a, m)
    BY <1>4 DEF TrEnds
  <1>6. n \in tr_nodes[b]
    BY <1>1, <1>2 DEF TrVia
  <1> QED BY <1>5, <1>6 DEF TrHas

\* Who has a server in his tree has those too it is linked to.
LEMMA TrQuietOn ==
    ASSUME TrKept, TrQuiet, NEW s \in TrServers
    PROVE  \A k \in Nat : \A t \in TrServers : \A n \in tr_nodes[t] :
              Len(n) = k /\ tr_sock[TrEnds(t, n)][s] = "up" => TrHas(t, s)
  <1> DEFINE P(k) == \A t \in TrServers : \A n \in tr_nodes[t] :
                         Len(n) = k /\ tr_sock[TrEnds(t, n)][s] = "up" => TrHas(t, s)
             Q == {k \in Nat : P(k)}
  <1>1. P(0)
    <2> SUFFICES ASSUME NEW t \in TrServers, NEW n \in tr_nodes[t], Len(n) = 0, tr_sock[TrEnds(t, n)][s] = "up"
                 PROVE  TrHas(t, s)
      OBVIOUS
    <2>1. n = <<>>
      <3>1. n \in Seq(TrServers)
        BY TrHasIs
      <3> QED BY <3>1
    <2> QED BY <2>1, TrHasIs DEF TrEnds
  <1>2. ASSUME NEW k \in Nat, P(k) PROVE P(k + 1)
    <2> SUFFICES ASSUME NEW t \in TrServers, NEW n \in tr_nodes[t], Len(n) = k + 1, tr_sock[TrEnds(t, n)][s] = "up"
                 PROVE  TrHas(t, s)
      OBVIOUS
    <2>1. n # <<>>
      OBVIOUS
    <2>2. PICK b \in TrServers : \E m \in tr_nodes[b] :
             /\ Len(n) = Len(m) + 1 /\ TrEnds(t, n) = TrEnds(b, m) /\ n[1] = b
             /\ tr_sock[t][b] = "up" /\ tr_sock[b][t] = "up"
      BY <2>1, TrQuietAhead
    <2>3. PICK m \in tr_nodes[b] : /\ Len(n) = Len(m) + 1 /\ TrEnds(t, n) = TrEnds(b, m)
                                   /\ tr_sock[t][b] = "up" /\ tr_sock[b][t] = "up"
      BY <2>2
    <2>4. Len(m) = k
      <3>1. Len(m) \in Nat
        BY TrHasIs
      <3> QED BY <2>3, <3>1
    <2>5. PICK q \in tr_nodes[b] : TrEnds(b, q) = s
      BY <1>2, <2>3, <2>4 DEF TrHas
    <2>6. CASE q # <<>> => q[1] # t
      BY <2>3, <2>5, <2>6, TrQuietBack
    <2>7. CASE q # <<>> /\ q[1] = t
      <3>1. PICK c \in TrServers : \E r \in tr_nodes[c] : TrEnds(b, q) = TrEnds(c, r) /\ q[1] = c
        BY <2>7, TrQuietAhead
      <3>2. PICK r \in tr_nodes[t] : TrEnds(t, r) = s
        BY <2>5, <2>7, <3>1
      <3> QED BY <3>2 DEF TrHas
    <2> QED BY <2>6, <2>7
  <1>3. 0 \in Q /\ \A k \in Nat : k \in Q => k + 1 \in Q
    <2> HIDE DEF P
    <2> QED BY <1>1, <1>2
  <1> HIDE DEF Q
  <1>4. \A k \in Nat : k \in Q
    BY <1>3, Induct
  <1> QED BY <1>4 DEF Q

\* And those have each other.
LEMMA TrQuietBoth ==
    ASSUME TrKept, TrQuiet
    PROVE  \A k \in Nat : \A s \in TrServers : \A n \in tr_nodes[s] : Len(n) = k => TrHas(TrEnds(s, n), s)
  <1> DEFINE P(k) == \A s \in TrServers : \A n \in tr_nodes[s] : Len(n) = k => TrHas(TrEnds(s, n), s)
             Q == {k \in Nat : P(k)}
  <1>1. P(0)
    <2> SUFFICES ASSUME NEW s \in TrServers, NEW n \in tr_nodes[s], Len(n) = 0
                 PROVE  TrHas(TrEnds(s, n), s)
      OBVIOUS
    <2>1. n = <<>>
      <3>1. n \in Seq(TrServers)
        BY TrHasIs
      <3> QED BY <3>1
    <2> QED BY <2>1 DEF TrEnds, TrHas
  <1>2. ASSUME NEW k \in Nat, P(k) PROVE P(k + 1)
    <2> SUFFICES ASSUME NEW s \in TrServers, NEW n \in tr_nodes[s], Len(n) = k + 1
                 PROVE  TrHas(TrEnds(s, n), s)
      OBVIOUS
    <2>1. n # <<>>
      OBVIOUS
    <2> DEFINE t == TrEnds(s, n)
    <2>2. PICK b \in TrServers : \E m \in tr_nodes[b] :
             /\ Len(n) = Len(m) + 1 /\ TrEnds(s, n) = TrEnds(b, m) /\ n[1] = b
             /\ tr_sock[s][b] = "up" /\ tr_sock[b][s] = "up"
      BY <2>1, TrQuietAhead
    <2>3. PICK m \in tr_nodes[b] : /\ Len(n) = Len(m) + 1 /\ t = TrEnds(b, m)
                                   /\ tr_sock[s][b] = "up" /\ tr_sock[b][s] = "up"
      BY <2>2
    <2>4. Len(m) = k /\ t \in TrServers
      <3>1. Len(m) \in Nat
        BY TrHasIs
      <3> QED BY <2>3, <3>1, TrHasIs
    <2> HIDE DEF t
    <2>5. PICK q \in tr_nodes[t] : TrEnds(t, q) = b
      BY <1>2, <2>3, <2>4 DEF TrHas
    <2>6. Len(q) \in Nat
      BY <2>4, TrHasIs
    <2>7. TrHas(t, s)
      BY <2>3, <2>4, <2>5, <2>6, TrQuietOn
    <2> QED BY <2>7 DEF t
  <1>3. 0 \in Q /\ \A k \in Nat : k \in Q => k + 1 \in Q
    <2> HIDE DEF P
    <2> QED BY <1>1, <1>2
  <1> HIDE DEF Q
  <1>4. \A k \in Nat : k \in Q
    BY <1>3, Induct
  <1> QED BY <1>4 DEF Q

LEMMA TrKeptAgrees ==
    ASSUME TrKept
    PROVE  TrTreesAgree
  <1> SUFFICES ASSUME TrQuiet, NEW s \in TrServers, NEW t \in TrServers, tr_hash[s][t] # {}
               PROVE  tr_hash[t][s] # {}
    BY DEF TrTreesAgree
  <1>1. PICK n \in tr_nodes[s] : TrEnds(s, n) = t
    BY TrHasIs DEF TrHas
  <1>2. Len(n) \in Nat
    BY TrHasIs
  <1>3. TrHas(t, s)
    BY <1>1, <1>2, TrQuietBoth
  <1> QED BY <1>3, TrHasIs

\* The notice is o's: where it is on its way from a to b, a has heard it and b has not, and o lies in the direction
\* of a for b; and whoever has heard it heard it from a server that had.
TrTo(plan, b, a, o) == \E n : TrWay(plan, b, n) /\ n # <<>> /\ n[1] = a /\ n[Len(n)] = o
TrPlain(w) == \A i \in 1 .. Len(w) : w[i].cmd # "NOTICE"
TrCarries(plan, o, a, b, ga, gb, w) ==
    \A i \in 1 .. Len(w) : w[i].cmd = "NOTICE" =>
        /\ w[i].prefix = o /\ ga = 1 /\ gb = 0 /\ TrTo(plan, b, a, o)
        /\ \A j \in 1 .. Len(w) : w[j].cmd = "NOTICE" => j = i
TrTold(o) ==
    /\ \A a, b \in TrServers : TrCarries(tr_plan, o, a, b, tr_got[a], tr_got[b], tr_wire[a][b])
    /\ \A b \in TrServers \ {o} : tr_got[b] = 1 => \E a \in TrServers : tr_got[a] = 1 /\ TrTo(tr_plan, b, a, o)
TrNews == tr_got \in [TrServers -> {0, 1}] /\ \E o \in TrServers : TrTold(o)

LEMMA TrCarriesNone ==
    ASSUME NEW plan, NEW o, NEW a, NEW b, NEW ga, NEW gb, NEW w, TrPlain(w)
    PROVE  TrCarries(plan, o, a, b, ga, gb, w)
  BY DEF TrCarries, TrPlain

LEMMA TrCarriesSilent ==
    ASSUME NEW plan, NEW o, NEW a, NEW b, NEW ga, NEW gb, NEW w \in Seq(TrLines), NEW z \in Seq(TrLines), TrPlain(z),
           TrCarries(plan, o, a, b, ga, gb, w)
    PROVE  TrCarries(plan, o, a, b, ga, gb, w \o z)
  <1> DEFINE x == w \o z
             k == Len(w)
             n == Len(z)
  <1>1. /\ k \in Nat /\ n \in Nat /\ Len(x) = k + n
        /\ \A i \in 1 .. k : x[i] = w[i]
        /\ \A i \in k + 1 .. k + n : x[i] = z[i - k]
    OBVIOUS
  <1> HIDE DEF x, k, n
  <1>2. \A i \in 1 .. k + n : x[i].cmd = "NOTICE" => i \in 1 .. k /\ x[i] = w[i]
    <2> SUFFICES ASSUME NEW i \in 1 .. k + n, i \notin 1 .. k PROVE x[i].cmd # "NOTICE"
      BY <1>1
    <2>1. i \in k + 1 .. k + n /\ i - k \in 1 .. n
      BY <1>1
    <2> QED BY <1>1, <2>1 DEF TrPlain, n
  <1>3. \A i \in 1 .. k : w[i].cmd = "NOTICE" =>
            /\ w[i].prefix = o /\ ga = 1 /\ gb = 0 /\ TrTo(plan, b, a, o)
            /\ \A j \in 1 .. k : w[j].cmd = "NOTICE" => j = i
    BY DEF TrCarries, k
  <1>4. \A i \in 1 .. k + n : x[i].cmd = "NOTICE" =>
            /\ x[i].prefix = o /\ ga = 1 /\ gb = 0 /\ TrTo(plan, b, a, o)
            /\ \A j \in 1 .. k + n : x[j].cmd = "NOTICE" => j = i
    BY <1>2, <1>3
  <1>5. TrCarries(plan, o, a, b, ga, gb, x)
    BY <1>1, <1>4 DEF TrCarries
  <1> QED BY <1>5 DEF x

LEMMA TrCarriesTail ==
    ASSUME NEW plan, NEW o, NEW a, NEW b, NEW ga, NEW gb, NEW w \in Seq(TrLines), w # <<>>,
           TrCarries(plan, o, a, b, ga, gb, w)
    PROVE  TrCarries(plan, o, a, b, ga, gb, Tail(w)) /\ (Head(w).cmd = "NOTICE" => TrPlain(Tail(w)))
  <1> DEFINE x == Tail(w)
             k == Len(w)
  <1>1. k \in Nat \ {0} /\ Len(x) = k - 1 /\ Head(w) = w[1] /\ \A i \in 1 .. k - 1 : x[i] = w[i + 1]
    OBVIOUS
  <1> HIDE DEF x, k
  <1>2. \A i \in 1 .. k - 1 : i + 1 \in 1 .. k /\ i + 1 # 1
    BY <1>1
  <1>3. \A i \in 1 .. k : w[i].cmd = "NOTICE" =>
            /\ w[i].prefix = o /\ ga = 1 /\ gb = 0 /\ TrTo(plan, b, a, o)
            /\ \A j \in 1 .. k : w[j].cmd = "NOTICE" => j = i
    BY DEF TrCarries, k
  <1>4. ASSUME NEW i \in 1 .. k - 1, x[i].cmd = "NOTICE"
        PROVE  /\ x[i].prefix = o /\ ga = 1 /\ gb = 0 /\ TrTo(plan, b, a, o)
               /\ \A j \in 1 .. k - 1 : x[j].cmd = "NOTICE" => j = i
    <2>1. i + 1 \in 1 .. k /\ x[i] = w[i + 1]
      BY <1>1, <1>2
    <2>2. /\ w[i + 1].prefix = o /\ ga = 1 /\ gb = 0 /\ TrTo(plan, b, a, o)
          /\ \A j \in 1 .. k : w[j].cmd = "NOTICE" => j = i + 1
      BY <1>3, <1>4, <2>1
    <2>3. ASSUME NEW j \in 1 .. k - 1, x[j].cmd = "NOTICE" PROVE j = i
      <3>1. j + 1 = i + 1
        BY <1>1, <1>2, <2>2, <2>3
      <3> QED BY <3>1
    <2> QED BY <2>1, <2>2, <2>3
  <1>5. TrCarries(plan, o, a, b, ga, gb, x)
    BY <1>1, <1>4 DEF TrCarries
  <1>6. Head(w).cmd = "NOTICE" => TrPlain(x)
    <2> SUFFICES ASSUME w[1].cmd = "NOTICE", NEW i \in 1 .. k - 1, x[i].cmd = "NOTICE" PROVE FALSE
      BY <1>1 DEF TrPlain
    <2>1. 1 \in 1 .. k
      BY <1>1
    <2>2. i + 1 = 1
      BY <1>1, <1>2, <1>3, <2>1
    <2> QED BY <1>2, <2>2
  <1> QED BY <1>5, <1>6 DEF x

LEMMA TrCarriesFirst ==
    ASSUME NEW plan, NEW o, NEW a, NEW b, NEW w \in Seq(TrLines), NEW l \in TrLines, l.prefix = o,
           TrPlain(w), TrTo(plan, b, a, o)
    PROVE  TrCarries(plan, o, a, b, 1, 0, w \o <<l>>)
  <1> DEFINE x == w \o <<l>>
             k == Len(w)
  <1>1. k \in Nat /\ Len(x) = k + 1 /\ x[k + 1] = l /\ \A i \in 1 .. k : x[i] = w[i]
    OBVIOUS
  <1> HIDE DEF x, k
  <1>2. ASSUME NEW i \in 1 .. k + 1, x[i].cmd = "NOTICE" PROVE i = k + 1
    <2>1. i # k + 1 => i \in 1 .. k
      BY <1>1
    <2> QED BY <1>1, <1>2, <2>1 DEF TrPlain, k
  <1>3. \A i \in 1 .. k + 1 : x[i].cmd = "NOTICE" =>
            /\ x[i].prefix = o /\ TrTo(plan, b, a, o)
            /\ \A j \in 1 .. k + 1 : x[j].cmd = "NOTICE" => j = i
    <2> SUFFICES ASSUME NEW i \in 1 .. k + 1, x[i].cmd = "NOTICE"
                 PROVE  x[i].prefix = o /\ \A j \in 1 .. k + 1 : x[j].cmd = "NOTICE" => j = i
      OBVIOUS
    <2>1. i = k + 1
      BY <1>2
    <2>2. x[i].prefix = o
      BY <1>1, <2>1
    <2> QED BY <1>2, <2>1, <2>2
  <1>4. TrCarries(plan, o, a, b, 1, 0, x)
    BY <1>1, <1>3 DEF TrCarries
  <1> QED BY <1>4 DEF x

\* The notice comes from one side only.
LEMMA TrToOne ==
    ASSUME NEW plan \in TrTrees, NEW s \in TrServers, NEW o, NEW t, NEW u, TrTo(plan, s, t, o), TrTo(plan, s, u, o)
    PROVE  t = u /\ o # s /\ t # s /\ t \in TrServers
  <1>1. PICK m : TrWay(plan, s, m) /\ m # <<>> /\ m[1] = t /\ m[Len(m)] = o
    BY DEF TrTo
  <1>2. PICK n : TrWay(plan, s, n) /\ n # <<>> /\ n[1] = u /\ n[Len(n)] = o
    BY DEF TrTo
  <1>3. m = n
    BY <1>1, <1>2, TrOneWay
  <1> QED BY <1>1, <1>2, <1>3, TrWayEnds

\* And goes on to the others.
LEMMA TrToOn ==
    ASSUME NEW plan \in TrTrees, NEW s \in TrServers, NEW v \in TrServers, s # v, TrLinked(plan, s, v),
           NEW t, t # v, NEW o, TrTo(plan, s, t, o)
    PROVE  TrTo(plan, v, s, o)
  <1>1. PICK n : TrWay(plan, s, n) /\ n # <<>> /\ n[1] = t /\ n[Len(n)] = o
    BY DEF TrTo
  <1> DEFINE m == <<s>> \o n
  <1>2. TrWay(plan, v, m)
    BY <1>1, TrWayFrom
  <1>3. n \in Seq(TrServers)
    BY <1>1 DEF TrWay
  <1>4. m # <<>> /\ m[1] = s /\ Len(m) = Len(n) + 1 /\ m[Len(n) + 1] = n[Len(n)]
    BY <1>1, <1>3, TrStepBefore
  <1> HIDE DEF m
  <1>5. m[Len(m)] = o
    BY <1>1, <1>4
  <1> QED BY <1>2, <1>4, <1>5 DEF TrTo

LEMMA TrToNext ==
    ASSUME NEW plan, NEW s \in TrServers, NEW v \in TrServers, s # v, TrLinked(plan, s, v)
    PROVE  TrTo(plan, v, s, s)
  <1> DEFINE n == <<s>>
  <1>1. n # <<>> /\ n[1] = s /\ n[Len(n)] = s
    OBVIOUS
  <1>2. TrWay(plan, v, n)
    BY TrLinkedBoth, TrWayLink
  <1> HIDE DEF n
  <1> QED BY <1>1, <1>2 DEF TrTo

\* A step that sends no notice on.
LEMMA TrNewsSilent ==
    ASSUME TrKept, TrNews, NEW s \in TrServers, NEW T \in TrStates, T.me = s, NEW read, TrCommit(T, read),
           tr_plan' = tr_plan, tr_got' = tr_got, TrSilent(T),
           read \in TrServers => tr_wire[read][s] # <<>>
    PROVE  TrNews'
  <1>1. TrTypes
    BY DEF TrKept
  <1>2. TrTook(s, T, read)
    BY <1>1, TrCommitIs
  <1>3. PICK o \in TrServers : TrTold(o)
    BY DEF TrNews
  <1>4. ASSUME NEW a \in TrServers, NEW b \in TrServers
        PROVE  TrCarries(tr_plan, o, a, b, tr_got[a], tr_got[b], tr_wire'[a][b])
    <2>1. TrCarries(tr_plan, o, a, b, tr_got[a], tr_got[b], tr_wire[a][b]) /\ tr_wire[a][b] \in Seq(TrLines)
      BY <1>1, <1>3 DEF TrTold, TrTypes
    <2>2. CASE a = s
      <3> DEFINE z == IF tr_sock[b][s] = "none" THEN <<>> ELSE T.out[b]
      <3>1. TrPlain(<<>>) /\ <<>> \in Seq(TrLines)
        BY DEF TrPlain
      <3>2. TrPlain(T.out[b]) /\ T.out[b] \in Seq(TrLines)
        BY DEF TrPlain, TrSilent, TrStates
      <3>3. TrPlain(z) /\ z \in Seq(TrLines) /\ tr_wire'[a][b] = tr_wire[a][b] \o z
        BY <1>2, <2>2, <3>1, <3>2 DEF TrTook
      <3> HIDE DEF z
      <3> QED BY <2>1, <3>3, TrCarriesSilent
    <2>3. CASE a # s /\ b # s
      BY <1>2, <2>1, <2>3 DEF TrTook
    <2>4. CASE a # s /\ b = s
      <3>1. tr_wire'[a][b] = IF T.sock[a] = "none" THEN <<>>
                             ELSE IF a = read THEN Tail(tr_wire[a][s]) ELSE tr_wire[a][s]
        BY <1>2, <2>4 DEF TrTook
      <3>2. TrCarries(tr_plan, o, a, b, tr_got[a], tr_got[b], <<>>)
        <4>1. TrPlain(<<>>)
          BY DEF TrPlain
        <4> QED BY <4>1, TrCarriesNone
      <3>3. a = read => TrCarries(tr_plan, o, a, b, tr_got[a], tr_got[b], Tail(tr_wire[a][s]))
        BY <2>1, <2>4, TrCarriesTail
      <3> QED BY <2>1, <2>4, <3>1, <3>2, <3>3
    <2> QED BY <2>2, <2>3, <2>4
  <1>5. TrTold(o)'
    BY <1>3, <1>4 DEF TrTold
  <1> QED BY <1>5 DEF TrNews

\* s hears the notice from t, and sends it on.
LEMMA TrNewsHeard ==
    ASSUME TrKept, TrNews, NEW s \in TrServers, NEW t \in TrServers, tr_sock[s][t] # "none", tr_wire[t][s] # <<>>,
           NEW l \in TrLines, l = Head(tr_wire[t][s]), TrHeard(TrState(s), t, l),
           TrCommit(TrSpread(TrState(s), l, l.prefix), t),
           tr_plan' = tr_plan, tr_got' = [tr_got EXCEPT ![s] = @ + 1]
    PROVE  TrNews'
  <1> DEFINE S == TrState(s)
             T == TrSpread(S, l, l.prefix)
  <1>1. /\ tr_plan \in TrTrees /\ TrTypes /\ TrStarts(tr_plan, S) /\ TrPlugged(tr_plan, S)
        /\ S.me = s /\ S.nodes = tr_nodes[s] /\ S.sock = tr_sock[s] /\ t # s
    BY TrKeptIs
  <1>2. PICK o \in TrServers : TrTold(o)
    BY DEF TrNews
  <1>3. /\ l.cmd = "NOTICE" /\ l.prefix = o /\ tr_got[t] = 1 /\ tr_got[s] = 0 /\ TrTo(tr_plan, s, t, o)
        /\ TrPlain(Tail(tr_wire[t][s]))
    <2>1. TrCarries(tr_plan, o, t, s, tr_got[t], tr_got[s], tr_wire[t][s])
      BY <1>2 DEF TrTold
    <2>2. l.cmd = "NOTICE"
      BY DEF TrHeard
    <2>3. tr_wire[t][s] \in Seq(TrLines)
      BY <1>1 DEF TrTypes
    <2>4. 1 \in 1 .. Len(tr_wire[t][s]) /\ tr_wire[t][s][1] = l
      BY <2>3
    <2>5. l.prefix = o /\ tr_got[t] = 1 /\ tr_got[s] = 0 /\ TrTo(tr_plan, s, t, o)
      BY <2>1, <2>2, <2>4 DEF TrCarries
    <2>6. TrPlain(Tail(tr_wire[t][s]))
      BY <2>1, <2>2, <2>3, TrCarriesTail
    <2> QED BY <2>2, <2>5, <2>6
  <1>4. TrRoute(S, o) = t
    BY <1>3 DEF TrHeard, TrFrom
  <1> HIDE DEF S
  <1>5. /\ TrMoves(tr_plan, S, T) /\ T.sock = S.sock
        /\ \A v \in TrServers : T.out[v] = IF v # o /\ v # t /\ tr_sock[s][v] = "up" THEN <<l>> ELSE <<>>
    <2>1. TrSentOn(tr_plan, S, T, l, l.prefix)
      BY <1>1, <1>3, TrSpreadMoves
    <2> HIDE DEF T
    <2> QED BY <1>1, <1>3, <1>4, <2>1 DEF TrSentOn
  <1>6. T \in TrStates /\ T.me = s
    BY <1>1, <1>5 DEF TrMoves, TrBook
  <1>7. TrCommit(T, t)
    BY DEF S
  <1> HIDE DEF T
  <1>8. TrTook(s, T, t)
    BY <1>1, <1>6, <1>7, TrCommitIs
  <1>9. tr_got \in [TrServers -> {0, 1}]
    BY DEF TrNews
  <1>10. /\ tr_got' \in [TrServers -> {0, 1}] /\ tr_got'[s] = 1
         /\ \A v \in TrServers \ {s} : tr_got'[v] = tr_got[v]
    BY <1>3, <1>9
  <1>11. \A v \in TrServers : TrPlain(tr_wire[s][v])
    <2> SUFFICES ASSUME NEW v \in TrServers PROVE TrPlain(tr_wire[s][v])
      OBVIOUS
    <2>1. TrCarries(tr_plan, o, s, v, tr_got[s], tr_got[v], tr_wire[s][v])
      BY <1>2 DEF TrTold
    <2> QED BY <1>3, <2>1 DEF TrCarries, TrPlain
  <1>12. \A u \in TrServers : u # t => TrPlain(tr_wire[u][s])
    <2> SUFFICES ASSUME NEW u \in TrServers, u # t PROVE TrPlain(tr_wire[u][s])
      OBVIOUS
    <2>1. TrCarries(tr_plan, o, u, s, tr_got[u], tr_got[s], tr_wire[u][s])
      BY <1>2 DEF TrTold
    <2>2. ~TrTo(tr_plan, s, u, o)
      BY <1>1, <1>3, TrToOne
    <2> QED BY <2>1, <2>2 DEF TrCarries, TrPlain
  <1>13. ASSUME NEW v \in TrServers, v # t, tr_sock[s][v] = "up"
         PROVE  v # s /\ TrTo(tr_plan, v, s, o) /\ tr_got[v] = 0
    <2>1. v # s /\ TrLinked(tr_plan, s, v)
      BY <1>1, <1>13 DEF TrPlugged
    <2>2. TrTo(tr_plan, v, s, o)
      BY <1>1, <1>3, <1>13, <2>1, TrToOn
    <2>3. v # o
      BY <1>1, <2>2, TrToOne
    <2>4. tr_got[v] # 1
      <3> SUFFICES ASSUME tr_got[v] = 1 PROVE FALSE
        OBVIOUS
      <3>1. PICK a \in TrServers : tr_got[a] = 1 /\ TrTo(tr_plan, v, a, o)
        BY <1>2, <2>3 DEF TrTold
      <3>2. a = s
        BY <1>1, <2>2, <3>1, TrToOne
      <3> QED BY <1>3, <3>1, <3>2
    <2> QED BY <1>9, <2>1, <2>2, <2>4
  <1>14. ASSUME NEW a \in TrServers, NEW b \in TrServers
         PROVE  TrCarries(tr_plan, o, a, b, tr_got'[a], tr_got'[b], tr_wire'[a][b])
    <2>1. TrCarries(tr_plan, o, a, b, tr_got[a], tr_got[b], tr_wire[a][b]) /\ tr_wire[a][b] \in Seq(TrLines)
      BY <1>1, <1>2 DEF TrTold, TrTypes
    <2>2. TrPlain(<<>>)
      BY DEF TrPlain
    <2>3. CASE a = s
      <3>1. tr_wire'[a][b] = tr_wire[a][b] \o (IF tr_sock[b][s] = "none" THEN <<>> ELSE T.out[b])
        BY <1>8, <2>3 DEF TrTook
      <3>2. CASE tr_sock[b][s] # "none" /\ b # o /\ b # t /\ tr_sock[s][b] = "up"
        <4>1. tr_wire'[a][b] = tr_wire[a][b] \o <<l>>
          BY <1>5, <3>1, <3>2
        <4>2. b # s /\ TrTo(tr_plan, b, s, o) /\ tr_got[b] = 0
          BY <1>13, <3>2
        <4>3. tr_got'[a] = 1 /\ tr_got'[b] = 0
          BY <1>10, <2>3, <4>2
        <4> QED BY <1>3, <1>11, <2>1, <2>3, <4>1, <4>2, <4>3, TrCarriesFirst
      <3>3. CASE ~(tr_sock[b][s] # "none" /\ b # o /\ b # t /\ tr_sock[s][b] = "up")
        <4>1. tr_wire'[a][b] = tr_wire[a][b]
          <5>1. tr_wire'[a][b] = tr_wire[a][b] \o <<>>
            BY <1>5, <3>1, <3>3
          <5> QED BY <2>1, <5>1
        <4> QED BY <1>11, <2>3, <4>1, TrCarriesNone
      <3> QED BY <3>2, <3>3
    <2>4. CASE a # s /\ b # s
      BY <1>8, <1>10, <2>1, <2>4 DEF TrTook
    <2>5. CASE a # s /\ b = s
      <3>1. tr_wire'[a][b] = IF T.sock[a] = "none" THEN <<>>
                             ELSE IF a = t THEN Tail(tr_wire[a][s]) ELSE tr_wire[a][s]
        BY <1>8, <2>5 DEF TrTook
      <3>2. TrPlain(tr_wire'[a][b])
        BY <1>3, <1>12, <2>2, <3>1
      <3> QED BY <3>2, TrCarriesNone
    <2> QED BY <2>3, <2>4, <2>5
  <1>15. ASSUME NEW b \in TrServers \ {o}, tr_got'[b] = 1
         PROVE  \E a \in TrServers : tr_got'[a] = 1 /\ TrTo(tr_plan, b, a, o)
    <2>1. \A a \in TrServers : tr_got[a] = 1 => tr_got'[a] = 1
      BY <1>10
    <2>2. CASE b = s
      BY <1>3, <2>1, <2>2
    <2>3. CASE b # s
      <3>1. PICK a \in TrServers : tr_got[a] = 1 /\ TrTo(tr_plan, b, a, o)
        BY <1>2, <1>10, <1>15, <2>3 DEF TrTold
      <3> QED BY <2>1, <3>1
    <2> QED BY <2>2, <2>3
  <1>16. TrTold(o)'
    BY <1>14, <1>15 DEF TrTold
  <1> QED BY <1>10, <1>16 DEF TrNews

\* s sends the notice.
LEMMA TrNewsNotice ==
    ASSUME TrKept, TrNews, NEW s \in TrServers, TrNotice(s)
    PROVE  TrNews'
  <1> DEFINE S == TrState(s)
             l == TrLine("NOTICE", s, TrNone)
             T == TrSpread(S, l, TrNone)
  <1>1. /\ tr_plan \in TrTrees /\ TrTypes /\ TrPlugged(tr_plan, S) /\ S.me = s /\ S.sock = tr_sock[s]
    BY TrKeptIs
  <1>2. /\ TrMoves(tr_plan, S, T) /\ l \in TrLines /\ l.prefix = s
        /\ \A v \in TrServers : T.out[v] = IF tr_sock[s][v] = "up" THEN <<l>> ELSE <<>>
    BY TrNoticeMoves
  <1>3. /\ \A t \in TrServers : tr_got[t] = 0
        /\ TrCommit(T, TrNone) /\ tr_plan' = tr_plan /\ tr_got' = [tr_got EXCEPT ![s] = 1]
    BY DEF TrNotice
  <1> HIDE DEF S, T, l
  <1>4. T \in TrStates /\ T.me = s
    BY <1>1, <1>2 DEF TrMoves, TrBook
  <1>5. TrTook(s, T, TrNone)
    BY <1>1, <1>3, <1>4, TrCommitIs, ServerTreeOK
  <1>6. /\ tr_got' \in [TrServers -> {0, 1}] /\ tr_got'[s] = 1
        /\ \A v \in TrServers \ {s} : tr_got'[v] = 0
    BY <1>3 DEF TrNews
  <1>7. \A a, b \in TrServers : TrPlain(tr_wire[a][b]) /\ tr_wire[a][b] \in Seq(TrLines)
    <2>1. PICK o \in TrServers : TrTold(o)
      BY DEF TrNews
    <2>2. ASSUME NEW a \in TrServers, NEW b \in TrServers PROVE TrPlain(tr_wire[a][b])
      <3>1. TrCarries(tr_plan, o, a, b, tr_got[a], tr_got[b], tr_wire[a][b]) /\ tr_got[a] # 1
        BY <1>3, <2>1 DEF TrTold
      <3> QED BY <3>1 DEF TrCarries, TrPlain
    <2> QED BY <1>1, <2>2 DEF TrTypes
  <1>8. ASSUME NEW a \in TrServers, NEW b \in TrServers
        PROVE  TrCarries(tr_plan, s, a, b, tr_got'[a], tr_got'[b], tr_wire'[a][b])
    <2>1. TrPlain(<<>>)
      BY DEF TrPlain
    <2>2. CASE a = s /\ tr_sock[b][s] # "none" /\ tr_sock[s][b] = "up"
      <3>0. tr_wire'[a][b] = tr_wire[a][b] \o (IF tr_sock[b][s] = "none" THEN <<>> ELSE T.out[b])
        BY <1>5, <2>2 DEF TrTook
      <3>1. tr_wire'[a][b] = tr_wire[a][b] \o <<l>>
        BY <1>2, <2>2, <3>0
      <3>2. b # s /\ TrLinked(tr_plan, s, b)
        BY <1>1, <2>2 DEF TrPlugged
      <3>3. TrTo(tr_plan, b, s, s)
        BY <3>2, TrToNext
      <3>4. tr_got'[a] = 1 /\ tr_got'[b] = 0
        BY <1>6, <2>2, <3>2
      <3> QED BY <1>2, <1>7, <2>2, <3>1, <3>3, <3>4, TrCarriesFirst
    <2>3. CASE a = s /\ ~(tr_sock[b][s] # "none" /\ tr_sock[s][b] = "up")
      <3>0. tr_wire'[a][b] = tr_wire[a][b] \o (IF tr_sock[b][s] = "none" THEN <<>> ELSE T.out[b])
        BY <1>5, <2>3 DEF TrTook
      <3>1. tr_wire'[a][b] = tr_wire[a][b] \o <<>>
        BY <1>2, <2>3, <3>0
      <3>2. tr_wire'[a][b] = tr_wire[a][b]
        BY <1>7, <3>1
      <3> QED BY <1>7, <3>2, TrCarriesNone
    <2>4. CASE a # s
      <3>1. tr_wire'[a][b] \in {<<>>, tr_wire[a][b]}
        <4>1. a # TrNone
          BY ServerTreeOK
        <4> QED BY <1>5, <2>4, <4>1 DEF TrTook
      <3>2. TrPlain(tr_wire'[a][b])
        BY <1>7, <2>1, <3>1
      <3> QED BY <3>2, TrCarriesNone
    <2> QED BY <2>2, <2>3, <2>4
  <1>9. \A b \in TrServers \ {s} : tr_got'[b] # 1
    BY <1>6
  <1>10. TrTold(s)'
    BY <1>3, <1>8, <1>9 DEF TrTold
  <1> QED BY <1>6, <1>10 DEF TrNews

LEMMA TrNewsInit ==
    ASSUME ServerTreeInit
    PROVE  TrServers # {} => TrNews
  <1> SUFFICES ASSUME NEW o \in TrServers PROVE TrNews
    OBVIOUS
  <1>1. \A s \in TrServers : tr_got[s] = 0 /\ \A t \in TrServers : tr_wire[s][t] = <<>>
    BY DEF ServerTreeInit
  <1>2. tr_got \in [TrServers -> {0, 1}]
    BY DEF ServerTreeInit
  <1>3. TrPlain(<<>>)
    BY DEF TrPlain
  <1>4. \A a, b \in TrServers : TrCarries(tr_plan, o, a, b, tr_got[a], tr_got[b], tr_wire[a][b])
    BY <1>1, <1>3, TrCarriesNone
  <1>5. TrTold(o)
    BY <1>1, <1>4 DEF TrTold
  <1> QED BY <1>2, <1>5 DEF TrNews

LEMMA TrNewsReply ==
    ASSUME TrKept, TrNews, NEW s \in TrServers, NEW t \in TrServers, TrReply(s, t)
    PROVE  TrNews'
  <1> DEFINE S == TrState(s)
             T == TrJoin(S, t, <<TrLine("BURST", TrNone, TrNone)>>)
  <1>1. /\ tr_plan \in TrTrees /\ TrStarts(tr_plan, S) /\ TrBook(tr_plan, S) /\ TrPlugged(tr_plan, S)
        /\ S.me = s /\ S.sock = tr_sock[s]
    BY TrKeptIs
  <1>2. /\ tr_sock[s][t] = "dialled" /\ tr_plan' = tr_plan /\ tr_got' = tr_got
        /\ TrCommit(IF TrKnows(S, t) THEN TrClose(S, t) ELSE T, TrNone)
    BY DEF TrReply
  <1> HIDE DEF S
  <1>3. ~TrKnows(S, t)
    BY <1>1, <1>2, TrUpIs
  <1>4. TrMoves(tr_plan, S, T) /\ TrSilent(T)
    <2>1. S.sock[t] \in {"dialled", "auth2"}
      BY <1>1, <1>2
    <2> QED BY <1>1, <2>1, TrJoinMoves
  <1> HIDE DEF T
  <1>5. T \in TrStates /\ T.me = s
    BY <1>1, <1>4 DEF TrMoves, TrBook
  <1>6. TrCommit(T, TrNone)
    BY <1>2, <1>3
  <1>7. TrNone \notin TrServers
    BY ServerTreeOK
  <1> QED BY <1>2, <1>4, <1>5, <1>6, <1>7, TrNewsSilent

LEMMA TrNewsLose ==
    ASSUME TrKept, TrNews, NEW s \in TrServers, NEW t \in TrServers, TrLose(s, t)
    PROVE  TrNews'
  <1> DEFINE S == TrState(s)
             T == TrClose(S, t)
  <1>1. tr_plan \in TrTrees /\ TrStarts(tr_plan, S) /\ S.me = s /\ S.sock = tr_sock[s]
    BY TrKeptIs
  <1>2. tr_sock[s][t] # "none" /\ tr_plan' = tr_plan /\ tr_got' = tr_got /\ TrCommit(T, TrNone)
    BY DEF TrLose
  <1> HIDE DEF S
  <1>3. TrMoves(tr_plan, S, T) /\ TrSilent(T)
    BY <1>1, <1>2, TrCloseMoves
  <1> HIDE DEF T
  <1>4. T \in TrStates /\ T.me = s
    BY <1>1, <1>3 DEF TrMoves, TrBook
  <1>5. TrNone \notin TrServers
    BY ServerTreeOK
  <1> QED BY <1>2, <1>3, <1>4, <1>5, TrNewsSilent

LEMMA TrNewsRead ==
    ASSUME TrKept, TrNews, NEW s \in TrServers, NEW t \in TrServers, TrRead(s, t)
    PROVE  TrNews'
  <1> DEFINE S == TrState(s)
             w == tr_wire[t][s]
             l == Head(w)
             T == TrHandle(S, t, l)
  <1>1. /\ tr_plan \in TrTrees /\ TrStarts(tr_plan, S)
        /\ S.me = s /\ S.nodes = tr_nodes[s] /\ S.sock = tr_sock[s]
    BY TrKeptIs
  <1>2. tr_sock[s][t] # "none" /\ w # <<>> /\ tr_plan' = tr_plan /\ TrCommit(T, t)
    BY DEF TrRead
  <1>3. tr_got' = [tr_got EXCEPT ![s] = IF TrHeard(S, t, l) THEN @ + 1 ELSE @]
    <2>1. TrHeard(S, t, l) <=> l.cmd = "NOTICE" /\ tr_sock[s][t] = "up" /\ TrFrom(S, t, l.prefix)
      <3> HIDE DEF S, l
      <3> QED BY <1>1 DEF TrHeard
    <2> QED BY <2>1 DEF TrRead
  <1>4. /\ t # s /\ w \in Seq(TrLines) /\ tr_sock[t][s] \in TrLinks
        /\ TrPairOK(tr_plan, t, s, tr_sock[t][s], tr_sock[s][t], w, tr_nodes[t], tr_nodes[s])
    BY <1>2, TrKeptIs
  <1> HIDE DEF S, w
  <1>5. /\ l \in TrLines /\ (tr_sock[s][t] = "dialled" => l.cmd = "EOF")
        /\ \E R : TrReadsTo(tr_plan, t, s, tr_sock[t][s], tr_sock[s][t], w, tr_nodes[t], tr_nodes[s], R)
    BY <1>2, <1>4, TrPairReads
  <1>6. PICK R : TrSays(tr_plan, s, t, TrVia(tr_nodes[s], t), l, R)
    BY <1>5 DEF TrReadsTo
  <1> HIDE DEF l
  <1>7. TrMoves(tr_plan, S, T) /\ IF TrHeard(S, t, l) THEN T = TrSpread(S, l, l.prefix) ELSE TrSilent(T)
    <2>1. S.sock[t] # "none" /\ (S.sock[t] = "dialled" => l.cmd = "EOF")
          /\ TrSays(tr_plan, S.me, t, TrVia(S.nodes, t), l, R)
      BY <1>1, <1>2, <1>5, <1>6
    <2> QED BY <1>1, <1>5, <2>1, TrHandleMoves
  <1> HIDE DEF T
  <1>8. T \in TrStates /\ T.me = s
    BY <1>1, <1>7 DEF TrMoves, TrBook
  <1>9. tr_wire[t][s] # <<>> /\ l = Head(tr_wire[t][s])
    BY <1>2 DEF w, l
  <1>10. CASE TrHeard(S, t, l)
    <2>1. TrCommit(TrSpread(S, l, l.prefix), t) /\ tr_got' = [tr_got EXCEPT ![s] = @ + 1]
      BY <1>2, <1>3, <1>7, <1>10
    <2>2. TrCommit(TrSpread(TrState(s), l, l.prefix), t) /\ TrHeard(TrState(s), t, l)
      BY <1>10, <2>1 DEF S
    <2> QED BY <1>2, <1>5, <1>9, <2>1, <2>2, TrNewsHeard
  <1>11. CASE ~TrHeard(S, t, l)
    <2>1. tr_got' = tr_got
      BY <1>3, <1>11 DEF TrNews
    <2>2. TrSilent(T)
      BY <1>7, <1>11
    <2> QED BY <1>2, <1>8, <1>9, <2>1, <2>2, TrNewsSilent
  <1> QED BY <1>10, <1>11

LEMMA TrNewsStep ==
    ASSUME TrKept, TrNews, [ServerTreeNext]_tr_vars
    PROVE  TrNews'
  <1>1. CASE UNCHANGED tr_vars
    BY <1>1 DEF tr_vars, TrNews, TrTold
  <1>2. ASSUME NEW s \in TrServers, NEW t \in TrServers, TrDial(s, t) PROVE TrNews'
    BY <1>2 DEF TrDial, TrNews, TrTold
  <1>3. CASE ServerTreeNext
    BY <1>2, <1>3, TrNewsReply, TrNewsRead, TrNewsLose, TrNewsNotice DEF ServerTreeNext
  <1> QED BY <1>1, <1>3

LEMMA TrNewsOnce ==
    ASSUME TrNews
    PROVE  TrHeardOnce
  BY DEF TrNews, TrHeardOnce

\* On any network whose link blocks close no circle, whatever links are made, lost and made again: every record of
\* a tree is found by its name and reached over an open socket, the trees agree when nothing is on its way, and
\* nobody hears a notice twice.
THEOREM OneTreeAlways == ServerTreeSpec => []TrOneTree
  <1> DEFINE I == TrServers # {} /\ TrTreePlan => TrKept /\ TrNews
  <1>1. ServerTreeInit => I
    BY TrKeptInit, TrNewsInit
  <1>2. I /\ [ServerTreeNext]_tr_vars => I'
    <2> SUFFICES ASSUME I, [ServerTreeNext]_tr_vars, TrServers # {}, TrTreePlan' PROVE TrKept' /\ TrNews'
      OBVIOUS
    <2>1. tr_plan' = tr_plan
      BY DEF ServerTreeNext, TrDial, TrReply, TrRead, TrLose, TrNotice, tr_vars
    <2>2. TrTreePlan
      BY <2>1 DEF TrTreePlan
    <2>3. TrKept /\ TrNews
      BY <2>2
    <2> HIDE DEF I
    <2> QED BY <2>3, TrStepKeeps, TrNewsStep
  <1>3. I => TrOneTree
    <2>1. CASE TrServers = {}
      BY <2>1 DEF TrOneTree, TrFoundByName, TrRoutesOpen, TrTreesAgree, TrHeardOnce
    <2>2. CASE ~TrTreePlan
      BY <2>2 DEF TrOneTree, TrFoundByName, TrRoutesOpen, TrTreesAgree, TrHeardOnce
    <2>3. CASE TrServers # {} /\ TrTreePlan
      <3> SUFFICES ASSUME I PROVE TrOneTree
        OBVIOUS
      <3>1. TrKept /\ TrNews
        BY <2>3
      <3> QED BY <3>1, TrKeptFinds, TrKeptOpens, TrKeptAgrees, TrNewsOnce DEF TrOneTree
    <2> QED BY <2>1, <2>2, <2>3
  <1> HIDE DEF I
  <1> QED BY <1>1, <1>2, <1>3, PTL DEF ServerTreeSpec
=============================================================================

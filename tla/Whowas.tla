------------------------------- MODULE Whowas -------------------------------
(***************************************************************************)
(* The memory of WHOWAS (cmd_whowas.cpp): for each nickname the clients    *)
(* that left with it, in a map, and the order in which the nicknames came, *)
(* in a fifo that decides which is forgotten first.  A rehash changes the  *)
(* limits and prunes; once an hour entries that signed on too long ago go. *)
(***************************************************************************)
EXTENDS Integers, Sequences, SequencesExt

CONSTANTS
    WhNicks,
    WhGroupSizes,   \* the values <whowas:groupsize> may get
    WhMaxGroups,    \* the values <whowas:maxgroups> may get
    WhKeep,         \* <whowas:maxkeep>
    WhOld           \* ages are not told apart from here on

ASSUME WhowasOK == WhGroupSizes \subseteq Nat /\ WhMaxGroups \subseteq Nat /\ WhKeep \in Nat /\ WhOld \in Nat /\ WhOld > WhKeep

VARIABLES
    wh_map,         \* nickname -> the ages of its entries' sign-ons, oldest entry first
    wh_fifo,        \* [nick, age] in the order the nicknames came
    wh_size,        \* Config->WhoWasGroupSize
    wh_groups       \* Config->WhoWasMaxGroups

wh_vars == <<wh_map, wh_fifo, wh_size, wh_groups>>

WhAges == 0 .. WhOld

WhowasTypeOK ==
    /\ DOMAIN wh_map \subseteq WhNicks /\ \A n \in DOMAIN wh_map : wh_map[n] \in Seq(WhAges)
    /\ wh_fifo \in Seq([nick : WhNicks, age : WhAges])
    /\ wh_size \in WhGroupSizes /\ wh_groups \in WhMaxGroups

WhowasInit ==
    /\ wh_map = <<>> /\ wh_fifo = <<>>
    /\ wh_size \in WhGroupSizes /\ wh_groups \in WhMaxGroups

WhWithout(map, n) == [m \in DOMAIN map \ {n} |-> map[m]]

\* AddToWhoWas: a nickname that is new may push out the one that came first.
WhAddNew_keeps(n, age) ==  \* mutant: the fifo forgets, the map does not
    LET map == [m \in DOMAIN wh_map \cup {n} |-> IF m = n THEN <<age>> ELSE wh_map[m]]
        fifo == Append(wh_fifo, [nick |-> n, age |-> 0]) IN
    [map |-> map, fifo |-> IF Len(fifo) > wh_groups THEN Tail(fifo) ELSE fifo]
WhAddNew(n, age) ==
    LET map == [m \in DOMAIN wh_map \cup {n} |-> IF m = n THEN <<age>> ELSE wh_map[m]]
        fifo == Append(wh_fifo, [nick |-> n, age |-> 0]) IN
    IF Len(fifo) > wh_groups THEN [map |-> WhWithout(map, fifo[1].nick), fifo |-> Tail(fifo)]
    ELSE [map |-> map, fifo |-> fifo]

\* ... and a nickname that is known may push out its first entry.
WhAddKnown(n, age) ==
    LET group == Append(wh_map[n], age) IN
    [map |-> [wh_map EXCEPT ![n] = IF Len(group) > wh_size THEN Tail(group) ELSE group],
     fifo |-> wh_fifo]

WhAdd(n, age) ==
    /\ wh_size # 0 /\ wh_groups # 0
    /\ LET added == IF n \in DOMAIN wh_map THEN WhAddKnown(n, age) ELSE WhAddNew(n, age) IN
       wh_map' = added.map /\ wh_fifo' = added.fifo
    /\ UNCHANGED <<wh_size, wh_groups>>

\* PruneWhoWas, first loop: nicknames over the limit, or that came too long ago.
WhStale(fifo, groups) ==
    {k \in 0 .. Len(fifo) : \A i \in 1 .. k : Len(fifo) - i + 1 > groups \/ fifo[i].age > WhKeep}
WhCut(groups) ==
    LET k == CHOOSE k \in WhStale(wh_fifo, groups) : \A j \in WhStale(wh_fifo, groups) : j <= k IN
    [fifo |-> SubSeq(wh_fifo, k + 1, Len(wh_fifo)),
     map |-> [n \in DOMAIN wh_map \ {wh_fifo[i].nick : i \in 1 .. k} |-> wh_map[n]]]

\* Second loop: it looks whowas_fifo[0] up in every turn, so the first group is cut to
\* its new size, and only the first.
WhShrink(map, fifo, size) ==
    IF fifo = <<>> THEN map
    ELSE LET n == fifo[1].nick IN
         [map EXCEPT ![n] = IF Len(@) > size THEN SubSeq(@, Len(@) - size + 1, Len(@)) ELSE @]

\* A rehash reads new limits and prunes.
WhRehash(size, groups) ==
    /\ wh_size' = size /\ wh_groups' = groups
    /\ wh_fifo' = WhCut(groups).fifo
    /\ wh_map' = WhShrink(WhCut(groups).map, WhCut(groups).fifo, size)

\* MaintainWhoWas: from the front of each group while it is too old; the group stays.
WhYoung(group) ==
    LET old == {k \in 0 .. Len(group) : \A i \in 1 .. k : group[i] > WhKeep}
        k == CHOOSE k \in old : \A j \in old : j <= k IN
    SubSeq(group, k + 1, Len(group))
WhMaintain ==
    /\ wh_map' = [n \in DOMAIN wh_map |-> WhYoung(wh_map[n])]
    /\ UNCHANGED <<wh_fifo, wh_size, wh_groups>>

\* The destructor, when the command is reloaded: the new object starts with nothing.
WhReload ==
    /\ wh_map' = <<>> /\ wh_fifo' = <<>>
    /\ UNCHANGED <<wh_size, wh_groups>>

WhOlder(a) == IF a < WhOld THEN a + 1 ELSE WhOld
WhTime ==
    /\ wh_map' = [n \in DOMAIN wh_map |-> [i \in DOMAIN wh_map[n] |-> WhOlder(wh_map[n][i])]]
    /\ wh_fifo' = [i \in DOMAIN wh_fifo |-> [wh_fifo[i] EXCEPT !.age = WhOlder(@)]]
    /\ UNCHANGED <<wh_size, wh_groups>>

WhowasNext ==
    \/ \E n \in WhNicks, age \in WhAges : WhAdd(n, age)
    \/ \E size \in WhGroupSizes, groups \in WhMaxGroups : WhRehash(size, groups)
    \/ WhMaintain
    \/ WhReload
    \/ WhTime

WhowasSpec == WhowasInit /\ [][WhowasNext]_wh_vars

-----------------------------------------------------------------------------
(* Properties *)

\* GetStats dereferences what it finds for each name of the fifo, and PruneWhoWas calls
\* the maps corrupt when it finds nothing: the fifo is the map's domain, each name once,
\* and never more of them than <whowas:maxgroups> allows.
WhFifoIsMap ==
    /\ {wh_fifo[i].nick : i \in DOMAIN wh_fifo} = DOMAIN wh_map
    /\ \A i, j \in DOMAIN wh_fifo : wh_fifo[i].nick = wh_fifo[j].nick => i = j
WhWithinGroups == Len(wh_fifo) <= wh_groups

\* A group that is over its limit, left so by a rehash, never grows further.
WhNoGrowth ==
    [][\A n \in DOMAIN wh_map :
          n \in DOMAIN wh_map' /\ Len(wh_map'[n]) > wh_size' => Len(wh_map'[n]) <= Len(wh_map[n])]_wh_vars

\* The two copies of what is remembered stay one through all rehashes, within the limits.
WhRemembered == [](WhFifoIsMap /\ WhWithinGroups) /\ WhNoGrowth
=============================================================================

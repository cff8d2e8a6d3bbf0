------------------------------- MODULE XLines -------------------------------
(***************************************************************************)
(* X-lines (xline.cpp): G-, K-, Z- and Q-lines remove the local clients    *)
(* they match, E-lines except clients from them.  Each kind has a list of  *)
(* timed lines, kept sorted so that expire_lines only looks at its front,  *)
(* and a list of permanent ones.  Lines come from operators, from other    *)
(* servers (ADDLINE) and from the server itself; clients are checked when  *)
(* they connect, when they complete registration, when they change their   *)
(* nickname, and all of them when a line is added.  Lines of a netburst    *)
(* wait for its end in SpanningTreeUtilities::lines_to_apply, one set of   *)
(* bits for all links.                                                     *)
(*                                                                         *)
(* A behaviour has one kind of ban besides the exceptions.  Expiry times   *)
(* are relative to TIME: a line is past its time when expiry < 0.          *)
(***************************************************************************)
EXTENDS Integers, Sequences, FiniteSets, SequencesExt

CONSTANTS
    XlUsers,        \* local clients
    XlLinks,        \* links to other servers
    XlMasks,        \* masks, each of which covers every client ...
    XlByHost,       \* ... the hostnames among them only once it is looked up
    XlDurations,    \* durations of lines in seconds, 0 for permanent ones
    XlAges,         \* how old a line of another server can be
    XlMaxLines      \* bound: lines at a time

ASSUME XLinesOK ==
    /\ XlByHost \subseteq XlMasks
    /\ XlDurations \subseteq Nat /\ XlAges \subseteq Nat

VARIABLES
    xl_kind,        \* the kind of ban of this behaviour
    xl_timed,       \* glines, elines ...: lists of timed lines
    xl_perm,        \* pglines, pelines ...: permanent ones
    xl_state,       \* what has become of the client
    xl_named,       \* it has the nickname that Q-lines are about
    xl_found,       \* its hostname is known
    xl_exempt,      \* userrec::exempt, set once
    xl_queued,      \* clients in the cull list
    xl_bursting,    \* TreeSocket::bursting
    xl_pending,     \* SpanningTreeUtilities::lines_to_apply
    xl_excused,     \* history: clients an exception was found for
    xl_lost         \* history: lines_to_apply was emptied under a burst

xl_lists == <<xl_timed, xl_perm>>
xl_clients == <<xl_state, xl_named, xl_found, xl_exempt>>
xl_vars == <<xl_kind, xl_lists, xl_clients, xl_queued, xl_bursting, xl_pending, xl_excused, xl_lost>>

XlOldest == -2 - (CHOOSE a \in XlAges : \A b \in XlAges : b <= a)
XlLongest == CHOOSE d \in XlDurations : \A e \in XlDurations : e <= d
XlLine == [mask : XlMasks, duration : XlDurations, expiry : XlOldest .. XlLongest]

XLinesTypeOK ==
    /\ xl_kind \in {"G", "K", "Z", "Q"}
    /\ xl_timed \in [{"ban", "E"} -> Seq(XlLine)]
    /\ xl_perm \in [{"ban", "E"} -> SUBSET XlMasks]
    /\ xl_state \in [XlUsers -> {"gone", "waiting", "online"}]
    /\ xl_named \in [XlUsers -> BOOLEAN] /\ xl_found \in [XlUsers -> BOOLEAN]
    /\ xl_exempt \in [XlUsers -> BOOLEAN]
    /\ xl_queued \subseteq XlUsers
    /\ xl_bursting \subseteq XlLinks
    /\ xl_pending \in BOOLEAN /\ xl_lost \in BOOLEAN
    /\ xl_excused \subseteq XlUsers

XLinesInit ==
    /\ xl_kind \in {"G", "K", "Z", "Q"}
    /\ xl_timed = [l \in {"ban", "E"} |-> <<>>] /\ xl_perm = [l \in {"ban", "E"} |-> {}]
    /\ xl_state = [u \in XlUsers |-> "gone"]
    /\ xl_named = [u \in XlUsers |-> FALSE] /\ xl_found = [u \in XlUsers |-> FALSE]
    /\ xl_exempt = [u \in XlUsers |-> FALSE]
    /\ xl_queued = {} /\ xl_bursting = {} /\ xl_excused = {}
    /\ xl_pending = FALSE /\ xl_lost = FALSE

-----------------------------------------------------------------------------
(* The lists *)

XlHas(l, mask) ==
    mask \in xl_perm[l] \/ \E i \in DOMAIN xl_timed[l] : xl_timed[l][i].mask = mask

\* The orders a list can be put in, and the one sort() puts it in.
XlOrders(list) == {p \in [DOMAIN list -> DOMAIN list] : \A i, j \in DOMAIN list : p[i] = p[j] => i = j}
XlSort(list) ==
    LET p == CHOOSE p \in XlOrders(list) :
                 \A i, j \in DOMAIN list : i < j => list[p[i]].expiry <= list[p[j]].expiry
    IN [i \in DOMAIN list |-> list[p[i]]]

\* add_gline and its kind; the caller has seen that del_gline finds no such line.
XlAdd(l, mask, duration) ==
    IF duration = 0
    THEN /\ xl_perm' = [xl_perm EXCEPT ![l] = @ \cup {mask}]
         /\ UNCHANGED xl_timed
    ELSE /\ xl_timed' = [xl_timed EXCEPT ![l] =
                XlSort(Append(@, [mask |-> mask, duration |-> duration, expiry |-> duration]))]
         /\ UNCHANGED xl_perm

\* gline_set_creation_time and its kind: the list is not sorted again.
XlCreatedAt(timed, l, mask, age) ==
    [timed EXCEPT ![l] = [i \in DOMAIN timed[l] |->
        [timed[l][i] EXCEPT !.expiry = IF timed[l][i].mask = mask THEN timed[l][i].duration - age ELSE @]]]

\* matches_gline, matches_kline, matches_zline, matches_qline.
XlCovers(mask, u) ==
    CASE xl_kind = "Z" -> mask \notin XlByHost
      [] xl_kind = "Q" -> xl_named[u]
      [] OTHER -> mask \notin XlByHost \/ xl_found[u]

XlActive(l, timed, perm) == {timed[l][i].mask : i \in DOMAIN timed[l]} \cup perm[l]

XlBanned(u, timed, perm) == \E mask \in XlActive("ban", timed, perm) : XlCovers(mask, u)

\* matches_exception.
XlExcepted(u, found) ==
    \E mask \in XlActive("E", xl_timed, xl_perm) : mask \notin XlByHost \/ found

XlApply(timed, perm) ==
    LET checked == {u \in XlUsers : xl_state[u] # "gone"}
        excepted == {u \in checked : XlExcepted(u, xl_found[u])} IN
    /\ xl_queued' = xl_queued \cup {u \in checked \ excepted : XlBanned(u, timed, perm)}
    /\ xl_excused' = xl_excused \cup excepted

-----------------------------------------------------------------------------
(* Lines from operators *)

XlFits(l, mask) ==
    \/ XlHas(l, mask)
    \/ XlMaxLines > Len(xl_timed["ban"]) + Len(xl_timed["E"])
                     + Cardinality(xl_perm["ban"]) + Cardinality(xl_perm["E"])

\* GLINE, KLINE, ZLINE and QLINE with a duration; a permanent one is applied alone.
XlBan(mask, duration) ==
    /\ ~XlHas("ban", mask)
    /\ XlFits("ban", mask)
    /\ XlAdd("ban", mask, duration)
    /\ IF duration = 0
       THEN XlApply([l \in {"ban", "E"} |-> <<>>], xl_perm')
       ELSE XlApply(xl_timed', xl_perm')
    /\ UNCHANGED <<xl_kind, xl_clients, xl_bursting, xl_pending, xl_lost>>

\* ELINE.
XlExcept(mask, duration) ==
    /\ ~XlHas("E", mask)
    /\ XlFits("E", mask)
    /\ XlAdd("E", mask, duration)
    /\ UNCHANGED <<xl_kind, xl_clients, xl_queued, xl_bursting, xl_pending, xl_excused, xl_lost>>

\* The same commands without a duration: del_gline and its kind take the first line of that mask.
XlDel(l, mask) ==
    LET at == {i \in DOMAIN xl_timed[l] : xl_timed[l][i].mask = mask} IN
    /\ XlHas(l, mask)
    /\ IF at # {}
       THEN /\ xl_timed' = [xl_timed EXCEPT ![l] = RemoveAt(@, CHOOSE i \in at : \A j \in at : i <= j)]
            /\ UNCHANGED xl_perm
       ELSE xl_perm' = [xl_perm EXCEPT ![l] = @ \ {mask}] /\ UNCHANGED xl_timed
    /\ UNCHANGED <<xl_kind, xl_clients, xl_queued, xl_bursting, xl_pending, xl_excused, xl_lost>>

-----------------------------------------------------------------------------
(* Lines from other servers *)

XlBurst(s) ==
    /\ s \notin xl_bursting
    /\ xl_bursting' = xl_bursting \cup {s}
    /\ UNCHANGED <<xl_kind, xl_lists, xl_clients, xl_queued, xl_pending, xl_excused, xl_lost>>

\* TreeSocket::AddLine.  A line that exists keeps its duration and takes the
\* creation time; a K-line does not take it at all.
XlAddLine(s, l, mask, duration, age) ==
    LET new == ~XlHas(l, mask)
        waits == (IF s \in xl_bursting THEN xl_pending ELSE FALSE) \/ (new /\ l = "ban") IN
    /\ XlFits(l, mask)
    /\ duration = 0 \/ age <= duration
    /\ LET list == Append(xl_timed[l], [mask |-> mask, duration |-> duration, expiry |-> duration])
           added == IF new /\ duration # 0 THEN [xl_timed EXCEPT ![l] = XlSort(list)] ELSE xl_timed IN
       xl_timed' = IF l = "ban" /\ xl_kind = "K" THEN added ELSE XlCreatedAt(added, l, mask, age)
    /\ xl_perm' = IF new /\ duration = 0 THEN [xl_perm EXCEPT ![l] = @ \cup {mask}] ELSE xl_perm
    /\ xl_lost' = (xl_lost \/ (s \notin xl_bursting /\ xl_pending))
    /\ IF s \in xl_bursting
       THEN xl_pending' = waits /\ UNCHANGED <<xl_queued, xl_excused>>
       ELSE /\ xl_pending' = FALSE
            /\ IF waits THEN XlApply(xl_timed', xl_perm') ELSE UNCHANGED <<xl_queued, xl_excused>>
    /\ UNCHANGED <<xl_kind, xl_clients, xl_bursting>>

XlEndBurst(s) ==
    /\ s \in xl_bursting
    /\ xl_bursting' = xl_bursting \ {s}
    /\ xl_pending' = FALSE
    /\ IF xl_pending THEN XlApply(xl_timed, xl_perm) ELSE UNCHANGED <<xl_queued, xl_excused>>
    /\ UNCHANGED <<xl_kind, xl_lists, xl_clients, xl_lost>>

\* The link is lost during its burst; what it has added stays to be applied.
XlLinkLost(s) ==
    /\ s \in xl_bursting
    /\ xl_bursting' = xl_bursting \ {s}
    /\ UNCHANGED <<xl_kind, xl_lists, xl_clients, xl_queued, xl_pending, xl_excused, xl_lost>>

-----------------------------------------------------------------------------
(* Clients *)

\* AddClient: exceptions and Z-lines, with the address as the only name.
XlConnect(u) ==
    LET exempt == XlExcepted(u, FALSE) IN
    /\ xl_state[u] = "gone"
    /\ xl_state' = [xl_state EXCEPT ![u] = "waiting"]
    /\ xl_named' = [xl_named EXCEPT ![u] = FALSE]
    /\ xl_found' = [xl_found EXCEPT ![u] = FALSE]
    /\ xl_exempt' = [xl_exempt EXCEPT ![u] = exempt]
    /\ xl_excused' = IF exempt THEN xl_excused \cup {u} ELSE xl_excused \ {u}
    /\ xl_queued' = IF ~exempt /\ xl_kind = "Z" /\ XlBanned(u, xl_timed, xl_perm)
                    THEN xl_queued \cup {u} ELSE xl_queued
    /\ UNCHANGED <<xl_kind, xl_lists, xl_bursting, xl_pending, xl_lost>>

\* UserResolver::OnLookupComplete.
XlResolve(u) ==
    /\ xl_state[u] = "waiting" /\ ~xl_found[u]
    /\ xl_found' = [xl_found EXCEPT ![u] = TRUE]
    /\ UNCHANGED <<xl_kind, xl_lists, xl_state, xl_named, xl_exempt, xl_queued, xl_bursting,
                   xl_pending, xl_excused, xl_lost>>

XlNick(u) ==
    /\ xl_state[u] # "gone" /\ u \notin xl_queued
    /\ xl_kind = "Q"
    /\ xl_named[u] \/ XlActive("ban", xl_timed, xl_perm) = {}
    /\ xl_named' = [xl_named EXCEPT ![u] = ~@]
    /\ UNCHANGED <<xl_kind, xl_lists, xl_state, xl_found, xl_exempt, xl_queued, xl_bursting,
                   xl_pending, xl_excused, xl_lost>>

\* FullConnect: G- and K-lines, unless the client was exempt when it connected.
XlFullConnect_trusts(u) ==  \* mutant: the lines are not asked again
    /\ xl_state[u] = "waiting" /\ u \notin xl_queued
    /\ xl_state' = [xl_state EXCEPT ![u] = "online"]
    /\ UNCHANGED <<xl_kind, xl_lists, xl_named, xl_found, xl_exempt, xl_queued, xl_bursting,
                   xl_pending, xl_excused, xl_lost>>
XlFullConnect(u) ==
    /\ xl_state[u] = "waiting" /\ u \notin xl_queued
    /\ IF ~xl_exempt[u] /\ xl_kind \in {"G", "K"} /\ XlBanned(u, xl_timed, xl_perm)
       THEN xl_queued' = xl_queued \cup {u} /\ UNCHANGED xl_state
       ELSE xl_state' = [xl_state EXCEPT ![u] = "online"] /\ UNCHANGED xl_queued
    /\ UNCHANGED <<xl_kind, xl_lists, xl_named, xl_found, xl_exempt, xl_bursting, xl_pending,
                   xl_excused, xl_lost>>

\* FloodQuitUser: a client that is not registered gets a Z-line of its address.
XlFlood(u, mask, duration) ==
    /\ xl_kind = "Z" /\ xl_state[u] = "waiting" /\ mask \notin XlByHost /\ duration # 0
    /\ XlFits("ban", mask)
    /\ IF XlHas("ban", mask) THEN UNCHANGED xl_lists ELSE XlAdd("ban", mask, duration)
    /\ LET checked == {v \in XlUsers : xl_state[v] # "gone"}
           excepted == {v \in checked : XlExcepted(v, xl_found[v])} IN
       /\ xl_queued' = xl_queued \cup {u} \cup (checked \ excepted)
       /\ xl_excused' = xl_excused \cup excepted
    /\ UNCHANGED <<xl_kind, xl_clients, xl_bursting, xl_pending, xl_lost>>

\* It quits for a reason of its own.
XlQuit(u) ==
    /\ xl_state[u] # "gone" /\ u \notin xl_queued
    /\ xl_queued' = xl_queued \cup {u}
    /\ UNCHANGED <<xl_kind, xl_lists, xl_clients, xl_bursting, xl_pending, xl_excused, xl_lost>>

\* CullList::Apply.
XlCull ==
    /\ xl_queued # {}
    /\ xl_queued' = {}
    /\ xl_state' = [u \in XlUsers |-> IF u \in xl_queued THEN "gone" ELSE xl_state[u]]
    /\ xl_named' = [u \in XlUsers |-> xl_named[u] /\ u \notin xl_queued]
    /\ xl_found' = [u \in XlUsers |-> xl_found[u] /\ u \notin xl_queued]
    /\ xl_exempt' = [u \in XlUsers |-> xl_exempt[u] /\ u \notin xl_queued]
    /\ xl_excused' = xl_excused \ xl_queued
    /\ UNCHANGED <<xl_kind, xl_lists, xl_bursting, xl_pending, xl_lost>>

-----------------------------------------------------------------------------
(* Time *)

\* A second; how long ago a line expired is not kept.
XlTick ==
    /\ \E l \in {"ban", "E"} : \E i \in DOMAIN xl_timed[l] : xl_timed[l][i].expiry >= 0
    /\ xl_timed' = [l \in {"ban", "E"} |-> [i \in DOMAIN xl_timed[l] |->
            [xl_timed[l][i] EXCEPT !.expiry = IF @ >= 0 THEN @ - 1 ELSE @]]]
    /\ UNCHANGED <<xl_kind, xl_perm, xl_clients, xl_queued, xl_bursting, xl_pending, xl_excused, xl_lost>>

\* expire_lines, when TIME is a multiple of five.
XlFront(list) == list # <<>> /\ Head(list).expiry < 0
XlExpire ==
    /\ \E l \in {"ban", "E"} : XlFront(xl_timed[l])
    /\ xl_timed' = [l \in {"ban", "E"} |->
            LET due == {i \in DOMAIN xl_timed[l] : xl_timed[l][i].expiry >= 0}
                stop == CHOOSE i \in due \cup {Len(xl_timed[l]) + 1} : \A j \in due : i <= j IN
            IF XlFront(xl_timed[l]) THEN SubSeq(xl_timed[l], stop, Len(xl_timed[l])) ELSE xl_timed[l]]
    /\ UNCHANGED <<xl_kind, xl_perm, xl_clients, xl_queued, xl_bursting, xl_pending, xl_excused, xl_lost>>

XLinesNext ==
    \/ \E mask \in XlMasks, duration \in XlDurations :
         \/ XlBan(mask, duration) \/ XlExcept(mask, duration)
         \/ \E s \in XlLinks, l \in {"ban", "E"}, age \in XlAges : XlAddLine(s, l, mask, duration, age)
         \/ \E u \in XlUsers : XlFlood(u, mask, duration)
    \/ \E mask \in XlMasks, l \in {"ban", "E"} : XlDel(l, mask)
    \/ \E s \in XlLinks : XlBurst(s) \/ XlEndBurst(s) \/ XlLinkLost(s)
    \/ \E u \in XlUsers :
         XlConnect(u) \/ XlResolve(u) \/ XlNick(u) \/ XlFullConnect(u) \/ XlQuit(u)
    \/ XlCull \/ XlTick \/ XlExpire

XLinesSpec == XLinesInit /\ [][XLinesNext]_xl_vars
-----------------------------------------------------------------------------
(* Properties *)

\* A mask is in the lists of a kind at most once, timed and permanent together:
\* removing a line leaves no second one that still bans.
XlNoDuplicates ==
    \A l \in {"ban", "E"} :
        /\ \A i, j \in DOMAIN xl_timed[l] : xl_timed[l][i].mask = xl_timed[l][j].mask => i = j
        /\ \A i \in DOMAIN xl_timed[l] : xl_timed[l][i].mask \notin xl_perm[l]

\* Nobody stays on the server under a line that matches him, whatever the order of
\* lines, exceptions, lookups, nickname changes and bursts, unless an exception was
\* found for him or the line still waits for the end of a burst.  One way out: the
\* lines of a burst are forgotten when another link adds a line meanwhile.
XlEnforced ==
    \A u \in XlUsers :
        xl_state[u] = "online" /\ u \notin xl_queued /\ XlBanned(u, xl_timed, xl_perm)
            => u \in xl_excused \/ xl_pending \/ xl_lost

\* A line that is there is enforced, and one that is removed is gone: nobody stays under one that matches him, and
\* no mask has a second line that would go on banning.
XlSound == XlEnforced /\ XlNoDuplicates
=============================================================================

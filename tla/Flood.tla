------------------------------- MODULE Flood --------------------------------
(***************************************************************************)
(* Three modules that watch one channel against the clock: m_messageflood  *)
(* (+f lines:secs), m_joinflood (+j joins:secs) and m_kicknorejoin (+J).   *)
(* Each keeps counters beside the channel that must be started, emptied    *)
(* and dropped at the right moment.                                        *)
(***************************************************************************)
EXTENDS Naturals, Sequences, FiniteSets, SequencesExt, Functions

CONSTANTS
    FlUsers,
    FlOps,        \* channel operators, when <options:exemptchanops> has f
    FlLines, FlJoins, FlSecs,
    FlLock,       \* how long +j closes the channel (60 in the code)
    FlDelay,      \* the parameter of +J
    FlMost        \* bound of this model: how many of the three modes are set at once

ASSUME FloodOK == FlOps \subseteq FlUsers /\ {FlLines, FlJoins, FlSecs, FlLock, FlDelay, FlMost} \subseteq Nat \ {0}

VARIABLES
    fl_on,        \* members
    fl_f,         \* floodsettings: clock and lines per client; <<>> without +f
    fl_j,         \* joinfloodsettings: clock, joins and how long it is locked; <<>> without +j
    fl_J,         \* norejoinusers: client -> seconds left; "off" without +J
    fl_said, fl_joined,  \* how long ago the last lines of a client and the last joins were
    fl_away,      \* how much longer a kicked client has to stay away
    fl_seen       \* what the last step did; these last three only the properties read

fl_vars == <<fl_on, fl_f, fl_j, fl_J, fl_said, fl_joined, fl_away, fl_seen>>

FlClock == [left |-> FlSecs, over |-> FALSE]
FlTicked(c) == [left |-> IF c.left = 0 THEN 0 ELSE c.left - 1, over |-> c.left = 0]
FlNewF == [clock |-> FlClock, count |-> [u \in FlUsers |-> 0]]
FlNewJ == [clock |-> FlClock, count |-> 0, lock |-> 0]
FlNothing == [kind |-> "none", ages |-> <<>>, away |-> 0]

FloodTypeOK ==
    /\ fl_on \subseteq FlUsers
    /\ fl_f # <<>> => fl_f.count \in [FlUsers -> 0 .. FlLines]
    /\ fl_j # <<>> => fl_j.count \in 0 .. FlJoins /\ fl_j.lock \in 0 .. FlLock + 1
    /\ DOMAIN fl_J.list \subseteq FlUsers

FloodInit ==
    /\ fl_on = {} /\ fl_f = <<>> /\ fl_j = <<>> /\ fl_J = [set |-> FALSE, list |-> <<>>]
    /\ fl_said = [u \in FlUsers |-> <<>>] /\ fl_joined = <<>> /\ fl_away = [u \in FlUsers |-> 0]
    /\ fl_seen = FlNothing

\* Ages are kept for as many events as matter.
FlRecent(ages, n) == LET more == <<0>> \o ages IN IF Len(more) > n THEN SubSeq(more, 1, n) ELSE more
FlOlder(ages) == [i \in DOMAIN ages |-> IF ages[i] > FlSecs THEN ages[i] ELSE ages[i] + 1]

-----------------------------------------------------------------------------
(* What the handlers do *)

\* addmessage and addjoin count first; the event that finds the time over empties the counters,
\* its own count too.
FlAddMessage_counts(u) ==  \* mutant: the clock is set again, the counters stay
    [fl_f EXCEPT !.clock = IF @.over THEN FlClock ELSE @, !.count[u] = @ + 1]
FlAddMessage(u) ==
    IF fl_f.clock.over THEN FlNewF ELSE [fl_f EXCEPT !.count[u] = @ + 1]
FlAddJoin ==
    IF fl_j.clock.over THEN [fl_j EXCEPT !.clock = FlClock, !.count = 0] ELSE [fl_j EXCEPT !.count = @ + 1]

FlLocked == fl_j # <<>> /\ fl_j.lock > 0  \* islocked
\* m_kicknorejoin::OnUserPreJoin: an entry of u that still counts ends the walk with nothing
\* removed, otherwise everything that has run out goes.
FlBarred(u) == u \in DOMAIN fl_J.list /\ fl_J.list[u] > 0
FlPurged == Restrict(fl_J.list, {u \in DOMAIN fl_J.list : fl_J.list[u] > 0})

\* m_kicknorejoin::OnUserKick
FlNoRejoin(u) ==
    IF fl_J.set THEN [fl_J EXCEPT !.list = [v \in DOMAIN @ \cup {u} |-> IF v = u THEN FlDelay ELSE @[v]]]
    ELSE fl_J

\* OnChannelDelete of all three
FlGone(u) ==
    /\ fl_on' = fl_on \ {u}
    /\ fl_on = {u} => /\ fl_f' = <<>> /\ fl_j' = <<>> /\ fl_J' = [set |-> FALSE, list |-> <<>>]
                      /\ fl_away' = [v \in FlUsers |-> 0]

-----------------------------------------------------------------------------
(* Actions *)

FlSay(u) ==
    /\ u \in fl_on /\ fl_f # <<>> /\ u \notin FlOps
    /\ fl_said' = [fl_said EXCEPT ![u] = FlRecent(@, FlLines)] /\ UNCHANGED fl_joined
    /\ LET f == FlAddMessage(u) IN
       IF f.count[u] >= FlLines
       THEN /\ FlGone(u)
            /\ fl_on # {u} => /\ fl_f' = [f EXCEPT !.count[u] = 0] /\ UNCHANGED fl_j
                              /\ fl_J' = FlNoRejoin(u)
                              /\ fl_away' = [fl_away EXCEPT ![u] = IF fl_J.set THEN FlDelay ELSE 0]
            /\ fl_seen' = [kind |-> "flood", ages |-> FlRecent(fl_said[u], FlLines), away |-> 0]
       ELSE fl_f' = f /\ fl_seen' = FlNothing /\ UNCHANGED <<fl_on, fl_j, fl_J, fl_away>>

\* chanrec::JoinUser of a local client; forced: SAJOIN and clients of other servers are not asked.
FlJoin(u, forced) ==
    /\ u \notin fl_on
    /\ forced \/ ~(FlBarred(u) \/ FlLocked)
    /\ fl_on' = fl_on \cup {u}
    /\ fl_J' = (IF forced THEN fl_J ELSE [fl_J EXCEPT !.list = FlPurged])
    /\ fl_joined' = IF fl_j = <<>> THEN <<>> ELSE FlRecent(fl_joined, FlJoins)
    /\ LET locks == fl_j # <<>> /\ FlAddJoin.count >= FlJoins
       IN /\ fl_j' = IF fl_j = <<>> THEN <<>>
                     ELSE IF locks THEN [FlAddJoin EXCEPT !.count = 0, !.lock = FlLock + 1] ELSE FlAddJoin
          /\ fl_seen' = [kind |-> IF locks THEN "lock" ELSE IF forced THEN "none" ELSE "join",
                         ages |-> IF locks THEN FlRecent(fl_joined, FlJoins) ELSE <<>>, away |-> fl_away[u]]
    /\ UNCHANGED <<fl_f, fl_said, fl_away>>
FlKick(u) ==
    /\ u \in fl_on /\ FlGone(u)
    /\ fl_on # {u} => /\ fl_J' = FlNoRejoin(u) /\ UNCHANGED <<fl_f, fl_j>>
                      /\ fl_away' = [fl_away EXCEPT ![u] = IF fl_J.set THEN FlDelay ELSE 0]
    /\ fl_seen' = FlNothing /\ UNCHANGED <<fl_said, fl_joined>>
FlPart(u) ==
    /\ u \in fl_on /\ FlGone(u) /\ (fl_on # {u} => UNCHANGED <<fl_f, fl_j, fl_J, fl_away>>)
    /\ fl_seen' = FlNothing /\ UNCHANGED <<fl_said, fl_joined>>

FlRoom == Cardinality({m \in 1 .. 3 : <<fl_f # <<>>, fl_j # <<>>, fl_J.set>>[m]}) < FlMost
\* MODE; setting +f or +j with another parameter starts a new count.
FlModeF(on) ==
    /\ fl_on # {} /\ (on => fl_f # <<>> \/ FlRoom)
    /\ fl_f' = (IF on THEN FlNewF ELSE <<>>) /\ fl_said' = [u \in FlUsers |-> <<>>]
    /\ fl_seen' = FlNothing /\ UNCHANGED <<fl_on, fl_j, fl_J, fl_joined, fl_away>>
FlModeJ(on) ==
    /\ fl_on # {} /\ (on => fl_j # <<>> \/ FlRoom)
    /\ fl_j' = (IF on THEN FlNewJ ELSE <<>>) /\ fl_joined' = <<>>
    /\ fl_seen' = FlNothing /\ UNCHANGED <<fl_on, fl_f, fl_J, fl_said, fl_away>>
FlModeNoRejoin(on) ==
    /\ fl_on # {} /\ (on => ~fl_J.set /\ FlRoom)
    /\ fl_J' = (IF on THEN [fl_J EXCEPT !.set = TRUE] ELSE [set |-> FALSE, list |-> <<>>])
    /\ fl_away' = (IF on THEN fl_away ELSE [u \in FlUsers |-> 0])
    /\ fl_seen' = FlNothing /\ UNCHANGED <<fl_on, fl_f, fl_j, fl_said, fl_joined>>

FlTick ==
    /\ fl_f' = (IF fl_f = <<>> THEN fl_f ELSE [fl_f EXCEPT !.clock = FlTicked(@)])
    /\ fl_j' = (IF fl_j = <<>> THEN fl_j
                ELSE [fl_j EXCEPT !.clock = FlTicked(@), !.lock = IF @ = 0 THEN 0 ELSE @ - 1])
    /\ fl_J' = [fl_J EXCEPT !.list = [u \in DOMAIN @ |-> IF @[u] = 0 THEN 0 ELSE @[u] - 1]]
    /\ fl_away' = [u \in FlUsers |-> IF fl_away[u] = 0 THEN 0 ELSE fl_away[u] - 1]
    /\ fl_said' = [u \in FlUsers |-> FlOlder(fl_said[u])] /\ fl_joined' = FlOlder(fl_joined)
    /\ fl_seen' = FlNothing /\ UNCHANGED fl_on

FloodNext ==
    \/ FlTick
    \/ \E on \in BOOLEAN : FlModeF(on) \/ FlModeJ(on) \/ FlModeNoRejoin(on)
    \/ \E u \in FlUsers : FlSay(u) \/ FlKick(u) \/ FlPart(u) \/ \E forced \in BOOLEAN : FlJoin(u, forced)
FloodSpec == FloodInit /\ [][FloodNext]_fl_vars

-----------------------------------------------------------------------------
(* Properties *)

\* Nobody is thrown out for fewer lines than +f says, nor for lines further apart.
FlFlooded ==
    fl_seen.kind = "flood" =>
        Len(fl_seen.ages) = FlLines /\ \A i \in DOMAIN fl_seen.ages : fl_seen.ages[i] <= FlSecs
\* The channel is closed only after as many joins as +j says, within that time.
FlClosed ==
    fl_seen.kind = "lock" =>
        Len(fl_seen.ages) = FlJoins /\ \A i \in DOMAIN fl_seen.ages : fl_seen.ages[i] <= FlSecs
\* Who was kicked under +J is not back by himself before the delay is over, whoever else joined
\* or was kicked meanwhile.
FlStaysAway == fl_seen.kind = "join" => fl_seen.away = 0

\* Nobody is punished on stale counters: a kick needs as many lines, a lock as many joins, as the mode says within
\* its time, and who was kicked stays away for the time of +J.
FlCounted == FlFlooded /\ FlClosed /\ FlStaysAway
=============================================================================

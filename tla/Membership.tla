----------------------------- MODULE Membership -----------------------------
(***************************************************************************)
(* What channels promise, without the records they are kept in: who is     *)
(* online, who is on which channel and who is an operator there.  A client *)
(* becomes an operator by founding a channel, or by the act of an operator *)
(* or of another server; whoever goes offline is on no channel.            *)
(***************************************************************************)
CONSTANTS Users, Local, Chans

VARIABLES
    online,     \* registered clients
    on,         \* <<u, c>>: u is on c
    ops         \* <<u, c>>: u is an operator of c

vars == <<online, on, ops>>

Init == online = {} /\ on = {} /\ ops = {}

Founded(c) == \E u \in Users : <<u, c>> \in on

Arrive(u) ==
    /\ online' = online \cup {u}
    /\ UNCHANGED <<on, ops>>

Enter(u, c) ==
    /\ u \in online /\ <<u, c>> \notin on
    /\ on' = on \cup {<<u, c>>}
    /\ ops' = ops \/ (~Founded(c) /\ ops' = ops \cup {<<u, c>>})
    /\ UNCHANGED online

Leave(u, c) ==
    /\ on' = on \ {<<u, c>>}
    /\ ops' = ops \ {<<u, c>>}
    /\ UNCHANGED online

Promote(u, c) ==
    /\ <<u, c>> \in on
    /\ \E s \in online : <<s, c>> \in ops \/ s \notin Local
    /\ ops' = ops \cup {<<u, c>>}
    /\ UNCHANGED <<online, on>>

Demote(u, c) ==
    /\ ops' = ops \ {<<u, c>>}
    /\ UNCHANGED <<online, on>>

\* Any set of clients may go offline at once.
Depart(gone) ==
    /\ online' = online \ gone
    /\ on' = {p \in on : p[1] \notin gone}
    /\ ops' = {p \in ops : p[1] \notin gone}

Next ==
    \/ \E u \in Users : Arrive(u)
    \/ \E u \in Users, c \in Chans :
          Enter(u, c) \/ Leave(u, c) \/ Promote(u, c) \/ Demote(u, c)
    \/ \E gone \in SUBSET Users : Depart(gone)

Spec == Init /\ [][Next]_vars
=============================================================================

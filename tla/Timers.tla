------------------------------- MODULE Timers -------------------------------
(***************************************************************************)
(* TimerManager (timer.cpp, timer.h): the one-second timers of the server, *)
(* its DNS resolver, its sockets and its modules.                          *)
(*                                                                         *)
(* TimerManager::Timers maps a second to the group of timers to tick then. *)
(* Time is kept relative here: due[t] is the number of seconds left before *)
(* the key t is queued under, and Past stands for every key TIME has gone  *)
(* beyond.  TickTimers takes one step to start a Tick and one to end it,   *)
(* and what a Tick calls (AddTimer, DelTimer, CancelRepeat) happens in     *)
(* between.  Reading a freed timer, or going on with an iterator DelTimer  *)
(* has invalidated, sets corrupt and ends the behaviour: a Tick that       *)
(* deletes a repeating timer the loop has reached, its own for one, leads  *)
(* there, and DelReached says which Ticks do.                              *)
(***************************************************************************)
EXTENDS Integers

CONSTANTS
    Timers,         \* InspTimer objects
    NoTimer,        \* "no timer is ticking"
    Secs,           \* the secs_from_now each is constructed with
    MaxSecs,        \* bound on Secs
    Repeating,      \* those constructed with repeating = true
    Lag,            \* how far time(NULL) may be ahead of InspIRCd::Time()
    Steps,          \* by how much TIME may advance from an iteration to the next
    DelOutside,     \* timers whose owner calls DelTimer outside every Tick
    DelInTick,      \* timers some Tick calls DelTimer on
    DelReached      \* of these, the ones it may still delete when the loop has reached them

ASSUME TimersOK ==
    /\ NoTimer \notin Timers
    /\ MaxSecs \in Nat
    /\ Secs \in [Timers -> 1 .. MaxSecs]
    /\ Repeating \subseteq Timers
    /\ Lag \in Nat
    /\ Steps \subseteq Nat \ {0}
    /\ DelOutside \subseteq Timers /\ DelInTick \subseteq Timers
    /\ DelReached \subseteq DelInTick

VARIABLES
    alive,          \* timers allocated
    repeating,      \* those with repeat = true
    queue,          \* timers in TimerManager::Timers, save the group below
    due,            \* seconds until the key each is queued under
    moved,          \* queued by TickTimers, no longer under GetTimer()
    group,          \* in the group TickTimers iterates over, not ticked yet
    done,           \* ticked in this pass, and the group is under GetTimer()
    current,        \* the timer whose Tick is running
    corrupt,        \* undefined behaviour has happened
    deleted         \* DelTimer was called outside a Tick and has returned

vars == <<alive, repeating, queue, due, moved, group, done, current, corrupt, deleted>>

Past == -1

TypeOK ==
    /\ alive \subseteq Timers
    /\ repeating \subseteq Repeating
    /\ queue \subseteq Timers
    /\ due \in [Timers -> Past .. MaxSecs + Lag]
    /\ moved \subseteq Timers
    /\ group \subseteq Timers /\ done \subseteq Timers
    /\ current \in Timers \cup {NoTimer}
    /\ corrupt \in BOOLEAN
    /\ deleted \subseteq Timers

Init ==
    /\ alive = {} /\ repeating = {} /\ queue = {} /\ moved = {}
    /\ due = [t \in Timers |-> Past]
    /\ group = {} /\ done = {} /\ current = NoTimer
    /\ corrupt = FALSE /\ deleted = {}

\* CantDeleteHere: TickTimers is iterating.
CantDeleteHere == current # NoTimer \/ group # {}

\* Timers.find(T->GetTimer()) finds T: a re-queued timer keeps the trigger it
\* was constructed with, and is under another key.
Found(t) == t \in queue \ moved

\* The loop has come to t, and Timers.find(t->GetTimer()) finds its group.
Reached(t) == t \in done \/ (t = current /\ t \notin moved)

-----------------------------------------------------------------------------
\* new InspTimer and AddTimer(T): by a handler or from inside a Tick.  Some
\* constructors pass Time(), others time(NULL).
Create_twice(t) ==  \* mutant: queued under GetTimer() + GetSecs()
    /\ ~corrupt
    /\ t \notin alive
    /\ group # {} => current # NoTimer
    /\ alive' = alive \cup {t}
    /\ repeating' = repeating \cup ({t} \cap Repeating)
    /\ queue' = queue \cup {t}
    /\ \E lag \in 0 .. Lag : due' = [due EXCEPT ![t] = 2 * Secs[t] + lag]
    /\ moved' = moved \ {t}
    /\ deleted' = deleted \ {t}
    /\ UNCHANGED <<group, done, current, corrupt>>
Create(t) ==
    /\ ~corrupt
    /\ t \notin alive
    /\ group # {} => current # NoTimer
    /\ alive' = alive \cup {t}
    /\ repeating' = repeating \cup ({t} \cap Repeating)
    /\ queue' = queue \cup {t}
    /\ \E lag \in 0 .. Lag : due' = [due EXCEPT ![t] = Secs[t] + lag]
    /\ moved' = moved \ {t}
    /\ deleted' = deleted \ {t}
    /\ UNCHANGED <<group, done, current, corrupt>>

\* An iteration of the main loop k seconds after the last: TickTimers(TIME)
\* takes the group of this very second.  TickMissedTimers, every five seconds,
\* calls TickTimers(TIME) again and again: that group is gone by then.
TimePasses_early(k) ==  \* mutant: the group of the second after, too, is erased
    /\ ~corrupt /\ ~CantDeleteHere
    /\ group' = {t \in queue : due[t] = k}
    /\ queue' = {t \in queue : due[t] \notin {k, k + 1}}
    /\ due' = [t \in Timers |-> IF due[t] >= k THEN due[t] - k ELSE Past]
    /\ UNCHANGED <<alive, repeating, moved, done, current, corrupt, deleted>>
TimePasses(k) ==
    /\ ~corrupt /\ ~CantDeleteHere
    /\ group' = {t \in queue : due[t] = k}
    /\ queue' = queue \ group'
    /\ due' = [t \in Timers |-> IF due[t] >= k THEN due[t] - k ELSE Past]
    /\ UNCHANGED <<alive, repeating, moved, done, current, corrupt, deleted>>

\* TickTimers calls n->Tick(TIME).
BeginTick(t) ==
    /\ ~corrupt
    /\ current = NoTimer /\ t \in group
    /\ current' = t
    /\ group' = group \ {t}
    /\ corrupt' = (t \notin alive)
    /\ UNCHANGED <<alive, repeating, queue, due, moved, done, deleted>>

\* After Tick returns: AddTimer(n, n->GetSecs()) or DELETE(n).
EndTick_stale(t) ==  \* mutant: queued again under GetTimer()
    /\ ~corrupt
    /\ current = t
    /\ current' = NoTimer
    /\ IF t \in repeating
       THEN queue' = queue \cup {t} /\ UNCHANGED <<alive, due>>
       ELSE alive' = alive \ {t} /\ UNCHANGED <<queue, due>>
    /\ done' = IF group = {} THEN {} ELSE done
    /\ UNCHANGED <<repeating, moved, group, corrupt, deleted>>
EndTick(t) ==
    /\ ~corrupt
    /\ current = t
    /\ current' = NoTimer
    /\ IF t \in repeating
       THEN /\ queue' = queue \cup {t}
            /\ due' = [due EXCEPT ![t] = Secs[t]]
            /\ moved' = moved \cup {t}
            /\ done' = IF group = {} THEN {}
                       ELSE IF t \in moved THEN done ELSE done \cup {t}
            /\ UNCHANGED alive
       ELSE /\ alive' = alive \ {t}
            /\ done' = IF group = {} THEN {} ELSE done
            /\ UNCHANGED <<queue, due, moved>>
    /\ UNCHANGED <<repeating, group, corrupt, deleted>>

\* CancelRepeat from the timer's own Tick.
CancelRepeat(t) ==
    /\ ~corrupt
    /\ current = t /\ t \in repeating
    /\ repeating' = repeating \ {t}
    /\ UNCHANGED <<alive, queue, due, moved, group, done, current, corrupt, deleted>>

\* DelTimer outside TickTimers, by an owner that still holds the timer.
DelTimer(t) ==
    /\ ~corrupt /\ ~CantDeleteHere
    /\ t \in (DelOutside \cap alive) \ deleted
    /\ queue' = IF Found(t) THEN queue \ {t} ELSE queue
    /\ alive' = IF Found(t) THEN alive \ {t} ELSE alive
    /\ repeating' = IF Found(t) THEN repeating \ {t} ELSE repeating
    /\ deleted' = deleted \cup {t}
    /\ UNCHANGED <<due, moved, group, done, current, corrupt>>

\* DelTimer from inside a Tick.  It returns at once for a one-shot timer; a
\* repeating one is cancelled and then looked up like any other, and deleted
\* where it is found.  The loop goes on to read one it has reached.
DelTimerInTick(t) ==
    /\ ~corrupt /\ current # NoTimer
    /\ t \in DelInTick \cap alive \cap repeating
    /\ Reached(t) => t \in DelReached
    /\ repeating' = repeating \ {t}
    /\ IF Found(t) \/ t \in group \ moved
       THEN /\ queue' = queue \ {t} /\ group' = group \ {t}
            /\ alive' = alive \ {t}
            /\ UNCHANGED corrupt
       ELSE /\ alive' = IF Reached(t) THEN alive \ {t} ELSE alive
            /\ corrupt' = Reached(t)
            /\ UNCHANGED <<queue, group>>
    /\ UNCHANGED <<due, moved, done, current, deleted>>

Next ==
    \/ \E k \in Steps : TimePasses(k)
    \/ \E t \in Timers :
          \/ Create(t) \/ BeginTick(t) \/ EndTick(t)
          \/ CancelRepeat(t) \/ DelTimer(t) \/ DelTimerInTick(t)

Spec == Init /\ [][Next]_vars

\* The main loop never stops iterating, and a Tick returns.
Fairness ==
    /\ WF_vars(\E k \in Steps : TimePasses(k))
    /\ WF_vars(\E t \in Timers : BeginTick(t))
    /\ WF_vars(\E t \in Timers : EndTick(t))

FairSpec == Spec /\ Fairness

-----------------------------------------------------------------------------
(* Properties *)

\* Every allocated timer is somewhere it will be ticked from, and only those are: none is leaked, and none is
\* queued, or ticking, when it has been freed.
NoneLost == alive = queue \cup group \cup ({current} \cap Timers)

\* The comment in DelTimer: a Tick may delete timers, "because we know that the timer tick loop will safely delete
\* the timer for us anyway".  No freed timer and no invalidated iterator is used.
NoneFreed == ~corrupt

\* timer.h: the manager "will ensure timers are not missed".  No queued timer
\* is under a second that has passed or is passing.
NoneMissed == \A t \in queue : due[t] > 0

\* A timer its owner deleted is not ticked afterwards.
DeletedStaysSilent == current \notin deleted

\* Every queued timer is ticked, unless it is deleted first.
EveryTimerTicks ==
    \A t \in Timers : t \in queue ~> (current = t \/ t \notin alive)

\* As long as no Tick deletes a repeating timer the loop has reached, a timer is where the manager will find it until
\* it has ticked or was deleted: none is leaked, freed under the loop, left behind under a second that has passed, or
\* ticked after its owner deleted it.
TimersKept == NoneLost /\ NoneFreed /\ NoneMissed /\ DeletedStaysSilent
=============================================================================

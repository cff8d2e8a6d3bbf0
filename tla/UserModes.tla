----------------------------- MODULE UserModes -----------------------------
(***************************************************************************)
(* User modes: the mode parser on a user's own MODE line (mode.cpp), the   *)
(* handlers of +i, +s, +n and +o (modes/umode_*.cpp), the count each       *)
(* handler keeps and the list of operators, on the user's server "own" and *)
(* on the server "other" that is told of him: NICK with his modes, OPERTYPE *)
(* and the changes his server announces.  The link splits and comes back.  *)
(***************************************************************************)
EXTENDS Integers, Sequences, FiniteSets, SequencesExt

CONSTANTS
    UmUsers,
    UmSplits,       \* bound: how often the link splits
    UmWire          \* bound: lines on their way

ASSUME UserModesOK == UmSplits \in Nat /\ UmWire \in Nat

VARIABLES
    um_at,          \* what each server knows, see UmServer
    um_wire,        \* the lines from "own" to "other"
    um_linked,
    um_splits       \* how often the link has split

um_vars == <<um_at, um_wire, um_linked, um_splits>>

UmLetters == {"i", "n", "o", "s"}
UmOperOnly == {"n", "o"}    \* NeedsOper()

\* A letter of a MODE line with its sign; +n takes notice masks: one that exists, or not.
UmItems ==
    [on : BOOLEAN, letter : {"i", "o", "s"}, arg : {"none"}]
    \cup [on : {TRUE}, letter : {"n"}, arg : {"known", "unknown"}]
    \cup [on : {FALSE}, letter : {"n"}, arg : {"none"}]
UmLines ==  \* one letter, or an operator's mode followed by one for everybody
    {<<a>> : a \in UmItems}
    \cup {<<a, b>> : a \in {i \in UmItems : i.letter \in {"n", "o"}}, b \in {i \in UmItems : i.letter \in {"i", "s"}}}

UmServer ==
    [users : SUBSET UmUsers,                \* clientlist
     modes : [UmUsers -> SUBSET UmLetters], \* userrec::modes
     masks : [UmUsers -> BOOLEAN],          \* userrec::snomasks: the one mask there is
     oper  : [UmUsers -> BOOLEAN],          \* userrec::oper is not empty
     opers : [UmUsers -> Nat],              \* how often all_opers holds him
     count : [{"i", "s"} -> Int]]           \* ModeHandler::count

UserModesTypeOK ==
    /\ um_at \in [{"own", "other"} -> UmServer]
    /\ \A k \in DOMAIN um_wire : um_wire[k].cmd \in {"NICK", "OPERTYPE", "MODE", "QUIT"} /\ um_wire[k].user \in UmUsers
    /\ Len(um_wire) <= UmWire /\ um_linked \in BOOLEAN /\ um_splits \in 0 .. UmSplits

UmNothing ==
    [users |-> {}, modes |-> [u \in UmUsers |-> {}], masks |-> [u \in UmUsers |-> FALSE],
     oper |-> [u \in UmUsers |-> FALSE], opers |-> [u \in UmUsers |-> 0],
     count |-> [l \in {"i", "s"} |-> 0]]

UserModesInit ==
    /\ um_at = [s \in {"own", "other"} |-> UmNothing]
    /\ um_wire = <<>> /\ um_linked = TRUE /\ um_splits = 0

-----------------------------------------------------------------------------
(* The handlers, on what one server knows: the change, and whether it is allowed. *)

UmSet(v, u, letter, on) ==
    [v EXCEPT !.modes[u] = IF on THEN @ \cup {letter} ELSE @ \ {letter}]

UmChangeCount(v, letter, by) ==
    IF letter \in {"i", "s"} THEN [v EXCEPT !.count[letter] = @ + by] ELSE v

UmFlag(v, u, item) ==
    [v |-> UmSet(v, u, item.letter, item.on), ok |-> (item.letter \in v.modes[u]) # item.on]

\* userrec::UnOper
UmUnOper(v, u) ==
    IF v.oper[u] THEN UmSet([v EXCEPT !.oper[u] = FALSE, !.opers[u] = IF @ > 0 THEN @ - 1 ELSE 0], u, "o", FALSE)
    ELSE v

\* userrec::Oper, and what OPERTYPE does of it on another server: the list, the type, the mode.
UmGrant(v, u) == UmSet([v EXCEPT !.oper[u] = TRUE, !.opers[u] = @ + 1], u, "o", TRUE)

\* umode_o: only taken away, and only by an operator.
UmOperator(v, u, item) ==
    IF v.oper[u] /\ ~item.on THEN [v |-> UmUnOper(v, u), ok |-> TRUE] ELSE [v |-> v, ok |-> FALSE]

\* umode_n: +n sets +s as well, by a mode change of its own that other servers are not
\* told of; when no mask changes the parameter becomes empty and +n is not announced.
UmNotices(v, u, item) ==
    LET masks == "n" \in v.modes[u] /\ v.masks[u]
        set == UmSet([v EXCEPT !.masks[u] = masks \/ item.arg = "known"], u, "n", TRUE)
        s == UmFlag(set, u, [on |-> TRUE, letter |-> "s", arg |-> "none"]) IN
    IF item.on
    THEN [v |-> IF s.ok THEN UmChangeCount(s.v, "s", 1) ELSE set, ok |-> ~masks /\ item.arg = "known"]
    ELSE [v |-> UmSet(v, u, "n", FALSE), ok |-> "n" \in v.modes[u]]

UmOnModeChange(v, u, item) ==
    CASE item.letter \in {"i", "s"} -> UmFlag(v, u, item)
      [] item.letter = "o" -> UmOperator(v, u, item)
      [] item.letter = "n" -> UmNotices(v, u, item)

\* ModeParser::Process for a user and himself: what becomes of v, and what is announced.
UmProcess(v, u, line, local) ==
    LET step(acc, item) ==
            LET done == UmOnModeChange(acc.v, u, item) IN
            IF local /\ item.letter \in UmOperOnly /\ ~acc.v.oper[u] THEN acc
            ELSE IF ~done.ok THEN [acc EXCEPT !.v = done.v]
            ELSE [v |-> UmChangeCount(done.v, item.letter, IF item.on THEN 1 ELSE -1),
                  out |-> Append(acc.out, item)] IN
    FoldLeft(step, [v |-> v, out |-> <<>>], line)

\* ~userrec, at the end of the turn: DecrementModes, UnOper.
UmGone(v, u) ==
    LET left == UmUnOper(v, u) IN
    [left EXCEPT !.users = @ \ {u}, !.modes[u] = {}, !.masks[u] = FALSE,
                 !.count = [l \in {"i", "s"} |-> IF l \in left.modes[u] THEN @[l] - 1 ELSE @[l]]]

\* A version that counts a mode when its handler has changed it, and by hand as well.
UmIntroduce_counted(v, u, modes) ==
    LET step(acc, letter) ==
            LET done == UmOnModeChange(acc, u, [on |-> TRUE, letter |-> letter, arg |-> "none"])
                told == IF done.ok THEN UmChangeCount(done.v, letter, 1) ELSE done.v IN
            IF letter \in modes THEN UmChangeCount(UmSet(told, u, letter, TRUE), letter, 1) ELSE acc IN
    FoldLeft(step, [v EXCEPT !.users = @ \cup {u}], <<"i", "n", "o", "s">>)

\* IntroduceClient: the handlers are called for each mode, in the order of the letters,
\* then the mode is set and counted whatever they said.
UmIntroduce(v, u, modes) ==
    LET step(acc, letter) ==
            LET told == UmOnModeChange(acc, u, [on |-> TRUE, letter |-> letter, arg |-> "none"]).v IN
            IF letter \in modes THEN UmChangeCount(UmSet(told, u, letter, TRUE), letter, 1) ELSE acc IN
    FoldLeft(step, [v EXCEPT !.users = @ \cup {u}], <<"i", "n", "o", "s">>)

-----------------------------------------------------------------------------
(* The users' server *)

UmNick(v, u) == [cmd |-> "NICK", user |-> u, modes |-> v.modes[u]]
UmOperType(u) == [cmd |-> "OPERTYPE", user |-> u]

\* DoOneToMany: the lines go out when there is a link.
UmSend(lines) ==
    /\ um_wire' = IF um_linked THEN um_wire \o lines ELSE um_wire
    /\ Len(um_wire') <= UmWire

UmConnect(u) ==
    /\ u \notin um_at["own"].users
    /\ um_at' = [um_at EXCEPT !["own"].users = @ \cup {u}]
    /\ UmSend(<<UmNick(um_at["own"], u)>>)
    /\ UNCHANGED <<um_linked, um_splits>>

UmMode(u, line) ==
    LET done == UmProcess(um_at["own"], u, line, TRUE) IN
    /\ u \in um_at["own"].users
    /\ um_at' = [um_at EXCEPT !["own"] = done.v]
    /\ UmSend(IF done.out = <<>> THEN <<>> ELSE <<[cmd |-> "MODE", user |-> u, line |-> done.out]>>)
    /\ UNCHANGED <<um_linked, um_splits>>

\* OPER with the right password; Oper() unless the user has +o already.
UmOper(u) ==
    /\ u \in um_at["own"].users /\ "o" \notin um_at["own"].modes[u]
    /\ um_at' = [um_at EXCEPT !["own"] = UmGrant(@, u)]
    /\ UmSend(<<UmOperType(u)>>)
    /\ UNCHANGED <<um_linked, um_splits>>

UmQuit(u) ==
    /\ u \in um_at["own"].users
    /\ um_at' = [um_at EXCEPT !["own"] = UmGone(@, u)]
    /\ UmSend(<<[cmd |-> "QUIT", user |-> u]>>)
    /\ UNCHANGED <<um_linked, um_splits>>

-----------------------------------------------------------------------------
(* The other server *)

UmRead(cmd, result) ==
    /\ um_wire # <<>> /\ Head(um_wire).cmd = cmd
    /\ um_wire' = Tail(um_wire)
    /\ um_at' = [um_at EXCEPT !["other"] = result]
    /\ UNCHANGED <<um_linked, um_splits>>

UmHeard == Head(um_wire)
UmOther == um_at["other"]

UmReadNick == UmRead("NICK", UmIntroduce(UmOther, UmHeard.user, UmHeard.modes))
UmReadMode == UmRead("MODE", UmProcess(UmOther, UmHeard.user, UmHeard.line, FALSE).v)
UmReadQuit == UmRead("QUIT", UmGone(UmOther, UmHeard.user))
UmReadOperType == UmRead("OPERTYPE", UmGrant(UmOther, UmHeard.user))

\* The link splits: all its users quit there, and what was on the way is lost.
UmSplit ==
    /\ um_linked /\ um_splits < UmSplits
    /\ um_linked' = FALSE /\ um_wire' = <<>> /\ um_splits' = um_splits + 1
    /\ um_at' = [um_at EXCEPT !["other"] = FoldLeft(UmGone, @, SetToSeq(@.users))]

\* It is back: SendUsers, each with his modes and OPERTYPE.
UmBurst(v, u) == IF v.oper[u] THEN <<UmNick(v, u), UmOperType(u)>> ELSE <<UmNick(v, u)>>
UmLink ==
    /\ ~um_linked /\ um_linked' = TRUE
    /\ um_wire' = FoldLeft(LAMBDA lines, u : lines \o UmBurst(um_at["own"], u), <<>>, SetToSeq(um_at["own"].users))
    /\ Len(um_wire') <= UmWire
    /\ UNCHANGED <<um_at, um_splits>>

UserModesNext ==
    \/ \E u \in UmUsers : UmConnect(u) \/ UmOper(u) \/ UmQuit(u)
    \/ \E u \in UmUsers, line \in UmLines : UmMode(u, line)
    \/ UmReadNick \/ UmReadOperType \/ UmReadMode \/ UmReadQuit
    \/ UmSplit
    \/ UmLink

UserModesSpec == UserModesInit /\ [][UserModesNext]_um_vars

-----------------------------------------------------------------------------
(* Properties *)

\* all_opers is walked for every server notice and holds pointers: on both servers it holds
\* each operator once, and nobody else, so none is left there when his record is freed.
UmOpersOnce ==
    \A s \in DOMAIN um_at, u \in UmUsers :
       um_at[s].opers[u] = IF u \in um_at[s].users /\ um_at[s].oper[u] THEN 1 ELSE 0

\* LUSERS reports the count of +i: it is the number of invisible users, whichever way their
\* modes came about - a MODE line, an introduction - and went.
UmInvisibleCounted ==
    \A s \in DOMAIN um_at :
       um_at[s].count["i"] = Cardinality({u \in um_at[s].users : "i" \in um_at[s].modes[u]})

\* Once the other server has heard everything it knows the users, who is invisible and who is
\* an operator: what the parser announces is what it did.
UmReplayed ==
    um_linked /\ um_wire = <<>> =>
       /\ um_at["other"].users = um_at["own"].users
       /\ um_at["other"].oper = um_at["own"].oper
       /\ \A u \in UmUsers : um_at["other"].modes[u] \cap {"i", "o"} = um_at["own"].modes[u] \cap {"i", "o"}

\* The list of operators and the counts are those of the modes clients have, on the server they use and on one
\* that only reads their lines, whatever splits and bursts came between.
UmSound == UmOpersOnce /\ UmInvisibleCounted /\ UmReplayed
=============================================================================

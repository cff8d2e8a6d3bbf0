------------------------------- MODULE Speech -------------------------------
(***************************************************************************)
(* PRIVMSG and NOTICE on one server: cmd_privmsg and cmd_notice ask every  *)
(* module, in the order they were loaded, whether the text may pass; a     *)
(* module can refuse it, change it for those after it, or take members off *)
(* the audience.                                                           *)
(***************************************************************************)
EXTENDS Naturals, Sequences, FiniteSets, SequencesExt, Functions

CONSTANTS
    SpUsers, SpLocal,    \* clients, and those of this server
    SpModeSets,          \* channel modes among c C T P g G S n m
    SpUserModes,         \* the user modes among d S G that a client may set
    SpSilencers,         \* <<v, u>>: v may put u on his silence list
    SpPrefixes,          \* prefixes among "", "+", "%" and "@"
    SpTexts,             \* lines of "w", "." , "^" (a colour code) and "!" (a CTCP mark)
    SpOrders,            \* orders of the hooks, as modules may be loaded
    SpExemptOps,         \* <options:exemptchanops>
    SpReplace            \* <badword> has a replacement

ASSUME SpeechOK ==
    /\ SpLocal \subseteq SpUsers
    /\ {} \in SpModeSets /\ SpTexts \subseteq Seq(STRING)
    /\ SpOrders \subseteq Seq(STRING) /\ \A o \in SpOrders : IsInjective(o)
    \* A channel has a mode of a module only while that module is loaded.
    /\ \A o \in SpOrders, modes \in SpModeSets : modes \subseteq Range(o) \cup {"n", "m"}

VARIABLES
    sp_on,        \* members of the channel -> "", "+", "%" or "@"
    sp_cm,        \* modes of the channel
    sp_um,        \* modes of a client
    sp_silence,   \* <<v, u>>: v has u on his silence list
    sp_order,     \* the hooks as they are called
    sp_heard      \* the last delivery; only the properties read it

sp_vars == <<sp_on, sp_cm, sp_um, sp_silence, sp_order, sp_heard>>

SpeechTypeOK ==
    /\ DOMAIN sp_on \subseteq SpUsers /\ Range(sp_on) \subseteq {"", "+", "%", "@"}
    /\ sp_cm \in SpModeSets /\ \A u \in SpUsers : sp_um[u] \subseteq SpUserModes[u]
    /\ sp_silence \subseteq SpSilencers

SpQuiet == [from |-> {}, to |-> {}, text |-> <<>>, op |-> FALSE, modes |-> {}, public |-> FALSE]
SpeechInit ==
    /\ sp_on = <<>> /\ sp_cm = {} /\ sp_um = [u \in SpUsers |-> {}] /\ sp_silence = {}
    /\ sp_order \in SpOrders /\ sp_heard = SpQuiet

-----------------------------------------------------------------------------
(* What the hooks do to a text *)

SpStatus(u) == IF u \in DOMAIN sp_on THEN sp_on[u] ELSE ""
\* The hooks that do not look at what u says to the channel.
SpLetOff(u) ==
    (IF SpStatus(u) = "@" THEN SpExemptOps \cap {"c", "g", "S"} ELSE {})
    \cup (IF SpStatus(u) \in {"@", "%"} THEN {"T"} ELSE {})
SpHasWord(t) == \E i \in 1 .. Len(t) - 1 : t[i] = "w" /\ t[i + 1] = "w"

\* ModuleStripColor::ReplaceLine
SpStrip(t) == FoldLeft(LAMBDA kept, x : IF x = "^" THEN kept ELSE Append(kept, x), <<>>, t)
\* ModuleCensor::ReplaceLine
SpCensor(t) ==
    FoldLeft(LAMBDA acc, x : IF acc # <<>> /\ Last(acc) = "w" /\ x = "w"
                             THEN Append(Front(acc), ".") ELSE Append(acc, x), <<>>, t)

\* What each hook refuses.
SpBlockColor(t) == "^" \in Range(t)
SpNoCtcp(t) == t # <<>> /\ t[1] = "!"
SpNoNotice(kind) == kind = "NOTICE"
SpBlockCaps(t) == t # <<>> /\ Range(t) = {"w"}
SpChanFilter(t) == SpHasWord(t)
SpBadWord(t) == SpHasWord(t) /\ ~SpReplace
SpBlocks(h, kind, t) ==
    \/ h = "c" /\ SpBlockColor(t)
    \/ h = "C" /\ SpNoCtcp(t)
    \/ h = "T" /\ SpNoNotice(kind)
    \/ h = "P" /\ SpBlockCaps(t)
    \/ h = "g" /\ SpChanFilter(t)
    \/ h = "G" /\ SpBadWord(t)
SpRewrites(h, t) == IF h = "S" THEN SpStrip(t) ELSE IF h = "G" THEN SpCensor(t) ELSE t

\* FOREACH_RESULT: the first refusal ends the walk, a changed text is what the next hook sees.
SpWalk(hooks, kind, t) ==
    FoldLeft(LAMBDA acc, h : IF h \notin hooks \/ ~acc.ok THEN acc
                             ELSE [ok |-> ~SpBlocks(h, kind, acc.text), text |-> SpRewrites(h, acc.text)],
             [ok |-> TRUE, text |-> t], sp_order)

\* Modules look at lines of local clients only.
SpPass(hooks, u, kind, t) ==
    IF u \in SpLocal THEN SpWalk(hooks, kind, t) ELSE [ok |-> TRUE, text |-> t]

\* The list WriteAllExcept walks for a prefix; only one's highest prefix is looked at.
SpAddressed(st) == {v \in DOMAIN sp_on : st = "" \/ sp_on[v] = st}
\* PreText of m_deaf and m_silence_ext, which does nothing for a sender of another server.
SpTakenOff_wide(u, st) ==  \* mutant: only a line to everybody is looked at
    IF u \in SpLocal /\ st = ""
    THEN {v \in SpLocal \cap DOMAIN sp_on : "d" \in sp_um[v] \/ <<v, u>> \in sp_silence} ELSE {}
SpTakenOff(u, st) ==
    IF u \in SpLocal
    THEN {v \in SpLocal \cap SpAddressed(st) : "d" \in sp_um[v] \/ <<v, u>> \in sp_silence} ELSE {}

-----------------------------------------------------------------------------
(* Actions *)

\* To the channel, or to those of it with a prefix.
SpSay(u, kind, st, t) ==
    LET passed == SpPass(sp_cm \ SpLetOff(u), u, kind, t)
    IN /\ DOMAIN sp_on # {}
       /\ u \in SpLocal => /\ "n" \in sp_cm => u \in DOMAIN sp_on
                           /\ "m" \in sp_cm => SpStatus(u) # ""
       /\ passed.ok /\ passed.text # <<>>
       /\ sp_heard' = [from |-> {u}, text |-> passed.text, op |-> SpStatus(u) = "@",
                       modes |-> sp_cm, public |-> TRUE,
                       to |-> (SpAddressed(st) \cap SpLocal) \ (SpTakenOff(u, st) \cup {u})]
       /\ UNCHANGED <<sp_on, sp_cm, sp_um, sp_silence, sp_order>>
\* To a client: the same hooks look at his modes.
SpPrivate(u, v, t) ==
    LET passed == SpPass(sp_um[v] \cap {"S", "G"}, u, "PRIVMSG", t)
    IN /\ u # v /\ t # <<>> /\ passed.ok /\ ~(u \in SpLocal /\ <<v, u>> \in sp_silence)
       /\ sp_heard' = [from |-> {u}, text |-> passed.text, op |-> FALSE, modes |-> {},
                       public |-> FALSE, to |-> {v} \cap SpLocal]
       /\ UNCHANGED <<sp_on, sp_cm, sp_um, sp_silence, sp_order>>

SpPrivmsg(u, st, t) == SpSay(u, "PRIVMSG", st, t)
SpNotice(u, st, t) == SpSay(u, "NOTICE", st, t)

SpQuietly == sp_heard' = SpQuiet
SpJoin(u, st) ==
    /\ u \notin DOMAIN sp_on
    /\ sp_on' = [v \in DOMAIN sp_on \cup {u} |-> IF v = u THEN st ELSE sp_on[v]] /\ SpQuietly
    /\ UNCHANGED <<sp_cm, sp_um, sp_silence, sp_order>>
SpPart(u) ==
    /\ u \in DOMAIN sp_on /\ sp_on' = Restrict(sp_on, DOMAIN sp_on \ {u})
    /\ sp_cm' = (IF DOMAIN sp_on = {u} THEN {} ELSE sp_cm) /\ SpQuietly
    /\ UNCHANGED <<sp_um, sp_silence, sp_order>>
SpMode(modes) ==
    /\ DOMAIN sp_on # {} /\ sp_cm' = modes /\ SpQuietly
    /\ UNCHANGED <<sp_on, sp_um, sp_silence, sp_order>>
SpUserMode(u, modes) ==
    /\ sp_um' = [sp_um EXCEPT ![u] = modes] /\ SpQuietly
    /\ UNCHANGED <<sp_on, sp_cm, sp_silence, sp_order>>
SpSilenceCmd(p) ==
    /\ sp_silence' = (sp_silence \cup {p}) \ (sp_silence \cap {p}) /\ SpQuietly
    /\ UNCHANGED <<sp_on, sp_cm, sp_um, sp_order>>

SpeechNext ==
    \/ \E p \in SpSilencers : SpSilenceCmd(p)
    \/ \E modes \in SpModeSets : SpMode(modes)
    \/ \E u \in SpUsers :
         \/ SpPart(u)
         \/ \E modes \in SUBSET SpUserModes[u] : SpUserMode(u, modes)
         \/ \E st \in SpPrefixes : SpJoin(u, st)
         \/ \E t \in SpTexts :
              \/ \E st \in {"", "@"} : SpPrivmsg(u, st, t) \/ SpNotice(u, st, t)
              \/ \E v \in SpUsers : SpPrivate(u, v, t)
SpeechSpec == SpeechInit /\ [][SpeechNext]_sp_vars

-----------------------------------------------------------------------------
(* Properties *)

\* Whatever the order of the modules, and whomever a prefix addresses: what a client of this
\* server says reaches nobody who is deaf to channels or has silenced him.
SpTurnedAway ==
    (sp_heard.from \subseteq SpLocal /\ sp_heard.public) =>
        \A v \in sp_heard.to : "d" \notin sp_um[v] /\ \A u \in sp_heard.from : <<v, u>> \notin sp_silence

\* No colour code reaches a +S channel, except from an operator who is exempt.
SpClean ==
    (sp_heard.public /\ sp_heard.from \subseteq SpLocal /\ sp_heard.to # {}
       /\ "S" \in sp_heard.modes /\ ~("S" \in SpExemptOps /\ sp_heard.op)) =>
        "^" \notin Range(sp_heard.text)

\* A filtered word reaches the channel only when the stripping of colours, which can put the
\* word together, was done after the filter had looked.
SpAfter(a, b) == \E i, j \in DOMAIN sp_order : i < j /\ sp_order[i] = a /\ sp_order[j] = b
SpCensored ==
    (sp_heard.public /\ sp_heard.from \subseteq SpLocal /\ SpHasWord(sp_heard.text)) =>
        \A h \in {"g", "G"} \cap sp_heard.modes :
            (h \in SpExemptOps /\ sp_heard.op) \/ ("S" \in sp_heard.modes /\ SpAfter(h, "S"))

\* In whatever order the modules are asked, what a client says reaches nobody who is deaf to it or has silenced him,
\* and a channel sees no colours or words it has a mode against, but for the one order that puts words together.
SpHeard == SpTurnedAway /\ SpClean /\ SpCensored
=============================================================================

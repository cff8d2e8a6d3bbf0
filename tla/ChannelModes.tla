---------------------------- MODULE ChannelModes ----------------------------
(***************************************************************************)
(* The mode parser on channel MODE lines (mode.cpp) with the handlers of   *)
(* +i, +k, +l, +b and +o (modes/cmode_*.cpp).  A client's line is applied  *)
(* on his server "own" and what was allowed is announced; the server       *)
(* "other" reads the announcement (FMODE with an equal timestamp) with the *)
(* same parser, for a user that is not local to it.                        *)
(***************************************************************************)
EXTENDS Integers, Sequences, FiniteSets, SequencesExt, FiniteSetsExt

CONSTANTS
    MoUsers,        \* on the channel; all clients of "own"
    MoKeys,
    MoMasks,        \* ban masks as typed: [nick, ident, host], "" for a part left out
    MoLimits,       \* numbers given to +l
    MoHalf,         \* chanrec::limit is a short: -MoHalf .. MoHalf - 1
    MoMaxBans,      \* chanrec::GetMaxBans()
    MoMaxModes,     \* MAXMODES
    MoWire          \* bound: lines on their way

ASSUME ChannelModesOK ==
    /\ MoLimits \subseteq Int /\ MoHalf \in Nat \ {0}
    /\ MoMaxBans \in Nat /\ MoMaxModes \in Nat /\ MoWire \in Nat

VARIABLES
    mo_at,          \* the channel on each server
    mo_wire         \* announcements from "own" to "other"

mo_vars == <<mo_at, mo_wire>>

\* CleanMask: the parts left out become *.
MoCleanMask(m) == [p \in DOMAIN m |-> IF m[p] = "" THEN "*" ELSE m[p]]

MoShort(n) == ((n + MoHalf) % (2 * MoHalf)) - MoHalf

\* Letters and their parameters; one that takes a parameter may come without.
MoItems ==
    [on : BOOLEAN, letter : {"i"}] \cup [on : {FALSE}, letter : {"l"}]
    \cup [on : {TRUE}, letter : {"l"}, limit : MoLimits]
    \cup [on : BOOLEAN, letter : {"k"}, key : MoKeys]
    \cup [on : BOOLEAN, letter : {"b"}, mask : MoMasks]
    \cup [on : BOOLEAN, letter : {"o"}, nick : MoUsers]
MoBare == [on : BOOLEAN, letter : {"k", "o"}]
MoHasParam(item) == DOMAIN item # {"on", "letter"}
MoIsBare(item) == item.letter \in {"k", "o"} /\ ~MoHasParam(item)

MoNone == [str |-> "", shown |-> FALSE]
MoChannel ==
    [flags : SUBSET {"i", "l"},                 \* chanrec::modes, but for k
     key   : {MoNone} \cup [str : MoKeys, shown : BOOLEAN],     \* chanrec::key, modes[CM_KEY]
     limit : -MoHalf .. MoHalf - 1,
     bans  : SUBSET {MoCleanMask(m) : m \in MoMasks},
     ops   : SUBSET MoUsers]

ChannelModesTypeOK == mo_at \in [{"own", "other"} -> MoChannel] /\ Len(mo_wire) <= MoWire

ChannelModesInit ==
    /\ \E u \in MoUsers :
         mo_at = [s \in {"own", "other"} |->
                    [flags |-> {}, key |-> MoNone, limit |-> 0, bans |-> {}, ops |-> {u}]]
    /\ mo_wire = <<>>

-----------------------------------------------------------------------------
(* The handlers: the channel after the change and, if it is allowed, the letter and the *)
(* parameter as the handler leaves them.                                                *)

MoDeny(c) == [c |-> c, out |-> <<>>]
MoAllow(c, item) == [c |-> c, out |-> <<item>>]

MoInviteOnly(c, item) ==
    IF ("i" \in c.flags) = item.on THEN MoDeny(c)
    ELSE MoAllow([c EXCEPT !.flags = IF item.on THEN @ \cup {"i"} ELSE @ \ {"i"}], item)

\* cmode_k: a client sets it on a channel without one and removes it with the right one;
\* from another server any is taken, a removal too when there is none to remove.
MoKey(c, item, local) ==
    IF local /\ (c.key.shown = item.on \/ (c.key.shown /\ c.key.str # item.key)) THEN MoDeny(c)
    ELSE IF ~c.key.shown \/ (item.on /\ ~local)
    THEN MoAllow([c EXCEPT !.key = [str |-> item.key, shown |-> item.on]], item)
    ELSE MoAllow([c EXCEPT !.key = MoNone], item)

\* cmode_l: checked as a long, announced as a long, kept in a short.
MoNewLimit(item) == IF item.limit < 0 THEN MoHalf - 1 ELSE item.limit
MoSetLimit(c, item) ==
    LET long == MoNewLimit(item) IN
    IF long = 0 \/ (long = c.limit /\ c.limit > 0) THEN MoDeny(c)
    ELSE MoAllow([c EXCEPT !.limit = MoShort(long), !.flags = @ \cup {"l"}], [item EXCEPT !.limit = long])
MoUnsetLimit(c, item) ==
    IF c.limit = 0 THEN MoDeny(c) ELSE MoAllow([c EXCEPT !.limit = 0, !.flags = @ \ {"l"}], item)

\* AddBan, DelBan: the list is full when it holds more than the maximum.
MoBan(c, item) ==
    LET ban == MoCleanMask(item.mask) IN
    IF (ban \in c.bans) = item.on \/ (item.on /\ Cardinality(c.bans) > MoMaxBans) THEN MoDeny(c)
    ELSE MoAllow([c EXCEPT !.bans = IF item.on THEN @ \cup {ban} ELSE @ \ {ban}], [item EXCEPT !.mask = ban])

\* AddOp, DelOp: Grant and Revoke do nothing for who has it, or has it not.
MoOp(c, item, by, local) ==
    IF (local /\ by \notin c.ops) \/ (item.nick \in c.ops) = item.on THEN MoDeny(c)
    ELSE MoAllow([c EXCEPT !.ops = IF item.on THEN @ \cup {item.nick} ELSE @ \ {item.nick}], item)

MoOnModeChange(c, item, by, local) ==
    CASE item.letter = "i" -> MoInviteOnly(c, item)
      [] item.letter = "k" -> MoKey(c, item, local)
      [] item.letter = "l" -> IF item.on THEN MoSetLimit(c, item) ELSE MoUnsetLimit(c, item)
      [] item.letter = "b" -> MoBan(c, item)
      [] item.letter = "o" -> MoOp(c, item, by, local)

\* ModeParser::Process: letter by letter, until the line announced has too many parameters.
MoStep_uncut(acc, item, by, local) ==  \* mutant: what goes over the limit is done, not announced
    IF MoIsBare(item) THEN acc
    ELSE LET done == MoOnModeChange(acc.c, item, by, local) IN
         [acc EXCEPT !.c = done.c, !.out = IF acc.full THEN @ ELSE @ \o done.out,
                     !.full = @ \/ Len(SelectSeq(acc.out \o done.out, MoHasParam)) > MoMaxModes]
MoStep(acc, item, by, local) ==
    IF MoIsBare(item) \/ acc.full THEN acc
    ELSE LET done == MoOnModeChange(acc.c, item, by, local)
             out == acc.out \o done.out IN
         [c |-> done.c, out |-> out, full |-> Len(SelectSeq(out, MoHasParam)) > MoMaxModes]
MoProcess(c, line, by, local) ==
    FoldLeft(LAMBDA acc, item : MoStep(acc, item, by, local), [c |-> c, out |-> <<>>, full |-> FALSE], line)

\* RemoveStatus of a channel that turns out to be younger: RemoveMode of every handler,
\* which removes what is there by MODE lines in the name of the server.
MoStrip(c) ==
    LET off(letter) == [on |-> FALSE, letter |-> letter]
        i == MoInviteOnly(c, off("i")).c
        k == IF i.key.shown THEN MoKey(i, [on |-> FALSE, letter |-> "k", key |-> i.key.str], FALSE).c ELSE i
        l == IF "l" \in k.flags THEN MoUnsetLimit(k, off("l")).c ELSE k
        b == FoldSet(LAMBDA ban, d : MoBan(d, [on |-> FALSE, letter |-> "b", mask |-> ban]).c, l, l.bans) IN
    FoldSet(LAMBDA u, d : MoOp(d, [on |-> FALSE, letter |-> "o", nick |-> u], u, FALSE).c, b, b.ops)

-----------------------------------------------------------------------------
(* Steps *)

\* MODE of a client: it needs at least a halfop, and is announced if anything was allowed.
MoClient(u, line) ==
    LET done == MoProcess(mo_at["own"], line, u, TRUE) IN
    /\ u \in mo_at["own"].ops
    /\ Len(mo_wire) < MoWire
    /\ mo_at' = [mo_at EXCEPT !["own"] = done.c]
    /\ mo_wire' = IF done.out = <<>> THEN mo_wire ELSE Append(mo_wire, [by |-> u, line |-> done.out])

\* ForceMode, with our timestamp.
MoRead ==
    /\ mo_wire # <<>>
    /\ mo_at' = [mo_at EXCEPT !["other"] = MoProcess(@, Head(mo_wire).line, Head(mo_wire).by, FALSE).c]
    /\ mo_wire' = Tail(mo_wire)

\* Both servers hear of an older channel of that name, whose operator joins it.
MoOlder(u) ==
    /\ mo_wire = <<>>
    /\ mo_at' = [s \in DOMAIN mo_at |-> [MoStrip(mo_at[s]) EXCEPT !.ops = @ \cup {u}]]
    /\ UNCHANGED mo_wire

MoLines ==
    {<<a>> : a \in MoItems \cup MoBare}
    \cup {<<a, b>> : a \in MoItems, b \in {i \in MoItems : i.letter \in {"i", "o"}} \cup MoBare}

ChannelModesNext ==
    \/ \E u \in MoUsers, line \in MoLines : MoClient(u, line)
    \/ MoRead
    \/ \E u \in MoUsers : MoOlder(u)

ChannelModesSpec == ChannelModesInit /\ [][ChannelModesNext]_mo_vars

-----------------------------------------------------------------------------
(* Properties *)

\* What the parser announces is what it did: read by the parser of the other server it gives the
\* same channel, parameters eaten, cut, cleaned or wrapped on the way included.
MoReplayed == mo_wire = <<>> => mo_at["other"] = mo_at["own"]

\* Losing to an older channel leaves nothing of the modes, but for a limit that wrapped to 0:
\* -l finds no limit to remove.
MoStripped ==
    \A s \in DOMAIN mo_at :
       LET bare == MoStrip(mo_at[s]) IN
       /\ bare.bans = {} /\ bare.ops = {} /\ bare.key = MoNone /\ "i" \notin bare.flags
       /\ "l" \in bare.flags => mo_at[s].limit = 0 /\ "l" \in mo_at[s].flags

\* The ban list never holds more than one mask over the maximum.
MoBansBounded == \A s \in DOMAIN mo_at : Cardinality(mo_at[s].bans) <= MoMaxBans + 1

\* A MODE line leaves the modes in range and the announcement of it makes the same ones elsewhere.
MoSound == MoReplayed /\ MoStripped /\ MoBansBounded
=============================================================================

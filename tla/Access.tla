------------------------------- MODULE Access -------------------------------
(***************************************************************************)
(* Who may do what to whom on a channel when m_chanprotect (+q and +a),    *)
(* m_override, m_nokicks (+Q) and m_remove are loaded: the checks of the   *)
(* core and the answers of the modules, the first of which decides. +q and *)
(* +a are not kept with the membership but as extension items of the       *)
(* client, named after the channel, so they have to be removed by hand.    *)
(***************************************************************************)
EXTENDS Naturals, Sequences, FiniteSets, SequencesExt

CONSTANTS
    AcUsers,             \* local clients
    AcTypes,             \* what the <type:override> of each may be; {} for who is not an oper
    AcStatuses,          \* which of v, h and o are used
    AcOrders,            \* orders in which the modules may be loaded
    AcFounderFirst,      \* <options:noservices>: the first who joins is the founder
    AcDeprivSelf,        \* <options:deprotectself>
    AcRemoveNoKicks      \* <remove:supportnokicks>

AcForeign == "foreign"   \* a client of another server, services among them: his own server has checked
ASSUME AccessOK ==
    /\ AcForeign \notin AcUsers /\ AcStatuses \subseteq {"v", "h", "o"}
    /\ \A type \in AcTypes : type \in [AcUsers -> SUBSET {"KICK", "MODEOP", "MODEDEOP", "MODEHALFOP", "MODEDEHALFOP",
            "MODEVOICE", "MODEDEVOICE", "OTHERMODE", "INVITE", "KEY", "LIMIT", "BANWALK"}]
    /\ \A o \in AcOrders : o \in [1 .. 3 -> {"override", "chanprotect", "nokicks"}] /\ IsInjective(o)

VARIABLES
    ac_order,            \* the modules, as FOREACH_RESULT asks them
    ac_on,               \* members of the channel
    ac_status,           \* their statuses
    ac_founder,          \* clients with the item cm_founder_ of the channel
    ac_protect,          \* clients with the item cm_protect_
    ac_nokicks,          \* +Q
    ac_tokens,           \* overrides of m_override
    ac_stale             \* history: clients a server has kicked, until they join again
ac_vars == <<ac_order, ac_on, ac_status, ac_founder, ac_protect, ac_nokicks, ac_tokens, ac_stale>>

AccessInit ==
    /\ ac_order \in AcOrders /\ ac_on = {} /\ ac_status = [u \in AcUsers |-> {}]
    /\ ac_founder = {} /\ ac_protect = {} /\ ac_nokicks = FALSE /\ ac_stale = {}
    /\ ac_tokens \in AcTypes

\* chanrec::GetStatus
AcRank(u) ==
    IF "o" \in ac_status[u] THEN 3 ELSE IF "h" \in ac_status[u] THEN 2 ELSE IF "v" \in ac_status[u] THEN 1 ELSE 0
\* CanOverride
AcCan(u, token) == token \in ac_tokens[u]
AcToken == [deop |-> "MODEDEOP", op |-> "MODEOP", halfop |-> "MODEHALFOP", dehalfop |-> "MODEDEHALFOP",
            voice |-> "MODEVOICE", devoice |-> "MODEDEVOICE", kick |-> "OTHERMODE", general |-> "OTHERMODE"]

\* OnAccessCheck of one module
AcAnswer_owner(module, s, t, kind) ==  \* mutant: +Q does not hold a founder back
    CASE module = "override" -> IF AcCan(s, AcToken[kind]) THEN "allow" ELSE "default"
      [] module = "nokicks" -> IF kind = "kick" /\ ac_nokicks /\ s \notin ac_founder THEN "deny" ELSE "default"
      [] module = "chanprotect" ->
            IF /\ kind \in {"kick", "deop", "dehalfop", "devoice"}
               /\ t \in ac_founder \/ (t \in ac_protect /\ s \notin ac_protect)
            THEN "deny" ELSE "default"
AcAnswer(module, s, t, kind) ==
    CASE module = "override" -> IF AcCan(s, AcToken[kind]) THEN "allow" ELSE "default"
      [] module = "nokicks" -> IF kind = "kick" /\ ac_nokicks THEN "deny" ELSE "default"
      [] module = "chanprotect" ->
            IF /\ kind \in {"kick", "deop", "dehalfop", "devoice"}
               /\ t \in ac_founder \/ (t \in ac_protect /\ s \notin ac_protect)
            THEN "deny" ELSE "default"
\* FOREACH_RESULT: the first module that has an opinion
AcCheck(s, t, kind) ==
    LET says == {i \in DOMAIN ac_order : AcAnswer(ac_order[i], s, t, kind) # "default"}
    IN IF says = {} THEN "default" ELSE AcAnswer(ac_order[CHOOSE i \in says : \A j \in says : i <= j], s, t, kind)

-----------------------------------------------------------------------------
\* OnUserPreJoin of m_override, asked before the core looks at what is in the way.
AcPreJoin(u, blocks) ==
    \/ AcCan(u, "INVITE") /\ "i" \in blocks
    \/ AcCan(u, "KEY") /\ "k" \in blocks
    \/ AcCan(u, "LIMIT") /\ "l" \in blocks
    \/ AcCan(u, "BANWALK")
AcJoin(u, blocks) ==
    /\ u \notin ac_on /\ (ac_on = {} => blocks = {})
    /\ blocks = {} \/ AcPreJoin(u, blocks)
    /\ ac_on' = ac_on \cup {u}
    /\ ac_status' = [ac_status EXCEPT ![u] = IF ac_on = {} THEN {"o"} ELSE {}]
    /\ ac_founder' = IF AcFounderFirst /\ ac_on = {} THEN ac_founder \cup {u} ELSE ac_founder
    /\ ac_stale' = ac_stale \ {u}
    /\ UNCHANGED <<ac_order, ac_tokens, ac_protect, ac_nokicks>>

\* The client leaves; with the last one the channel is gone, and its modes with it.
AcGone(u) ==
    /\ ac_on' = ac_on \ {u} /\ ac_status' = [ac_status EXCEPT ![u] = {}]
    /\ ac_nokicks' = (ac_nokicks /\ ac_on # {u})
\* OnUserKick and OnUserPart of m_chanprotect
AcShrink(u) == ac_founder' = ac_founder \ {u} /\ ac_protect' = ac_protect \ {u}
AcPart(u) ==
    /\ u \in ac_on /\ AcGone(u) /\ AcShrink(u)
    /\ UNCHANGED <<ac_order, ac_tokens, ac_stale>>
\* His record is deleted and the items with it; whoever comes in his place has none.
AcQuit(u) ==
    /\ u \in ac_on \cup ac_stale /\ AcGone(u) /\ AcShrink(u) /\ ac_stale' = ac_stale \ {u}
 /\ UNCHANGED <<ac_order, ac_tokens>>

\* KICK of a local client: OnUserPreKick of m_override may allow it outright; else the modules are asked, and an
\* answer that allows does not excuse from the core's own check.
AcMayKick(s, t) ==
    \/ AcCan(s, "KICK")
    \/ AcCheck(s, t, "kick") # "deny" /\ AcRank(s) >= 2 /\ AcRank(s) >= AcRank(t)
AcKick(s, t) ==
    /\ s \in ac_on /\ t \in ac_on /\ AcMayKick(s, t)
    /\ AcGone(t) /\ AcShrink(t)
    /\ UNCHANGED <<ac_order, ac_tokens, ac_stale>>
\* KICK of a client of another server
AcKickForeign(t) ==
    /\ t \in ac_on /\ AcGone(t) /\ AcShrink(t)
    /\ UNCHANGED <<ac_order, ac_tokens, ac_stale>>
\* KICK of another server: ServerKickUser without the events, so the items stay.
AcKickByServer(t) ==
    /\ t \in ac_on /\ AcGone(t) /\ ac_stale' = ac_stale \cup {t}
    /\ UNCHANGED <<ac_order, ac_tokens, ac_founder, ac_protect>>

\* REMOVE and FPART: owner, admin, op, halfop and the rest; a client need not be on the channel.
AcLevel(u) ==
    IF u \in ac_founder THEN 4 ELSE IF u \in ac_protect THEN 3
    ELSE IF "o" \in ac_status[u] THEN 2 ELSE IF "h" \in ac_status[u] THEN 1 ELSE 0
AcRemove(s, t) ==
    /\ t \in ac_on /\ ~(AcRemoveNoKicks /\ ac_nokicks)
    /\ AcLevel(s) > 0 /\ AcLevel(s) >= AcLevel(t) /\ AcLevel(t) # 4
    /\ AcGone(t) /\ AcShrink(t)
    /\ UNCHANGED <<ac_order, ac_tokens, ac_stale>>

-----------------------------------------------------------------------------
\* ModeParser::Process, the check before any channel mode of a local client
AcMayMode(s) == AcRank(s) >= 2 \/ AcCheck(s, s, "general") = "allow"
AcKind(mode, adding) ==
    CASE mode = "o" -> IF adding THEN "op" ELSE "deop"
      [] mode = "h" -> IF adding THEN "halfop" ELSE "dehalfop"
      [] mode = "v" -> IF adding THEN "voice" ELSE "devoice"
\* AddOp, DelOp, AddHalfOp, DelHalfOp, AddVoice, DelVoice
AcMayStatus(s, t, mode, adding) ==
    LET answer == AcCheck(s, t, AcKind(mode, adding))
    IN \/ answer = "allow"
       \/ answer = "default" /\ (AcRank(s) >= IF mode = "v" THEN 2 ELSE 3)
       \/ answer = "default" /\ s = t /\ mode = "h" /\ ~adding
AcModeStatus(s, t, mode, adding) ==
    /\ t \in ac_on /\ adding # (mode \in ac_status[t])
    /\ s = AcForeign \/ (s # AcForeign /\ AcMayMode(s) /\ AcMayStatus(s, t, mode, adding))
    /\ ac_status' = [ac_status EXCEPT ![t] = IF adding THEN @ \cup {mode} ELSE @ \ {mode}]
    /\ UNCHANGED <<ac_order, ac_tokens, ac_on, ac_founder, ac_protect, ac_nokicks, ac_stale>>
\* ChanFounder::OnModeChange and ChanProtect::OnModeChange
AcMayFounder(s, t, adding) == ~adding /\ ((s \in ac_founder /\ t \in ac_founder) \/ (s = t /\ AcDeprivSelf))
AcMayProtect(s, t, adding) ==
    s \in ac_founder \/ (~adding /\ ((s \in ac_protect /\ t \in ac_protect) \/ (s = t /\ AcDeprivSelf)))
AcModeFounder(s, t, adding) ==
    /\ t \in ac_on /\ adding # (t \in ac_founder)
    /\ s = AcForeign \/ (s # AcForeign /\ AcMayMode(s) /\ AcMayFounder(s, t, adding))
    /\ ac_founder' = (IF adding THEN ac_founder \cup {t} ELSE ac_founder \ {t})
    /\ UNCHANGED <<ac_order, ac_tokens, ac_on, ac_status, ac_protect, ac_nokicks, ac_stale>>
AcModeProtect(s, t, adding) ==
    /\ t \in ac_on /\ adding # (t \in ac_protect)
    /\ s = AcForeign \/ (s # AcForeign /\ AcMayMode(s) /\ AcMayProtect(s, t, adding))
    /\ ac_protect' = (IF adding THEN ac_protect \cup {t} ELSE ac_protect \ {t})
    /\ UNCHANGED <<ac_order, ac_tokens, ac_on, ac_status, ac_founder, ac_nokicks, ac_stale>>
\* NoKicks::OnModeChange
AcModeNoKicks(s) ==
    /\ ac_on # {} /\ AcMayMode(s) /\ ac_nokicks' = ~ac_nokicks
    /\ UNCHANGED <<ac_order, ac_tokens, ac_on, ac_status, ac_founder, ac_protect, ac_stale>>
\* RemoveMode, at unload or when a rehash turns the prefixes on or off: the members lose both.
AcUnload ==
    /\ ac_founder' = ac_founder \ ac_on /\ ac_protect' = ac_protect \ ac_on
    /\ UNCHANGED <<ac_order, ac_tokens, ac_on, ac_status, ac_nokicks, ac_stale>>

\* A rehash reads the types of opers anew.
AcRehash ==
    /\ ac_tokens' \in AcTypes /\ ac_tokens' # ac_tokens
    /\ UNCHANGED <<ac_order, ac_on, ac_status, ac_founder, ac_protect, ac_nokicks, ac_stale>>

AccessNext ==
    \/ \E u \in AcUsers : AcPart(u) \/ AcQuit(u) \/ AcKickForeign(u) \/ AcKickByServer(u) \/ AcModeNoKicks(u)
    \/ \E u \in AcUsers, blocks \in SUBSET {"i", "k", "l", "b"} : AcJoin(u, blocks)
    \/ \E s, t \in AcUsers : AcKick(s, t) \/ AcRemove(s, t)
    \/ \E s \in AcUsers \cup {AcForeign}, t \in AcUsers, adding \in BOOLEAN :
        \/ \E mode \in AcStatuses : AcModeStatus(s, t, mode, adding)
        \/ AcModeFounder(s, t, adding)
        \/ AcModeProtect(s, t, adding)
    \/ AcUnload
    \/ AcRehash
AccessSpec == AccessInit /\ [][AccessNext]_ac_vars

-----------------------------------------------------------------------------
AccessTypeOK ==
    /\ ac_order \in AcOrders /\ ac_on \subseteq AcUsers /\ ac_status \in [AcUsers -> SUBSET {"v", "h", "o"}]
    /\ ac_founder \subseteq AcUsers /\ ac_protect \subseteq AcUsers /\ ac_stale \subseteq AcUsers

\* Whoever has left has neither +q nor +a there any more, however he left; only a kick by another server's own
\* hand leaves them to him (m_chanprotect's OnUserKick and OnUserPart against ServerKickUser without events).
AcItemsOfMembers == (ac_founder \cup ac_protect) \ ac_on \subseteq ac_stale
\* A founder loses neither his place on the channel nor a status by another local client's doing, unless that one is
\* an oper with KICK, or m_override is asked before m_chanprotect ("founder, no matter what").
AcAsked(m, n) == \E i, j \in DOMAIN ac_order : i < j /\ ac_order[i] = m /\ ac_order[j] = n
AcOverrides(s) == AcCan(s, "KICK") \/ (ac_tokens[s] # {} /\ AcAsked("override", "chanprotect"))
AcActsOn(s, t) == AcKick(s, t) \/ AcRemove(s, t) \/ \E mode \in AcStatuses : AcModeStatus(s, t, mode, FALSE)
AcFounderSafe == [][\A s, t \in AcUsers : s # t /\ t \in ac_founder /\ AcActsOn(s, t) => AcOverrides(s)]_ac_vars
\* A protected client is safe in the same way from all who are not protected themselves, founders included; only
\* REMOVE lets a founder at him.
AcProtectedSafe ==
    [][\A s, t \in AcUsers : s # t /\ t \in ac_protect \ ac_founder /\ AcActsOn(s, t) =>
          AcOverrides(s) \/ s \in ac_protect \/ (s \in ac_founder /\ AcRemove(s, t))]_ac_vars
\* With +Q no local client removes another from the channel by KICK, nor by REMOVE where the configuration says so,
\* but for the opers the code lets through in spite of m_nokicks.cpp:83 (AcNobodyKicks): those with KICK, whom the core
\* does not ask m_nokicks about, and those with OTHERMODE when m_override is asked before it.
AcNoKicks ==
    [][ac_nokicks => \A s, t \in AcUsers :
          /\ AcKick(s, t) => AcCan(s, "KICK") \/ (AcCan(s, "OTHERMODE") /\ AcAsked("override", "nokicks"))
          /\ AcRemove(s, t) => ~AcRemoveNoKicks]_ac_vars
\* m_nokicks.cpp:83, of KICK with +Q: "nobody else can (not even opers with override, and founders)", else than services
\* and servers, which are not among AcUsers.
AcNobodyKicks == [][ac_nokicks => \A s, t \in AcUsers : s # t => ~AcKick(s, t)]_ac_vars
\* REMOVE does not ask whether its user is on the channel, only what he is there: who is not on it can use it only
\* with what a kick by a server has left him.
AcMembersAct == [][\A s, t \in AcUsers : AcRemove(s, t) => s \in ac_on \cup ac_stale]_ac_vars

\* Founders and protected members are safe from the others, a channel with +Q from kicks and every channel from
\* strangers, in every order of loading, but for the overrides each part names; and ranks do not outlive the membership.
AcSafe == []AcItemsOfMembers /\ AcFounderSafe /\ AcProtectedSafe /\ AcNoKicks /\ AcMembersAct
=============================================================================

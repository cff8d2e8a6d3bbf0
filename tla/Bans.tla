-------------------------------- MODULE Bans --------------------------------
(***************************************************************************)
(* Who is kept out of a channel: the ban list with the redirects that      *)
(* m_banredirect keeps beside it and the expiry times that m_timedbans     *)
(* keeps elsewhere, the exceptions (+e, +I), invitations, and the channel  *)
(* a full one forwards to (+L).                                            *)
(***************************************************************************)
EXTENDS Naturals, Sequences, FiniteSets, SequencesExt

CONSTANTS
    BnUsers, BnChans,
    BnMasks, BnMatches,    \* pairs <<mask, client>>
    BnBanSet,              \* channel -> the bans [mask, to] that are set there; to "" is a plain ban
    BnListed,              \* channel -> the lists and modes that are changed there
    BnMaxBans, BnLimits,   \* the latter: the <banlist> limits whose pattern matches
    BnTime,                \* durations of TBAN
    BnInvites, BnMost,     \* bounds of this model: invitations per client and channel, list lengths,
    BnModes                \* how many bans, modes, timed bans and invitations there are at once

BnBan == [mask : BnMasks, to : BnChans \cup {""}]
ASSUME BansOK ==
    /\ IsFiniteSet(BnChans) /\ BnTime \subseteq Nat
    /\ \A c \in BnChans : BnBanSet[c] \subseteq BnBan

VARIABLES
    bn_on,         \* members; a channel exists while it has any
    bn_bans, bn_redirects, bn_timed,
    bn_list,       \* +e and +I
    bn_set,        \* +i, +l (room for one) and +L
    bn_invited,    \* how many invitations a client holds
    bn_module,     \* m_banredirect is loaded
    bn_stuck,      \* OnBackgroundTimer of m_timedbans does not come to an end
    bn_given, bn_in, bn_lost
    \* invitations not yet entered with, who got in last, and the channels that went away with timed
    \* bans left: only properties read these

bn_vars == <<bn_on, bn_bans, bn_redirects, bn_timed, bn_list, bn_set, bn_invited, bn_module, bn_stuck,
             bn_given, bn_in, bn_lost>>

BnUnset == [i |-> FALSE, l |-> FALSE, L |-> ""]
BnNobody == [user |-> "", chan |-> "", by |-> "", bans |-> {}]

BansTypeOK ==
    /\ bn_bans \in [BnChans -> SUBSET BnBan] /\ bn_redirects \in [BnChans -> Seq(BnBan)]
    /\ bn_list \in [BnChans -> [e : SUBSET BnMasks, I : SUBSET BnMasks]]
    /\ bn_invited \in [BnUsers \X BnChans -> 0 .. BnInvites]
    /\ \A i \in DOMAIN bn_timed : bn_timed[i].ban \in BnBan /\ bn_timed[i].chan \in BnChans

BansInit ==
    /\ bn_on = [c \in BnChans |-> {}] /\ bn_bans = [c \in BnChans |-> {}]
    /\ bn_redirects = [c \in BnChans |-> <<>>] /\ bn_timed = <<>>
    /\ bn_list = [c \in BnChans |-> [e |-> {}, I |-> {}]] /\ bn_set = [c \in BnChans |-> BnUnset]
    /\ bn_invited = [p \in BnUsers \X BnChans |-> 0] /\ bn_module = TRUE /\ bn_stuck = FALSE
    /\ bn_given = bn_invited /\ bn_in = BnNobody /\ bn_lost = {}

-----------------------------------------------------------------------------
(* The lists, as one record [bans, redirects, timed] so that a sweep can change them many times *)

BnLists == [bans |-> bn_bans, redirects |-> bn_redirects, timed |-> bn_timed]
BnStore(s) == bn_bans' = s.bans /\ bn_redirects' = s.redirects /\ bn_timed' = s.timed

BnDropFirst(seq, T(_)) ==
    LET at == {i \in DOMAIN seq : T(seq[i])}
    IN IF at = {} THEN seq ELSE RemoveAt(seq, CHOOSE i \in at : \A j \in at : i <= j)

\* More bans than the maximum: BanRedirect::BeforeMode refuses +b and -b alike.
BnOverfull(s, c) == Cardinality(s.bans[c]) > BnMaxBans
BnRefused(s, c, b) == bn_module /\ (BnOverfull(s, c) \/ b.to = c)

\* MODE +b: the redirect is noted before ModeChannelBan::AddBan may refuse the ban.
BnAddBan(s, c, b) ==
    IF BnRefused(s, c, b) THEN s
    ELSE [s EXCEPT !.redirects[c] = IF bn_module /\ b.to # "" THEN Append(@, b) ELSE @,
                   !.bans[c] = IF BnOverfull(s, c) THEN @ ELSE @ \cup {b}]
\* OnDelBan of m_timedbans
BnOnDelBan_sweep(timed, c, b) ==  \* mutant: only entries whose time has come go
    BnDropFirst(timed, LAMBDA t : t.chan = c /\ t.ban = b /\ t.left = 0)
BnOnDelBan(timed, c, b) == BnDropFirst(timed, LAMBDA t : t.chan = c /\ t.ban = b)
BnOffRedirects(redirects, b) == BnDropFirst(redirects, LAMBDA r : r = b)
\* MODE -b
BnDelBan(s, c, b) ==
    IF BnRefused(s, c, b) THEN s
    ELSE [s EXCEPT !.redirects[c] = IF bn_module /\ b.to # "" THEN BnOffRedirects(@, b) ELSE @,
                   !.bans[c] = @ \ {b},
                   !.timed = IF b \in s.bans[c] THEN BnOnDelBan(@, c, b) ELSE @]

\* ModuleBanRedirect::OnCleanup: every ban that redirects becomes a plain one, whether or not the
\* list still holds it. All are taken off first, then the plain ones are set.
BnTakeOff(s, c, r) ==
    [s EXCEPT !.bans[c] = @ \ {r}, !.timed = IF r \in s.bans[c] THEN BnOnDelBan(@, c, r) ELSE @]
BnPutBack(s, c, r) ==
    IF BnOverfull(s, c) THEN s ELSE [s EXCEPT !.bans[c] = @ \cup {[r EXCEPT !.to = ""]}]
BnAllOff(s, c, list) == FoldLeft(LAMBDA a, r : BnTakeOff(a, c, r), s, list)
BnAllBack(s, c, list) == FoldLeft(LAMBDA a, r : BnPutBack(a, c, r), s, list)
BnCleanup(s, c) ==
    IF BnOverfull(s, c) THEN [s EXCEPT !.redirects[c] = <<>>]
    ELSE [BnAllBack(BnAllOff(s, c, s.redirects[c]), c, s.redirects[c]) EXCEPT !.redirects[c] = <<>>]

\* One turn of the loop of OnBackgroundTimer, which begins anew after each entry it has handled.
BnSweepOne(s) ==
    LET due == {i \in DOMAIN s.timed : s.timed[i].left = 0}
        at == CHOOSE i \in due : \A j \in due : i <= j
        t == s.timed[at]
    IN IF due = {} THEN s
       ELSE IF bn_on[t.chan] = {} THEN [s EXCEPT !.timed = RemoveAt(@, at)]
       ELSE BnDelBan(s, t.chan, t.ban)
BnSweep(s) == FoldLeft(LAMBDA a, t : BnSweepOne(a), s, s.timed)
\* Cleaned up by OnCleanup for every channel, when the module goes.
BnCleanupAll(s) ==
    FoldLeft(LAMBDA a, c : IF a.redirects[c] = <<>> THEN a ELSE BnCleanup(a, c), s, SetToSeq(BnChans))

-----------------------------------------------------------------------------
(* Coming in: chanrec::JoinUser of a local client *)

BnHit(u, b) == <<b.mask, u>> \in BnMatches
BnOnList(u, masks) == \E m \in masks : <<m, u>> \in BnMatches
BnFull(c) == bn_set[c].l /\ bn_on[c] # {}
BnStays == [to |-> "", by |-> "", spends |-> ""]

\* The checks of JoinUser itself. The text of a ban with a target matches nobody. An invitation is
\* taken back before the limit and the bans are looked at.
BnChecks(u, c, by) ==
    LET invited == BnOnList(u, bn_list[c].I) \/ bn_invited[u, c] > 0
        banned == ~BnOnList(u, bn_list[c].e) /\ \E b \in bn_bans[c] : b.to = "" /\ BnHit(u, b)
    IN IF u \in bn_on[c] \/ (bn_on[c] # {} /\ bn_set[c].i /\ ~invited) THEN BnStays
       ELSE [to |-> IF BnFull(c) \/ banned THEN "" ELSE c, by |-> by,
             spends |-> IF bn_on[c] # {} /\ bn_set[c].i THEN c ELSE ""]

\* m_banredirect::OnUserPreJoin: the first redirect that matches, but one redirect does not lead
\* to another (nofollow).
BnLeads(u, c) ==
    LET at == {i \in DOMAIN bn_redirects[c] : BnHit(u, bn_redirects[c][i])}
    IN IF bn_module /\ u \notin bn_on[c] /\ ~BnOnList(u, bn_list[c].e) /\ at # {}
       THEN bn_redirects[c][CHOOSE i \in at : \A j \in at : i <= j].to ELSE ""
BnByBan(u, c, by) ==
    LET to == BnLeads(u, c)
    IN IF to = "" THEN BnChecks(u, c, by)
       ELSE IF bn_set[to].L # "" /\ BnFull(to) THEN BnStays
       ELSE BnChecks(u, to, "ban")
\* m_redirect::OnUserPreJoin, asked after m_banredirect
BnByLink(u, c) ==
    LET to == bn_set[c].L
    IN IF BnLeads(u, c) # "" \/ to = "" \/ ~BnFull(c) \/ u \in bn_on[c] THEN BnByBan(u, c, "")
       ELSE IF bn_set[to].L # "" THEN BnStays
       ELSE BnByBan(u, to, "link")

-----------------------------------------------------------------------------
(* Actions *)

BnKeep == UNCHANGED <<bn_on, bn_list, bn_set, bn_invited, bn_module, bn_stuck, bn_given, bn_lost>>
BnStrange(c) == bn_on[c] # {} /\ bn_in' = BnNobody
BnUse ==
    Cardinality({p \in BnChans \X {"e", "I", "i", "l", "L"} :
        IF p[2] \in {"e", "I"} THEN bn_list[p[1]][p[2]] # {} ELSE bn_set[p[1]][p[2]] # BnUnset[p[2]]})
    + Cardinality({p \in BnChans \X BnBan : p[2] \in bn_bans[p[1]]}) + Len(bn_timed)
    + Cardinality({p \in DOMAIN bn_given : bn_given[p] > 0})
BnRoom == BnUse < BnModes

BnJoin(u, c) ==
    LET way == BnByLink(u, c)
        entered == way.to # "" /\ way.spends # "" /\ ~BnOnList(u, bn_list[c].I)
    IN /\ u \notin bn_on[c]
       /\ bn_on' = (IF way.to = "" THEN bn_on ELSE [bn_on EXCEPT ![way.to] = @ \cup {u}])
       /\ bn_invited' = [p \in DOMAIN bn_invited |->
              IF p = <<u, way.spends>> /\ bn_invited[p] > 0 THEN bn_invited[p] - 1 ELSE bn_invited[p]]
       /\ bn_in' = (IF way.to = "" \/ bn_on[way.to] = {} THEN BnNobody
                    ELSE [user |-> u, chan |-> way.to, by |-> way.by,
                          bans |-> IF BnOnList(u, bn_list[way.to].e) THEN {}
                                   ELSE {b \in bn_bans[way.to] : BnHit(u, b)}])
       /\ bn_given' = [p \in DOMAIN bn_given |->
              IF /\ way.to # "" /\ p = <<u, way.to>> /\ bn_on[way.to] # {} /\ bn_set[way.to].i
                 /\ ~BnOnList(u, bn_list[way.to].I) /\ bn_given[p] > 0
              THEN bn_given[p] - 1 ELSE bn_given[p]]
       /\ UNCHANGED <<bn_bans, bn_redirects, bn_timed, bn_list, bn_set, bn_module, bn_stuck, bn_lost>>

\* PART; with the last member the channel goes and everything about it but the timed bans of plain
\* masks and the invitations.
BnPart(u, c) ==
    /\ u \in bn_on[c] /\ bn_in' = BnNobody
    /\ bn_on' = [bn_on EXCEPT ![c] = @ \ {u}]
    /\ IF bn_on[c] # {u} THEN UNCHANGED <<bn_bans, bn_redirects, bn_timed, bn_list, bn_set, bn_lost>>
       ELSE LET s == IF bn_module /\ bn_redirects[c] # <<>> THEN BnCleanup(BnLists, c) ELSE BnLists
            IN /\ BnStore([s EXCEPT !.bans[c] = {}, !.redirects[c] = <<>>])
               /\ bn_lost' = IF \E i \in DOMAIN s.timed : s.timed[i].chan = c THEN bn_lost \cup {c} ELSE bn_lost
               /\ bn_list' = [bn_list EXCEPT ![c] = [e |-> {}, I |-> {}]]
               /\ bn_set' = [bn_set EXCEPT ![c] = BnUnset]
    /\ UNCHANGED <<bn_invited, bn_module, bn_stuck, bn_given>>

BnModeBan(c, b) ==
    /\ BnStrange(c) /\ BnRoom /\ Len(bn_redirects[c]) < BnMost /\ BnStore(BnAddBan(BnLists, c, b)) /\ BnKeep
BnModeUnban(c, b) == BnStrange(c) /\ BnStore(BnDelBan(BnLists, c, b)) /\ BnKeep
\* TBAN: MODE +b, then an entry if the ban is on the list afterwards.
BnTban(c, b, d) ==
    /\ BnStrange(c) /\ BnRoom /\ b \notin bn_bans[c] /\ Len(bn_redirects[c]) < BnMost /\ Len(bn_timed) < BnMost
    /\ LET s == BnAddBan(BnLists, c, b)
       IN BnStore(IF b \in s.bans[c]
                  THEN [s EXCEPT !.timed = Append(@, [chan |-> c, ban |-> b, left |-> d])]
                  ELSE s)
    /\ BnKeep
BnSecond ==
    /\ \E i \in DOMAIN bn_timed : bn_timed[i].left > 0
    /\ bn_timed' = [i \in DOMAIN bn_timed |-> [bn_timed[i] EXCEPT !.left = IF @ = 0 THEN 0 ELSE @ - 1]]
    /\ bn_in' = BnNobody /\ BnKeep /\ UNCHANGED <<bn_bans, bn_redirects>>
\* OnBackgroundTimer; an entry that its -b does not take away is tried for ever.
BnBackground ==
    LET swept == BnSweep(BnLists)
    IN /\ \E i \in DOMAIN bn_timed : bn_timed[i].left = 0
       /\ BnStore(swept) /\ bn_in' = BnNobody
       /\ bn_stuck' = (\E i \in DOMAIN swept.timed : swept.timed[i].left = 0)
       /\ UNCHANGED <<bn_on, bn_list, bn_set, bn_invited, bn_module, bn_given, bn_lost>>

\* ListModeBase::OnModeChange: every limit whose pattern matches is tried in turn.
BnModeList(c, which, m, on) ==
    /\ BnStrange(c) /\ which \in BnListed[c]
    /\ IF on THEN BnRoom /\ m \notin bn_list[c][which] /\ \E n \in BnLimits : Cardinality(bn_list[c][which]) < n
       ELSE m \in bn_list[c][which]
    /\ bn_list' = [bn_list EXCEPT ![c][which] = IF on THEN @ \cup {m} ELSE @ \ {m}]
    /\ UNCHANGED <<bn_on, bn_bans, bn_redirects, bn_timed, bn_set, bn_invited, bn_module, bn_stuck, bn_given, bn_lost>>
BnModeFlag(c, which) ==
    /\ BnStrange(c) /\ which \in BnListed[c] \cap {"i", "l"} /\ (bn_set[c][which] \/ BnRoom)
    /\ bn_set' = [bn_set EXCEPT ![c][which] = ~@]
    /\ UNCHANGED <<bn_on, bn_bans, bn_redirects, bn_timed, bn_list, bn_invited, bn_module, bn_stuck, bn_given, bn_lost>>
\* Redirect::OnModeChange: only a channel that exists is asked whether it forwards or is forwarded to.
BnModeLink(c, to) ==
    /\ BnStrange(c) /\ "L" \in BnListed[c] /\ (to = "" \/ BnRoom)
    /\ to # "" /\ bn_on[to] # {} =>
         to # c /\ bn_set[to].L = "" /\ \A d \in BnChans \ {c} : bn_set[d].L # c
    /\ bn_set' = [bn_set EXCEPT ![c].L = to] /\ bn_set' # bn_set
    /\ UNCHANGED <<bn_on, bn_bans, bn_redirects, bn_timed, bn_list, bn_invited, bn_module, bn_stuck, bn_given, bn_lost>>

\* cmd_invite and UNINVITE
BnInvite(u, c) ==
    /\ BnStrange(c) /\ BnRoom /\ "i" \in BnListed[c] /\ u \notin bn_on[c] /\ bn_given[u, c] < BnInvites
    /\ bn_invited' = [bn_invited EXCEPT ![<<u, c>>] = @ + 1] /\ bn_given' = [bn_given EXCEPT ![<<u, c>>] = @ + 1]
    /\ UNCHANGED <<bn_on, bn_bans, bn_redirects, bn_timed, bn_list, bn_set, bn_module, bn_stuck, bn_lost>>
BnUninvite(u, c) ==
    /\ BnStrange(c) /\ bn_invited[u, c] > 0
    /\ bn_invited' = [bn_invited EXCEPT ![<<u, c>>] = @ - 1] /\ bn_given' = [bn_given EXCEPT ![<<u, c>>] = @ - 1]
    /\ UNCHANGED <<bn_on, bn_bans, bn_redirects, bn_timed, bn_list, bn_set, bn_module, bn_stuck, bn_lost>>

BnUnload ==
    /\ bn_module /\ bn_module' = FALSE /\ bn_in' = BnNobody
    /\ BnStore(BnCleanupAll(BnLists))
    /\ UNCHANGED <<bn_on, bn_list, bn_set, bn_invited, bn_stuck, bn_given, bn_lost>>

BansNext ==
    /\ ~bn_stuck
    /\ \/ \E c \in BnChans, u \in BnUsers : BnJoin(u, c) \/ BnPart(u, c) \/ BnInvite(u, c) \/ BnUninvite(u, c)
       \/ \E c \in BnChans : \E b \in BnBanSet[c] :
            BnModeBan(c, b) \/ BnModeUnban(c, b) \/ \E d \in BnTime : BnTban(c, b, d)
       \/ \E c \in BnChans, which \in {"e", "I"}, m \in BnMasks, on \in BOOLEAN : BnModeList(c, which, m, on)
       \/ \E c \in BnChans, which \in {"i", "l"} : BnModeFlag(c, which)
       \/ \E c \in BnChans, to \in BnChans \cup {""} : BnModeLink(c, to)
       \/ BnSecond \/ BnBackground \/ BnUnload
BansSpec == BansInit /\ [][BansNext]_bn_vars

-----------------------------------------------------------------------------
(* Properties *)

\* A ban with a target has its redirect, or it would keep out nobody: the two lists are changed by
\* different handlers, each of which may refuse.
BnRedirected ==
    bn_module => \A c \in BnChans : \A b \in bn_bans[c] :
        b.to \notin {"", c} => \E i \in DOMAIN bn_redirects[c] : bn_redirects[c][i] = b
\* Where no channel of that name went away with one, an entry of TimedBanList waits for a ban that
\* is still set: no ban that was lifted takes a later one with it.
BnTimedHasBan ==
    \A i \in DOMAIN bn_timed : bn_timed[i].chan \notin bn_lost => bn_timed[i].ban \in bn_bans[bn_timed[i].chan]
\* Who joined by himself is banned from where he is neither plainly nor with a redirect, unless a
\* ban sent him there (then only plain bans were looked at).
BnBannedStaysOut ==
    bn_module => \A b \in bn_in.bans : bn_in.by = "ban" /\ b.to # ""
\* An invitation lets its client in once: a join it made possible leaves one less.
BnInvitedOnce == \A p \in DOMAIN bn_invited : bn_invited[p] <= bn_given[p]
\* What the comment at the end of m_timedbans' OnBackgroundTimer says: the -b takes the entry away,
\* so the loop comes to an end.
BnSweepEnds == ~bn_stuck

\* What four modules and the core keep about who may come in stays together with the ban list, and keeps out whom
\* it should.
BnKeepsOut == BnRedirected /\ BnTimedHasBan /\ BnBannedStaysOut /\ BnInvitedOnce
=============================================================================

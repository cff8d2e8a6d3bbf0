------------------------------ MODULE Channels ------------------------------
(***************************************************************************)
(* Channel membership as one server keeps it: chanrec (channels.cpp), the  *)
(* channel half of userrec (users.cpp) and the commands that change them.  *)
(*                                                                         *)
(* The code stores who is on a channel, and who is an operator of it,      *)
(* several times over:                                                     *)
(*   userlist   chanrec::internal_userlist                                 *)
(*   chans      the keys of userrec::chans                                 *)
(*   flags      the UCMODE_* bits userrec::chans maps a channel to         *)
(*   statuslist chanrec::internal_{op,halfop,voice}_userlist               *)
(*   prefixes   chanrec::prefixes                                          *)
(* Every handler updates each copy by hand.  Here each copy is a set of    *)
(* tuples.  The process is single-threaded: a handler is one step, and a   *)
(* user who quits is only queued (GlobalCulls) until the end of the loop   *)
(* iteration, when CullList::Apply removes the queue.                      *)
(***************************************************************************)
EXTENDS Naturals, FiniteSets

CONSTANTS
    Users,          \* every user record that can exist
    Local,          \* those connected to this server (fd > -1)
    ULined,         \* those on a U-lined (services) server
    Chans,          \* channel names
    Statuses,       \* prefix modes in use: "o", "v" and, with AllowHalfop, "h"
    ChanModes,      \* simple modes in use: a subset of {"i", "k", "l"}
    Bannable,       \* users some ban mask can match
    Limit,          \* the parameter given to +l
    MaxChans,       \* <channels:users>
    OperMaxChans,   \* <channels:opers>
    MaxInvites,     \* bound on pending invitations per user and channel
    SaJoinEarly     \* whether operators SAJOIN clients that have not completed registration

ASSUME ConstantsOK ==
    /\ Local \subseteq Users
    /\ ULined \subseteq Users \ Local
    /\ Statuses \subseteq {"o", "h", "v"}
    /\ "o" \in Statuses
    /\ ChanModes \subseteq {"i", "k", "l"}
    /\ Bannable \subseteq Users
    /\ Limit \in Nat /\ MaxChans \in Nat /\ OperMaxChans \in Nat
    /\ MaxInvites \in Nat
    /\ SaJoinEarly \in BOOLEAN

VARIABLES
    clientlist,     \* users in InspIRCd::clientlist
    registered,     \* those with registered = REG_ALL
    opers,          \* InspIRCd::all_opers
    culls,          \* users in GlobalCulls (and muted)
    invites,        \* userrec::invites, with multiplicity
    chans,          \* <<u, c>>: c is a key of u->chans
    flags,          \* <<u, c, s>>: bit s of u->chans[c]
    chanlist,       \* names in InspIRCd::chanlist
    userlist,       \* <<u, c>>: u in c->internal_userlist
    statuslist,     \* <<u, c, s>>: u in c's list of status s
    prefixes,       \* <<u, c, s>>: prefix of s in c->prefixes[u]
    modes,          \* <<c, m>>: mode m is set on c
    bans            \* <<c, u>>: c->bans matches u

userVars == <<clientlist, registered, opers, culls>>
setVars  == <<chans, flags, chanlist, userlist, statuslist, prefixes>>
modeVars == <<modes, bans>>
vars == <<userVars, invites, setVars, modeVars>>

TypeOK ==
    /\ clientlist \subseteq Users
    /\ registered \subseteq clientlist
    /\ opers \subseteq registered
    /\ culls \subseteq clientlist
    /\ invites \in [Users \X Chans -> 0 .. MaxInvites]
    /\ chans \subseteq Users \X Chans
    /\ flags \subseteq Users \X Chans \X Statuses
    /\ chanlist \subseteq Chans
    /\ userlist \subseteq Users \X Chans
    /\ statuslist \subseteq Users \X Chans \X Statuses
    /\ prefixes \subseteq Users \X Chans \X Statuses
    /\ modes \subseteq Chans \X ChanModes
    /\ bans \subseteq Chans \X Bannable

Init ==
    /\ clientlist = {} /\ registered = {} /\ opers = {} /\ culls = {}
    /\ invites = [p \in Users \X Chans |-> 0]
    /\ chans = {} /\ flags = {} /\ chanlist = {} /\ userlist = {}
    /\ statuslist = {} /\ prefixes = {} /\ modes = {} /\ bans = {}

-----------------------------------------------------------------------------
(* Lookups *)

\* chanrec::GetStatus: STATUS_OP = 4, STATUS_HOP = 2, STATUS_VOICE = 1.
GetStatus(u, c) ==
    IF u \in ULined \/ <<u, c, "o">> \in flags THEN 4
    ELSE IF <<u, c, "h">> \in flags THEN 2
    ELSE IF <<u, c, "v">> \in flags THEN 1
    ELSE 0

\* The source of a command.  ProcessBuffer drops the lines of a muted (dying)
\* local client; lines for a remote user arrive from its server all the same.
Speaks(u) ==
    /\ u \in registered
    /\ u \in Local => u \notin culls

On(m, c) == <<c, m>> \in modes
ChansOf(u) == {c \in Chans : <<u, c>> \in chans}
UserCounter(c) == Cardinality({u \in Users : <<u, c>> \in userlist})

\* The checks of JoinUser on an existing channel, in the order it makes them.
KeyOk(c, key) == On("k", c) => key
InviteOk(u, c) == On("i", c) => invites[<<u, c>>] > 0
LimitOk(c) == On("l", c) => UserCounter(c) < Limit
Admits(u, c, key) ==
    /\ KeyOk(c, key)
    /\ InviteOk(u, c)
    /\ LimitOk(c)
    /\ <<c, u>> \notin bans

\* MaxChans for everyone, OperMaxChans for operators.
HasRoom(u) ==
    \/ Cardinality(ChansOf(u)) < MaxChans
    \/ u \in opers /\ Cardinality(ChansOf(u)) < OperMaxChans

-----------------------------------------------------------------------------
(* Helpers that change the membership structures *)

\* JoinUser's privs: "@" for the local client that creates the channel.
Founder_always(c) == {"o"}  \* mutant: every local client joins with "@"
FounderPrivs(c) == IF c \in chanlist THEN {} ELSE {"o"}

\* chanrec::ForceChan: the membership starts with the bits of privs only.
ForceChan(u, c, privs) ==
    /\ chanlist' = chanlist \cup {c}
    /\ userlist' = userlist \cup {<<u, c>>}
    /\ chans' = chans \cup {<<u, c>>}
    /\ flags' = {t \in flags : <<t[1], t[2]>> # <<u, c>>} \cup ({u} \X {c} \X privs)
    /\ statuslist' = statuslist \cup ({u} \X {c} \X privs)
    /\ prefixes' = prefixes \cup ({u} \X {c} \X privs)

\* chanrec::DelUser for the pairs in gone: the user list and the status lists.
DelUser(gone) ==
    [users |-> userlist \ gone,
     statuses |-> {t \in statuslist : <<t[1], t[2]>> \notin gone \cap userlist}]

\* chanrec::RemoveAllPrefixes.
RemoveAllPrefixes_none(gone) == prefixes  \* mutant: the call is forgotten
RemoveAllPrefixes(gone) == {t \in prefixes : <<t[1], t[2]>> \notin gone}

\* The channels DelUser leaves with nobody.
Emptied_stale(gone) ==  \* mutant: the counter is read before DelUser
    {c \in Chans : (\E u \in Users : <<u, c>> \in gone) /\ UserCounter(c) = 0}
Emptied(gone) ==
    {c \in Chans : /\ \E u \in Users : <<u, c>> \in gone
                   /\ \A v \in Users : <<v, c>> \notin DelUser(gone).users}

\* The common end of PartUser, KickUser and PurgeEmptyChannels: the pairs in
\* gone leave, and a record left with nobody is deleted with all it holds.
DropMembers(gone) ==
    /\ userlist' = DelUser(gone).users
    /\ statuslist' = {t \in DelUser(gone).statuses : t[2] \notin Emptied(gone)}
    /\ prefixes' = {t \in RemoveAllPrefixes(gone \cap chans) : t[2] \notin Emptied(gone)}
    /\ chanlist' = chanlist \ Emptied(gone)
    /\ modes' = {t \in modes : t[1] \notin Emptied(gone)}
    /\ bans' = {t \in bans : t[1] \notin Emptied(gone)}

\* PartUser, KickUser: user->chans.erase first, then the above.
RemoveFrom(u, c) ==
    /\ DropMembers({<<u, c>>})
    /\ chans' = chans \ {<<u, c>>}
    /\ flags' = {t \in flags : <<t[1], t[2]>> # <<u, c>>}

-----------------------------------------------------------------------------
(* User records *)

\* A client connects (AddClient).
AddClient(u) ==
    /\ u \in Local \ clientlist
    /\ clientlist' = clientlist \cup {u}
    /\ UNCHANGED <<registered, opers, culls, invites, setVars, modeVars>>

\* A client completes NICK/USER/DNS.  FullConnect asks CheckClass first, which
\* may queue the client for removal, and carries on either way.
FullConnect(u) ==
    /\ u \in Local \cap (clientlist \ registered)
    /\ registered' = registered \cup {u}
    /\ culls' \in {culls, culls \cup {u}}
    /\ UNCHANGED <<clientlist, opers, invites, setVars, modeVars>>

\* A remote server introduces a client, registered from the start.
IntroduceClient(u) ==
    /\ u \in Users \ (Local \cup clientlist)
    /\ clientlist' = clientlist \cup {u}
    /\ registered' = registered \cup {u}
    /\ UNCHANGED <<opers, culls, invites, setVars, modeVars>>

Oper(u) ==
    /\ Speaks(u) /\ u \in Local \ opers
    /\ opers' = opers \cup {u}
    /\ UNCHANGED <<clientlist, registered, culls, invites, setVars, modeVars>>

UnOper(u) ==
    /\ Speaks(u) /\ u \in opers
    /\ opers' = opers \ {u}
    /\ UNCHANGED <<clientlist, registered, culls, invites, setVars, modeVars>>

\* userrec::QuitUser (QUIT, KILL, a lost connection, a ban...): queued once.
QuitUser(u) ==
    /\ u \in clientlist \ culls
    /\ culls' = culls \cup {u}
    /\ UNCHANGED <<clientlist, registered, opers, invites, setVars, modeVars>>

\* CullList::Apply, at the end of the iteration: PurgeEmptyChannels for the
\* users that completed registration, then every queued record is deleted.
Apply ==
    /\ culls # {}
    /\ DropMembers({p \in chans : p[1] \in culls \cap registered})
    /\ chans' = {p \in chans : p[1] \notin culls}
    /\ flags' = {t \in flags : t[1] \notin culls}
    /\ invites' = [p \in Users \X Chans |-> IF p[1] \in culls THEN 0 ELSE invites[p]]
    /\ clientlist' = clientlist \ culls
    /\ registered' = registered \ culls
    /\ opers' = opers \ culls
    /\ culls' = {}

-----------------------------------------------------------------------------
(* Channel commands *)

\* JOIN by a local client: chanrec::JoinUser without override.  An invitation
\* is removed as soon as the +i check has passed, whatever later checks say.
Join(u, c, key) ==
    /\ Speaks(u) /\ u \in Local
    /\ <<u, c>> \notin userlist
    /\ invites' = IF c \in chanlist /\ KeyOk(c, key) /\ On("i", c) /\ invites[<<u, c>>] > 0
                  THEN [invites EXCEPT ![<<u, c>>] = @ - 1]
                  ELSE invites
    /\ IF (c \in chanlist => Admits(u, c, key)) /\ HasRoom(u)
       THEN ForceChan(u, c, FounderPrivs(c))
       ELSE UNCHANGED setVars
    /\ UNCHANGED <<userVars, modeVars>>

\* FJOIN for a remote user: override, and no prefix of JoinUser's own.
RemoteJoin(u, c) ==
    /\ u \in registered \ Local
    /\ <<u, c>> \notin userlist
    /\ ForceChan(u, c, {})
    /\ UNCHANGED <<userVars, invites, modeVars>>

\* SAJOIN (m_sajoin): FindNick accepts any record, registered or dying.
SaJoin(u, c) ==
    /\ \E s \in opers : Speaks(s)
    /\ u \in Local \cap clientlist /\ (u \in registered \/ SaJoinEarly)
    /\ <<u, c>> \notin userlist
    /\ ForceChan(u, c, FounderPrivs(c))
    /\ UNCHANGED <<userVars, invites, modeVars>>

Part(u, c) ==
    /\ Speaks(u)
    /\ c \in chanlist
    /\ <<u, c>> \in userlist
    /\ RemoveFrom(u, c)
    /\ UNCHANGED <<userVars, invites>>

\* KICK: the target may be dying; a remote source is not checked again.
Kick(s, u, c) ==
    /\ Speaks(s)
    /\ u \in clientlist /\ c \in chanlist
    /\ s \in Local => /\ <<s, c>> \in userlist
                      /\ u \notin ULined
                      /\ GetStatus(s, c) >= 2 /\ GetStatus(s, c) >= GetStatus(u, c)
    /\ <<u, c>> \in userlist
    /\ RemoveFrom(u, c)
    /\ UNCHANGED <<userVars, invites>>

\* MODE on a channel: ModeParser::Process wants half-operator or above of a
\* local source; the handler of the mode may want more.
MayChangeModes(s, c) ==
    /\ Speaks(s) /\ c \in chanlist
    /\ s \in Local => GetStatus(s, c) >= 2

\* Half-operators give voice, operators everything.
NeededStatus(m) == IF m = "v" THEN 2 ELSE 4

MayGrant_halfop(s, c, m) == s \in Local => GetStatus(s, c) >= 2  \* mutant
MayGrant(s, c, m) == s \in Local => GetStatus(s, c) >= NeededStatus(m)

\* A half-operator may drop its own +h.
MayRevoke(s, u, c, m) == MayGrant(s, c, m) \/ (m = "h" /\ u = s)

\* +o/+h/+v: Grant, then SetPrefix.
Grant(s, u, c, m) ==
    /\ MayChangeModes(s, c) /\ MayGrant(s, c, m)
    /\ u \in clientlist
    /\ <<u, c>> \in chans /\ <<u, c, m>> \notin flags
    /\ flags' = flags \cup {<<u, c, m>>}
    /\ statuslist' = statuslist \cup {<<u, c, m>>}
    /\ prefixes' = prefixes \cup {<<u, c, m>>}
    /\ UNCHANGED <<userVars, invites, chans, chanlist, userlist, modeVars>>

\* -o/-h/-v: Revoke, then SetPrefix.
Revoke(s, u, c, m) ==
    /\ MayChangeModes(s, c) /\ MayRevoke(s, u, c, m)
    /\ u \in clientlist
    /\ <<u, c>> \in chans /\ <<u, c, m>> \in flags
    /\ flags' = flags \ {<<u, c, m>>}
    /\ statuslist' = statuslist \ {<<u, c, m>>}
    /\ prefixes' = prefixes \ {<<u, c, m>>}
    /\ UNCHANGED <<userVars, invites, chans, chanlist, userlist, modeVars>>

\* +i, +k, +l and back.
ToggleMode(s, c, m) ==
    /\ MayChangeModes(s, c)
    /\ modes' = IF On(m, c) THEN modes \ {<<c, m>>} ELSE modes \cup {<<c, m>>}
    /\ UNCHANGED <<userVars, invites, setVars, bans>>

\* +b and -b of a mask that matches u.
ToggleBan(s, c, u) ==
    /\ MayChangeModes(s, c)
    /\ bans' = IF <<c, u>> \in bans THEN bans \ {<<c, u>>} ELSE bans \cup {<<c, u>>}
    /\ UNCHANGED <<userVars, invites, setVars, modes>>

\* INVITE; MaxInvites bounds how many of the same invitation can be pending.
Invite(s, u, c) ==
    /\ Speaks(s)
    /\ u \in clientlist /\ c \in chanlist
    /\ On("i", c) /\ s \in Local => GetStatus(s, c) >= 2
    /\ <<u, c>> \notin userlist
    /\ s \in Local => <<s, c>> \in userlist
    /\ invites[<<u, c>>] < MaxInvites
    /\ invites' = [invites EXCEPT ![<<u, c>>] = @ + 1]
    /\ UNCHANGED <<userVars, setVars, modeVars>>

-----------------------------------------------------------------------------
UserStep(u) ==
    AddClient(u) \/ FullConnect(u) \/ IntroduceClient(u) \/ Oper(u) \/ UnOper(u) \/ QuitUser(u)

MemberStep(u, c) ==
    \/ \E key \in BOOLEAN : Join(u, c, key)
    \/ RemoteJoin(u, c) \/ SaJoin(u, c) \/ Part(u, c)

PowerStep(s, c) ==
    \/ \E u \in Users : Kick(s, u, c) \/ Invite(s, u, c)
    \/ \E u \in Users, m \in Statuses : Grant(s, u, c, m) \/ Revoke(s, u, c, m)
    \/ \E m \in ChanModes : ToggleMode(s, c, m)
    \/ \E u \in Bannable : ToggleBan(s, c, u)

Next ==
    \/ \E u \in Users : UserStep(u)
    \/ \E u \in Users, c \in Chans : MemberStep(u, c) \/ PowerStep(u, c)
    \/ Apply

Spec == Init /\ [][Next]_vars

-----------------------------------------------------------------------------
(* Properties *)

\* The five copies of the membership agree: the same pairs in userlist and
\* chans, the same statuses in flags, in the status lists and in prefixes, and
\* a status only for a member (ForceChan, Grant/Revoke, SetPrefix, DelUser,
\* RemoveAllPrefixes each touch only some of the copies).
ViewsAgree ==
    /\ userlist = chans
    /\ statuslist = flags
    /\ prefixes = flags
    /\ \A t \in flags : <<t[1], t[2]>> \in chans

\* A channel record exists exactly while somebody is on the channel, and
\* modes and bans die with it (JoinUser, PartUser, KickUser and
\* PurgeEmptyChannels each delete the record themselves).
NoEmptyChannel ==
    /\ chanlist = {c \in Chans : \E u \in Users : <<u, c>> \in userlist}
    /\ \A t \in modes \cup bans : t[1] \in chanlist

\* No channel keeps a pointer to a deleted user record: Apply purges every
\* channel of the record it deletes.
NoDanglingMember ==
    /\ \A p \in userlist : p[1] \in clientlist
    /\ \A t \in statuslist \cup prefixes : t[1] \in clientlist

OpsOf(c) == {u \in Users : <<u, c, "o">> \in flags}

\* While the channel exists, nobody becomes its operator unless it has an
\* operator already or a server speaks for a remote client: losing the last
\* operator (PART, KICK, QUIT, MODE -o in any order) is final.
OplessStaysOpless ==
    [][\A c \in chanlist \cap chanlist' :
          OpsOf(c)' \subseteq OpsOf(c) \/ OpsOf(c) # {} \/ registered \ Local # {}]_vars

\* The handlers implement Membership: operators come from founding a channel
\* or from operators and servers, and a client that Apply deletes leaves all.
M == INSTANCE Membership WITH
        online <- registered,
        on <- chans,
        ops <- {p \in Users \X Chans : <<p[1], p[2], "o">> \in flags}

ImplementsMembership == M!Spec

\* What every command has to leave behind, whatever was queued, refused or undone half-way: the five copies of
\* the membership agree, no channel points to a deleted client, and a channel lives exactly while it is occupied.
MembersExact == ViewsAgree /\ NoDanglingMember /\ NoEmptyChannel
=============================================================================

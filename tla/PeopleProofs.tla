---------------------------- MODULE PeopleProofs -----------------------------
(***************************************************************************)
(* Theorems about what clients do to each other and what the server keeps   *)
(* for each of them.                                                        *)
(*                                                                         *)
(* Channels, for every set of users, channels and statuses and every limit: *)
(* the copies of the membership agree, channel records live exactly while   *)
(* occupied and no deleted user stays on a channel, provided no operator    *)
(* gives SAJOIN for a client that has not completed registration (with that,*)
(* MCChannelsSaJoin.cfg shows a counterexample). What makes these inductive *)
(* is Consistent: only registered clients are on channels, so Apply purges  *)
(* everybody it deletes.                                                    *)
(*                                                                         *)
(* Access, for any members, statuses and orders in which the modules that   *)
(* have a say are loaded: the items that make a founder or a protected      *)
(* member, and the statuses, are those of members (AcKept).                 *)
(*                                                                         *)
(* Flood: what a counter has counted is remembered and no older than its    *)
(* clock (FlBacked), so a limit is never met by what did not happen.        *)
(*                                                                         *)
(* UserLists: the lists of m_watch, m_dccallow and m_silence_ext stay with  *)
(* the clients they are about (WtKept, DaKept, SiKept).                     *)
(*                                                                         *)
(* Speech: what each hook leaves of a text is followed along the walk over  *)
(* the hooks (SpPassed), so what is heard is what the modes of the channel  *)
(* and of its members allow, in any order of the hooks.                     *)
(*                                                                         *)
(* Bans: the ban list, the redirects and the expiry times agree after every *)
(* step and every turn of the loops within one (BnTidy, BnSent), so who     *)
(* should stay out does (BnKept).                                           *)
(***************************************************************************)
EXTENDS Channels, Bans, Speech, Access, Flood, UserLists, SequenceTheorems, FiniteSetTheorems, DataFacts, TLAPS

\* Only registered clients are on channels: what lets Apply skip
\* PurgeEmptyChannels for the clients that are not.
MembersRegistered == \A p \in userlist : p[1] \in registered

\* The part of the state ForceChan and DropMembers change is well-formed.
SetsOK ==
    /\ chans \subseteq Users \X Chans
    /\ flags \subseteq Users \X Chans \X Statuses
    /\ chanlist \subseteq Chans
    /\ userlist \subseteq Users \X Chans
    /\ statuslist \subseteq Users \X Chans \X Statuses
    /\ prefixes \subseteq Users \X Chans \X Statuses
    /\ modes \subseteq Chans \X ChanModes
    /\ bans \subseteq Chans \X Bannable

UsersOK ==
    /\ clientlist \subseteq Users
    /\ registered \subseteq clientlist
    /\ opers \subseteq registered
    /\ culls \subseteq clientlist

InvitesOK == invites \in [Users \X Chans -> 0 .. MaxInvites]

-----------------------------------------------------------------------------
(* Type correctness *)

\* ForceChan keeps the membership structures well-formed.
LEMMA ForceChanType ==
    ASSUME SetsOK, NEW u \in Users, NEW c \in Chans,
           NEW privs \in SUBSET Statuses, ForceChan(u, c, privs),
           UNCHANGED modeVars
    PROVE  SetsOK'
  BY DEF SetsOK, ForceChan, modeVars

\* DropMembers keeps everything but chans and flags well-formed.
LEMMA DropMembersType ==
    ASSUME SetsOK, NEW gone, DropMembers(gone),
           chans' \subseteq chans, flags' \subseteq flags
    PROVE  SetsOK'
  BY DEF SetsOK, DropMembers, DelUser, RemoveAllPrefixes

\* A founder's privileges are statuses.
LEMMA FounderPrivsType ==
    ASSUME NEW c \in Chans
    PROVE  FounderPrivs(c) \in SUBSET Statuses
  BY ConstantsOK DEF FounderPrivs

\* Membership commands only change the membership structures and invites.
LEMMA MemberStepType ==
    ASSUME TypeOK, NEW u \in Users, NEW c \in Chans, MemberStep(u, c)
    PROVE  TypeOK'
  <1>1. SetsOK /\ UsersOK /\ InvitesOK
    BY DEF TypeOK, SetsOK, UsersOK, InvitesOK
  <1>2. SetsOK' /\ UsersOK' /\ InvitesOK'
    <2>1. CASE \E key \in BOOLEAN : Join(u, c, key)
      <3>1. PICK key \in BOOLEAN : Join(u, c, key)
        BY <2>1
      <3>2. SetsOK'
        <4>1. CASE UNCHANGED setVars
          BY <1>1, <3>1, <4>1 DEF Join, SetsOK, setVars, modeVars
        <4>2. CASE ForceChan(u, c, FounderPrivs(c))
          BY <1>1, <3>1, <4>2, ForceChanType, FounderPrivsType DEF Join
        <4> QED BY <3>1, <4>1, <4>2 DEF Join
      <3>3. InvitesOK'
        <4>1. CASE UNCHANGED invites
          BY <1>1, <4>1 DEF InvitesOK
        <4>2. CASE invites' = [invites EXCEPT ![<<u, c>>] = @ - 1] /\ invites[<<u, c>>] > 0
          <5>1. invites[<<u, c>>] \in 0 .. MaxInvites
            BY <1>1 DEF InvitesOK
          <5>2. invites[<<u, c>>] - 1 \in 0 .. MaxInvites
            BY <4>2, <5>1, ConstantsOK
          <5> QED BY <1>1, <4>2, <5>2 DEF InvitesOK
        <4> QED BY <3>1, <4>1, <4>2 DEF Join
      <3> QED BY <1>1, <3>1, <3>2, <3>3 DEF Join, UsersOK, userVars
    <2>2. CASE RemoteJoin(u, c)
      BY <1>1, <2>2, ForceChanType DEF RemoteJoin, UsersOK, InvitesOK, userVars
    <2>3. CASE SaJoin(u, c)
      BY <1>1, <2>3, ForceChanType, FounderPrivsType
      DEF SaJoin, UsersOK, InvitesOK, userVars
    <2>4. CASE Part(u, c)
      <3>1. SetsOK'
        BY <1>1, <2>4, DropMembersType DEF Part, RemoveFrom
      <3> QED BY <1>1, <2>4, <3>1 DEF Part, UsersOK, InvitesOK, userVars
    <2> QED BY <2>1, <2>2, <2>3, <2>4 DEF MemberStep
  <1> QED BY <1>2 DEF TypeOK, SetsOK, UsersOK, InvitesOK

\* Channel-operator commands leave the users alone and keep the rest typed.
LEMMA PowerStepType ==
    ASSUME TypeOK, NEW s \in Users, NEW c \in Chans, PowerStep(s, c)
    PROVE  TypeOK'
  <1>1. SetsOK /\ UsersOK /\ InvitesOK
    BY DEF TypeOK, SetsOK, UsersOK, InvitesOK
  <1>2. SetsOK' /\ UsersOK' /\ InvitesOK'
    <2>1. ASSUME NEW u \in Users, Kick(s, u, c)
          PROVE  SetsOK' /\ UsersOK' /\ InvitesOK'
      <3>1. SetsOK'
        BY <1>1, <2>1, DropMembersType DEF Kick, RemoveFrom
      <3> QED BY <1>1, <2>1, <3>1 DEF Kick, UsersOK, InvitesOK, userVars
    <2>2. ASSUME NEW u \in Users, Invite(s, u, c)
          PROVE  SetsOK' /\ UsersOK' /\ InvitesOK'
      <3>1. invites[<<u, c>>] \in 0 .. MaxInvites
        BY <1>1 DEF InvitesOK
      <3>2. invites[<<u, c>>] + 1 \in 0 .. MaxInvites
        BY <2>2, <3>1, ConstantsOK DEF Invite
      <3>3. InvitesOK'
        BY <1>1, <2>2, <3>2 DEF Invite, InvitesOK
      <3> QED BY <1>1, <2>2, <3>3
              DEF Invite, SetsOK, UsersOK, userVars, setVars, modeVars
    <2>3. ASSUME NEW u \in Users, NEW m \in Statuses, Grant(s, u, c, m)
          PROVE  SetsOK' /\ UsersOK' /\ InvitesOK'
      BY <1>1, <2>3 DEF Grant, SetsOK, UsersOK, InvitesOK, userVars, modeVars
    <2>4. ASSUME NEW u \in Users, NEW m \in Statuses, Revoke(s, u, c, m)
          PROVE  SetsOK' /\ UsersOK' /\ InvitesOK'
      BY <1>1, <2>4 DEF Revoke, SetsOK, UsersOK, InvitesOK, userVars, modeVars
    <2>5. ASSUME NEW m \in ChanModes, ToggleMode(s, c, m)
          PROVE  SetsOK' /\ UsersOK' /\ InvitesOK'
      BY <1>1, <2>5 DEF ToggleMode, SetsOK, UsersOK, InvitesOK, userVars, setVars
    <2>6. ASSUME NEW u \in Bannable, ToggleBan(s, c, u)
          PROVE  SetsOK' /\ UsersOK' /\ InvitesOK'
      BY <1>1, <2>6 DEF ToggleBan, SetsOK, UsersOK, InvitesOK, userVars, setVars
    <2> QED BY <2>1, <2>2, <2>3, <2>4, <2>5, <2>6 DEF PowerStep
  <1> QED BY <1>2 DEF TypeOK, SetsOK, UsersOK, InvitesOK

\* Connecting, registering, opering and quitting keep the user sets typed.
LEMMA UserStepType ==
    ASSUME TypeOK, NEW u \in Users, UserStep(u)
    PROVE  TypeOK'
  <1> USE DEF TypeOK, setVars, modeVars
  <1>1. CASE AddClient(u)
    BY <1>1, ConstantsOK DEF AddClient
  <1>2. CASE FullConnect(u)
    BY <1>2 DEF FullConnect
  <1>3. CASE IntroduceClient(u)
    BY <1>3 DEF IntroduceClient
  <1>4. CASE Oper(u)
    BY <1>4 DEF Oper, Speaks
  <1>5. CASE UnOper(u)
    BY <1>5 DEF UnOper
  <1>6. CASE QuitUser(u)
    BY <1>6 DEF QuitUser
  <1> QED BY <1>1, <1>2, <1>3, <1>4, <1>5, <1>6 DEF UserStep

\* Apply deletes users from every user set at once.
LEMMA ApplyType ==
    ASSUME TypeOK, Apply
    PROVE  TypeOK'
  <1>1. SetsOK /\ UsersOK /\ InvitesOK
    BY DEF TypeOK, SetsOK, UsersOK, InvitesOK
  <1>2. SetsOK'
    <2>1. chans' \subseteq chans /\ flags' \subseteq flags
      BY DEF Apply
    <2> QED BY <1>1, <2>1, DropMembersType DEF Apply
  <1>3. UsersOK'
    BY <1>1 DEF Apply, UsersOK
  <1>4. InvitesOK'
    BY <1>1, ConstantsOK DEF Apply, InvitesOK
  <1> QED BY <1>2, <1>3, <1>4 DEF TypeOK, SetsOK, UsersOK, InvitesOK

\* The type invariant of Channels: every structure of chanrec and userrec only
\* ever holds existing users, channels and statuses.
THEOREM TypeCorrect == Spec => []TypeOK
  <1>1. Init => TypeOK
    BY ConstantsOK DEF Init, TypeOK
  <1>2. TypeOK /\ [Next]_vars => TypeOK'
    <2>1. SUFFICES ASSUME TypeOK, [Next]_vars
                   PROVE  TypeOK'
      OBVIOUS
    <2>2. CASE UNCHANGED vars
      BY <2>1, <2>2 DEF TypeOK, vars, userVars, setVars, modeVars
    <2>3. CASE Next
      BY <2>1, <2>3, UserStepType, MemberStepType, PowerStepType, ApplyType DEF Next
    <2> QED BY <2>1, <2>2, <2>3
  <1> QED BY <1>1, <1>2, PTL DEF Spec

-----------------------------------------------------------------------------
(* Consistency of the copies *)

Consistent == ViewsAgree /\ NoEmptyChannel /\ MembersRegistered

\* ForceChan adds a registered client to every copy at once.
LEMMA ForceChanConsistent ==
    ASSUME SetsOK, Consistent, NEW u \in Users, NEW c \in Chans,
           NEW privs \in SUBSET Statuses, u \in registered,
           <<u, c>> \notin userlist, ForceChan(u, c, privs),
           registered' = registered, UNCHANGED modeVars
    PROVE  Consistent'
  <1> USE DEF Consistent, SetsOK, ForceChan
  <1>1. ViewsAgree'
    BY DEF ViewsAgree
  <1>2. NoEmptyChannel'
    BY DEF NoEmptyChannel, modeVars
  <1>3. MembersRegistered'
    BY DEF MembersRegistered
  <1> QED BY <1>1, <1>2, <1>3

\* DropMembers removes a set of memberships from every copy at once and
\* deletes the channels that loses everybody.
LEMMA DropMembersConsistent ==
    ASSUME SetsOK, Consistent, NEW gone \in SUBSET chans, DropMembers(gone),
           chans' = chans \ gone,
           flags' = {t \in flags : <<t[1], t[2]>> \notin gone}
    PROVE  ViewsAgree' /\ NoEmptyChannel'
  <1> USE DEF Consistent, SetsOK, DropMembers, DelUser
  <1>1. \A t \in flags : t[2] \in Emptied(gone) => <<t[1], t[2]>> \in gone
    BY DEF Emptied, ViewsAgree
  <1>2. ViewsAgree'
    BY <1>1 DEF ViewsAgree, RemoveAllPrefixes
  <1>3. NoEmptyChannel'
    <2>1. \A c \in Chans : c \in chanlist' <=> \E u \in Users : <<u, c>> \in userlist'
      <3>1. ASSUME NEW c \in Chans, c \in chanlist'
            PROVE  \E u \in Users : <<u, c>> \in userlist'
        BY <3>1 DEF NoEmptyChannel, Emptied
      <3>2. ASSUME NEW c \in Chans, NEW u \in Users, <<u, c>> \in userlist'
            PROVE  c \in chanlist'
        BY <3>2 DEF NoEmptyChannel, Emptied
      <3> QED BY <3>1, <3>2
    <2>2. \A t \in modes' \cup bans' : t[1] \in chanlist'
      BY DEF NoEmptyChannel
    <2> QED BY <2>1, <2>2 DEF NoEmptyChannel
  <1> QED BY <1>2, <1>3

\* Part and kick: one membership leaves every copy.
LEMMA RemoveFromConsistent ==
    ASSUME SetsOK, Consistent, NEW u \in Users, NEW c \in Chans,
           <<u, c>> \in userlist, RemoveFrom(u, c), registered' = registered
    PROVE  Consistent'
  <1>1. {<<u, c>>} \in SUBSET chans
    BY DEF Consistent, ViewsAgree
  <1>2. flags' = {t \in flags : <<t[1], t[2]>> \notin {<<u, c>>}}
    BY DEF RemoveFrom
  <1>3. ViewsAgree' /\ NoEmptyChannel'
    BY <1>1, <1>2, DropMembersConsistent DEF RemoveFrom
  <1>4. MembersRegistered'
    BY DEF RemoveFrom, DropMembers, DelUser, Consistent, MembersRegistered
  <1> QED BY <1>3, <1>4 DEF Consistent

\* Apply purges every membership of the records it deletes, since only
\* registered clients have any.
LEMMA ApplyConsistent ==
    ASSUME TypeOK, Consistent, Apply
    PROVE  Consistent'
  <1> DEFINE gone == {p \in chans : p[1] \in culls \cap registered}
  <1>1. SetsOK
    BY DEF TypeOK, SetsOK
  <1>2. gone = {p \in chans : p[1] \in culls}
    BY DEF Consistent, ViewsAgree, MembersRegistered
  <1>3. chans' = chans \ gone
    BY <1>2 DEF Apply
  <1>4. flags' = {t \in flags : <<t[1], t[2]>> \notin gone}
    <2>1. \A t \in flags : <<t[1], t[2]>> \in chans
      BY DEF Consistent, ViewsAgree
    <2>2. \A t \in flags : <<t[1], t[2]>> \in gone <=> t[1] \in culls
      BY <1>2, <2>1
    <2> HIDE DEF gone
    <2> QED BY <2>2 DEF Apply
  <1>5. DropMembers(gone)
    BY DEF Apply
  <1>6. ViewsAgree' /\ NoEmptyChannel'
    <2> HIDE DEF gone
    <2>1. gone \in SUBSET chans
      BY <1>2
    <2> QED BY <1>1, <1>3, <1>4, <1>5, <2>1, DropMembersConsistent
  <1>7. MembersRegistered'
    BY <1>1, <1>6, <1>3, <1>2 DEF Apply, ViewsAgree, Consistent, MembersRegistered
  <1> QED BY <1>6, <1>7 DEF Consistent

\* Lists and modes of a channel that exists may change freely.
LEMMA Framed ==
    ASSUME Consistent, UNCHANGED <<setVars, registered>>,
           \A t \in modes' : t \in modes \/ t[1] \in chanlist,
           \A t \in bans' : t \in bans \/ t[1] \in chanlist
    PROVE  Consistent'
  <1>1. UNCHANGED <<chanlist, userlist, chans, flags, statuslist, prefixes>>
    BY DEF setVars
  <1>2. ViewsAgree' /\ MembersRegistered'
    BY <1>1 DEF Consistent, ViewsAgree, MembersRegistered
  <1>3. NoEmptyChannel'
    BY <1>1 DEF Consistent, NoEmptyChannel
  <1> QED BY <1>2, <1>3 DEF Consistent

\* The steps of user records and of channel operators, one by one.
LEMMA StepConsistent ==
    ASSUME ~SaJoinEarly, TypeOK, Consistent, Next
    PROVE  Consistent'
  <1>1. SetsOK
    BY DEF TypeOK, SetsOK
  <1>2. ASSUME NEW u \in Users, UserStep(u)
        PROVE  Consistent'
    BY <1>2 DEF UserStep, AddClient, FullConnect, IntroduceClient, Oper, UnOper, QuitUser,
                Consistent, ViewsAgree, NoEmptyChannel, MembersRegistered, setVars, modeVars
  <1>3. ASSUME NEW u \in Users, NEW c \in Chans, MemberStep(u, c)
        PROVE  Consistent'
    <2>1. ASSUME NEW key \in BOOLEAN, Join(u, c, key)
          PROVE  Consistent'
      <3>1. CASE UNCHANGED setVars
        BY <2>1, <3>1 DEF Join, Consistent, ViewsAgree, NoEmptyChannel, MembersRegistered,
                          setVars, modeVars, userVars
      <3>2. CASE ForceChan(u, c, FounderPrivs(c))
        BY <1>1, <2>1, <3>2, ForceChanConsistent, FounderPrivsType DEF Join, Speaks, userVars
      <3> QED BY <2>1, <3>1, <3>2 DEF Join
    <2>2. CASE RemoteJoin(u, c)
      BY <1>1, <2>2, ForceChanConsistent DEF RemoteJoin, userVars
    <2>3. CASE SaJoin(u, c)
      BY <1>1, <2>3, ForceChanConsistent, FounderPrivsType DEF SaJoin, userVars
    <2>4. CASE Part(u, c)
      BY <1>1, <2>4, RemoveFromConsistent DEF Part, userVars
    <2> QED BY <1>3, <2>1, <2>2, <2>3, <2>4 DEF MemberStep
  <1>4. ASSUME NEW s \in Users, NEW c \in Chans, PowerStep(s, c)
        PROVE  Consistent'
    <2>1. ASSUME NEW u \in Users, Kick(s, u, c)
          PROVE  Consistent'
      BY <1>1, <2>1, RemoveFromConsistent DEF Kick, userVars
    <2>2. ASSUME NEW u \in Users, NEW m \in Statuses, Grant(s, u, c, m) \/ Revoke(s, u, c, m)
          PROVE  Consistent'
      <3>1. ViewsAgree'
        <4>1. CASE Grant(s, u, c, m)
          BY <4>1 DEF Grant, Consistent, ViewsAgree
        <4>2. CASE Revoke(s, u, c, m)
          BY <4>2 DEF Revoke, Consistent, ViewsAgree
        <4> QED BY <2>2, <4>1, <4>2
      <3>2. UNCHANGED <<chanlist, userlist, modes, bans, registered>>
        BY <2>2 DEF Grant, Revoke, userVars, modeVars
      <3> QED BY <3>1, <3>2 DEF Consistent, NoEmptyChannel, MembersRegistered
    <2>3. ASSUME NEW m \in ChanModes, ToggleMode(s, c, m)
          PROVE  Consistent'
      <3>1. c \in chanlist /\ \A t \in modes' : t \in modes \/ t[1] = c
        BY <2>3 DEF ToggleMode, MayChangeModes
      <3>2. UNCHANGED <<setVars, bans, registered>>
        BY <2>3 DEF ToggleMode, userVars
      <3> QED BY <3>1, <3>2, Framed
    <2>4. ASSUME NEW u \in Bannable, ToggleBan(s, c, u)
          PROVE  Consistent'
      <3>1. c \in chanlist /\ \A t \in bans' : t \in bans \/ t[1] = c
        BY <2>4 DEF ToggleBan, MayChangeModes
      <3>2. UNCHANGED <<setVars, modes, registered>>
        BY <2>4 DEF ToggleBan, userVars
      <3> QED BY <3>1, <3>2, Framed
    <2>5. ASSUME NEW u \in Users, Invite(s, u, c)
          PROVE  Consistent'
      BY <2>5 DEF Invite, Consistent, ViewsAgree, NoEmptyChannel, MembersRegistered,
                  setVars, modeVars, userVars
    <2> QED BY <1>4, <2>1, <2>2, <2>3, <2>4, <2>5 DEF PowerStep
  <1> QED BY <1>2, <1>3, <1>4, ApplyConsistent DEF Next

\* Consistent is inductive when m_sajoin is not loaded.
THEOREM ConsistentAlways == ~SaJoinEarly /\ Spec => []Consistent
  <1> SUFFICES ASSUME ~SaJoinEarly
               PROVE  Spec => []Consistent
    OBVIOUS
  <1>1. Init => Consistent
    BY DEF Init, Consistent, ViewsAgree, NoEmptyChannel, MembersRegistered
  <1>2. TypeOK /\ Consistent /\ [Next]_vars => Consistent'
    <2>1. CASE UNCHANGED vars
      BY <2>1 DEF Consistent, ViewsAgree, NoEmptyChannel, MembersRegistered,
                  vars, userVars, setVars, modeVars
    <2> QED BY <2>1, StepConsistent
  <1> QED BY <1>1, <1>2, TypeCorrect, PTL DEF Spec

\* The copies of the membership never drift apart (no early SAJOIN).
THEOREM ViewsAlwaysAgree == ~SaJoinEarly /\ Spec => []ViewsAgree
  <1>1. Consistent => ViewsAgree
    BY DEF Consistent
  <1> QED BY <1>1, ConsistentAlways, PTL

\* A channel record lives exactly while it is occupied (no early SAJOIN).
THEOREM NeverEmptyChannel == ~SaJoinEarly /\ Spec => []NoEmptyChannel
  <1>1. Consistent => NoEmptyChannel
    BY DEF Consistent
  <1> QED BY <1>1, ConsistentAlways, PTL

\* No channel ever points to a deleted user record (no early SAJOIN).
THEOREM NeverDangling == ~SaJoinEarly /\ Spec => []NoDanglingMember
  <1>1. TypeOK /\ Consistent => NoDanglingMember
    BY DEF TypeOK, Consistent, ViewsAgree, MembersRegistered, NoDanglingMember
  <1> QED BY <1>1, TypeCorrect, ConsistentAlways, PTL

-----------------------------------------------------------------------------
(* Where operators come from *)

\* A step that adds no operator to c, or one that may.
NoUsurper(c) == OpsOf(c)' \subseteq OpsOf(c) \/ OpsOf(c) # {} \/ registered \ Local # {}

LEMMA StepNoUsurper ==
    ASSUME TypeOK, Next, NEW c \in chanlist \cap chanlist'
    PROVE  NoUsurper(c)
  <1> USE DEF NoUsurper, OpsOf
  <1>1. ASSUME NEW u \in Users, UserStep(u)
        PROVE  NoUsurper(c)
    BY <1>1 DEF UserStep, AddClient, FullConnect, IntroduceClient, Oper, UnOper, QuitUser,
                setVars
  <1>2. ASSUME NEW u \in Users, NEW d \in Chans, ForceChan(u, d, FounderPrivs(d))
        PROVE  NoUsurper(c)
    BY <1>2 DEF ForceChan, FounderPrivs, TypeOK
  <1>3. ASSUME NEW u \in Users, NEW d \in Chans, MemberStep(u, d)
        PROVE  NoUsurper(c)
    <2>1. ASSUME NEW key \in BOOLEAN, Join(u, d, key)
          PROVE  NoUsurper(c)
      <3>1. CASE UNCHANGED setVars
        BY <3>1 DEF setVars
      <3>2. CASE ForceChan(u, d, FounderPrivs(d))
        BY <1>2, <3>2
      <3> QED BY <2>1, <3>1, <3>2 DEF Join
    <2>2. CASE RemoteJoin(u, d)
      BY <2>2 DEF RemoteJoin
    <2>3. CASE SaJoin(u, d)
      BY <1>2, <2>3 DEF SaJoin
    <2>4. CASE Part(u, d)
      BY <2>4 DEF Part, RemoveFrom
    <2> QED BY <1>3, <2>1, <2>2, <2>3, <2>4 DEF MemberStep
  <1>4. ASSUME NEW s \in Users, NEW d \in Chans, PowerStep(s, d)
        PROVE  NoUsurper(c)
    <2>1. ASSUME NEW u \in Users, Kick(s, u, d)
          PROVE  NoUsurper(c)
      BY <2>1 DEF Kick, RemoveFrom
    <2>2. ASSUME NEW u \in Users, NEW m \in Statuses, Grant(s, u, d, m)
          PROVE  NoUsurper(c)
      <3>1. CASE d # c \/ m # "o"
        BY <2>2, <3>1 DEF Grant
      <3>2. CASE d = c /\ m = "o"
        <4>1. s \in registered
          BY <2>2 DEF Grant, MayChangeModes, Speaks
        <4>2. CASE s \notin Local
          BY <4>1, <4>2
        <4>3. CASE s \in Local
          <5>1. s \notin ULined
            BY <4>3, ConstantsOK
          <5>2. GetStatus(s, c) >= 4
            BY <2>2, <3>2, <4>3 DEF Grant, MayGrant, NeededStatus
          <5>3. <<s, c, "o">> \in flags
            BY <5>1, <5>2 DEF GetStatus
          <5> QED BY <5>3
        <4> QED BY <4>2, <4>3
      <3> QED BY <3>1, <3>2
    <2>3. ASSUME NEW u \in Users, NEW m \in Statuses, Revoke(s, u, d, m)
          PROVE  NoUsurper(c)
      BY <2>3 DEF Revoke
    <2>4. CASE UNCHANGED flags
      BY <2>4
    <2> QED BY <1>4, <2>1, <2>2, <2>3, <2>4
            DEF PowerStep, Invite, ToggleMode, ToggleBan, setVars
  <1>5. CASE Apply
    BY <1>5 DEF Apply
  <1> QED BY <1>1, <1>3, <1>4, <1>5 DEF Next

\* Losing the last operator is final for as long as the channel exists, unless
\* a remote server intervenes, whoever is given SAJOIN.
THEOREM OplessForever == Spec => OplessStaysOpless
  <1>1. TypeOK /\ [Next]_vars =>
          [\A c \in chanlist \cap chanlist' :
              OpsOf(c)' \subseteq OpsOf(c) \/ OpsOf(c) # {} \/ registered \ Local # {}]_vars
    BY StepNoUsurper DEF NoUsurper
  <1> QED BY <1>1, TypeCorrect, PTL DEF Spec, OplessStaysOpless

-----------------------------------------------------------------------------
(* Channels implements Membership *)

OpPairs == {p \in Users \X Chans : <<p[1], p[2], "o">> \in flags}

\* A step of Channels is a step of Membership, or invisible to it.
LEMMA StepSimulates ==
    ASSUME ~SaJoinEarly, TypeOK, Consistent, [Next]_vars
    PROVE  [M!Next]_(M!vars)
  <1> USE DEF M!vars
  <1>t. SetsOK
    BY DEF TypeOK, SetsOK
  <1>s. ASSUME UNCHANGED <<registered, chans, flags>>
        PROVE  UNCHANGED M!vars
    BY <1>s
  <1>1. CASE UNCHANGED vars
    BY <1>1, <1>s DEF vars, userVars, setVars
  <1>2. ASSUME NEW u \in Users, UserStep(u)
        PROVE  [M!Next]_(M!vars)
    <2>1. CASE FullConnect(u) \/ IntroduceClient(u)
      <3>1. M!Arrive(u)
        BY <2>1 DEF FullConnect, IntroduceClient, M!Arrive, setVars
      <3> QED BY <3>1 DEF M!Next
    <2>2. CASE AddClient(u) \/ Oper(u) \/ UnOper(u) \/ QuitUser(u)
      BY <2>2, <1>s DEF AddClient, Oper, UnOper, QuitUser, setVars
    <2> QED BY <1>2, <2>1, <2>2 DEF UserStep
  <1>3. ASSUME NEW u \in Users, NEW c \in Chans, NEW privs \in {{}, FounderPrivs(c)},
               u \in registered, <<u, c>> \notin userlist, ForceChan(u, c, privs),
               UNCHANGED registered
        PROVE  [M!Next]_(M!vars)
    <2>1. <<u, c>> \notin chans /\ chans' = chans \cup {<<u, c>>}
      BY <1>3 DEF ForceChan, Consistent, ViewsAgree
    <2>2. \A t \in flags : <<t[1], t[2]>> # <<u, c>>
      BY <2>1 DEF Consistent, ViewsAgree
    <2>3. flags' = flags \cup ({u} \X {c} \X privs)
      BY <1>3, <2>2 DEF ForceChan
    <2>4. CASE "o" \notin privs
      <3>1. OpPairs' = OpPairs
        BY <2>3, <2>4 DEF OpPairs
      <3>2. M!Enter(u, c)
        BY <1>3, <2>1, <3>1 DEF M!Enter, OpPairs
      <3> QED BY <3>2 DEF M!Next
    <2>5. CASE "o" \in privs
      <3>1. c \notin chanlist /\ privs = {"o"}
        BY <1>3, <2>5 DEF FounderPrivs
      <3>2. ~M!Founded(c)
        BY <3>1 DEF M!Founded, Consistent, ViewsAgree, NoEmptyChannel
      <3>3. OpPairs' = OpPairs \cup {<<u, c>>}
        BY <2>3, <3>1 DEF OpPairs
      <3>4. M!Enter(u, c)
        BY <1>3, <2>1, <3>2, <3>3 DEF M!Enter, OpPairs
      <3> QED BY <3>4 DEF M!Next
    <2> QED BY <2>4, <2>5
  <1>4. ASSUME NEW u \in Users, NEW c \in Chans, RemoveFrom(u, c), UNCHANGED registered
        PROVE  [M!Next]_(M!vars)
    <2>1. OpPairs' = OpPairs \ {<<u, c>>}
      BY <1>4 DEF RemoveFrom, OpPairs
    <2>2. M!Leave(u, c)
      BY <1>4, <2>1 DEF M!Leave, OpPairs, RemoveFrom
    <2> QED BY <2>2 DEF M!Next
  <1>5. ASSUME NEW u \in Users, NEW c \in Chans, MemberStep(u, c)
        PROVE  [M!Next]_(M!vars)
    <2>1. ASSUME NEW key \in BOOLEAN, Join(u, c, key)
          PROVE  [M!Next]_(M!vars)
      <3>1. CASE UNCHANGED setVars
        BY <2>1, <3>1, <1>s DEF Join, setVars, userVars
      <3>2. CASE ForceChan(u, c, FounderPrivs(c))
        BY <1>3, <2>1, <3>2 DEF Join, Speaks, userVars
      <3> QED BY <2>1, <3>1, <3>2 DEF Join
    <2>2. CASE RemoteJoin(u, c)
      BY <1>3, <2>2 DEF RemoteJoin, userVars
    <2>3. CASE SaJoin(u, c)
      BY <1>3, <2>3 DEF SaJoin, userVars
    <2>4. CASE Part(u, c)
      BY <1>4, <2>4 DEF Part, userVars
    <2> QED BY <1>5, <2>1, <2>2, <2>3, <2>4 DEF MemberStep
  <1>6. ASSUME NEW s \in Users, NEW c \in Chans, PowerStep(s, c)
        PROVE  [M!Next]_(M!vars)
    <2>1. ASSUME NEW u \in Users, Kick(s, u, c)
          PROVE  [M!Next]_(M!vars)
      BY <1>4, <2>1 DEF Kick, userVars
    <2>2. ASSUME NEW u \in Users, NEW m \in Statuses, Grant(s, u, c, m)
          PROVE  [M!Next]_(M!vars)
      <3>1. CASE m # "o"
        <4>1. OpPairs' = OpPairs
          BY <2>2, <3>1 DEF Grant, OpPairs
        <4> QED BY <2>2, <4>1 DEF Grant, OpPairs, userVars
      <3>2. CASE m = "o"
        <4>1. OpPairs' = OpPairs \cup {<<u, c>>}
          BY <2>2, <3>2 DEF Grant, OpPairs
        <4>2. s \in registered
          BY <2>2 DEF Grant, MayChangeModes, Speaks
        <4>3. <<s, c>> \in OpPairs \/ s \notin Local
          <5>1. SUFFICES ASSUME s \in Local
                         PROVE  <<s, c>> \in OpPairs
            OBVIOUS
          <5>2. GetStatus(s, c) >= 4
            BY <2>2, <3>2, <5>1 DEF Grant, MayGrant, NeededStatus
          <5>3. <<s, c, "o">> \in flags
            BY <5>1, <5>2, ConstantsOK DEF GetStatus
          <5> QED BY <5>3 DEF OpPairs
        <4>4. M!Promote(u, c)
          BY <2>2, <4>1, <4>2, <4>3 DEF Grant, M!Promote, OpPairs, userVars
        <4> QED BY <4>4 DEF M!Next
      <3> QED BY <3>1, <3>2
    <2>3. ASSUME NEW u \in Users, NEW m \in Statuses, Revoke(s, u, c, m)
          PROVE  [M!Next]_(M!vars)
      <3>1. CASE m # "o"
        <4>1. OpPairs' = OpPairs
          BY <2>3, <3>1 DEF Revoke, OpPairs
        <4> QED BY <2>3, <4>1 DEF Revoke, OpPairs, userVars
      <3>2. CASE m = "o"
        <4>1. OpPairs' = OpPairs \ {<<u, c>>}
          BY <2>3, <3>2 DEF Revoke, OpPairs
        <4>2. M!Demote(u, c)
          BY <2>3, <4>1 DEF Revoke, M!Demote, OpPairs, userVars
        <4> QED BY <4>2 DEF M!Next
      <3> QED BY <3>1, <3>2
    <2>4. CASE UNCHANGED <<registered, chans, flags>>
      BY <2>4, <1>s
    <2> QED BY <1>6, <2>1, <2>2, <2>3, <2>4
            DEF PowerStep, Invite, ToggleMode, ToggleBan, setVars, userVars
  <1>7. CASE Apply
    <2>1. OpPairs' = {p \in OpPairs : p[1] \notin culls}
      BY <1>7 DEF Apply, OpPairs
    <2>2. M!Depart(culls)
      BY <1>7, <2>1 DEF Apply, M!Depart, OpPairs
    <2>3. culls \in SUBSET Users
      BY DEF TypeOK
    <2>4. \E gone \in SUBSET Users : M!Depart(gone)
      BY <2>2, <2>3 DEF M!Depart
    <2>5. M!Next
      BY <2>4 DEF M!Next
    <2> QED BY <2>5
  <1> QED BY <1>1, <1>2, <1>5, <1>6, <1>7 DEF Next

\* The handlers implement the abstract membership: founding is the only way
\* to become an operator unaided, and a deleted client is nowhere.
THEOREM Implements == ~SaJoinEarly /\ Spec => ImplementsMembership
  <1> SUFFICES ASSUME ~SaJoinEarly
               PROVE  Spec => ImplementsMembership
    OBVIOUS
  <1>1. Init => M!Init
    BY DEF Init, M!Init
  <1>2. TypeOK /\ Consistent /\ [Next]_vars => [M!Next]_(M!vars)
    BY StepSimulates
  <1> QED BY <1>1, <1>2, TypeCorrect, ConsistentAlways, PTL
          DEF Spec, ImplementsMembership, M!Spec
\* MembersExact for any clients and channels: after every command the five copies of the membership agree, no
\* channel points to a deleted client and a channel lives exactly while it is occupied.
THEOREM MembersAlwaysExact == ~SaJoinEarly /\ Spec => []MembersExact
  BY ViewsAlwaysAgree, NeverDangling, NeverEmptyChannel, PTL DEF MembersExact

-----------------------------------------------------------------------------
(* Access *)

AcModules == {"override", "chanprotect", "nokicks"}

\* AccessTypeOK, and what AcMembersAct needs besides: a status is a member's.
AcKept ==
    /\ AccessTypeOK
    /\ AcItemsOfMembers
    /\ \A u \in AcUsers : ac_status[u] # {} => u \in ac_on

\* All three modules are asked, each once: three different answers to three questions.
LEMMA AcAllAsked ==
    ASSUME NEW o \in AcOrders, NEW m \in AcModules
    PROVE  \E i \in 1 .. 3 : o[i] = m
  <1>1. o \in [1 .. 3 -> AcModules] /\ o[1] # o[2] /\ o[1] # o[3] /\ o[2] # o[3]
    BY AccessOK DEF AcModules, IsInjective
  <1> QED BY <1>1 DEF AcModules

\* FOREACH_RESULT: where one module denies and the check does not, m_override was asked before it and may.
LEMMA AcFirstAnswer ==
    ASSUME AccessTypeOK, NEW s, NEW t, NEW kind, NEW i \in 1 .. 3,
           AcAnswer(ac_order[i], s, t, kind) = "deny", AcCheck(s, t, kind) # "deny"
    PROVE  /\ AcCheck(s, t, kind) = "allow"
           /\ AcAsked("override", ac_order[i])
           /\ AcCan(s, AcToken[kind])
  <1> DEFINE says == {j \in DOMAIN ac_order : AcAnswer(ac_order[j], s, t, kind) # "default"}
             first == CHOOSE j \in says : \A k \in says : j <= k
  <1>1. ac_order \in [1 .. 3 -> AcModules]
    BY AccessOK DEF AccessTypeOK, AcModules
  <1>2. i \in says /\ says \subseteq 1 .. 3
    BY <1>1
  <1>3. \E j \in says : \A k \in says : j <= k
    <2> HIDE DEF says
    <2>1. CASE 1 \in says
      BY <1>2, <2>1
    <2>2. CASE 1 \notin says /\ 2 \in says
      BY <1>2, <2>2
    <2>3. CASE 1 \notin says /\ 2 \notin says
      BY <1>2, <2>3
    <2> QED BY <2>1, <2>2, <2>3
  <1>4. first \in says /\ first <= i
    <2> HIDE DEF says
    <2> QED BY <1>2, <1>3
  <1>5. AcCheck(s, t, kind) = AcAnswer(ac_order[first], s, t, kind)
    BY <1>2 DEF AcCheck
  <1>6. AcAnswer(ac_order[first], s, t, kind) \notin {"deny", "default"}
    BY <1>4, <1>5
  <1>7. first \in 1 .. 3 /\ ac_order[first] \in AcModules
    BY <1>1, <1>2, <1>4
  <1>8. ac_order[first] = "override" /\ AcCan(s, AcToken[kind])
    <2> HIDE DEF first
    <2> QED BY <1>6, <1>7 DEF AcAnswer, AcModules
  <1>9. first < i
    <2> HIDE DEF first
    <2>1. first # i
      BY <1>6
    <2> QED BY <2>1, <1>4, <1>7
  <1>10. AcAnswer(ac_order[first], s, t, kind) = "allow"
    <2> HIDE DEF first
    <2> QED BY <1>8 DEF AcAnswer
  <1> HIDE DEF first
  <1> QED BY <1>1, <1>5, <1>7, <1>8, <1>9, <1>10 DEF AcAsked

\* m_chanprotect denies what AcActsOn is about, and m_nokicks the kick.
LEMMA AcGuarded ==
    ASSUME AccessTypeOK, NEW s \in AcUsers, NEW t \in AcUsers,
           NEW kind \in {"kick", "deop", "dehalfop", "devoice"},
           t \in ac_founder \/ (t \in ac_protect /\ s \notin ac_protect),
           AcCheck(s, t, kind) # "deny"
    PROVE  AcCheck(s, t, kind) = "allow" /\ AcOverrides(s)
  <1>1. PICK i \in 1 .. 3 : ac_order[i] = "chanprotect"
    BY AcAllAsked DEF AccessTypeOK, AcModules
  <1>2. AcAnswer("chanprotect", s, t, kind) = "deny"
    BY DEF AcAnswer
  <1>3. AcCheck(s, t, kind) = "allow" /\ AcAsked("override", "chanprotect") /\ AcCan(s, AcToken[kind])
    BY <1>1, <1>2, AcFirstAnswer
  <1> QED BY <1>3 DEF AcOverrides, AcCan

\* Whoever may take a status from somebody guarded overrides the guard.
LEMMA AcStatusGuarded ==
    ASSUME AccessTypeOK, NEW s \in AcUsers, NEW t \in AcUsers, NEW mode \in AcStatuses, s # t,
           t \in ac_founder \/ (t \in ac_protect /\ s \notin ac_protect),
           AcModeStatus(s, t, mode, FALSE)
    PROVE  AcOverrides(s)
  <1>1. AcMayStatus(s, t, mode, FALSE)
    BY AccessOK DEF AcModeStatus
  <1>2. AcCheck(s, t, AcKind(mode, FALSE)) # "deny"
    BY <1>1 DEF AcMayStatus
  <1>3. AcKind(mode, FALSE) \in {"kick", "deop", "dehalfop", "devoice"}
    BY AccessOK DEF AcKind
  <1> QED BY <1>2, <1>3, AcGuarded

\* The same of a kick.
LEMMA AcKickGuarded ==
    ASSUME AccessTypeOK, NEW s \in AcUsers, NEW t \in AcUsers,
           t \in ac_founder \/ (t \in ac_protect /\ s \notin ac_protect),
           AcKick(s, t)
    PROVE  AcOverrides(s)
  <1>1. AcCan(s, "KICK") \/ AcCheck(s, t, "kick") # "deny"
    BY DEF AcKick, AcMayKick
  <1> QED BY <1>1, AcGuarded DEF AcOverrides

-----------------------------------------------------------------------------
\* Before the first member.
LEMMA AcInitKept == AccessInit => AcKept
  BY DEF AccessInit, AcKept, AccessTypeOK, AcItemsOfMembers

\* Where somebody leaves, however: AcGone and what happens to the items.
LEMMA AcLeaves ==
    ASSUME AcKept, NEW t \in AcUsers, t \in ac_on \cup ac_stale, AcGone(t), AcShrink(t),
           ac_stale' \in {ac_stale, ac_stale \ {t}}, UNCHANGED <<ac_order, ac_tokens>>
    PROVE  AcKept'
  BY DEF AcKept, AccessTypeOK, AcItemsOfMembers, AcGone, AcShrink

\* Every step keeps who has what.
LEMMA AcStepKept == AcKept /\ [AccessNext]_ac_vars => AcKept'
  <1> SUFFICES ASSUME AcKept, [AccessNext]_ac_vars
               PROVE  AcKept'
    OBVIOUS
  <1>1. CASE UNCHANGED ac_vars
    BY <1>1 DEF ac_vars, AcKept, AccessTypeOK, AcItemsOfMembers
  <1>2. ASSUME NEW u \in AcUsers, AcPart(u) \/ AcQuit(u) \/ AcKickForeign(u)
        PROVE  AcKept'
    BY <1>2, AcLeaves DEF AcPart, AcQuit, AcKickForeign
  <1>3. ASSUME NEW u \in AcUsers, AcKickByServer(u)
        PROVE  AcKept'
    BY <1>3 DEF AcKickByServer, AcGone, AcKept, AccessTypeOK, AcItemsOfMembers
  <1>4. ASSUME NEW s \in AcUsers, AcModeNoKicks(s)
        PROVE  AcKept'
    BY <1>4 DEF AcModeNoKicks, AcKept, AccessTypeOK, AcItemsOfMembers
  <1>5. ASSUME NEW u \in AcUsers, NEW blocks, AcJoin(u, blocks)
        PROVE  AcKept'
    BY <1>5 DEF AcJoin, AcKept, AccessTypeOK, AcItemsOfMembers
  <1>6. ASSUME NEW s \in AcUsers, NEW t \in AcUsers, AcKick(s, t) \/ AcRemove(s, t)
        PROVE  AcKept'
    BY <1>6, AcLeaves DEF AcKick, AcRemove
  <1>7. ASSUME NEW s, NEW t \in AcUsers, NEW adding \in BOOLEAN, NEW mode \in AcStatuses,
               AcModeStatus(s, t, mode, adding)
        PROVE  AcKept'
    <2>1. mode \in {"v", "h", "o"}
      BY AccessOK
    <2> QED BY <1>7, <2>1 DEF AcModeStatus, AcKept, AccessTypeOK, AcItemsOfMembers
  <1>8. ASSUME NEW s, NEW t \in AcUsers, NEW adding \in BOOLEAN,
               AcModeFounder(s, t, adding) \/ AcModeProtect(s, t, adding)
        PROVE  AcKept'
    BY <1>8 DEF AcModeFounder, AcModeProtect, AcKept, AccessTypeOK, AcItemsOfMembers
  <1>9. CASE AcUnload \/ AcRehash
    BY <1>9 DEF AcUnload, AcRehash, AcKept, AccessTypeOK, AcItemsOfMembers
  <1> QED BY <1>1, <1>2, <1>3, <1>4, <1>5, <1>6, <1>7, <1>8, <1>9 DEF AccessNext

\* In every order of loading, +q and +a end with the membership, and protect from all who do not override them.
THEOREM AccessAlwaysSafe == AccessSpec => AcSafe
  <1>1. AcKept =>
          [\A s, t \in AcUsers : s # t /\ t \in ac_founder /\ AcActsOn(s, t) => AcOverrides(s)]_ac_vars
    <2> SUFFICES ASSUME AcKept, NEW s \in AcUsers, NEW t \in AcUsers, s # t, t \in ac_founder, AcActsOn(s, t)
                 PROVE  AcOverrides(s)
      OBVIOUS
    <2>1. AccessTypeOK
      BY DEF AcKept
    <2>2. ~AcRemove(s, t)
      BY DEF AcRemove, AcLevel
    <2> QED BY <2>1, <2>2, AcKickGuarded, AcStatusGuarded DEF AcActsOn
  <1>2. AcKept =>
          [\A s, t \in AcUsers : s # t /\ t \in ac_protect \ ac_founder /\ AcActsOn(s, t) =>
              AcOverrides(s) \/ s \in ac_protect \/ (s \in ac_founder /\ AcRemove(s, t))]_ac_vars
    <2> SUFFICES ASSUME AcKept, NEW s \in AcUsers, NEW t \in AcUsers, s # t, t \in ac_protect \ ac_founder,
                        AcActsOn(s, t), s \notin ac_protect
                 PROVE  AcOverrides(s) \/ (s \in ac_founder /\ AcRemove(s, t))
      OBVIOUS
    <2>1. AccessTypeOK
      BY DEF AcKept
    <2>2. AcRemove(s, t) => s \in ac_founder
      BY DEF AcRemove, AcLevel
    <2> QED BY <2>1, <2>2, AcKickGuarded, AcStatusGuarded DEF AcActsOn
  <1>3. AcKept =>
          [ac_nokicks => \A s, t \in AcUsers :
              /\ AcKick(s, t) => AcCan(s, "KICK") \/ (AcCan(s, "OTHERMODE") /\ AcAsked("override", "nokicks"))
              /\ AcRemove(s, t) => ~AcRemoveNoKicks]_ac_vars
    <2> SUFFICES ASSUME AcKept, ac_nokicks, NEW s \in AcUsers, NEW t \in AcUsers
                 PROVE  /\ AcKick(s, t) => AcCan(s, "KICK")
                                             \/ (AcCan(s, "OTHERMODE") /\ AcAsked("override", "nokicks"))
                        /\ AcRemove(s, t) => ~AcRemoveNoKicks
      OBVIOUS
    <2>1. PICK i \in 1 .. 3 : ac_order[i] = "nokicks"
      BY AcAllAsked DEF AcKept, AccessTypeOK, AcModules
    <2>2. AcAnswer("nokicks", s, t, "kick") = "deny"
      BY DEF AcAnswer
    <2>3. ASSUME AcKick(s, t), ~AcCan(s, "KICK")
          PROVE  AcCan(s, "OTHERMODE") /\ AcAsked("override", "nokicks")
      <3>1. AcCheck(s, t, "kick") # "deny"
        BY <2>3 DEF AcKick, AcMayKick
      <3>2. AcAsked("override", "nokicks") /\ AcCan(s, AcToken["kick"])
        BY <2>1, <2>2, <3>1, AcFirstAnswer DEF AcKept
      <3> QED BY <3>2 DEF AcToken
    <2>4. AcRemove(s, t) => ~AcRemoveNoKicks
      BY DEF AcRemove
    <2> QED BY <2>3, <2>4
  <1>4. AcKept => [\A s, t \in AcUsers : AcRemove(s, t) => s \in ac_on \cup ac_stale]_ac_vars
    <2> SUFFICES ASSUME AcKept, NEW s \in AcUsers, NEW t \in AcUsers, AcRemove(s, t)
                 PROVE  s \in ac_on \cup ac_stale
      OBVIOUS
    <2>1. s \in ac_founder \cup ac_protect \/ ac_status[s] # {}
      BY DEF AcRemove, AcLevel
    <2> QED BY <2>1 DEF AcKept, AcItemsOfMembers
  <1>5. AcKept => AcItemsOfMembers
    BY DEF AcKept
  <1> QED BY <1>1, <1>2, <1>3, <1>4, <1>5, AcInitKept, AcStepKept, PTL
          DEF AccessSpec, AcSafe, AcFounderSafe, AcProtectedSafe, AcNoKicks, AcMembersAct

-----------------------------------------------------------------------------
(* Flood: what is counted has happened, and lately *)

FlClocks == [left : 0 .. FlSecs, over : BOOLEAN]
\* As long as the clock runs, each event that was counted is remembered and is not older than the clock.
FlBacked(clock, count, most, ages) ==
    /\ count < most
    /\ ~clock.over => count <= Len(ages) /\ \A i \in 1 .. count : ages[i] + clock.left <= FlSecs
FlTiming(clock) == clock \in FlClocks /\ (clock.over => clock.left = 0)

FlLinesKept(f, said) ==
    /\ f = [clock |-> f.clock, count |-> f.count]
    /\ FlTiming(f.clock) /\ f.count \in [FlUsers -> Nat]
    /\ \A u \in FlUsers : FlBacked(f.clock, f.count[u], FlLines, said[u])
FlJoinsKept(j, joined) ==
    /\ j = [clock |-> j.clock, count |-> j.count, lock |-> j.lock]
    /\ FlTiming(j.clock) /\ j.count \in Nat
    /\ FlBacked(j.clock, j.count, FlJoins, joined)
\* Whoever has to stay away is on the list, for at least as long.
FlAwayKept(list, away) ==
    /\ \A u \in DOMAIN list : list[u] \in Nat
    /\ \A u \in FlUsers : away[u] > 0 => u \in DOMAIN list /\ list[u] >= away[u]
FlKept ==
    /\ fl_said \in [FlUsers -> Seq(Nat)] /\ fl_joined \in Seq(Nat) /\ fl_away \in [FlUsers -> Nat]
    /\ fl_f # <<>> => FlLinesKept(fl_f, fl_said)
    /\ fl_j # <<>> => FlJoinsKept(fl_j, fl_joined)
    /\ fl_J = [set |-> fl_J.set, list |-> fl_J.list]
    /\ FlAwayKept(fl_J.list, fl_away)
    /\ FlCounted

-----------------------------------------------------------------------------
LEMMA FlConstants == /\ FlLines \in Nat \ {0} /\ FlJoins \in Nat \ {0} /\ FlSecs \in Nat \ {0}
                     /\ FlDelay \in Nat
  BY FloodOK

LEMMA FlRecentAges ==
    ASSUME NEW ages \in Seq(Nat), NEW n \in Nat \ {0}
    PROVE  LET r == FlRecent(ages, n) IN
           /\ r \in Seq(Nat) /\ Len(r) = (IF Len(ages) + 1 > n THEN n ELSE Len(ages) + 1)
           /\ \A i \in 1 .. Len(r) : r[i] = IF i = 1 THEN 0 ELSE ages[i - 1]
  <1> DEFINE more == <<0>> \o ages
             r == FlRecent(ages, n)
  <1>1. more \in Seq(Nat) /\ Len(more) = Len(ages) + 1 /\ Len(ages) \in Nat
        /\ \A i \in 1 .. Len(ages) + 1 : more[i] = IF i = 1 THEN 0 ELSE ages[i - 1]
    OBVIOUS
  <1>2. r = IF Len(more) > n THEN SubSeq(more, 1, n) ELSE more
    BY DEF FlRecent
  <1> HIDE DEF more, r
  <1>3. CASE Len(more) > n
    <2>1. r = SubSeq(more, 1, n) /\ n \in 1 .. Len(more)
      BY <1>1, <1>2, <1>3
    <2>2. r \in Seq(Nat) /\ Len(r) = n /\ \A i \in 1 .. n : r[i] = more[i]
      BY <1>1, <2>1
    <2>3. ASSUME NEW i \in 1 .. n PROVE r[i] = IF i = 1 THEN 0 ELSE ages[i - 1]
      <3>1. i \in 1 .. Len(ages) + 1
        BY <1>1, <1>3
      <3> QED BY <1>1, <2>2, <3>1
    <2>4. Len(r) = IF Len(ages) + 1 > n THEN n ELSE Len(ages) + 1
      BY <1>1, <1>3, <2>2
    <2> QED BY <2>2, <2>3, <2>4 DEF r
  <1>4. CASE ~(Len(more) > n)
    BY <1>1, <1>2, <1>4 DEF r
  <1> QED BY <1>3, <1>4

\* One event more, while the clock runs: the count is backed, or there have been as many as the mode says.
LEMMA FlOneMore ==
    ASSUME NEW clock, FlTiming(clock), ~clock.over, NEW count \in Nat, NEW most \in Nat \ {0},
           NEW ages \in Seq(Nat), FlBacked(clock, count, most, ages)
    PROVE  LET r == FlRecent(ages, most) IN
           /\ r \in Seq(Nat)
           /\ count + 1 < most => FlBacked(clock, count + 1, most, r)
           /\ count + 1 >= most => Len(r) = most /\ \A i \in DOMAIN r : r[i] <= FlSecs
  <1> DEFINE r == FlRecent(ages, most)
  <1>1. /\ r \in Seq(Nat) /\ Len(r) = (IF Len(ages) + 1 > most THEN most ELSE Len(ages) + 1)
        /\ \A i \in 1 .. Len(r) : r[i] = IF i = 1 THEN 0 ELSE ages[i - 1]
    BY FlRecentAges
  <1>2. clock.left \in 0 .. FlSecs /\ FlSecs \in Nat
    BY FlConstants DEF FlTiming, FlClocks
  <1>3. count < most /\ count <= Len(ages) /\ \A i \in 1 .. count : ages[i] + clock.left <= FlSecs
    BY DEF FlBacked
  <1>4. Len(ages) \in Nat /\ \A i \in 1 .. Len(ages) : ages[i] \in Nat
    OBVIOUS
  <1> HIDE DEF r
  <1>5. Len(r) >= count + 1
    BY <1>1, <1>3, <1>4
  <1>6. \A i \in 1 .. count + 1 : r[i] + clock.left <= FlSecs
    <2> SUFFICES ASSUME NEW i \in 1 .. count + 1 PROVE r[i] + clock.left <= FlSecs
      OBVIOUS
    <2>1. i \in 1 .. Len(r) /\ Len(r) \in Nat
      BY <1>1, <1>3, <1>4, <1>5
    <2>2. CASE i = 1
      <3>1. r[i] = 0
        BY <1>1, <2>1, <2>2
      <3> QED BY <1>2, <3>1
    <2>3. CASE i # 1
      <3>1. i - 1 \in 1 .. count /\ r[i] = ages[i - 1]
        BY <1>1, <2>1, <2>3
      <3> QED BY <1>3, <3>1
    <2> QED BY <2>2, <2>3
  <1>7. count + 1 < most => FlBacked(clock, count + 1, most, r)
    BY <1>5, <1>6 DEF FlBacked
  <1>8. ASSUME count + 1 >= most PROVE Len(r) = most /\ \A i \in DOMAIN r : r[i] <= FlSecs
    <2>1. most = count + 1 /\ Len(r) = most
      BY <1>1, <1>3, <1>4, <1>8
    <2>2. DOMAIN r = 1 .. count + 1 /\ \A i \in 1 .. count + 1 : r[i] \in Nat
      BY <1>1, <2>1
    <2> QED BY <1>2, <1>6, <2>1, <2>2
  <1> QED BY <1>1, <1>7, <1>8 DEF r

LEMMA FlNewClock == FlTiming(FlClock) /\ FlClock.over = FALSE
  <1>1. FlClock.over = FALSE
    BY DEF FlClock
  <1>2. FlSecs \in 0 .. FlSecs
    BY FlConstants
  <1>3. FlClock \in FlClocks
    BY <1>2 DEF FlClock, FlClocks
  <1> QED BY <1>1, <1>3 DEF FlTiming

LEMMA FlNoneCounted ==
    ASSUME NEW clock, NEW most \in Nat \ {0}, NEW ages \in Seq(Nat)
    PROVE  FlBacked(clock, 0, most, ages)
  BY DEF FlBacked

\* A second later.
LEMMA FlLater ==
    ASSUME NEW clock, FlTiming(clock), NEW count \in Nat, NEW most, NEW ages \in Seq(Nat),
           FlBacked(clock, count, most, ages)
    PROVE  FlTiming(FlTicked(clock)) /\ FlOlder(ages) \in Seq(Nat)
           /\ FlBacked(FlTicked(clock), count, most, FlOlder(ages))
  <1>1. clock.left \in 0 .. FlSecs /\ FlSecs \in Nat /\ (clock.over => clock.left = 0)
    BY FlConstants DEF FlTiming, FlClocks
  <1> DEFINE c == FlTicked(clock)
             o == FlOlder(ages)
  <1>2. c.left = (IF clock.left = 0 THEN 0 ELSE clock.left - 1) /\ c.over = (clock.left = 0)
    BY DEF FlTicked
  <1>3. FlTiming(c)
    BY <1>1 DEF FlTicked, FlTiming, FlClocks
  <1>4. \A i \in 1 .. Len(ages) : ages[i] \in Nat /\ Len(ages) \in Nat
    OBVIOUS
  <1>5. o = [i \in 1 .. Len(ages) |-> IF ages[i] > FlSecs THEN ages[i] ELSE ages[i] + 1]
    BY DEF FlOlder
  <1>6. \A i \in 1 .. Len(ages) : o[i] = IF ages[i] > FlSecs THEN ages[i] ELSE ages[i] + 1
    BY <1>5
  <1>7. \A i \in 1 .. Len(ages) : (IF ages[i] > FlSecs THEN ages[i] ELSE ages[i] + 1) \in Nat
    BY <1>1, <1>4
  <1>8. o \in Seq(Nat)
    BY <1>5, <1>7, IsASeq
  <1>9. Len(o) = Len(ages)
    BY <1>5, <1>8
  <1> HIDE DEF c, o
  <1>10. FlBacked(c, count, most, o)
    <2> SUFFICES ASSUME ~c.over PROVE count <= Len(o) /\ \A i \in 1 .. count : o[i] + c.left <= FlSecs
      BY DEF FlBacked
    <2>1. clock.left # 0 /\ ~clock.over /\ c.left = clock.left - 1
      BY <1>1, <1>2
    <2>2. count <= Len(ages) /\ \A i \in 1 .. count : ages[i] + clock.left <= FlSecs
      BY <2>1 DEF FlBacked
    <2>3. ASSUME NEW i \in 1 .. count PROVE o[i] + c.left <= FlSecs
      <3>1. i \in 1 .. Len(ages) /\ ages[i] \in Nat /\ ages[i] + clock.left <= FlSecs
        BY <1>1, <1>4, <2>2
      <3>2. o[i] \in Nat /\ o[i] <= ages[i] + 1 /\ clock.left \in Nat
        <4> DEFINE a == ages[i]
        <4>1. o[i] = (IF a > FlSecs THEN a ELSE a + 1) /\ a \in Nat
          BY <1>6, <3>1
        <4> HIDE DEF a
        <4>2. o[i] \in Nat /\ o[i] <= a + 1
          BY <1>1, <4>1
        <4> QED BY <1>1, <4>2 DEF a
      <3> DEFINE a == ages[i]
                 b == o[i]
                 l == clock.left
      <3>3. a \in Nat /\ b \in Nat /\ l \in Nat /\ a + l <= FlSecs /\ b <= a + 1 /\ c.left = l - 1 /\ FlSecs \in Nat
        BY <1>1, <2>1, <3>1, <3>2
      <3> HIDE DEF a, b, l
      <3>4. b + (l - 1) <= FlSecs
        BY <3>3
      <3> QED BY <3>3, <3>4 DEF b
    <2> QED BY <1>9, <2>2, <2>3
  <1> QED BY <1>3, <1>8, <1>10 DEF c, o

LEMMA FlInitKept == FloodInit => FlKept
  <1> SUFFICES ASSUME FloodInit PROVE FlKept
    OBVIOUS
  <1>1. fl_said \in [FlUsers -> Seq(Nat)] /\ fl_joined \in Seq(Nat) /\ fl_away \in [FlUsers -> Nat]
    BY DEF FloodInit
  <1>2. fl_f = <<>> /\ fl_j = <<>>
    BY DEF FloodInit
  <1>3. fl_J = [set |-> fl_J.set, list |-> fl_J.list] /\ fl_J.list = <<>>
    BY DEF FloodInit
  <1>4. FlAwayKept(fl_J.list, fl_away)
    <2>1. \A u \in FlUsers : fl_away[u] = 0
      BY DEF FloodInit
    <2> QED BY <1>3, <2>1 DEF FlAwayKept
  <1>5. FlCounted
    <2>1. fl_seen.kind = "none"
      BY DEF FloodInit, FlNothing
    <2> QED BY <2>1 DEF FlCounted, FlFlooded, FlClosed, FlStaysAway
  <1> QED BY <1>1, <1>2, <1>3, <1>4, <1>5 DEF FlKept

LEMMA FlQuiet ==
    ASSUME fl_seen' = FlNothing
    PROVE  FlCounted'
  <1>1. fl_seen'.kind = "none"
    BY DEF FlNothing
  <1> QED BY <1>1 DEF FlCounted, FlFlooded, FlClosed, FlStaysAway

\* OnChannelDelete of all three, when the last member goes.
LEMMA FlGoneKept ==
    ASSUME FlKept, NEW u, FlGone(u), fl_on = {u}, fl_said' \in [FlUsers -> Seq(Nat)], UNCHANGED fl_joined, FlCounted'
    PROVE  FlKept'
  <1>1. fl_f' = <<>> /\ fl_j' = <<>> /\ fl_J' = [set |-> FALSE, list |-> <<>>] /\ fl_away' = [v \in FlUsers |-> 0]
    BY DEF FlGone
  <1>2. fl_away' \in [FlUsers -> Nat] /\ fl_joined' \in Seq(Nat)
    BY <1>1 DEF FlKept
  <1>3. fl_J'.list = <<>> /\ fl_J'.set = FALSE
    BY <1>1
  <1>4. FlAwayKept(fl_J'.list, fl_away')
    BY <1>1, <1>3 DEF FlAwayKept
  <1> QED BY <1>1, <1>2, <1>3, <1>4 DEF FlKept

\* m_kicknorejoin::OnUserKick
LEMMA FlKicked ==
    ASSUME FlKept, NEW u \in FlUsers, fl_J' = FlNoRejoin(u),
           fl_away' = [fl_away EXCEPT ![u] = IF fl_J.set THEN FlDelay ELSE 0]
    PROVE  /\ fl_away' \in [FlUsers -> Nat] /\ fl_J' = [set |-> fl_J'.set, list |-> fl_J'.list]
           /\ FlAwayKept(fl_J'.list, fl_away')
  <1>1. fl_away \in [FlUsers -> Nat] /\ FlAwayKept(fl_J.list, fl_away) /\ fl_J = [set |-> fl_J.set, list |-> fl_J.list]
    BY DEF FlKept
  <1>2. CASE fl_J.set
    <2> DEFINE list == fl_J.list
               new == [v \in DOMAIN list \cup {u} |-> IF v = u THEN FlDelay ELSE list[v]]
    <2>1. fl_J' = [fl_J EXCEPT !.list = new]
      BY <1>2 DEF FlNoRejoin
    <2> HIDE DEF new
    <2>2. fl_J' = [set |-> fl_J.set, list |-> new]
      BY <1>1, <2>1
    <2>3. fl_J'.set = fl_J.set /\ fl_J'.list = new
      BY <2>2
    <2>4. fl_away' \in [FlUsers -> Nat] /\ \A v \in FlUsers : fl_away'[v] = IF v = u THEN FlDelay ELSE fl_away[v]
      BY <1>1, <1>2, FlConstants
    <2>5. FlAwayKept(new, fl_away')
      BY <1>1, <2>4, FlConstants DEF FlAwayKept, new
    <2> QED BY <2>2, <2>3, <2>4, <2>5
  <1>3. CASE ~fl_J.set
    <2>1. fl_J' = fl_J
      BY <1>3 DEF FlNoRejoin
    <2>2. fl_away' \in [FlUsers -> Nat] /\ \A v \in FlUsers : fl_away'[v] = IF v = u THEN 0 ELSE fl_away[v]
      BY <1>1, <1>3
    <2> QED BY <1>1, <2>1, <2>2 DEF FlAwayKept
  <1> QED BY <1>2, <1>3

LEMMA FlSayKept ==
    ASSUME FlKept, NEW u \in FlUsers, FlSay(u)
    PROVE  FlKept'
  <1> DEFINE f == FlAddMessage(u)
             ages == FlRecent(fl_said[u], FlLines)
  <1>1. /\ FlLinesKept(fl_f, fl_said) /\ fl_said \in [FlUsers -> Seq(Nat)] /\ UNCHANGED fl_joined
        /\ fl_said' = [fl_said EXCEPT ![u] = ages]
    BY DEF FlKept, FlSay
  <1>2. fl_f = [clock |-> fl_f.clock, count |-> fl_f.count] /\ FlTiming(fl_f.clock) /\ fl_f.count \in [FlUsers -> Nat]
    BY <1>1 DEF FlLinesKept
  <1>3. ages \in Seq(Nat)
    BY <1>1, FlConstants, FlRecentAges
  <1> HIDE DEF ages
  <1>4. fl_said' \in [FlUsers -> Seq(Nat)] /\ fl_said'[u] = ages /\ \A v \in FlUsers \ {u} : fl_said'[v] = fl_said[v]
    BY <1>1, <1>3
  <1>5. CASE fl_f.clock.over
    <2>1. f = FlNewF
      BY <1>5 DEF FlAddMessage
    <2>2. f = [clock |-> f.clock, count |-> f.count] /\ f.clock = FlClock /\ f.count = [v \in FlUsers |-> 0]
      BY <2>1 DEF FlNewF
    <2> HIDE DEF f
    <2>3. f.count \in [FlUsers -> Nat] /\ \A v \in FlUsers : f.count[v] = 0
      BY <2>2
    <2>4. FlLinesKept(f, fl_said')
      BY <1>4, <2>2, <2>3, FlConstants, FlNewClock, FlNoneCounted DEF FlLinesKept
    <2>5. ~(f.count[u] >= FlLines)
      BY <2>3, FlConstants
    <2>6. fl_f' = f /\ fl_seen' = FlNothing /\ UNCHANGED <<fl_j, fl_J, fl_away>>
      BY <2>5 DEF FlSay, f
    <2>7. FlCounted'
      BY <2>6, FlQuiet
    <2> QED BY <1>1, <1>4, <2>4, <2>6, <2>7 DEF FlKept
  <1>6. CASE ~fl_f.clock.over
    <2> DEFINE n == fl_f.count[u] + 1
    <2>1. f = [fl_f EXCEPT !.count[u] = @ + 1]
      BY <1>6 DEF FlAddMessage
    <2>2. f = [clock |-> fl_f.clock, count |-> [fl_f.count EXCEPT ![u] = n]]
      BY <1>2, <2>1
    <2> HIDE DEF f
    <2>3. n \in Nat /\ FlBacked(fl_f.clock, fl_f.count[u], FlLines, fl_said[u]) /\ fl_f.count[u] \in Nat
      BY <1>1, <1>2 DEF FlLinesKept
    <2>4. /\ n < FlLines => FlBacked(fl_f.clock, n, FlLines, ages)
          /\ n >= FlLines => Len(ages) = FlLines /\ \A i \in DOMAIN ages : ages[i] <= FlSecs
      BY <1>1, <1>2, <1>6, <2>3, FlOneMore, FlConstants DEF ages
    <2> HIDE DEF n
    <2>5. f.clock = fl_f.clock /\ f.count = [fl_f.count EXCEPT ![u] = n]
      BY <2>2
    <2>6. f.count[u] = n
      BY <1>2, <2>5
    <2>7. \A k \in Nat : FlBacked(fl_f.clock, k, FlLines, ages)
             => FlLinesKept([clock |-> fl_f.clock, count |-> [fl_f.count EXCEPT ![u] = k]], fl_said')
      <3> SUFFICES ASSUME NEW k \in Nat, FlBacked(fl_f.clock, k, FlLines, ages)
                   PROVE  FlLinesKept([clock |-> fl_f.clock, count |-> [fl_f.count EXCEPT ![u] = k]], fl_said')
        OBVIOUS
      <3> DEFINE c == [fl_f.count EXCEPT ![u] = k]
                 g == [clock |-> fl_f.clock, count |-> c]
      <3>1. c \in [FlUsers -> Nat] /\ c[u] = k /\ \A v \in FlUsers \ {u} : c[v] = fl_f.count[v]
        BY <1>2
      <3> HIDE DEF c
      <3>2. g.clock = fl_f.clock /\ g.count = c
        OBVIOUS
      <3>3. \A v \in FlUsers : FlBacked(fl_f.clock, c[v], FlLines, fl_said'[v])
        BY <1>1, <1>4, <3>1 DEF FlLinesKept
      <3>4. g = [clock |-> g.clock, count |-> g.count]
        BY <3>2
      <3> HIDE DEF g
      <3>5. FlLinesKept(g, fl_said')
        BY <1>2, <3>1, <3>2, <3>3, <3>4 DEF FlLinesKept
      <3> QED BY <3>5 DEF g, c
    <2>8. CASE ~(n >= FlLines)
      <3>0. ~(f.count[u] >= FlLines)
        BY <2>6, <2>8
      <3>1. fl_f' = f /\ fl_seen' = FlNothing /\ UNCHANGED <<fl_j, fl_J, fl_away>>
        BY <3>0 DEF FlSay, f
      <3>2. FlLinesKept(fl_f', fl_said')
        <4>1. n < FlLines
          BY <2>3, <2>8, FlConstants
        <4>2. FlBacked(fl_f.clock, n, FlLines, ages)
          BY <2>4, <4>1
        <4>3. fl_f' = [clock |-> fl_f.clock, count |-> [fl_f.count EXCEPT ![u] = n]]
          BY <2>2, <3>1
        <4> QED BY <2>3, <2>7, <4>2, <4>3, ZenonT(30)
      <3>3. FlCounted'
        BY <3>1, FlQuiet
      <3> QED BY <1>1, <1>4, <3>1, <3>2, <3>3 DEF FlKept
    <2>9. CASE n >= FlLines
      <3>1. /\ FlGone(u) /\ fl_seen' = [kind |-> "flood", ages |-> ages, away |-> 0]
            /\ fl_on # {u} => /\ fl_f' = [f EXCEPT !.count[u] = 0] /\ UNCHANGED fl_j
                              /\ fl_J' = FlNoRejoin(u)
                              /\ fl_away' = [fl_away EXCEPT ![u] = IF fl_J.set THEN FlDelay ELSE 0]
        BY <2>6, <2>9 DEF FlSay, f, ages
      <3>2. FlCounted'
        <4>1. fl_seen'.kind = "flood" /\ fl_seen'.ages = ages
          BY <3>1
        <4> QED BY <2>4, <2>9, <4>1 DEF FlCounted, FlFlooded, FlClosed, FlStaysAway
      <3>3. CASE fl_on = {u}
        BY <1>1, <1>4, <3>1, <3>2, <3>3, FlGoneKept
      <3>4. CASE fl_on # {u}
        <4>1. fl_f' = [clock |-> fl_f.clock, count |-> [fl_f.count EXCEPT ![u] = 0]]
          <5>1. fl_f' = [f EXCEPT !.count[u] = 0]
            BY <3>1, <3>4
          <5>2. [[fl_f.count EXCEPT ![u] = n] EXCEPT ![u] = 0] = [fl_f.count EXCEPT ![u] = 0]
            BY <1>2
          <5> QED BY <2>2, <5>1, <5>2
        <4>2. FlLinesKept(fl_f', fl_said')
          BY <1>3, <2>7, <4>1, FlNoneCounted, FlConstants
        <4> QED BY <1>1, <1>4, <3>1, <3>2, <3>4, <4>2, FlKicked DEF FlKept
      <3> QED BY <3>3, <3>4
    <2> QED BY <2>8, <2>9
  <1> QED BY <1>5, <1>6

LEMMA FlJoinKept ==
    ASSUME FlKept, NEW u \in FlUsers, NEW forced \in BOOLEAN, FlJoin(u, forced)
    PROVE  FlKept'
  <1>1. fl_said' = fl_said /\ fl_f' = fl_f /\ fl_away' = fl_away
    BY DEF FlJoin
  <1>2. fl_J' = [set |-> fl_J'.set, list |-> fl_J'.list] /\ FlAwayKept(fl_J'.list, fl_away)
    <2>1. FlAwayKept(fl_J.list, fl_away) /\ fl_J = [set |-> fl_J.set, list |-> fl_J.list] /\ fl_away \in [FlUsers -> Nat]
      BY DEF FlKept
    <2>2. CASE forced
      BY <2>1, <2>2 DEF FlJoin
    <2>3. CASE ~forced
      <3> DEFINE list == fl_J.list
                 old == FlPurged
      <3>1. fl_J' = [fl_J EXCEPT !.list = old]
        BY <2>3 DEF FlJoin
      <3>2. old = [v \in {v \in DOMAIN list : list[v] > 0} |-> list[v]]
        BY DEF FlPurged, Restrict
      <3> HIDE DEF old
      <3>3. fl_J' = [set |-> fl_J.set, list |-> old]
        BY <2>1, <3>1
      <3>4. fl_J'.list = old /\ fl_J'.set = fl_J.set
        BY <3>3
      <3>5. FlAwayKept(old, fl_away)
        BY <2>1, <3>2 DEF FlAwayKept
      <3> QED BY <3>3, <3>4, <3>5
    <2> QED BY <2>2, <2>3
  <1>3. FlStaysAway'
    <2> SUFFICES ASSUME fl_seen'.kind = "join" PROVE fl_seen'.away = 0
      BY DEF FlStaysAway
    <2>1. fl_seen'.away = fl_away[u] /\ ~forced
      BY DEF FlJoin
    <2>2. ~FlBarred(u) /\ fl_away[u] \in Nat /\ FlAwayKept(fl_J.list, fl_away)
      BY <2>1 DEF FlJoin, FlKept
    <2> QED BY <2>1, <2>2 DEF FlBarred, FlAwayKept
  <1>4. fl_seen'.kind # "flood"
    BY DEF FlJoin
  <1>5. CASE fl_j = <<>>
    <2>1. fl_j' = <<>> /\ fl_joined' = <<>> /\ fl_seen'.kind # "lock"
      BY <1>5 DEF FlJoin
    <2>2. fl_joined' \in Seq(Nat) /\ FlCounted'
      BY <1>3, <1>4, <2>1 DEF FlCounted, FlFlooded, FlClosed
    <2> QED BY <1>1, <1>2, <2>1, <2>2 DEF FlKept
  <1>6. CASE fl_j # <<>>
    <2> DEFINE ages == FlRecent(fl_joined, FlJoins)
               j == FlAddJoin
    <2>1. /\ fl_j = [clock |-> fl_j.clock, count |-> fl_j.count, lock |-> fl_j.lock]
          /\ FlTiming(fl_j.clock) /\ fl_j.count \in Nat
          /\ FlBacked(fl_j.clock, fl_j.count, FlJoins, fl_joined) /\ fl_joined \in Seq(Nat)
      BY <1>6 DEF FlKept, FlJoinsKept
    <2>2. fl_joined' = ages /\ ages \in Seq(Nat)
      BY <1>6, <2>1, FlRecentAges, FlConstants DEF FlJoin
    <2>3. /\ j.count >= FlJoins => /\ fl_j' = [j EXCEPT !.count = 0, !.lock = FlLock + 1]
                                   /\ fl_seen'.ages = ages
          /\ ~(j.count >= FlJoins) => fl_j' = j /\ fl_seen'.kind # "lock"
      BY <1>6 DEF FlJoin
    <2>4. /\ j = [clock |-> j.clock, count |-> j.count, lock |-> j.lock]
          /\ FlTiming(j.clock) /\ j.count \in Nat
          /\ ~(j.count >= FlJoins) => FlBacked(j.clock, j.count, FlJoins, ages)
          /\ j.count >= FlJoins => Len(ages) = FlJoins /\ \A i \in DOMAIN ages : ages[i] <= FlSecs
      <3>1. CASE fl_j.clock.over
        <4>1. j = [clock |-> FlClock, count |-> 0, lock |-> fl_j.lock]
          BY <2>1, <3>1 DEF FlAddJoin
        <4> HIDE DEF j, ages
        <4>2. j.clock = FlClock /\ j.count = 0 /\ j.lock = fl_j.lock
          BY <4>1
        <4> QED BY <2>2, <4>1, <4>2, FlNewClock, FlNoneCounted, FlConstants
      <3>2. CASE ~fl_j.clock.over
        <4> DEFINE n == fl_j.count + 1
        <4>1. j = [clock |-> fl_j.clock, count |-> n, lock |-> fl_j.lock]
          BY <2>1, <3>2 DEF FlAddJoin
        <4>2. /\ n < FlJoins => FlBacked(fl_j.clock, n, FlJoins, ages)
              /\ n >= FlJoins => Len(ages) = FlJoins /\ \A i \in DOMAIN ages : ages[i] <= FlSecs
          BY <2>1, <3>2, FlOneMore, FlConstants
        <4>3. n \in Nat
          BY <2>1
        <4> HIDE DEF j, ages, n
        <4>4. j.clock = fl_j.clock /\ j.count = n /\ j.lock = fl_j.lock
          BY <4>1
        <4> QED BY <2>1, <4>1, <4>2, <4>3, <4>4, FlConstants
      <3> QED BY <3>1, <3>2
    <2> HIDE DEF j, ages
    <2>5. FlCounted'
      BY <1>3, <1>4, <2>3, <2>4 DEF FlCounted, FlFlooded, FlClosed
    <2>6. FlJoinsKept(fl_j', fl_joined')
      <3>1. CASE ~(j.count >= FlJoins)
        BY <2>2, <2>3, <2>4, <3>1 DEF FlJoinsKept
      <3>2. CASE j.count >= FlJoins
        <4> DEFINE k == FlLock + 1
        <4>1. fl_j' = [j EXCEPT !.count = 0, !.lock = k]
          BY <2>3, <3>2
        <4> HIDE DEF k
        <4>2. fl_j' = [clock |-> j.clock, count |-> 0, lock |-> k]
          BY <2>4, <4>1
        <4>3. fl_j'.clock = j.clock /\ fl_j'.count = 0 /\ fl_j'.lock = k
          BY <4>2
        <4> QED BY <2>2, <2>4, <4>2, <4>3, FlNoneCounted, FlConstants DEF FlJoinsKept
      <3> QED BY <3>1, <3>2
    <2> QED BY <1>1, <1>2, <2>2, <2>5, <2>6 DEF FlKept
  <1> QED BY <1>5, <1>6

LEMMA FlLeaveKept ==
    ASSUME FlKept, NEW u \in FlUsers, FlKick(u) \/ FlPart(u)
    PROVE  FlKept'
  <1>1. FlGone(u) /\ fl_seen' = FlNothing /\ UNCHANGED <<fl_said, fl_joined>>
    BY DEF FlKick, FlPart
  <1>2. FlCounted'
    BY <1>1, FlQuiet
  <1>3. CASE fl_on = {u}
    <2>1. fl_said' \in [FlUsers -> Seq(Nat)]
      BY <1>1 DEF FlKept
    <2> QED BY <1>1, <1>2, <1>3, <2>1, FlGoneKept
  <1>4. CASE fl_on # {u} /\ FlKick(u)
    <2>1. fl_J' = FlNoRejoin(u) /\ UNCHANGED <<fl_f, fl_j>>
          /\ fl_away' = [fl_away EXCEPT ![u] = IF fl_J.set THEN FlDelay ELSE 0]
      BY <1>4 DEF FlKick
    <2>2. /\ fl_away' \in [FlUsers -> Nat] /\ fl_J' = [set |-> fl_J'.set, list |-> fl_J'.list]
          /\ FlAwayKept(fl_J'.list, fl_away')
      BY <2>1, FlKicked
    <2> QED BY <1>1, <1>2, <2>1, <2>2 DEF FlKept
  <1>5. CASE fl_on # {u} /\ FlPart(u)
    <2>1. UNCHANGED <<fl_f, fl_j, fl_J, fl_away>>
      BY <1>5 DEF FlPart
    <2> QED BY <1>1, <1>2, <2>1 DEF FlKept
  <1> QED BY <1>3, <1>4, <1>5

LEMMA FlModesKept ==
    ASSUME FlKept, NEW on \in BOOLEAN, FlModeF(on) \/ FlModeJ(on) \/ FlModeNoRejoin(on)
    PROVE  FlKept'
  <1>1. fl_seen' = FlNothing
    BY DEF FlModeF, FlModeJ, FlModeNoRejoin
  <1>2. FlCounted'
    BY <1>1, FlQuiet
  <1>3. CASE FlModeF(on)
    <2>1. fl_f' = (IF on THEN FlNewF ELSE <<>>) /\ fl_said' = [u \in FlUsers |-> <<>>]
          /\ UNCHANGED <<fl_j, fl_J, fl_joined, fl_away>>
      BY <1>3 DEF FlModeF
    <2> DEFINE f == FlNewF
    <2>2. f = [clock |-> f.clock, count |-> f.count] /\ f.clock = FlClock /\ f.count = [u \in FlUsers |-> 0]
      BY DEF FlNewF
    <2>3. fl_said' \in [FlUsers -> Seq(Nat)]
      BY <2>1
    <2> HIDE DEF f
    <2>4. f.count \in [FlUsers -> Nat] /\ \A u \in FlUsers : f.count[u] = 0
      BY <2>2
    <2>5. FlLinesKept(f, fl_said')
      BY <2>2, <2>3, <2>4, FlNewClock, FlNoneCounted, FlConstants DEF FlLinesKept
    <2> QED BY <1>2, <2>1, <2>3, <2>5 DEF FlKept, f
  <1>4. CASE FlModeJ(on)
    <2>1. fl_j' = (IF on THEN FlNewJ ELSE <<>>) /\ fl_joined' = <<>>
          /\ UNCHANGED <<fl_f, fl_J, fl_said, fl_away>>
      BY <1>4 DEF FlModeJ
    <2> DEFINE j == FlNewJ
    <2>2. j = [clock |-> j.clock, count |-> j.count, lock |-> j.lock] /\ j.clock = FlClock /\ j.count = 0
      BY DEF FlNewJ
    <2>3. fl_joined' \in Seq(Nat)
      BY <2>1
    <2> HIDE DEF j
    <2>4. FlJoinsKept(j, fl_joined')
      BY <2>2, <2>3, FlNewClock, FlNoneCounted, FlConstants DEF FlJoinsKept
    <2> QED BY <1>2, <2>1, <2>3, <2>4 DEF FlKept, j
  <1>5. CASE FlModeNoRejoin(on)
    <2>1. /\ fl_J' = (IF on THEN [fl_J EXCEPT !.set = TRUE] ELSE [set |-> FALSE, list |-> <<>>])
          /\ fl_away' = (IF on THEN fl_away ELSE [u \in FlUsers |-> 0])
          /\ UNCHANGED <<fl_f, fl_j, fl_said, fl_joined>>
      BY <1>5 DEF FlModeNoRejoin
    <2>2. FlAwayKept(fl_J.list, fl_away) /\ fl_J = [set |-> fl_J.set, list |-> fl_J.list] /\ fl_away \in [FlUsers -> Nat]
      BY DEF FlKept
    <2>3. CASE on
      <3> DEFINE list == fl_J.list
                 yes == TRUE
      <3>1. fl_J' = [set |-> yes, list |-> list] /\ fl_away' = fl_away
        BY <2>1, <2>2, <2>3
      <3> HIDE DEF yes
      <3>2. fl_J'.list = list /\ fl_J'.set = yes
        BY <3>1
      <3>3. fl_J' = [set |-> fl_J'.set, list |-> fl_J'.list] /\ FlAwayKept(fl_J'.list, fl_away')
        BY <2>2, <3>1, <3>2
      <3> QED BY <1>2, <2>1, <2>2, <3>1, <3>3 DEF FlKept
    <2>4. CASE ~on
      <3> DEFINE list == <<>>
                 no == FALSE
      <3>1. fl_J' = [set |-> no, list |-> list] /\ fl_away' = [u \in FlUsers |-> 0]
        BY <2>1, <2>4
      <3>2. FlAwayKept(list, fl_away')
        BY <3>1 DEF FlAwayKept
      <3>3. fl_away' \in [FlUsers -> Nat]
        BY <3>1
      <3> HIDE DEF list, no
      <3>4. fl_J'.list = list /\ fl_J'.set = no
        BY <3>1
      <3> QED BY <1>2, <2>1, <3>1, <3>2, <3>3, <3>4 DEF FlKept
    <2> QED BY <2>3, <2>4
  <1> QED BY <1>3, <1>4, <1>5

LEMMA FlTickKept ==
    ASSUME FlKept, FlTick
    PROVE  FlKept'
  <1>1. FlCounted'
    BY FlQuiet DEF FlTick
  <1>2. /\ fl_said \in [FlUsers -> Seq(Nat)] /\ fl_joined \in Seq(Nat) /\ fl_away \in [FlUsers -> Nat]
        /\ fl_said' = [u \in FlUsers |-> FlOlder(fl_said[u])] /\ fl_joined' = FlOlder(fl_joined)
        /\ fl_away' = [u \in FlUsers |-> IF fl_away[u] = 0 THEN 0 ELSE fl_away[u] - 1]
    BY DEF FlKept, FlTick
  <1>3. ASSUME NEW ages \in Seq(Nat) PROVE FlOlder(ages) \in Seq(Nat)
    <2> DEFINE clock == FlClock
    <2>1. FlTiming(clock) /\ FlBacked(clock, 0, 1, ages)
      BY FlNewClock, FlNoneCounted
    <2> HIDE DEF clock
    <2> QED BY <2>1, FlLater
  <1>4. fl_said' \in [FlUsers -> Seq(Nat)] /\ fl_joined' \in Seq(Nat) /\ fl_away' \in [FlUsers -> Nat]
    BY <1>2, <1>3
  <1>5. ASSUME fl_f' # <<>> PROVE FlLinesKept(fl_f', fl_said')
    <2>1. fl_f # <<>> /\ fl_f' = [fl_f EXCEPT !.clock = FlTicked(@)]
      BY <1>5 DEF FlTick
    <2>2. FlLinesKept(fl_f, fl_said)
      BY <2>1 DEF FlKept
    <2> DEFINE c == FlTicked(fl_f.clock)
               n == fl_f.count
    <2>3. fl_f' = [clock |-> c, count |-> n]
      BY <2>1, <2>2 DEF FlLinesKept
    <2>4. /\ FlTiming(c) /\ n \in [FlUsers -> Nat]
          /\ \A u \in FlUsers : FlBacked(c, n[u], FlLines, fl_said'[u])
      <3>1. FlTiming(fl_f.clock) /\ n \in [FlUsers -> Nat] /\ \A u \in FlUsers : FlBacked(fl_f.clock, n[u], FlLines, fl_said[u])
        BY <2>2 DEF FlLinesKept
      <3>2. FlTiming(c)
        <4> DEFINE none == <<>>
        <4>2. none \in Seq(Nat)
          OBVIOUS
        <4> HIDE DEF none
        <4>1. FlBacked(fl_f.clock, 0, 1, none) /\ none \in Seq(Nat)
          BY <4>2, FlNoneCounted
        <4> QED BY <3>1, <4>1, FlLater
      <3>3. ASSUME NEW u \in FlUsers PROVE FlBacked(c, n[u], FlLines, fl_said'[u])
        <4>1. n[u] \in Nat /\ fl_said[u] \in Seq(Nat) /\ fl_said'[u] = FlOlder(fl_said[u])
          BY <1>2, <3>1
        <4> QED BY <3>1, <4>1, FlLater
      <3> QED BY <3>1, <3>2, <3>3
    <2> HIDE DEF c, n
    <2>5. fl_f'.clock = c /\ fl_f'.count = n
      BY <2>3
    <2> QED BY <2>3, <2>4, <2>5 DEF FlLinesKept
  <1>6. ASSUME fl_j' # <<>> PROVE FlJoinsKept(fl_j', fl_joined')
    <2> DEFINE c == FlTicked(fl_j.clock)
               n == fl_j.count
               lock == IF fl_j.lock = 0 THEN 0 ELSE fl_j.lock - 1
    <2>1. fl_j # <<>> /\ fl_j' = [fl_j EXCEPT !.clock = FlTicked(@), !.lock = IF @ = 0 THEN 0 ELSE @ - 1]
      BY <1>6 DEF FlTick
    <2>2. FlJoinsKept(fl_j, fl_joined)
      BY <2>1 DEF FlKept
    <2>3. fl_j' = [clock |-> c, count |-> n, lock |-> lock]
      BY <2>1, <2>2 DEF FlJoinsKept
    <2>4. FlTiming(c) /\ n \in Nat /\ FlBacked(c, n, FlJoins, fl_joined')
      BY <1>2, <2>2, FlLater DEF FlJoinsKept
    <2> HIDE DEF c, n, lock
    <2>5. fl_j'.clock = c /\ fl_j'.count = n /\ fl_j'.lock = lock
      BY <2>3
    <2> QED BY <2>3, <2>4, <2>5 DEF FlJoinsKept
  <1>7. fl_J' = [set |-> fl_J'.set, list |-> fl_J'.list] /\ FlAwayKept(fl_J'.list, fl_away')
    <2>1. FlAwayKept(fl_J.list, fl_away) /\ fl_J = [set |-> fl_J.set, list |-> fl_J.list]
      BY DEF FlKept
    <2> DEFINE list == fl_J.list
               new == [u \in DOMAIN list |-> IF list[u] = 0 THEN 0 ELSE list[u] - 1]
    <2>2. fl_J' = [fl_J EXCEPT !.list = new]
      BY DEF FlTick
    <2> HIDE DEF new
    <2>3. fl_J' = [set |-> fl_J.set, list |-> new]
      BY <2>1, <2>2
    <2>4. fl_J'.set = fl_J.set /\ fl_J'.list = new
      BY <2>3
    <2>5. DOMAIN new = DOMAIN list /\ \A u \in DOMAIN list : new[u] = IF list[u] = 0 THEN 0 ELSE list[u] - 1
      BY DEF new
    <2>6. \A u \in DOMAIN list : list[u] \in Nat
      BY <2>1 DEF FlAwayKept
    <2>7. \A u \in DOMAIN list : new[u] \in Nat
      BY <2>5, <2>6
    <2>8. ASSUME NEW u \in FlUsers, fl_away'[u] > 0 PROVE u \in DOMAIN list /\ new[u] >= fl_away'[u]
      <3>1. fl_away[u] \in Nat /\ fl_away'[u] = IF fl_away[u] = 0 THEN 0 ELSE fl_away[u] - 1
        BY <1>2
      <3>2. fl_away[u] > 0 /\ fl_away'[u] = fl_away[u] - 1
        BY <2>8, <3>1
      <3>3. u \in DOMAIN list /\ list[u] >= fl_away[u]
        BY <2>1, <3>2 DEF FlAwayKept
      <3> QED BY <2>5, <2>6, <3>1, <3>2, <3>3
    <2>9. FlAwayKept(new, fl_away')
      BY <2>5, <2>7, <2>8 DEF FlAwayKept
    <2> QED BY <2>3, <2>4, <2>9
  <1> QED BY <1>1, <1>4, <1>5, <1>6, <1>7 DEF FlKept

\* Nobody is kicked for fewer lines, and no channel closed for fewer joins, than its mode says within its time, and
\* nobody who was kicked under +J is back by himself before its delay is over, for any clients and parameters.
THEOREM AlwaysCounted == FloodSpec => []FlCounted
  <1>1. FlKept /\ [FloodNext]_fl_vars => FlKept'
    <2> SUFFICES ASSUME FlKept, [FloodNext]_fl_vars PROVE FlKept'
      OBVIOUS
    <2>1. CASE UNCHANGED fl_vars
      BY <2>1 DEF fl_vars, FlKept, FlCounted, FlFlooded, FlClosed, FlStaysAway
    <2>2. CASE FloodNext
      BY <2>2, FlTickKept, FlModesKept, FlSayKept, FlLeaveKept, FlJoinKept DEF FloodNext
    <2> QED BY <2>1, <2>2
  <1>2. FlKept => FlCounted
    BY DEF FlKept
  <1> QED BY <1>1, <1>2, FlInitKept, PTL DEF FloodSpec

-----------------------------------------------------------------------------
(* Lists of clients: an entry taken out of a list *)

\* The others stay, each once where each was there once.
LEMMA UsTaken ==
    ASSUME NEW S, NEW s \in Seq(S), IsInjective(s), NEW k \in 1 .. Len(s)
    PROVE  IsInjective(RemoveAt(s, k)) /\ Range(RemoveAt(s, k)) = Range(s) \ {s[k]}
  <1> DEFINE n == Len(s)
             t == RemoveAt(s, k)
  <1>1. /\ n \in Nat /\ k \in 1 .. n /\ DOMAIN s = 1 .. n /\ DOMAIN t = 1 .. n - 1
        /\ \A i \in 1 .. n - 1 : t[i] = IF i < k THEN s[i] ELSE s[i + 1]
    BY RemoveAtIs
  <1>2. \A i, j \in 1 .. n : s[i] = s[j] => i = j
    BY DEF IsInjective
  <1> HIDE DEF n, t
  <1>3. ASSUME NEW i \in 1 .. n - 1, NEW j \in 1 .. n - 1, t[i] = t[j] PROVE i = j
    <2> DEFINE f(m) == IF m < k THEN m ELSE m + 1
    <2>1. f(i) \in 1 .. n /\ f(j) \in 1 .. n /\ t[i] = s[f(i)] /\ t[j] = s[f(j)]
      BY <1>1
    <2>2. f(i) = f(j)
      <3> HIDE DEF f
      <3> QED BY <1>2, <1>3, <2>1
    <2> QED BY <1>1, <2>2
  <1>4. ASSUME NEW i \in 1 .. n - 1 PROVE t[i] \in Range(s) \ {s[k]}
    <2>1. CASE i < k
      <3>1. i \in 1 .. n /\ i # k /\ t[i] = s[i]
        BY <1>1, <2>1
      <3> QED BY <1>1, <1>2, <3>1 DEF Range
    <2>2. CASE ~(i < k)
      <3>1. i + 1 \in 1 .. n /\ i + 1 # k /\ t[i] = s[i + 1]
        BY <1>1, <2>2
      <3> QED BY <1>1, <1>2, <3>1 DEF Range
    <2> QED BY <2>1, <2>2
  <1>5. ASSUME NEW x \in Range(s) \ {s[k]} PROVE \E i \in 1 .. n - 1 : t[i] = x
    <2>1. PICK j \in 1 .. n : s[j] = x
      BY <1>1 DEF Range
    <2>2. j # k
      BY <2>1
    <2>3. CASE j < k
      <3>1. j \in 1 .. n - 1
        BY <1>1, <2>3
      <3> QED BY <1>1, <2>1, <2>3, <3>1
    <2>4. CASE j > k
      <3>1. j - 1 \in 1 .. n - 1 /\ ~(j - 1 < k) /\ (j - 1) + 1 = j
        BY <1>1, <2>4
      <3> QED BY <1>1, <2>1, <3>1
    <2> QED BY <1>1, <2>2, <2>3, <2>4
  <1>6. IsInjective(t)
    BY <1>1, <1>3 DEF IsInjective
  <1>7. \A x : x \in Range(t) <=> \E i \in 1 .. n - 1 : t[i] = x
    <2>1. Range(t) = {t[i] : i \in DOMAIN t} /\ DOMAIN t = 1 .. n - 1
      BY <1>1 DEF Range
    <2> QED BY <2>1, Zenon
  <1>8. \A x : x \in Range(t) <=> x \in Range(s) \ {s[k]}
    <2>1. ASSUME NEW x \in Range(t) PROVE x \in Range(s) \ {s[k]}
      <3>1. PICK i \in 1 .. n - 1 : t[i] = x
        BY <1>7
      <3> QED BY <1>4, <3>1
    <2>2. ASSUME NEW x \in Range(s) \ {s[k]} PROVE x \in Range(t)
      BY <1>5, <1>7
    <2> QED BY <2>1, <2>2
  <1>9. Range(t) = Range(s) \ {s[k]}
    BY <1>8
  <1> QED BY <1>6, <1>9 DEF t

LEMMA UsRemoveFirst ==
    ASSUME NEW S, NEW s \in Seq(S), NEW e
    PROVE  \/ e \notin Range(s) /\ RemoveFirst(s, e) = s
           \/ \E k \in 1 .. Len(s) : s[k] = e /\ RemoveFirst(s, e) = RemoveAt(s, k)
  <1>1. CASE e \notin Range(s)
    <2>1. ~\E i \in 1 .. Len(s) : s[i] = e
      BY <1>1 DEF Range
    <2> QED BY <1>1, <2>1 DEF RemoveFirst
  <1>2. CASE e \in Range(s)
    <2> DEFINE I == {i \in 1 .. Len(s) : s[i] = e}
               k == CHOOSE i \in I : \A j \in I : i <= j
    <2>1. \E i \in 1 .. Len(s) : s[i] = e
      BY <1>2 DEF Range
    <2>2. I # {} /\ I \in SUBSET Nat
      BY <2>1
    <2>3. SelectInSeq(s, LAMBDA v : v = e) = k
      BY <2>2 DEF SelectInSeq, Min
    <2>4. RemoveFirst(s, e) = RemoveAt(s, k)
      BY <2>1, <2>3 DEF RemoveFirst
    <2>5. k \in I
      <3> HIDE DEF I
      <3> QED BY <2>2, Least
    <2> QED BY <2>4, <2>5
  <1> QED BY <1>1, <1>2

LEMMA UsRemoved ==
    ASSUME NEW S, NEW s \in Seq(S), IsInjective(s), NEW e
    PROVE  RemoveFirst(s, e) \in Seq(S) /\ IsInjective(RemoveFirst(s, e)) /\ Range(RemoveFirst(s, e)) = Range(s) \ {e}
  <1>1. CASE e \notin Range(s) /\ RemoveFirst(s, e) = s
    BY <1>1
  <1>2. CASE \E k \in 1 .. Len(s) : s[k] = e /\ RemoveFirst(s, e) = RemoveAt(s, k)
    BY <1>2, RemoveAtIs, UsTaken
  <1> QED BY <1>1, <1>2, UsRemoveFirst

LEMMA UsAppended ==
    ASSUME NEW S, NEW s \in Seq(S), IsInjective(s), NEW u \in S, u \notin Range(s)
    PROVE  Append(s, u) \in Seq(S) /\ IsInjective(Append(s, u)) /\ Range(Append(s, u)) = Range(s) \cup {u}
  <1> DEFINE t == Append(s, u)
             k == Len(s)
  <1>1. k \in Nat /\ DOMAIN s = 1 .. k
    OBVIOUS
  <1>2. t \in Seq(S) /\ DOMAIN t = 1 .. k + 1 /\ t[k + 1] = u /\ \A i \in 1 .. k : t[i] = s[i]
    BY <1>1
  <1> HIDE DEF t, k
  <1>3. \A i \in 1 .. k + 1 : i \in 1 .. k \/ i = k + 1
    BY <1>1
  <1>4. \A i \in 1 .. k : t[i] # u /\ t[i] \in Range(s)
    BY <1>1, <1>2 DEF Range
  <1>5. IsInjective(t)
    BY <1>1, <1>2, <1>3, <1>4 DEF IsInjective
  <1>6. Range(t) = Range(s) \cup {u}
    <2>1. ASSUME NEW x \in Range(t) PROVE x \in Range(s) \cup {u}
      BY <1>2, <1>3, <1>4, <2>1 DEF Range
    <2>2. ASSUME NEW x \in Range(s) PROVE x \in Range(t)
      <3>1. PICK i \in 1 .. k : s[i] = x
        BY <1>1 DEF Range
      <3>2. i \in 1 .. k + 1 /\ t[i] = x
        BY <1>1, <1>2, <3>1
      <3> QED BY <1>2, <3>2 DEF Range
    <2>3. u \in Range(t)
      <3>1. k + 1 \in 1 .. k + 1
        BY <1>1
      <3> QED BY <1>2, <3>1 DEF Range
    <2> QED BY <2>1, <2>2, <2>3
  <1> QED BY <1>2, <1>5, <1>6 DEF t

-----------------------------------------------------------------------------
(* m_watch *)

WtListed(lists, index) ==
    \A n \in DOMAIN index : \A v \in Range(index[n]) : n \in DOMAIN lists[v]
WtTables(reg, lists, index) ==
    /\ lists \in [WtUsers -> WtLists]
    /\ index = [n \in DOMAIN index |-> index[n]] /\ DOMAIN index \subseteq WtNicks
    /\ \A n \in DOMAIN index : index[n] \in Seq(WtUsers) /\ IsInjective(index[n]) /\ Range(index[n]) \subseteq reg
    /\ WtListed(lists, index)
WtKept ==
    /\ wt_nick \in [WtUsers -> WtNicks \cup {""}]
    /\ wt_reg \subseteq {u \in WtUsers : wt_nick[u] # ""}
    /\ WtTables(wt_reg, wt_list, wt_index)
    /\ WtIndexComplete

WtStatus == {"on", "off"}

LEMMA WtSetKeeps ==
    ASSUME NEW list \in WtLists, NEW n \in WtNicks, NEW status \in WtStatus
    PROVE  WtSet(list, n, status) \in WtLists /\ DOMAIN WtSet(list, n, status) = DOMAIN list \cup {n}
  <1>1. PICK D \in SUBSET WtNicks : list \in [D -> {"on", "off"}]
    BY DEF WtLists
  <1> DEFINE E == D \cup {n}
             new == WtSet(list, n, status)
  <1>2. new \in [E -> {"on", "off"}]
    BY <1>1 DEF WtSet, WtStatus
  <1>3. E \in SUBSET WtNicks
    BY <1>1
  <1> HIDE DEF new, E
  <1>4. new \in WtLists /\ DOMAIN new = E
    BY <1>2, <1>3 DEF WtLists
  <1> QED BY <1>1, <1>4 DEF new, E

\* Telling the watchers of a nickname changes no list but in what it says of that nickname.
LEMMA WtTellKeeps ==
    ASSUME NEW reg, NEW lists, WtTables(reg, lists, wt_index), NEW n, NEW status \in WtStatus
    PROVE  /\ WtTables(reg, WtTell(lists, n, status), wt_index)
           /\ \A u \in WtUsers : DOMAIN WtTell(lists, n, status)[u] = DOMAIN lists[u]
  <1> DEFINE new == WtTell(lists, n, status)
  <1>1. lists \in [WtUsers -> WtLists] /\ WtListed(lists, wt_index) /\ DOMAIN wt_index \subseteq WtNicks
        /\ \A m \in DOMAIN wt_index : wt_index[m] \in Seq(WtUsers)
    BY DEF WtTables
  <1>2. ASSUME NEW u \in WtUsers PROVE new[u] \in WtLists /\ DOMAIN new[u] = DOMAIN lists[u]
    <2>1. lists[u] \in WtLists
      BY <1>1
    <2>2. CASE n \in DOMAIN wt_index /\ u \in Range(wt_index[n]) /\ lists[u] # <<>>
      <3>1. new[u] = WtSet(lists[u], n, status)
        BY <2>2 DEF WtTell
      <3>2. n \in DOMAIN lists[u] /\ n \in WtNicks
        BY <1>1, <2>2 DEF WtListed
      <3>3. DOMAIN lists[u] \cup {n} = DOMAIN lists[u]
        BY <3>2
      <3> HIDE DEF new
      <3> DEFINE old == lists[u]
      <3>4. old \in WtLists /\ n \in WtNicks /\ status \in WtStatus
        BY <2>1, <3>2
      <3> HIDE DEF old
      <3>5. WtSet(old, n, status) \in WtLists /\ DOMAIN WtSet(old, n, status) = DOMAIN old \cup {n}
        BY <3>4, WtSetKeeps
      <3> QED BY <3>1, <3>3, <3>5 DEF old
    <2>3. CASE ~(n \in DOMAIN wt_index /\ u \in Range(wt_index[n]) /\ lists[u] # <<>>)
      BY <2>1, <2>3 DEF WtTell
    <2> QED BY <2>2, <2>3
  <1>3. new = [u \in WtUsers |-> new[u]]
    BY DEF WtTell
  <1> HIDE DEF new
  <1>4. new \in [WtUsers -> WtLists]
    BY <1>2, <1>3
  <1>5. \A m \in DOMAIN wt_index : Range(wt_index[m]) \subseteq WtUsers
    BY <1>1 DEF Range
  <1>6. WtListed(new, wt_index)
    BY <1>1, <1>2, <1>5 DEF WtListed
  <1>7. WtTables(reg, new, wt_index)
    BY <1>4, <1>6 DEF WtTables
  <1> QED BY <1>2, <1>7 DEF new

WtFound(lists, index, dropped) ==
    \A u \in WtUsers : \A n \in DOMAIN lists[u] : (n \in DOMAIN index /\ u \in Range(index[n])) \/ <<u, n>> \in dropped

LEMMA WtEmptyList == <<>> \in WtLists /\ DOMAIN <<>> = {}
  <1>1. <<>> \in [{} -> {"on", "off"}]
    OBVIOUS
  <1>2. DOMAIN <<>> = {} /\ {} \in SUBSET WtNicks
    OBVIOUS
  <1> QED BY <1>1, <1>2 DEF WtLists

\* WATCH C and a quit.
LEMMA WtUnwatchKeeps ==
    ASSUME NEW reg, NEW u \in WtUsers, WtTables(reg, wt_list, wt_index), WtFound(wt_list, wt_index, wt_dropped),
           NEW lists, WtTables(reg, lists, wt_index), \A v \in WtUsers : DOMAIN lists[v] = DOMAIN wt_list[v],
           NEW dropped, dropped = {p \in wt_dropped \cup WtDropped(WtUnwatch(u)) : p[1] # u}
    PROVE  /\ WtTables(reg \ {u}, [lists EXCEPT ![u] = <<>>], WtUnwatch(u))
           /\ WtFound([lists EXCEPT ![u] = <<>>], WtUnwatch(u), dropped)
  <1> DEFINE left == [n \in DOMAIN wt_index |->
                        IF n \in DOMAIN wt_list[u] THEN RemoveFirst(wt_index[n], u) ELSE wt_index[n]]
             none == <<>>
             new == [lists EXCEPT ![u] = none]
             idx == WtUnwatch(u)
  <1>1. /\ lists \in [WtUsers -> WtLists] /\ DOMAIN wt_index \subseteq WtNicks /\ WtListed(wt_list, wt_index)
        /\ \A n \in DOMAIN wt_index :
              wt_index[n] \in Seq(WtUsers) /\ IsInjective(wt_index[n]) /\ Range(wt_index[n]) \subseteq reg
    BY DEF WtTables
  <1>2. none \in WtLists /\ DOMAIN none = {}
    BY WtEmptyList
  <1> HIDE DEF none
  <1>3. new \in [WtUsers -> WtLists] /\ DOMAIN new[u] = {} /\ \A v \in WtUsers \ {u} : new[v] = lists[v]
    BY <1>1, <1>2
  <1>4. ASSUME NEW n \in DOMAIN wt_index
        PROVE  left[n] \in Seq(WtUsers) /\ IsInjective(left[n]) /\ Range(left[n]) = Range(wt_index[n]) \ {u}
    <2>1. CASE n \in DOMAIN wt_list[u]
      <3>1. left[n] = RemoveFirst(wt_index[n], u)
        BY <2>1
      <3> HIDE DEF left
      <3> QED BY <1>1, <3>1, UsRemoved
    <2>2. CASE n \notin DOMAIN wt_list[u]
      <3>1. left[n] = wt_index[n] /\ u \notin Range(wt_index[n])
        BY <1>1, <2>2 DEF WtListed
      <3> HIDE DEF left
      <3> QED BY <1>1, <3>1
    <2> QED BY <2>1, <2>2
  <1>5. idx = [n \in DOMAIN idx |-> idx[n]] /\ DOMAIN idx \subseteq DOMAIN wt_index /\ \A n \in DOMAIN idx : idx[n] = left[n]
    <2>1. idx = left \/ idx = [n \in DOMAIN left \ {wt_nick[u]} |-> left[n]]
      BY DEF WtUnwatch, WtWithout, Restrict
    <2>2. DOMAIN left = DOMAIN wt_index /\ left = [n \in DOMAIN wt_index |-> left[n]]
      OBVIOUS
    <2> HIDE DEF idx, left
    <2> QED BY <2>1, <2>2
  <1> HIDE DEF new, idx, left
  <1>6. WtListed(new, idx)
    <2> SUFFICES ASSUME NEW n \in DOMAIN idx, NEW v \in Range(idx[n]) PROVE n \in DOMAIN new[v]
      BY DEF WtListed
    <2>1. n \in DOMAIN wt_index /\ v \in Range(wt_index[n]) /\ v # u
      BY <1>4, <1>5
    <2>2. v \in WtUsers
      BY <1>1, <2>1 DEF Range
    <2>3. n \in DOMAIN wt_list[v]
      BY <1>1, <2>1 DEF WtListed
    <2> QED BY <1>3, <2>1, <2>2, <2>3
  <1>7. WtTables(reg \ {u}, new, idx)
    <2>1. \A n \in DOMAIN idx : idx[n] \in Seq(WtUsers) /\ IsInjective(idx[n]) /\ Range(idx[n]) \subseteq reg \ {u}
      BY <1>1, <1>4, <1>5
    <2> QED BY <1>1, <1>3, <1>5, <1>6, <2>1 DEF WtTables
  <1>8. WtFound(new, idx, dropped)
    <2> SUFFICES ASSUME NEW v \in WtUsers, NEW n \in DOMAIN new[v], ~(n \in DOMAIN idx /\ v \in Range(idx[n]))
                 PROVE  <<v, n>> \in dropped
      BY DEF WtFound
    <2>1. v # u /\ n \in DOMAIN wt_list[v]
      BY <1>3
    <2>2. CASE n \in DOMAIN wt_index /\ v \in Range(wt_index[n])
      <3>1. n \notin DOMAIN idx
        BY <1>4, <1>5, <2>1, <2>2
      <3>2. <<v, n>> \in WtDropped(idx)
        BY <1>1, <2>2, <3>1 DEF WtDropped
      <3> QED BY <2>1, <3>2 DEF idx
    <2>3. CASE <<v, n>> \in wt_dropped
      BY <2>1, <2>3
    <2> QED BY <2>1, <2>2, <2>3 DEF WtFound
  <1> QED BY <1>7, <1>8 DEF new, idx, none

LEMMA WtNickKept ==
    ASSUME WtKept, NEW u \in WtUsers, NEW n \in WtNicks, WtConnect(u, n) \/ WtRename(u, n)
    PROVE  WtKept'
  <1>1. WtTables(wt_reg, wt_list, wt_index) /\ WtFound(wt_list, wt_index, wt_dropped)
        /\ wt_nick \in [WtUsers -> WtNicks \cup {""}] /\ wt_reg \subseteq {v \in WtUsers : wt_nick[v] # ""}
    BY DEF WtKept, WtIndexComplete, WtFound
  <1>2. wt_nick' = [wt_nick EXCEPT ![u] = n] /\ UNCHANGED <<wt_reg, wt_index, wt_dropped>>
    BY DEF WtConnect, WtRename
  <1>3. wt_nick' \in [WtUsers -> WtNicks \cup {""}] /\ wt_reg' \subseteq {v \in WtUsers : wt_nick'[v] # ""}
    BY <1>1, <1>2, WatchOK
  <1>4. WtTables(wt_reg, wt_list', wt_index) /\ \A v \in WtUsers : DOMAIN wt_list'[v] = DOMAIN wt_list[v]
    <2>1. CASE WtConnect(u, n)
      BY <1>1, <2>1 DEF WtConnect
    <2>2. CASE WtRename(u, n)
      <3> DEFINE on == "on"
                 off == "off"
                 told == WtTell(wt_list, n, on)
                 both == WtTell(told, wt_nick[u], off)
      <3>1. wt_list' = both
        BY <2>2 DEF WtRename
      <3>0. on \in WtStatus /\ off \in WtStatus
        BY DEF WtStatus
      <3> HIDE DEF on, off
      <3>2. WtTables(wt_reg, told, wt_index) /\ \A v \in WtUsers : DOMAIN told[v] = DOMAIN wt_list[v]
        <4>1. WtTables(wt_reg, wt_list, wt_index)
          BY <1>1
        <4> QED BY <3>0, <4>1, WtTellKeeps
      <3> HIDE DEF told
      <3>3. WtTables(wt_reg, both, wt_index) /\ \A v \in WtUsers : DOMAIN both[v] = DOMAIN told[v]
        BY <3>0, <3>2, WtTellKeeps
      <3> HIDE DEF both
      <3> QED BY <3>1, <3>2, <3>3
    <2> QED BY <2>1, <2>2
  <1>5. WtFound(wt_list', wt_index, wt_dropped)
    BY <1>1, <1>4 DEF WtFound
  <1> QED BY <1>2, <1>3, <1>4, <1>5 DEF WtKept, WtIndexComplete, WtFound

LEMMA WtRegisterKept ==
    ASSUME WtKept, NEW u \in WtUsers, WtRegister(u)
    PROVE  WtKept'
  <1> DEFINE on == "on"
  <1>1. WtTables(wt_reg, wt_list, wt_index) /\ WtFound(wt_list, wt_index, wt_dropped)
        /\ wt_nick \in [WtUsers -> WtNicks \cup {""}] /\ wt_reg \subseteq {v \in WtUsers : wt_nick[v] # ""}
    BY DEF WtKept, WtIndexComplete, WtFound
  <1>2. UNCHANGED <<wt_nick, wt_index, wt_dropped>> /\ wt_reg' = wt_reg \cup {u} /\ wt_nick[u] # ""
        /\ wt_list' = WtTell(wt_list, wt_nick[u], on)
    BY DEF WtRegister
  <1>0. on \in WtStatus
    BY DEF WtStatus
  <1> HIDE DEF on
  <1>3. WtTables(wt_reg, wt_list', wt_index) /\ \A v \in WtUsers : DOMAIN wt_list'[v] = DOMAIN wt_list[v]
    <2> DEFINE nick == wt_nick[u]
    <2>1. WtTables(wt_reg, wt_list, wt_index) /\ wt_list' = WtTell(wt_list, nick, on)
      BY <1>1, <1>2
    <2> HIDE DEF nick
    <2> QED BY <1>0, <2>1, WtTellKeeps
  <1>4. WtTables(wt_reg', wt_list', wt_index)
    BY <1>2, <1>3 DEF WtTables
  <1>5. WtFound(wt_list', wt_index, wt_dropped)
    BY <1>1, <1>3 DEF WtFound
  <1> QED BY <1>1, <1>2, <1>4, <1>5 DEF WtKept, WtIndexComplete, WtFound

LEMMA WtLeaveKept ==
    ASSUME WtKept, NEW u \in WtUsers, WtQuit(u) \/ WtClear(u)
    PROVE  WtKept'
  <1>1. WtTables(wt_reg, wt_list, wt_index) /\ WtFound(wt_list, wt_index, wt_dropped)
        /\ wt_nick \in [WtUsers -> WtNicks \cup {""}] /\ wt_reg \subseteq {v \in WtUsers : wt_nick[v] # ""}
    BY DEF WtKept, WtIndexComplete, WtFound
  <1>2. CASE WtClear(u)
    <2>1. /\ UNCHANGED <<wt_nick, wt_reg>> /\ wt_list' = [wt_list EXCEPT ![u] = <<>>] /\ wt_index' = WtUnwatch(u)
          /\ wt_dropped' = {p \in wt_dropped \cup WtDropped(WtUnwatch(u)) : p[1] # u}
      BY <1>2 DEF WtClear
    <2>2. WtTables(wt_reg \ {u}, wt_list', wt_index') /\ WtFound(wt_list', wt_index', wt_dropped')
      BY <1>1, <2>1, WtUnwatchKeeps
    <2>3. WtTables(wt_reg', wt_list', wt_index')
      BY <2>1, <2>2 DEF WtTables
    <2> QED BY <1>1, <2>1, <2>2, <2>3 DEF WtKept, WtIndexComplete, WtFound
  <1>3. CASE WtQuit(u) /\ u \in wt_reg
    <2> DEFINE off == "off"
               lists == WtTell(wt_list, wt_nick[u], off)
    <2>1. /\ wt_nick' = [wt_nick EXCEPT ![u] = ""] /\ wt_reg' = wt_reg \ {u}
          /\ wt_list' = [lists EXCEPT ![u] = <<>>] /\ wt_index' = WtUnwatch(u)
          /\ wt_dropped' = {p \in wt_dropped \cup WtDropped(WtUnwatch(u)) : p[1] # u}
      BY <1>3 DEF WtQuit
    <2>0. off \in WtStatus
      BY DEF WtStatus
    <2> HIDE DEF off
    <2>2. WtTables(wt_reg, lists, wt_index) /\ \A v \in WtUsers : DOMAIN lists[v] = DOMAIN wt_list[v]
      <3> DEFINE nick == wt_nick[u]
      <3>1. WtTables(wt_reg, wt_list, wt_index)
        BY <1>1
      <3> HIDE DEF nick
      <3> QED BY <2>0, <3>1, WtTellKeeps
    <2> HIDE DEF lists
    <2>3. WtTables(wt_reg', wt_list', wt_index') /\ WtFound(wt_list', wt_index', wt_dropped')
      BY <1>1, <2>1, <2>2, WtUnwatchKeeps
    <2>4. wt_nick' \in [WtUsers -> WtNicks \cup {""}] /\ wt_reg' \subseteq {v \in WtUsers : wt_nick'[v] # ""}
      BY <1>1, <2>1
    <2> QED BY <2>3, <2>4 DEF WtKept, WtIndexComplete, WtFound
  <1>4. CASE WtQuit(u) /\ u \notin wt_reg
    <2>1. wt_nick' = [wt_nick EXCEPT ![u] = ""] /\ wt_reg' = wt_reg \ {u} /\ UNCHANGED <<wt_list, wt_index, wt_dropped>>
      BY <1>4 DEF WtQuit
    <2>2. wt_reg' = wt_reg
      BY <1>4, <2>1
    <2>3. wt_nick' \in [WtUsers -> WtNicks \cup {""}] /\ wt_reg' \subseteq {v \in WtUsers : wt_nick'[v] # ""}
      BY <1>1, <1>4, <2>1
    <2> QED BY <1>1, <2>1, <2>2, <2>3 DEF WtKept, WtIndexComplete, WtFound
  <1> QED BY <1>2, <1>3, <1>4

LEMMA WtAddKept ==
    ASSUME WtKept, NEW u \in WtUsers, NEW n \in WtNicks, NEW seen \in BOOLEAN, WtAdd(u, n, seen)
    PROVE  WtKept'
  <1> DEFINE status == IF ~WtFree(n) /\ seen THEN "on" ELSE "off"
             one == <<u>>
             group == IF n \in DOMAIN wt_index THEN Append(wt_index[n], u) ELSE one
             list == WtSet(wt_list[u], n, status)
  <1>1. WtTables(wt_reg, wt_list, wt_index) /\ WtFound(wt_list, wt_index, wt_dropped)
        /\ wt_nick \in [WtUsers -> WtNicks \cup {""}] /\ wt_reg \subseteq {v \in WtUsers : wt_nick[v] # ""}
    BY DEF WtKept, WtIndexComplete, WtFound
  <1>2. /\ u \in wt_reg /\ n \notin DOMAIN wt_list[u] /\ UNCHANGED <<wt_nick, wt_reg, wt_dropped>>
        /\ wt_index' = WtSet(wt_index, n, group) /\ wt_list' = [wt_list EXCEPT ![u] = list]
    BY DEF WtAdd
  <1>3. /\ wt_list \in [WtUsers -> WtLists] /\ DOMAIN wt_index \subseteq WtNicks /\ WtListed(wt_list, wt_index)
        /\ \A m \in DOMAIN wt_index :
              wt_index[m] \in Seq(WtUsers) /\ IsInjective(wt_index[m]) /\ Range(wt_index[m]) \subseteq wt_reg
    BY <1>1 DEF WtTables
  <1>4. list \in WtLists /\ DOMAIN list = DOMAIN wt_list[u] \cup {n}
    <2>1. status \in WtStatus
      BY DEF WtStatus
    <2> HIDE DEF status
    <2> QED BY <1>3, <2>1, WtSetKeeps
  <1> HIDE DEF list
  <1>5. wt_list' \in [WtUsers -> WtLists] /\ wt_list'[u] = list /\ \A v \in WtUsers \ {u} : wt_list'[v] = wt_list[v]
    BY <1>2, <1>3, <1>4
  <1>6. /\ group \in Seq(WtUsers) /\ IsInjective(group)
        /\ Range(group) = (IF n \in DOMAIN wt_index THEN Range(wt_index[n]) ELSE {}) \cup {u}
    <2>1. CASE n \in DOMAIN wt_index
      <3> DEFINE s == wt_index[n]
      <3>1. s \in Seq(WtUsers) /\ IsInjective(s) /\ u \notin Range(s)
        BY <1>2, <1>3, <2>1 DEF WtListed
      <3> HIDE DEF s
      <3>2. Append(s, u) \in Seq(WtUsers) /\ IsInjective(Append(s, u)) /\ Range(Append(s, u)) = Range(s) \cup {u}
        BY <3>1, UsAppended
      <3> QED BY <2>1, <3>2 DEF s
    <2>2. CASE n \notin DOMAIN wt_index
      <3>1. one \in Seq(WtUsers) /\ DOMAIN one = {1} /\ one[1] = u
        OBVIOUS
      <3> HIDE DEF one
      <3>2. IsInjective(one) /\ Range(one) = {u}
        BY <3>1 DEF IsInjective, Range
      <3> QED BY <2>2, <3>1, <3>2
    <2> QED BY <2>1, <2>2
  <1> HIDE DEF group
  <1>7. /\ DOMAIN wt_index' = DOMAIN wt_index \cup {n} /\ wt_index' = [m \in DOMAIN wt_index' |-> wt_index'[m]]
        /\ wt_index'[n] = group /\ \A m \in DOMAIN wt_index \ {n} : wt_index'[m] = wt_index[m]
    BY <1>2 DEF WtSet
  <1>8. \A m \in DOMAIN wt_index' :
            wt_index'[m] \in Seq(WtUsers) /\ IsInjective(wt_index'[m]) /\ Range(wt_index'[m]) \subseteq wt_reg
    BY <1>2, <1>3, <1>6, <1>7
  <1>9. WtListed(wt_list', wt_index')
    <2> SUFFICES ASSUME NEW m \in DOMAIN wt_index', NEW v \in Range(wt_index'[m]) PROVE m \in DOMAIN wt_list'[v]
      BY DEF WtListed
    <2>1. v \in WtUsers
      BY <1>1, <1>8
    <2>2. (m \in DOMAIN wt_index /\ v \in Range(wt_index[m])) \/ (m = n /\ v = u)
      BY <1>6, <1>7
    <2>3. m \in DOMAIN wt_list[v] \/ (m = n /\ v = u)
      BY <1>3, <2>2 DEF WtListed
    <2> QED BY <1>4, <1>5, <2>1, <2>3
  <1>10. WtFound(wt_list', wt_index', wt_dropped)
    <2> SUFFICES ASSUME NEW v \in WtUsers, NEW m \in DOMAIN wt_list'[v]
                 PROVE  (m \in DOMAIN wt_index' /\ v \in Range(wt_index'[m])) \/ <<v, m>> \in wt_dropped
      BY DEF WtFound
    <2>1. CASE v = u /\ m = n
      BY <1>6, <1>7, <2>1
    <2>2. CASE ~(v = u /\ m = n)
      <3>1. m \in DOMAIN wt_list[v]
        BY <1>4, <1>5, <2>2
      <3>2. (m \in DOMAIN wt_index /\ v \in Range(wt_index[m])) \/ <<v, m>> \in wt_dropped
        BY <1>1, <3>1 DEF WtFound
      <3> QED BY <1>6, <1>7, <3>2
    <2> QED BY <2>1, <2>2
  <1>11. WtTables(wt_reg', wt_list', wt_index')
    BY <1>2, <1>3, <1>5, <1>7, <1>8, <1>9 DEF WtTables
  <1> QED BY <1>1, <1>2, <1>10, <1>11 DEF WtKept, WtIndexComplete, WtFound

LEMMA WtRemoveKept ==
    ASSUME WtKept, NEW u \in WtUsers, NEW n \in WtNicks, WtRemove(u, n)
    PROVE  WtKept'
  <1> DEFINE list == WtWithout(wt_list[u], n)
             left == RemoveFirst(wt_index[n], u)
  <1>1. WtTables(wt_reg, wt_list, wt_index) /\ WtFound(wt_list, wt_index, wt_dropped)
        /\ wt_nick \in [WtUsers -> WtNicks \cup {""}] /\ wt_reg \subseteq {v \in WtUsers : wt_nick[v] # ""}
    BY DEF WtKept, WtIndexComplete, WtFound
  <1>2. /\ wt_list' = [wt_list EXCEPT ![u] = list] /\ wt_dropped' = wt_dropped \ {<<u, n>>}
        /\ UNCHANGED <<wt_nick, wt_reg>> /\ wt_index' = WtUnwatchOne(u, n)
    BY DEF WtRemove
  <1>3. /\ wt_list \in [WtUsers -> WtLists] /\ DOMAIN wt_index \subseteq WtNicks /\ WtListed(wt_list, wt_index)
        /\ wt_index = [m \in DOMAIN wt_index |-> wt_index[m]]
        /\ \A m \in DOMAIN wt_index :
              wt_index[m] \in Seq(WtUsers) /\ IsInjective(wt_index[m]) /\ Range(wt_index[m]) \subseteq wt_reg
    BY <1>1 DEF WtTables
  <1>4. list \in WtLists /\ DOMAIN list = DOMAIN wt_list[u] \ {n}
    <2>1. PICK D \in SUBSET WtNicks : wt_list[u] \in [D -> {"on", "off"}]
      BY <1>3 DEF WtLists
    <2> DEFINE E == D \ {n}
    <2>2. list \in [E -> {"on", "off"}]
      BY <2>1 DEF WtWithout, Restrict
    <2>3. E \in SUBSET WtNicks
      BY <2>1
    <2> HIDE DEF list, E
    <2>4. list \in WtLists /\ DOMAIN list = E
      BY <2>2, <2>3 DEF WtLists
    <2> QED BY <2>1, <2>4 DEF E
  <1> HIDE DEF list
  <1>5. wt_list' \in [WtUsers -> WtLists] /\ wt_list'[u] = list /\ \A v \in WtUsers \ {u} : wt_list'[v] = wt_list[v]
    BY <1>2, <1>3, <1>4
  <1>6. /\ wt_index' = [m \in DOMAIN wt_index' |-> wt_index'[m]] /\ DOMAIN wt_index' \subseteq DOMAIN wt_index
        /\ \A m \in DOMAIN wt_index \ {n} : m \in DOMAIN wt_index' /\ wt_index'[m] = wt_index[m]
        /\ n \in DOMAIN wt_index' => wt_index'[n] = left
        /\ n \in DOMAIN wt_index \ DOMAIN wt_index' => left = <<>>
    <2>1. CASE n \notin DOMAIN wt_index
      BY <1>2, <1>3, <2>1 DEF WtUnwatchOne
    <2>2. CASE n \in DOMAIN wt_index /\ left = <<>>
      BY <1>2, <2>2 DEF WtUnwatchOne, WtWithout, Restrict
    <2>3. CASE n \in DOMAIN wt_index /\ left # <<>>
      BY <1>2, <2>3 DEF WtUnwatchOne, WtSet
    <2> QED BY <2>1, <2>2, <2>3
  <1>7. n \in DOMAIN wt_index => left \in Seq(WtUsers) /\ IsInjective(left) /\ Range(left) = Range(wt_index[n]) \ {u}
    BY <1>3, UsRemoved
  <1> HIDE DEF left
  <1>8. n \in DOMAIN wt_index \ DOMAIN wt_index' => Range(wt_index[n]) \subseteq {u}
    <2>1. Range(<<>>) = {}
      BY DEF Range
    <2> QED BY <1>6, <1>7, <2>1
  <1>9. \A m \in DOMAIN wt_index' :
            /\ wt_index'[m] \in Seq(WtUsers) /\ IsInjective(wt_index'[m]) /\ Range(wt_index'[m]) \subseteq wt_reg
            /\ m \in DOMAIN wt_index /\ Range(wt_index'[m]) = Range(wt_index[m]) \ (IF m = n THEN {u} ELSE {})
    BY <1>3, <1>6, <1>7
  <1>10. WtListed(wt_list', wt_index')
    <2> SUFFICES ASSUME NEW m \in DOMAIN wt_index', NEW v \in Range(wt_index'[m]) PROVE m \in DOMAIN wt_list'[v]
      BY DEF WtListed
    <2>1. v \in WtUsers /\ m \in DOMAIN wt_index /\ v \in Range(wt_index[m]) /\ ~(m = n /\ v = u)
      BY <1>1, <1>9
    <2>2. m \in DOMAIN wt_list[v]
      BY <1>3, <2>1 DEF WtListed
    <2> QED BY <1>4, <1>5, <2>1, <2>2
  <1>11. WtFound(wt_list', wt_index', wt_dropped')
    <2> SUFFICES ASSUME NEW v \in WtUsers, NEW m \in DOMAIN wt_list'[v]
                 PROVE  (m \in DOMAIN wt_index' /\ v \in Range(wt_index'[m])) \/ <<v, m>> \in wt_dropped'
      BY DEF WtFound
    <2>1. m \in DOMAIN wt_list[v] /\ ~(m = n /\ v = u)
      BY <1>4, <1>5
    <2>2. (m \in DOMAIN wt_index /\ v \in Range(wt_index[m])) \/ <<v, m>> \in wt_dropped
      BY <1>1, <2>1 DEF WtFound
    <2>3. <<v, m>> # <<u, n>>
      BY <2>1
    <2>4. CASE m \in DOMAIN wt_index /\ v \in Range(wt_index[m])
      <3>1. m \in DOMAIN wt_index'
        BY <1>6, <1>8, <2>1, <2>4
      <3> QED BY <1>9, <2>1, <2>4, <3>1
    <2>5. CASE <<v, m>> \in wt_dropped
      BY <1>2, <2>3, <2>5
    <2> QED BY <2>2, <2>4, <2>5
  <1>12. WtTables(wt_reg', wt_list', wt_index')
    BY <1>2, <1>3, <1>5, <1>6, <1>9, <1>10 DEF WtTables
  <1> QED BY <1>1, <1>2, <1>11, <1>12 DEF WtKept, WtIndexComplete, WtFound

LEMMA WtInitKept == WatchInit => WtKept
  <1> SUFFICES ASSUME WatchInit PROVE WtKept
    OBVIOUS
  <1> DEFINE none == <<>>
  <1>1. /\ wt_nick = [u \in WtUsers |-> ""] /\ wt_reg = {}
        /\ wt_list = [u \in WtUsers |-> none] /\ wt_index = none /\ wt_dropped = {}
    BY DEF WatchInit
  <1>2. none \in WtLists /\ DOMAIN none = {}
    BY WtEmptyList
  <1>4. none = [n \in {} |-> none[n]]
    OBVIOUS
  <1> HIDE DEF none
  <1>3. wt_list \in [WtUsers -> WtLists] /\ \A u \in WtUsers : DOMAIN wt_list[u] = {}
    BY <1>1, <1>2
  <1>5. WtTables(wt_reg, wt_list, wt_index)
    BY <1>1, <1>2, <1>3, <1>4 DEF WtTables, WtListed
  <1>6. WtIndexComplete
    BY <1>3 DEF WtIndexComplete
  <1>7. wt_nick \in [WtUsers -> WtNicks \cup {""}]
    BY <1>1
  <1> QED BY <1>1, <1>5, <1>6, <1>7 DEF WtKept

\* Whoever is in whos_watching_me is registered and has that nickname on his list, and is told of it, unless another
\* entry's erase took him out, for any clients and nicknames.
THEOREM WatchersAlwaysKept == WatchSpec => [](WtIndexSound /\ WtIndexComplete)
  <1>1. WtKept /\ [WatchNext]_wt_vars => WtKept'
    <2> SUFFICES ASSUME WtKept, [WatchNext]_wt_vars PROVE WtKept'
      OBVIOUS
    <2>1. CASE UNCHANGED wt_vars
      BY <2>1 DEF wt_vars, WtKept, WtTables, WtListed, WtIndexComplete
    <2>2. CASE WatchNext
      BY <2>2, WtNickKept, WtRegisterKept, WtLeaveKept, WtAddKept, WtRemoveKept DEF WatchNext
    <2> QED BY <2>1, <2>2
  <1>2. WtKept => WtIndexSound /\ WtIndexComplete
    BY DEF WtKept, WtTables, WtListed, WtIndexSound
  <1> QED BY <1>1, <1>2, WtInitKept, PTL DEF WatchSpec

-----------------------------------------------------------------------------
(* m_silence_ext *)

SiExcept(e) == "x" \in e.pattern
SiSorted(list) == \A i, j \in DOMAIN list : i < j /\ SiExcept(list[j]) => SiExcept(list[i])
SiKept == si_list \in Seq(SiEntry) /\ SiSorted(si_list) /\ SiExceptionsWin

LEMMA SiAddKeeps ==
    ASSUME NEW s \in Seq(SiEntry), SiSorted(s), NEW e \in SiEntry
    PROVE  /\ SiExcept(e) => <<e>> \o s \in Seq(SiEntry) /\ SiSorted(<<e>> \o s)
           /\ ~SiExcept(e) => Append(s, e) \in Seq(SiEntry) /\ SiSorted(Append(s, e))
  <1> DEFINE n == Len(s)
             one == <<e>>
             t == one \o s
             r == Append(s, e)
  <1>0. n \in Nat /\ DOMAIN s = 1 .. n /\ s \in Seq(SiEntry)
    OBVIOUS
  <1>1. one \in Seq(SiEntry) /\ Len(one) = 1 /\ one[1] = e
    OBVIOUS
  <1>2. r \in Seq(SiEntry) /\ DOMAIN r = 1 .. n + 1 /\ r[n + 1] = e /\ \A i \in 1 .. n : r[i] = s[i]
    BY <1>0
  <1> HIDE DEF one, r, n
  <1>3. t \in Seq(SiEntry) /\ Len(t) = Len(one) + Len(s)
        /\ \A i \in 1 .. Len(one) + Len(s) : t[i] = IF i <= Len(one) THEN one[i] ELSE s[i - Len(one)]
    BY <1>0, <1>1, ConcatProperties
  <1>4. Len(one) + Len(s) = n + 1
    BY <1>0, <1>1 DEF n
  <1> HIDE DEF t
  <1>5. DOMAIN t = 1 .. n + 1 /\ t[1] = e /\ \A i \in 1 .. n + 1 : i # 1 => t[i] = s[i - 1]
    BY <1>0, <1>1, <1>3, <1>4
  <1>6. ASSUME SiExcept(e) PROVE SiSorted(t)
    <2> SUFFICES ASSUME NEW i \in 1 .. n + 1, NEW j \in 1 .. n + 1, i < j, SiExcept(t[j]) PROVE SiExcept(t[i])
      BY <1>5 DEF SiSorted
    <2>1. CASE i = 1
      BY <1>5, <1>6, <2>1
    <2>2. CASE i # 1
      <3>1. i - 1 \in 1 .. n /\ j - 1 \in 1 .. n /\ i - 1 < j - 1 /\ j # 1
        BY <1>0, <2>2
      <3>2. t[i] = s[i - 1] /\ t[j] = s[j - 1]
        BY <1>5, <2>2, <3>1
      <3> QED BY <1>0, <3>1, <3>2 DEF SiSorted
    <2> QED BY <2>1, <2>2
  <1>7. ASSUME ~SiExcept(e) PROVE SiSorted(r)
    <2> SUFFICES ASSUME NEW i \in 1 .. n + 1, NEW j \in 1 .. n + 1, i < j, SiExcept(r[j]) PROVE SiExcept(r[i])
      BY <1>2 DEF SiSorted
    <2>1. j # n + 1
      BY <1>2, <1>7
    <2>2. i \in 1 .. n /\ j \in 1 .. n
      BY <1>0, <2>1
    <2> QED BY <1>0, <1>2, <2>2 DEF SiSorted
  <1> QED BY <1>2, <1>3, <1>6, <1>7 DEF t, r, one

LEMMA SiRemoveKeeps ==
    ASSUME NEW s \in Seq(SiEntry), SiSorted(s), NEW e
    PROVE  RemoveFirst(s, e) \in Seq(SiEntry) /\ SiSorted(RemoveFirst(s, e))
  <1>1. CASE RemoveFirst(s, e) = s
    BY <1>1
  <1>2. CASE \E k \in 1 .. Len(s) : s[k] = e /\ RemoveFirst(s, e) = RemoveAt(s, k)
    <2>1. PICK k \in 1 .. Len(s) : RemoveFirst(s, e) = RemoveAt(s, k)
      BY <1>2
    <2> DEFINE t == RemoveAt(s, k)
               n == Len(s)
    <2>2. t \in Seq(SiEntry) /\ DOMAIN t = 1 .. n - 1 /\ \A i \in 1 .. n - 1 : t[i] = IF i < k THEN s[i] ELSE s[i + 1]
      BY RemoveAtIs
    <2>3. n \in Nat /\ k \in 1 .. n /\ DOMAIN s = 1 .. n
      OBVIOUS
    <2> HIDE DEF t, n
    <2>4. SiSorted(t)
      <3> SUFFICES ASSUME NEW i \in 1 .. n - 1, NEW j \in 1 .. n - 1, i < j, SiExcept(t[j]) PROVE SiExcept(t[i])
        BY <2>2 DEF SiSorted
      <3> DEFINE f(m) == IF m < k THEN m ELSE m + 1
      <3>1. f(i) \in 1 .. n /\ f(j) \in 1 .. n /\ f(i) < f(j)
        BY <2>3
      <3>2. t[i] = s[f(i)] /\ t[j] = s[f(j)]
        BY <2>2
      <3> HIDE DEF f
      <3> QED BY <2>3, <3>1, <3>2 DEF SiSorted
    <2> QED BY <2>1, <2>2, <2>4 DEF t
  <1> QED BY <1>1, <1>2, UsRemoveFirst

\* The first entry that fits decides, and exceptions come first.
LEMMA SiAskKeeps ==
    ASSUME NEW s \in SiSenders, NEW k \in SiKinds, si_list \in Seq(SiEntry), SiSorted(si_list)
    PROVE  SiMatchPattern(s, k) <=>
              /\ \E i \in DOMAIN si_list : SiFits(si_list[i], s, k) /\ ~SiExcept(si_list[i])
              /\ ~\E i \in DOMAIN si_list : SiFits(si_list[i], s, k) /\ SiExcept(si_list[i])
  <1> DEFINE at == {i \in DOMAIN si_list : SiFits(si_list[i], s, k)}
             first == CHOOSE i \in at : \A j \in at : i <= j
  <1>1. at \in SUBSET Nat /\ \A i : i \in at <=> i \in DOMAIN si_list /\ SiFits(si_list[i], s, k)
    OBVIOUS
  <1>2. SiMatchPattern(s, k) <=> at # {} /\ ~SiExcept(si_list[first])
    BY DEF SiMatchPattern, SiExcept
  <1> HIDE DEF at
  <1>3. CASE at = {}
    BY <1>1, <1>2, <1>3
  <1>4. CASE at # {}
    <2>1. first \in at /\ \A j \in at : first <= j
      BY <1>1, <1>4, Least
    <2> HIDE DEF first
    <2>2. \A j \in at : first \in Nat /\ j \in Nat /\ (first = j \/ first < j)
      BY <1>1, <2>1
    <2>3. \A j \in at : SiExcept(si_list[j]) => SiExcept(si_list[first])
      BY <1>1, <2>1, <2>2 DEF SiSorted
    <2> QED BY <1>1, <1>2, <1>4, <2>1, <2>3
  <1> QED BY <1>3, <1>4

LEMMA SiNextKept == SiKept /\ [SilenceNext]_si_vars => SiKept'
  <1> SUFFICES ASSUME SiKept, [SilenceNext]_si_vars PROVE SiKept'
    OBVIOUS
  <1>1. si_list \in Seq(SiEntry) /\ SiSorted(si_list)
    BY DEF SiKept
  <1>2. ASSUME si_verdict' = SiNoVerdict PROVE SiExceptionsWin'
    BY <1>2 DEF SiExceptionsWin, SiNoVerdict
  <1>3. ASSUME NEW e \in SiEntry, SiAdd(e) PROVE SiKept'
    <2>1. si_list' = IF SiExcept(e) THEN <<e>> \o si_list ELSE Append(si_list, e)
      BY <1>3 DEF SiAdd, SiExcept
    <2>2. si_list' \in Seq(SiEntry) /\ SiSorted(si_list')
      BY <1>1, <2>1, SiAddKeeps
    <2> QED BY <1>2, <1>3, <2>2 DEF SiKept, SiSorted, SiAdd
  <1>4. ASSUME NEW e \in SiEntry, SiRemove(e) PROVE SiKept'
    <2>1. si_list' = RemoveFirst(si_list, e) /\ si_verdict' = SiNoVerdict
      BY <1>4 DEF SiRemove
    <2>2. si_list' \in Seq(SiEntry) /\ SiSorted(si_list')
      BY <1>1, <2>1, SiRemoveKeeps
    <2> QED BY <1>2, <2>1, <2>2 DEF SiKept, SiSorted
  <1>5. CASE SiQuit
    <2>1. si_list' = <<>> /\ si_verdict' = SiNoVerdict
      BY <1>5 DEF SiQuit
    <2>2. si_list' \in Seq(SiEntry) /\ SiSorted(si_list')
      BY <2>1 DEF SiSorted
    <2> QED BY <1>2, <2>1, <2>2 DEF SiKept, SiSorted
  <1>6. ASSUME NEW s \in SiSenders, NEW k \in SiKinds, SiAsk(s, k) PROVE SiKept'
    <2> DEFINE v == SiMatchPattern(s, k)
    <2>1. si_list' = si_list /\ si_verdict' = [asked |-> TRUE, sender |-> s, kind |-> k, silenced |-> v]
      BY <1>6 DEF SiAsk
    <2>2. v \in BOOLEAN
      BY DEF SiMatchPattern
    <2> HIDE DEF v
    <2>3. si_verdict'.sender = s /\ si_verdict'.kind = k /\ si_verdict'.silenced = v
      BY <2>1
    <2>4. v <=> /\ \E i \in DOMAIN si_list : SiFits(si_list[i], s, k) /\ ~SiExcept(si_list[i])
                /\ ~\E i \in DOMAIN si_list : SiFits(si_list[i], s, k) /\ SiExcept(si_list[i])
      BY <1>1, SiAskKeeps DEF v
    <2>5. SiExceptionsWin'
      BY <2>1, <2>2, <2>3, <2>4 DEF SiExceptionsWin, SiExcept
    <2> QED BY <1>1, <2>1, <2>5 DEF SiKept, SiSorted
  <1>7. CASE UNCHANGED si_vars
    BY <1>7 DEF si_vars, SiKept, SiSorted, SiExceptionsWin
  <1> QED BY <1>3, <1>4, <1>5, <1>6, <1>7 DEF SilenceNext

LEMMA SiInitKept == SilenceInit => SiKept
  <1> SUFFICES ASSUME SilenceInit PROVE SiKept
    OBVIOUS
  <1>1. si_list = <<>> /\ si_verdict.asked = FALSE
    BY DEF SilenceInit, SiNoVerdict
  <1>2. si_list \in Seq(SiEntry) /\ SiSorted(si_list)
    BY <1>1 DEF SiSorted
  <1> QED BY <1>1, <1>2 DEF SiKept, SiExceptionsWin

-----------------------------------------------------------------------------
(* m_dccallow *)

DaEntries == [nick : DaNicks, host : {DaHost[u] : u \in DaUsers}, left : Nat, who : DaUsers, known : BOOLEAN]
DaOwn(s) == \A i, j \in DOMAIN s : s[i].nick = s[j].nick => i = j
DaStillThere(nick, reg, e) == e.known => e.who \in reg /\ nick[e.who] = e.nick
DaLists(nick, reg, lists) ==
    \A u \in DOMAIN lists :
        /\ lists[u] \in Seq(DaEntries) /\ DaOwn(lists[u])
        /\ \A i \in DOMAIN lists[u] : DaStillThere(nick, reg, lists[u][i])
DaPeople(nick, reg) ==
    /\ nick \in [DaUsers -> DaNicks \cup {""}]
    /\ reg \in SUBSET DaUsers /\ \A u \in reg : nick[u] # ""
    /\ \A u, v \in DaUsers : nick[u] = nick[v] /\ nick[u] # "" => u = v
DaKept ==
    /\ DaPeople(da_nick, da_reg) /\ DaLists(da_nick, da_reg, da_list)
    /\ da_ul \in Seq(DaUsers) /\ DaListed /\ DaFresh

\* One entry less.
LEMMA DaRemovedAt ==
    ASSUME NEW s \in Seq(DaEntries), DaOwn(s), NEW k \in 1 .. Len(s)
    PROVE  /\ RemoveAt(s, k) \in Seq(DaEntries) /\ DaOwn(RemoveAt(s, k))
           /\ \A i \in DOMAIN RemoveAt(s, k) :
                 RemoveAt(s, k)[i].nick # s[k].nick /\ \E j \in DOMAIN s : RemoveAt(s, k)[i] = s[j]
  <1> DEFINE n == Len(s)
             t == RemoveAt(s, k)
             f(m) == IF m < k THEN m ELSE m + 1
  <1>1. t \in Seq(DaEntries) /\ DOMAIN t = 1 .. n - 1 /\ \A i \in 1 .. n - 1 : t[i] = IF i < k THEN s[i] ELSE s[i + 1]
    BY RemoveAtIs
  <1>2. n \in Nat /\ k \in 1 .. n /\ DOMAIN s = 1 .. n
    OBVIOUS
  <1> HIDE DEF t, n
  <1>3. \A i \in 1 .. n - 1 : f(i) \in 1 .. n /\ f(i) # k /\ t[i] = s[f(i)]
    BY <1>1, <1>2
  <1>4. \A i, j \in 1 .. n - 1 : f(i) = f(j) => i = j
    BY <1>2
  <1> HIDE DEF f
  <1>5. DaOwn(t)
    BY <1>1, <1>2, <1>3, <1>4 DEF DaOwn
  <1>6. \A i \in 1 .. n - 1 : t[i].nick # s[k].nick /\ \E j \in DOMAIN s : t[i] = s[j]
    BY <1>2, <1>3 DEF DaOwn
  <1> QED BY <1>1, <1>5, <1>6 DEF t

\* Those that run out go, the others stay in their order.
LEMMA DaLastingKeeps ==
    ASSUME NEW s \in Seq(DaEntries), DaOwn(s)
    PROVE  /\ DaLasting(s) \in Seq(DaEntries) /\ DaOwn(DaLasting(s))
           /\ \A i \in DOMAIN DaLasting(s) : DaLasting(s)[i].left > 0 /\ \E j \in DOMAIN s : DaLasting(s)[i] = s[j]
  <1> DEFINE n == Len(s)
             none == <<>>
             next(r, i) == IF s[i].left > 0 THEN Append(r, s[i]) ELSE r
             Kept(g, m) == g[0] = none /\ \A i \in 1 .. m : g[i] = next(g[i - 1], i)
             Bad == {m \in 0 .. n : ~\E g : Kept(g, m)}
             kept == CHOOSE g : g = [i \in 0 .. n |-> IF i = 0 THEN none ELSE next(g[i - 1], i)]
  <1>1. n \in Nat /\ DOMAIN s = 1 .. n /\ \A i \in 1 .. n : s[i] \in DaEntries
    OBVIOUS
  <1>2. DaLasting(s) = kept[n]
    BY DEF DaLasting
  <1>3. none \in Seq(DaEntries) /\ DOMAIN none = {}
    OBVIOUS
  <1> HIDE DEF n, none
  <1>4. Bad = {}
    <2> SUFFICES ASSUME Bad # {} PROVE FALSE
      OBVIOUS
    <2>1. Bad \in SUBSET Nat
      BY <1>1
    <2> DEFINE m == CHOOSE i \in Bad : \A j \in Bad : i <= j
    <2>2. m \in Bad /\ \A j \in Bad : m <= j
      <3> HIDE DEF Bad
      <3> QED BY <2>1, Least
    <2> HIDE DEF m
    <2>3. m \in 0 .. n /\ ~\E g : Kept(g, m)
      BY <2>2
    <2>4. m # 0
      <3> DEFINE g == [i \in {0} |-> none]
      <3>1. Kept(g, 0)
        OBVIOUS
      <3> QED BY <2>3, <3>1
    <2>5. m - 1 \in 0 .. n /\ ~(m <= m - 1) /\ m \in Nat
      BY <1>1, <2>3, <2>4
    <2>6. PICK g : Kept(g, m - 1)
      BY <2>2, <2>5
    <2> DEFINE h == [i \in 0 .. m |-> IF i = m THEN next(g[m - 1], m) ELSE g[i]]
    <2>7. h[0] = none
      BY <2>4, <2>5, <2>6
    <2>8. ASSUME NEW i \in 1 .. m PROVE h[i] = next(h[i - 1], i)
      <3> HIDE DEF next
      <3>1. i - 1 \in 0 .. m /\ i - 1 # m /\ i \in 0 .. m
        BY <2>5
      <3>2. h[i - 1] = g[i - 1]
        BY <3>1
      <3>3. CASE i = m
        BY <3>1, <3>2, <3>3
      <3>4. CASE i # m
        <4>1. i \in 1 .. m - 1
          BY <2>5, <3>4
        <4>2. h[i] = g[i]
          BY <3>1, <3>4
        <4> QED BY <2>6, <3>2, <4>1, <4>2
      <3> QED BY <3>3, <3>4
    <2> HIDE DEF h, next
    <2>9. Kept(h, m)
      BY <2>7, <2>8
    <2> HIDE DEF Kept
    <2> QED BY <2>3, <2>9
  <1>5. Kept(kept, n)
    <2> HIDE DEF next
    <2>0. \E g : Kept(g, n)
      <3> HIDE DEF Kept
      <3>1. n \in 0 .. n
        BY <1>1
      <3> QED BY <1>4, <3>1
    <2>1. PICK g : Kept(g, n)
      BY <2>0
    <2> DEFINE h == [i \in 0 .. n |-> g[i]]
    <2>2. h = [i \in 0 .. n |-> IF i = 0 THEN none ELSE next(h[i - 1], i)]
      <3>1. ASSUME NEW i \in 0 .. n PROVE g[i] = IF i = 0 THEN none ELSE next(h[i - 1], i)
        <4>1. CASE i = 0
          BY <2>1, <4>1
        <4>2. CASE i # 0
          <5>1. i \in 1 .. n /\ i - 1 \in 0 .. n
            BY <1>1, <4>2
          <5> QED BY <2>1, <4>2, <5>1
        <4> QED BY <4>1, <4>2
      <3> QED BY <3>1
    <2> HIDE DEF h
    <2>3. kept = [i \in 0 .. n |-> IF i = 0 THEN none ELSE next(kept[i - 1], i)]
      BY <2>2
    <2> HIDE DEF kept
    <2>4. 0 \in 0 .. n /\ \A i \in 1 .. n : i \in 0 .. n /\ i # 0
      BY <1>1
    <2> QED BY <2>3, <2>4
  <1> HIDE DEF kept, Bad
  <1> DEFINE Right(r, m) ==
                /\ r \in Seq(DaEntries) /\ DaOwn(r)
                /\ \A k \in DOMAIN r : r[k].left > 0 /\ \E j \in 1 .. m : r[k] = s[j]
             Wrong == {m \in 0 .. n : ~Right(kept[m], m)}
  <1>6. Right(none, 0)
    BY <1>3 DEF DaOwn
  <1>7. ASSUME NEW m \in 1 .. n, NEW r, Right(r, m - 1) PROVE Right(next(r, m), m)
    <2>1. CASE s[m].left > 0
      <3> DEFINE t == Append(r, s[m])
                 k == Len(r)
                 e == s[m]
      <3>1. r \in Seq(DaEntries) /\ e \in DaEntries /\ k \in Nat /\ DOMAIN r = 1 .. k
        BY <1>1, <1>7
      <3>2. t \in Seq(DaEntries) /\ DOMAIN t = 1 .. k + 1 /\ t[k + 1] = e /\ \A i \in 1 .. k : t[i] = r[i]
        BY <3>1
      <3>3. next(r, m) = t
        BY <2>1
      <3> HIDE DEF t, k, next
      <3>4. \A i \in 1 .. k + 1 : i \in 1 .. k \/ i = k + 1
        BY <3>1
      <3>5. \A i \in 1 .. k : \E j \in 1 .. m : t[i] = s[j] /\ j # m
        <4>1. \A j \in 1 .. m - 1 : j \in 1 .. m /\ j # m
          OBVIOUS
        <4> QED BY <1>7, <3>1, <3>2, <4>1
      <3>6. \A j \in 1 .. m : j \in 1 .. n
        BY <1>1
      <3>7. \A i \in 1 .. k : t[i].nick # e.nick
        BY <1>1, <3>5, <3>6 DEF DaOwn
      <3>8. DaOwn(t)
        BY <1>7, <3>1, <3>2, <3>4, <3>7 DEF DaOwn
      <3>9. ASSUME NEW i \in 1 .. k + 1 PROVE t[i].left > 0 /\ \E j \in 1 .. m : t[i] = s[j]
        <4>1. CASE i = k + 1
          BY <2>1, <3>2, <4>1
        <4>2. CASE i # k + 1
          BY <1>7, <3>1, <3>2, <3>4, <3>5, <4>2
        <4> QED BY <4>1, <4>2
      <3> QED BY <3>2, <3>3, <3>8, <3>9
    <2>2. CASE ~(s[m].left > 0)
      <3>1. \A j \in 1 .. m - 1 : j \in 1 .. m
        OBVIOUS
      <3> QED BY <1>7, <2>2, <3>1
    <2> QED BY <2>1, <2>2
  <1>8. Wrong = {}
    <2> SUFFICES ASSUME Wrong # {} PROVE FALSE
      OBVIOUS
    <2>1. Wrong \in SUBSET Nat
      BY <1>1
    <2> DEFINE m == CHOOSE i \in Wrong : \A j \in Wrong : i <= j
    <2>2. m \in Wrong /\ \A j \in Wrong : m <= j
      <3> HIDE DEF Wrong
      <3> QED BY <2>1, Least
    <2> HIDE DEF m, Right, next
    <2>3. m \in 0 .. n /\ ~Right(kept[m], m)
      BY <2>2
    <2>4. m # 0
      BY <1>5, <1>6, <2>3
    <2>5. m - 1 \in 0 .. n /\ ~(m <= m - 1) /\ m \in 1 .. n
      BY <1>1, <2>3, <2>4
    <2>6. Right(kept[m - 1], m - 1)
      BY <2>2, <2>5
    <2>7. kept[m] = next(kept[m - 1], m)
      BY <1>5, <2>5
    <2> QED BY <1>7, <2>3, <2>5, <2>6, <2>7
  <1>9. Right(kept[n], n)
    <2> HIDE DEF Right
    <2> QED BY <1>1, <1>8
  <1> QED BY <1>1, <1>2, <1>9

\* A nickname is taken off every list.
LEMMA DaForgotten ==
    ASSUME NEW nick, NEW reg, NEW lists, DaLists(nick, reg, lists), NEW n, DOMAIN lists \subseteq Range(da_ul)
    PROVE  LET left == DaRemoveNick(lists, n)
           IN /\ DaLists(nick, reg, left) /\ DOMAIN left = DOMAIN lists
              /\ \A u \in DOMAIN lists : \A i \in DOMAIN left[u] : left[u][i].nick # n
  <1> DEFINE left == DaRemoveNick(lists, n)
  <1>1. DOMAIN left = DOMAIN lists
    BY DEF DaRemoveNick
  <1>2. ASSUME NEW u \in DOMAIN lists
        PROVE  /\ left[u] \in Seq(DaEntries) /\ DaOwn(left[u])
               /\ \A i \in DOMAIN left[u] : left[u][i].nick # n /\ DaStillThere(nick, reg, left[u][i])
    <2> DEFINE s == lists[u]
               at == {i \in DOMAIN s : s[i].nick = n}
               k == CHOOSE i \in at : \A j \in at : i <= j
    <2>1. s \in Seq(DaEntries) /\ DaOwn(s) /\ \A i \in DOMAIN s : DaStillThere(nick, reg, s[i])
      BY DEF DaLists
    <2>2. left[u] = IF at # {} THEN RemoveAt(s, k) ELSE s
      BY DEF DaRemoveNick
    <2> HIDE DEF left, s
    <2>3. CASE at = {}
      BY <2>1, <2>2, <2>3
    <2>4. CASE at # {}
      <3>1. at \in SUBSET Nat /\ DOMAIN s = 1 .. Len(s)
        BY <2>1
      <3>2. k \in at
        <4> HIDE DEF at
        <4> QED BY <2>4, <3>1, Least
      <3>3. k \in 1 .. Len(s) /\ s[k].nick = n
        BY <3>1, <3>2
      <3> HIDE DEF k, at
      <3> QED BY <2>1, <2>2, <2>4, <3>3, DaRemovedAt
    <2> QED BY <2>3, <2>4
  <1> HIDE DEF left
  <1>3. DaLists(nick, reg, left)
    BY <1>1, <1>2 DEF DaLists
  <1> QED BY <1>1, <1>2, <1>3 DEF left

\* What is on the lists holds when one client's nickname changes that no known entry names.
LEMMA DaSpared ==
    ASSUME NEW nick, NEW reg, NEW lists, DaLists(nick, reg, lists), DaPeople(nick, reg), NEW u \in DaUsers,
           \A v \in DOMAIN lists : \A i \in DOMAIN lists[v] : lists[v][i].nick # nick[u] \/ u \notin reg,
           NEW n, NEW left, left = reg \/ left = reg \ {u}
    PROVE  DaLists([nick EXCEPT ![u] = n], left, lists)
  <1> DEFINE new == [nick EXCEPT ![u] = n]
  <1>1. \A v \in DaUsers : v # u => new[v] = nick[v]
    BY DEF DaPeople
  <1> SUFFICES ASSUME NEW v \in DOMAIN lists, NEW i \in DOMAIN lists[v] PROVE DaStillThere(new, left, lists[v][i])
    BY DEF DaLists
  <1> DEFINE e == lists[v][i]
  <1>2. DaStillThere(nick, reg, e) /\ (e.nick # nick[u] \/ u \notin reg)
    BY DEF DaLists
  <1> HIDE DEF new, e
  <1>3. CASE e.known
    <2>1. e.who \in reg /\ nick[e.who] = e.nick /\ e.who # u
      BY <1>2, <1>3 DEF DaStillThere
    <2>2. e.who \in left /\ e.who \in DaUsers
      BY <2>1 DEF DaPeople
    <2> QED BY <1>1, <2>1, <2>2 DEF DaStillThere, e
  <1>4. CASE ~e.known
    BY <1>4 DEF DaStillThere, e
  <1> QED BY <1>3, <1>4 DEF new

\* Changes of what the clients are called.
LEMMA DaPeopleKeep ==
    ASSUME DaPeople(da_nick, da_reg), NEW u \in DaUsers
    PROVE  /\ \A n \in DaNicks : DaFree(n) => DaPeople([da_nick EXCEPT ![u] = n], da_reg)
           /\ DaPeople([da_nick EXCEPT ![u] = ""], da_reg \ {u})
           /\ da_nick[u] # "" => DaPeople(da_nick, da_reg \cup {u})
  <1>1. ASSUME NEW n \in DaNicks, DaFree(n) PROVE DaPeople([da_nick EXCEPT ![u] = n], da_reg)
    BY <1>1, DccAllowOK DEF DaPeople, DaFree
  <1>2. DaPeople([da_nick EXCEPT ![u] = ""], da_reg \ {u})
    BY DEF DaPeople
  <1>3. ASSUME da_nick[u] # "" PROVE DaPeople(da_nick, da_reg \cup {u})
    BY <1>3 DEF DaPeople
  <1> QED BY <1>1, <1>2, <1>3

LEMMA DaNickKept ==
    ASSUME DaKept, NEW u \in DaUsers, NEW n \in DaNicks, NEW refused \in BOOLEAN,
           DaConnect(u, n) \/ DaRename(u, n, refused) \/ DaRegister(u)
    PROVE  DaKept'
  <1>1. /\ DaPeople(da_nick, da_reg) /\ DaLists(da_nick, da_reg, da_list)
        /\ da_ul \in Seq(DaUsers) /\ IsInjective(da_ul) /\ Range(da_ul) = DOMAIN da_list /\ DaFresh
    BY DEF DaKept, DaListed
  <1>2. CASE DaConnect(u, n)
    <2>1. UNCHANGED <<da_reg, da_list, da_ul, da_used>> /\ da_nick' = [da_nick EXCEPT ![u] = n] /\ u \notin da_reg /\ DaFree(n)
      BY <1>2 DEF DaConnect
    <2>2. DaLists(da_nick', da_reg, da_list)
      BY <1>1, <2>1, DaSpared
    <2>3. DaPeople(da_nick', da_reg)
      BY <1>1, <2>1, DaPeopleKeep
    <2> QED BY <1>1, <2>1, <2>2, <2>3 DEF DaKept, DaListed, DaFresh
  <1>3. CASE DaRegister(u)
    <2>1. UNCHANGED <<da_nick, da_list, da_ul, da_used>> /\ da_reg' = da_reg \cup {u} /\ da_nick[u] # ""
      BY <1>3 DEF DaRegister
    <2>2. DaLists(da_nick, da_reg', da_list)
      BY <1>1, <2>1 DEF DaLists, DaStillThere
    <2>3. DaPeople(da_nick, da_reg')
      BY <1>1, <2>1, DaPeopleKeep
    <2> QED BY <1>1, <2>1, <2>2, <2>3 DEF DaKept, DaListed, DaFresh
  <1>4. CASE DaRename(u, n, refused)
    <2> DEFINE old == da_nick[u]
    <2>1. /\ UNCHANGED <<da_reg, da_ul, da_used>> /\ da_list' = DaRemoveNick(da_list, old) /\ DaFree(n)
          /\ da_nick' = da_nick \/ da_nick' = [da_nick EXCEPT ![u] = n]
      BY <1>4 DEF DaRename
    <2> HIDE DEF old
    <2>2. /\ DaLists(da_nick, da_reg, da_list') /\ DOMAIN da_list' = DOMAIN da_list
          /\ \A v \in DOMAIN da_list : \A i \in DOMAIN da_list'[v] : da_list'[v][i].nick # old
      BY <1>1, <2>1, DaForgotten
    <2>3. DaLists(da_nick', da_reg, da_list')
      BY <1>1, <2>1, <2>2, DaSpared DEF old
    <2>4. DaPeople(da_nick', da_reg)
      BY <1>1, <2>1, DaPeopleKeep
    <2> QED BY <1>1, <2>1, <2>2, <2>3, <2>4 DEF DaKept, DaListed, DaFresh
  <1> QED BY <1>2, <1>3, <1>4

LEMMA DaQuitKept ==
    ASSUME DaKept, NEW u \in DaUsers, DaQuit(u)
    PROVE  DaKept'
  <1> DEFINE none == ""
             old == da_nick[u]
             others == Restrict(da_list, DOMAIN da_list \ {u})
  <1>1. /\ DaPeople(da_nick, da_reg) /\ DaLists(da_nick, da_reg, da_list)
        /\ da_ul \in Seq(DaUsers) /\ IsInjective(da_ul) /\ Range(da_ul) = DOMAIN da_list /\ DaFresh
    BY DEF DaKept, DaListed
  <1>2. da_nick' = [da_nick EXCEPT ![u] = none] /\ da_reg' = da_reg \ {u} /\ da_used' = da_used
        /\ IF u \in da_reg THEN da_list' = DaRemoveNick(others, old) /\ da_ul' = RemoveFirst(da_ul, u)
            ELSE UNCHANGED <<da_list, da_ul>>
    BY DEF DaQuit
  <1>3. DaPeople(da_nick', da_reg')
    BY <1>1, <1>2, DaPeopleKeep
  <1>4. DaFresh'
    BY <1>1, <1>2 DEF DaFresh
  <1> HIDE DEF none
  <1>5. CASE u \in da_reg
    <2>1. DOMAIN others = DOMAIN da_list \ {u} /\ \A v \in DOMAIN others : others[v] = da_list[v]
      BY DEF Restrict
    <2> HIDE DEF others, old
    <2>2. DaLists(da_nick, da_reg, others)
      BY <1>1, <2>1 DEF DaLists
    <2>3. /\ DaLists(da_nick, da_reg, da_list') /\ DOMAIN da_list' = DOMAIN others
          /\ \A v \in DOMAIN others : \A i \in DOMAIN da_list'[v] : da_list'[v][i].nick # old
      BY <1>1, <1>2, <1>5, <2>1, <2>2, DaForgotten
    <2>4. DaLists(da_nick', da_reg', da_list')
      BY <1>1, <1>2, <2>3, DaSpared DEF old
    <2>5. da_ul' \in Seq(DaUsers) /\ IsInjective(da_ul') /\ Range(da_ul') = Range(da_ul) \ {u}
      BY <1>1, <1>2, <1>5, UsRemoved
    <2> QED BY <1>1, <1>3, <1>4, <2>1, <2>3, <2>4, <2>5 DEF DaKept, DaListed
  <1>6. CASE u \notin da_reg
    <2>1. da_list' = da_list /\ da_ul' = da_ul
      BY <1>2, <1>6
    <2>2. DaLists(da_nick', da_reg', da_list)
      BY <1>1, <1>2, <1>6, DaSpared
    <2> QED BY <1>1, <1>3, <1>4, <2>1, <2>2 DEF DaKept, DaListed
  <1> QED BY <1>5, <1>6

LEMMA DaAddKept ==
    ASSUME DaKept, NEW u \in DaUsers, NEW w \in DaUsers, NEW length \in DaLengths, DaAdd(u, w, length)
    PROVE  DaKept'
  <1> DEFINE none == <<>>
             own == IF u \in DOMAIN da_list THEN da_list[u] ELSE none
             refused == \E i \in DOMAIN own : own[i].nick = da_nick[w] \/ DaMatches(u, own[i])
             e == DaEntry(w, length)
             t == Append(own, e)
             k == Len(own)
             new == IF refused THEN own ELSE t
  <1>1. /\ DaPeople(da_nick, da_reg) /\ DaLists(da_nick, da_reg, da_list)
        /\ da_ul \in Seq(DaUsers) /\ IsInjective(da_ul) /\ Range(da_ul) = DOMAIN da_list /\ DaFresh
    BY DEF DaKept, DaListed
  <1>2. /\ u \in da_reg /\ da_nick[w] # "" /\ UNCHANGED <<da_nick, da_reg, da_used>>
        /\ da_ul' = (IF u \in DOMAIN da_list THEN da_ul ELSE Append(da_ul, u))
        /\ da_list' = [v \in DOMAIN da_list \cup {u} |-> IF v # u THEN da_list[v] ELSE new]
    BY DEF DaAdd
  <1>3. none \in Seq(DaEntries) /\ DOMAIN none = {}
    OBVIOUS
  <1> HIDE DEF none
  <1>4. own \in Seq(DaEntries) /\ DaOwn(own) /\ \A i \in DOMAIN own : DaStillThere(da_nick, da_reg, own[i])
    BY <1>1, <1>3 DEF DaLists, DaOwn
  <1>5. e \in DaEntries /\ e.nick = da_nick[w] /\ DaStillThere(da_nick, da_reg, e)
    <2>1. da_nick[w] \in DaNicks /\ length \in Nat /\ DaHost[w] \in {DaHost[v] : v \in DaUsers}
      BY <1>1, <1>2, DccAllowOK DEF DaPeople
    <2>2. e = [nick |-> da_nick[w], host |-> DaHost[w], left |-> length, who |-> w, known |-> w \in da_reg]
      BY DEF DaEntry
    <2> DEFINE b == w \in da_reg
               nick == da_nick[w]
               host == DaHost[w]
               hosts == {DaHost[v] : v \in DaUsers}
    <2>3. b \in BOOLEAN /\ nick \in DaNicks /\ host \in hosts /\ (b => w \in da_reg) /\ nick = da_nick[w]
      BY <2>1
    <2>4. e = [nick |-> nick, host |-> host, left |-> length, who |-> w, known |-> b]
      BY <2>2
    <2>5. DaEntries = [nick : DaNicks, host : hosts, left : Nat, who : DaUsers, known : BOOLEAN]
      BY DEF DaEntries
    <2> HIDE DEF b, nick, host, hosts, e
    <2>6. e \in DaEntries
      BY <2>1, <2>3, <2>4, <2>5
    <2>7. e.nick = nick /\ e.who = w /\ e.known = b
      BY <2>4
    <2> QED BY <2>3, <2>6, <2>7 DEF DaStillThere
  <1> HIDE DEF own, e
  <1>6. k \in Nat /\ DOMAIN own = 1 .. k
    BY <1>4
  <1>7. t \in Seq(DaEntries) /\ DOMAIN t = 1 .. k + 1 /\ t[k + 1] = e /\ \A i \in 1 .. k : t[i] = own[i]
    BY <1>4, <1>5
  <1>8. \A i \in 1 .. k + 1 : i \in 1 .. k \/ i = k + 1
    BY <1>6
  <1> HIDE DEF t, k
  <1>9. ASSUME ~refused PROVE DaOwn(t)
    <2>1. \A i \in 1 .. k : t[i].nick # t[k + 1].nick
      BY <1>5, <1>6, <1>7, <1>9
    <2> QED BY <1>4, <1>6, <1>7, <1>8, <2>1 DEF DaOwn
  <1>10. \A i \in DOMAIN t : DaStillThere(da_nick, da_reg, t[i])
    BY <1>4, <1>5, <1>6, <1>7, <1>8
  <1>11. new \in Seq(DaEntries) /\ DaOwn(new) /\ \A i \in DOMAIN new : DaStillThere(da_nick, da_reg, new[i])
    <2>1. new = own \/ (~refused /\ new = t)
      OBVIOUS
    <2> HIDE DEF new, refused
    <2> QED BY <1>4, <1>7, <1>9, <1>10, <2>1
  <1> HIDE DEF new
  <1>12. DaLists(da_nick, da_reg, da_list')
    BY <1>1, <1>2, <1>11 DEF DaLists
  <1>13. DOMAIN da_list' = DOMAIN da_list \cup {u}
    BY <1>2
  <1>14. da_ul' \in Seq(DaUsers) /\ IsInjective(da_ul') /\ Range(da_ul') = Range(da_ul) \cup {u}
    <2>1. CASE u \in DOMAIN da_list
      BY <1>1, <1>2, <2>1
    <2>2. CASE u \notin DOMAIN da_list
      <3>1. da_ul' = Append(da_ul, u) /\ u \notin Range(da_ul)
        BY <1>1, <1>2, <2>2
      <3> QED BY <1>1, <3>1, UsAppended
    <2> QED BY <2>1, <2>2
  <1>15. DaFresh'
    BY <1>1, <1>2 DEF DaFresh
  <1> QED BY <1>1, <1>2, <1>12, <1>13, <1>14, <1>15 DEF DaKept, DaListed

LEMMA DaDelKept ==
    ASSUME DaKept, NEW u \in DaUsers, NEW w \in DaUsers, DaDel(u, w)
    PROVE  DaKept'
  <1> DEFINE s == da_list[u]
             at == {i \in DOMAIN s : s[i].nick = da_nick[w]}
             k == CHOOSE i \in at : \A j \in at : i <= j
             new == IF at = {} THEN s ELSE RemoveAt(s, k)
  <1>1. /\ DaPeople(da_nick, da_reg) /\ DaLists(da_nick, da_reg, da_list)
        /\ da_ul \in Seq(DaUsers) /\ IsInjective(da_ul) /\ Range(da_ul) = DOMAIN da_list /\ DaFresh
    BY DEF DaKept, DaListed
  <1>2. u \in DOMAIN da_list /\ da_list' = [da_list EXCEPT ![u] = new] /\ UNCHANGED <<da_nick, da_reg, da_ul, da_used>>
    BY DEF DaDel
  <1>3. s \in Seq(DaEntries) /\ DaOwn(s) /\ \A i \in DOMAIN s : DaStillThere(da_nick, da_reg, s[i])
    BY <1>1, <1>2 DEF DaLists
  <1> HIDE DEF s
  <1>4. new \in Seq(DaEntries) /\ DaOwn(new) /\ \A i \in DOMAIN new : DaStillThere(da_nick, da_reg, new[i])
    <2>1. CASE at = {}
      BY <1>3, <2>1
    <2>2. CASE at # {}
      <3>1. at \in SUBSET Nat /\ DOMAIN s = 1 .. Len(s)
        BY <1>3
      <3>2. k \in at
        <4> HIDE DEF at
        <4> QED BY <2>2, <3>1, Least
      <3>3. k \in 1 .. Len(s)
        BY <3>1, <3>2
      <3> HIDE DEF k, at
      <3> QED BY <1>3, <2>2, <3>3, DaRemovedAt
    <2> QED BY <2>1, <2>2
  <1> HIDE DEF new
  <1>5. DOMAIN da_list' = DOMAIN da_list /\ DaLists(da_nick, da_reg, da_list')
    BY <1>1, <1>2, <1>4 DEF DaLists
  <1>6. DaFresh'
    BY <1>1, <1>2 DEF DaFresh
  <1> QED BY <1>1, <1>2, <1>5, <1>6 DEF DaKept, DaListed

LEMMA DaMessageKept ==
    ASSUME DaKept, NEW s \in DaUsers, NEW u \in DaUsers, DaMessage(s, u)
    PROVE  DaKept'
  <1>1. /\ DaPeople(da_nick, da_reg) /\ DaLists(da_nick, da_reg, da_list)
        /\ da_ul \in Seq(DaUsers) /\ IsInjective(da_ul) /\ Range(da_ul) = DOMAIN da_list
    BY DEF DaKept, DaListed
  <1>2. /\ da_list' = DaExpire /\ UNCHANGED <<da_nick, da_reg, da_ul>>
        /\ \A e \in da_used' : u \in DOMAIN da_list /\ e \in Range(DaExpire[u])
    BY DEF DaMessage
  <1>3. DOMAIN DaExpire = DOMAIN da_list /\ \A v \in DOMAIN da_list : DaExpire[v] = DaLasting(da_list[v])
    BY <1>1 DEF DaExpire
  <1>4. ASSUME NEW v \in DOMAIN da_list
        PROVE  /\ DaExpire[v] \in Seq(DaEntries) /\ DaOwn(DaExpire[v])
               /\ \A i \in DOMAIN DaExpire[v] : DaExpire[v][i].left > 0 /\ DaStillThere(da_nick, da_reg, DaExpire[v][i])
    <2> DEFINE old == da_list[v]
               new == DaLasting(old)
    <2>1. old \in Seq(DaEntries) /\ DaOwn(old) /\ \A i \in DOMAIN old : DaStillThere(da_nick, da_reg, old[i])
      BY <1>1 DEF DaLists
    <2>2. DaExpire[v] = new
      BY <1>3
    <2> HIDE DEF old
    <2>3. new \in Seq(DaEntries) /\ DaOwn(new) /\ \A i \in DOMAIN new : new[i].left > 0 /\ \E j \in DOMAIN old : new[i] = old[j]
      BY <2>1, DaLastingKeeps
    <2> HIDE DEF new
    <2> QED BY <2>1, <2>2, <2>3
  <1>5. DaLists(da_nick, da_reg, da_list')
    BY <1>2, <1>3, <1>4 DEF DaLists
  <1>6. DaFresh'
    BY <1>2, <1>4 DEF DaFresh, Range
  <1> QED BY <1>1, <1>2, <1>3, <1>5, <1>6 DEF DaKept, DaListed

LEMMA DaTickKept ==
    ASSUME DaKept, DaTick
    PROVE  DaKept'
  <1>1. /\ DaPeople(da_nick, da_reg) /\ DaLists(da_nick, da_reg, da_list)
        /\ da_ul \in Seq(DaUsers) /\ IsInjective(da_ul) /\ Range(da_ul) = DOMAIN da_list
    BY DEF DaKept, DaListed
  <1>2. /\ UNCHANGED <<da_nick, da_reg, da_ul>> /\ da_used' = {}
        /\ da_list' = [u \in DOMAIN da_list |-> [i \in DOMAIN da_list[u] |->
                        [da_list[u][i] EXCEPT !.left = IF @ = 0 THEN 0 ELSE @ - 1]]]
    BY DEF DaTick
  <1>3. ASSUME NEW u \in DOMAIN da_list
        PROVE  /\ da_list'[u] \in Seq(DaEntries) /\ DaOwn(da_list'[u])
               /\ \A i \in DOMAIN da_list'[u] : DaStillThere(da_nick, da_reg, da_list'[u][i])
    <2> DEFINE s == da_list[u]
               n == Len(s)
               t == da_list'[u]
               hosts == {DaHost[v] : v \in DaUsers}
    <2>1. s \in Seq(DaEntries) /\ DaOwn(s) /\ \A i \in DOMAIN s : DaStillThere(da_nick, da_reg, s[i])
      BY <1>1 DEF DaLists
    <2>2. t = [i \in DOMAIN s |-> [s[i] EXCEPT !.left = IF @ = 0 THEN 0 ELSE @ - 1]]
      BY <1>2
    <2> HIDE DEF s, t
    <2>3. n \in Nat /\ DOMAIN s = 1 .. n /\ \A i \in 1 .. n : s[i] \in DaEntries
      BY <2>1
    <2>4. DaEntries = [nick : DaNicks, host : hosts, left : Nat, who : DaUsers, known : BOOLEAN]
      BY DEF DaEntries
    <2> HIDE DEF n, hosts
    <2>5. ASSUME NEW i \in 1 .. n
          PROVE  t[i] \in DaEntries /\ t[i].nick = s[i].nick /\ t[i].who = s[i].who /\ t[i].known = s[i].known
      <3>1. t[i] = [s[i] EXCEPT !.left = IF @ = 0 THEN 0 ELSE @ - 1] /\ s[i] \in DaEntries
        BY <2>2, <2>3
      <3> DEFINE l == IF s[i].left = 0 THEN 0 ELSE s[i].left - 1
      <3>2. l \in Nat /\ t[i] = [s[i] EXCEPT !.left = l]
        BY <2>4, <3>1
      <3> HIDE DEF l
      <3> QED BY <2>4, <3>1, <3>2
    <2>6. DOMAIN t = 1 .. n
      BY <2>2, <2>3
    <2>7. t \in Seq(DaEntries)
      <3>1. t = [i \in 1 .. n |-> t[i]]
        BY <2>2, <2>3
      <3>2. t \in [1 .. n -> DaEntries]
        BY <2>5, <3>1
      <3> QED BY <2>3, <3>2, SeqDef
    <2>8. DaOwn(t)
      BY <2>1, <2>3, <2>5, <2>6 DEF DaOwn
    <2>9. \A i \in DOMAIN t : DaStillThere(da_nick, da_reg, t[i])
      BY <2>1, <2>3, <2>5, <2>6 DEF DaStillThere
    <2> QED BY <2>7, <2>8, <2>9 DEF t
  <1>4. DOMAIN da_list' = DOMAIN da_list
    BY <1>2
  <1>5. DaLists(da_nick, da_reg, da_list')
    BY <1>3, <1>4 DEF DaLists
  <1> QED BY <1>1, <1>2, <1>4, <1>5 DEF DaKept, DaListed, DaFresh

LEMMA DaInitKept == DccAllowInit => DaKept
  <1> SUFFICES ASSUME DccAllowInit PROVE DaKept
    OBVIOUS
  <1> DEFINE none == <<>>
  <1>1. da_nick = [u \in DaUsers |-> ""] /\ da_reg = {} /\ da_used = {} /\ da_list = none /\ da_ul = none
    BY DEF DccAllowInit
  <1>0. none \in Seq(DaUsers) /\ DOMAIN none = {}
    OBVIOUS
  <1> HIDE DEF none
  <1>2. DaPeople(da_nick, da_reg)
    BY <1>1 DEF DaPeople
  <1>3. DOMAIN da_list = {} /\ DaLists(da_nick, da_reg, da_list)
    BY <1>0, <1>1 DEF DaLists
  <1>4. da_ul \in Seq(DaUsers) /\ DOMAIN da_ul = {}
    BY <1>0, <1>1
  <1>5. DaListed
    BY <1>3, <1>4 DEF DaListed, IsInjective, Range
  <1> QED BY <1>1, <1>2, <1>3, <1>4, <1>5 DEF DaKept, DaFresh

LEMMA DaNextKept == DaKept /\ [DccAllowNext]_da_vars => DaKept'
  <1> SUFFICES ASSUME DaKept, [DccAllowNext]_da_vars PROVE DaKept'
    OBVIOUS
  <1>1. ASSUME NEW u \in DaUsers, NEW n \in DaNicks, DaConnect(u, n) \/ \E refused \in BOOLEAN : DaRename(u, n, refused)
        PROVE  DaKept'
    BY <1>1, DaNickKept
  <1>3. ASSUME NEW u \in DaUsers, DaRegister(u) PROVE DaKept'
    <2>1. \E n \in DaNicks : TRUE
      <3>1. da_nick[u] \in DaNicks
        BY <1>3 DEF DaKept, DaPeople, DaRegister
      <3> QED BY <3>1
    <2> QED BY <1>3, <2>1, DaNickKept
  <1>4. ASSUME NEW u \in DaUsers, DaQuit(u) PROVE DaKept'
    BY <1>4, DaQuitKept
  <1>5. ASSUME NEW u \in DaUsers, NEW w \in DaUsers, DaDel(u, w) \/ DaMessage(u, w) \/ \E l \in DaLengths : DaAdd(u, w, l)
        PROVE  DaKept'
    BY <1>5, DaAddKept, DaDelKept, DaMessageKept
  <1>6. CASE DaTick
    BY <1>6, DaTickKept
  <1>2. CASE UNCHANGED da_vars
    BY <1>2 DEF da_vars, DaKept, DaPeople, DaLists, DaStillThere, DaListed, DaFresh
  <1> QED BY <1>1, <1>2, <1>3, <1>4, <1>5, <1>6 DEF DccAllowNext

\* The three kinds of list stay with the clients they are about, for any clients, nicknames, masks and numbers of
\* entries: whoever is told of a nickname asked for it and whoever asked is told (m_watch), nobody profits from an
\* entry made for somebody else or run out (m_dccallow), and an exception speaks first (m_silence_ext).
THEOREM ListsAlwaysKept == WatchSpec /\ DccAllowSpec /\ SilenceSpec => []ListsKept
  <1>1. WatchSpec => [](WtIndexSound /\ WtIndexComplete)
    BY WatchersAlwaysKept
  <1>2. DaKept => DaListed /\ DaSameUser /\ DaFresh
    BY DEF DaKept, DaLists, DaStillThere, DaSameUser
  <1>3. SiKept => SiExceptionsWin
    BY DEF SiKept
  <1>4. WtIndexSound /\ WtIndexComplete /\ (DaListed /\ DaSameUser /\ DaFresh) /\ SiExceptionsWin => ListsKept
    BY DEF ListsKept
  <1>5. DccAllowSpec => []DaKept
    BY DaInitKept, DaNextKept, PTL DEF DccAllowSpec
  <1>6. SilenceSpec => []SiKept
    BY SiInitKept, SiNextKept, PTL DEF SilenceSpec
  <1> QED BY <1>1, <1>2, <1>3, <1>4, <1>5, <1>6, PTL

-----------------------------------------------------------------------------
(* What is heard on one server (Speech) *)

SpLetter == STRING \cup {"."}
SpText == Seq(SpLetter)

\* A text grown by a letter.
LEMMA SpGrown ==
    ASSUME NEW a \in SpText, NEW x \in SpLetter
    PROVE  /\ Append(a, x) \in SpText /\ Range(Append(a, x)) = Range(a) \cup {x}
           /\ ~SpHasWord(a) /\ (a = <<>> \/ Last(a) # "w" \/ x # "w") => ~SpHasWord(Append(a, x))
  <1> DEFINE n == Len(a)
             b == Append(a, x)
  <1>1. b \in SpText /\ n \in Nat /\ Len(b) = n + 1 /\ (\A i \in 1 .. n : b[i] = a[i]) /\ b[n + 1] = x
        /\ DOMAIN b = 1 .. n + 1 /\ DOMAIN a = 1 .. n
    BY AppendProperties, LenProperties DEF SpText
  <1>2. a # <<>> => Last(a) = a[n] /\ n > 0
    BY DEF SpText, Last
  <1>3. a = <<>> => n = 0
    BY DEF SpText
  <1> HIDE DEF n, b
  <1>4. Range(b) = Range(a) \cup {x}
    <2>1. ASSUME NEW y \in Range(b) PROVE y \in Range(a) \cup {x}
      <3>1. PICK i \in 1 .. n + 1 : b[i] = y
        BY <1>1 DEF Range
      <3>2. i \in 1 .. n \/ i = n + 1
        BY <1>1
      <3> QED BY <1>1, <3>1, <3>2 DEF Range
    <2>2. ASSUME NEW y \in Range(a) PROVE y \in Range(b)
      <3>1. PICK i \in 1 .. n : a[i] = y
        BY <1>1 DEF Range
      <3>2. i \in 1 .. n + 1 /\ b[i] = y
        BY <1>1, <3>1
      <3> QED BY <1>1, <3>2 DEF Range
    <2>3. x \in Range(b)
      <3>1. n + 1 \in DOMAIN b
        BY <1>1
      <3> QED BY <1>1, <3>1 DEF Range
    <2> QED BY <2>1, <2>2, <2>3
  <1>5. ASSUME ~SpHasWord(a), a = <<>> \/ Last(a) # "w" \/ x # "w", SpHasWord(b)
        PROVE  FALSE
    <2>1. PICK i \in 1 .. n : b[i] = "w" /\ b[i + 1] = "w"
      BY <1>1, <1>5 DEF SpHasWord
    <2>2. CASE i = n
      BY <1>1, <1>2, <1>3, <1>5, <2>1, <2>2
    <2>3. CASE i # n
      <3>1. i \in 1 .. n - 1 /\ i + 1 \in 1 .. n
        BY <1>1, <2>1, <2>3
      <3>2. a[i] = "w" /\ a[i + 1] = "w"
        BY <1>1, <2>1, <3>1
      <3> QED BY <1>5, <3>1, <3>2 DEF SpHasWord, n
    <2> QED BY <2>2, <2>3
  <1> QED BY <1>1, <1>4, <1>5 DEF b

LEMMA SpCutBack ==
    ASSUME NEW a \in SpText, a # <<>>
    PROVE  Front(a) \in SpText /\ Range(Front(a)) \subseteq Range(a) /\ (SpHasWord(Front(a)) => SpHasWord(a))
  <1> DEFINE n == Len(a)
             b == Front(a)
  <1>1. n \in Nat /\ n > 0 /\ DOMAIN a = 1 .. n
    BY DEF SpText
  <1>2. b \in SpText /\ Len(b) = n - 1 /\ DOMAIN b = 1 .. n - 1 /\ \A i \in 1 .. n - 1 : b[i] = a[i]
    BY <1>1 DEF SpText, Front
  <1> HIDE DEF b, n
  <1>3. Range(b) \subseteq Range(a)
    BY <1>1, <1>2 DEF Range
  <1>4. ASSUME SpHasWord(b) PROVE SpHasWord(a)
    <2>1. PICK i \in 1 .. Len(b) - 1 : b[i] = "w" /\ b[i + 1] = "w"
      BY <1>4 DEF SpHasWord
    <2>2. i \in 1 .. n - 1 /\ i + 1 \in 1 .. n - 1
      BY <1>1, <1>2, <2>1
    <2>3. a[i] = "w" /\ a[i + 1] = "w"
      BY <1>2, <2>1, <2>2
    <2> QED BY <2>2, <2>3 DEF SpHasWord, n
  <1> QED BY <1>2, <1>3, <1>4 DEF b

\* What StripColor leaves has no colour.
SpPlain == {a \in SpText : "^" \notin Range(a)}

LEMMA SpStripPlain ==
    ASSUME NEW t \in SpText
    PROVE  SpStrip(t) \in SpPlain
  <1> DEFINE V == SpPlain
             len == Len(t)
             Turn(v, x) == IF x = "^" THEN v ELSE Append(v, x)
             F == [q \in (1 .. len) \X V |-> Turn(q[2], t[q[1]])]
             iter == CHOOSE g : g = [u \in SUBSET DOMAIN t |->
                        IF u = {} THEN <<>> ELSE Turn(g[u \ {Max(u)}], t[Max(u)])]
  <1>0. len \in Nat /\ DOMAIN t = 1 .. len /\ \A k \in 1 .. len : t[k] \in SpLetter
    BY DEF SpText
  <1>1. SpStrip(t) = iter[DOMAIN t]
    BY DEF SpStrip, FoldLeft, MapThenFoldSet
  <1>2. \A v \in V : \A x \in SpLetter : Turn(v, x) \in V
    BY SpGrown DEF SpPlain
  <1>4. <<>> \in V
    BY DEF SpPlain, SpText, Range
  <1> HIDE DEF V, Turn
  <1>3. F \in [(1 .. len) \X V -> V] /\ \A k \in 1 .. len, v \in V : F[k, v] = Turn(v, t[k])
    <2>2. \A q \in (1 .. len) \X V : Turn(q[2], t[q[1]]) \in V
      BY <1>0, <1>2
    <2>3. \A k \in 1 .. len, v \in V : <<k, v>> \in (1 .. len) \X V /\ <<k, v>>[1] = k /\ <<k, v>>[2] = v
      OBVIOUS
    <2> QED BY <2>2, <2>3
  <1> HIDE DEF F
  <1>5. PICK g \in [SUBSET (1 .. len) -> V] : FoldOf(g, len, <<>>, F)
    <2>1. FoldFor(len, V, <<>>, F)
      BY <1>0, <1>3, <1>4, FoldExists
    <2> QED BY <2>1 DEF FoldFor
  <1>6. g = [u \in SUBSET DOMAIN t |-> IF u = {} THEN <<>> ELSE Turn(g[u \ {Max(u)}], t[Max(u)])]
    <2>1. ASSUME NEW u \in SUBSET (1 .. len)
          PROVE  g[u] = IF u = {} THEN <<>> ELSE Turn(g[u \ {Max(u)}], t[Max(u)])
      <3>1. g[u] = IF u = {} THEN <<>> ELSE F[Max(u), g[u \ {Max(u)}]]
        BY <1>5 DEF FoldOf
      <3>2. u # {} => Max(u) \in 1 .. len
        BY <1>0, MaxIs
      <3>3. g[u \ {Max(u)}] \in V
        BY <1>5
      <3> QED BY <1>3, <3>1, <3>2, <3>3
    <2> QED BY <1>0, <2>1
  <1>7. iter = [u \in SUBSET DOMAIN t |-> IF u = {} THEN <<>> ELSE Turn(iter[u \ {Max(u)}], t[Max(u)])]
    BY <1>6
  <1> HIDE DEF iter
  <1>8. iter[{}] = <<>>
    BY <1>7
  <1>9. ASSUME NEW k \in 1 .. len, iter[1 .. k - 1] \in V
        PROVE  iter[1 .. k] \in V
    <2>1. 1 .. k \in SUBSET DOMAIN t /\ 1 .. k # {} /\ Max(1 .. k) = k /\ (1 .. k) \ {Max(1 .. k)} = 1 .. k - 1
      BY <1>0, MaxOfRange
    <2>2. iter[1 .. k] = Turn(iter[1 .. k - 1], t[k])
      BY <1>7, <2>1
    <2>3. t[k] \in SpLetter
      BY <1>0
    <2> QED BY <1>2, <1>9, <2>2, <2>3
  <1>10. iter[1 .. len] \in V
    BY <1>0, <1>4, <1>8, <1>9, FoldStays
  <1> QED BY <1>0, <1>1, <1>10 DEF V

\* What Censor leaves has no filtered word, and nothing new but what it writes instead.
SpCensoredOf(t) == {a \in SpText : ~SpHasWord(a) /\ Range(a) \subseteq Range(t) \cup {"."}}

LEMMA SpCensorClean ==
    ASSUME NEW t \in SpText
    PROVE  SpCensor(t) \in SpCensoredOf(t)
  <1> DEFINE V == SpCensoredOf(t)
             len == Len(t)
             Turn(v, x) == IF v # <<>> /\ Last(v) = "w" /\ x = "w" THEN Append(Front(v), ".") ELSE Append(v, x)
             F == [q \in (1 .. len) \X V |-> Turn(q[2], t[q[1]])]
             iter == CHOOSE g : g = [u \in SUBSET DOMAIN t |->
                        IF u = {} THEN <<>> ELSE Turn(g[u \ {Max(u)}], t[Max(u)])]
  <1>0. len \in Nat /\ DOMAIN t = 1 .. len /\ \A k \in 1 .. len : t[k] \in SpLetter
    BY DEF SpText
  <1>1. SpCensor(t) = iter[DOMAIN t]
    BY DEF SpCensor, FoldLeft, MapThenFoldSet
  <1>2. \A v \in V : \A k \in 1 .. len : Turn(v, t[k]) \in V
    <2> SUFFICES ASSUME NEW v \in V, NEW k \in 1 .. len
                 PROVE  Turn(v, t[k]) \in V
      OBVIOUS
    <2>1. v \in SpText /\ ~SpHasWord(v) /\ Range(v) \subseteq Range(t) \cup {"."} /\ t[k] \in SpLetter
          /\ t[k] \in Range(t) /\ "." \in SpLetter
      <3>1. t[k] \in SpLetter /\ t[k] \in Range(t)
        BY <1>0 DEF Range
      <3>2. "." \in SpLetter
        BY DEF SpLetter
      <3>3. v \in SpCensoredOf(t)
        OBVIOUS
      <3> QED BY <3>1, <3>2, <3>3 DEF SpCensoredOf
    <2>2. CASE v # <<>> /\ Last(v) = "w" /\ t[k] = "w"
      <3> DEFINE f == Front(v)
      <3>1. f \in SpText /\ Range(f) \subseteq Range(v) /\ ~SpHasWord(f)
        BY <2>1, <2>2, SpCutBack
      <3> HIDE DEF f
      <3>2. Append(f, ".") \in SpText /\ Range(Append(f, ".")) = Range(f) \cup {"."} /\ ~SpHasWord(Append(f, "."))
        <4>1. "." # "w"
          OBVIOUS
        <4> QED BY <3>1, <2>1, <4>1, SpGrown
      <3>3. Append(f, ".") \in V
        BY <2>1, <3>1, <3>2 DEF SpCensoredOf
      <3> QED BY <2>2, <3>3 DEF f
    <2>3. CASE ~(v # <<>> /\ Last(v) = "w" /\ t[k] = "w")
      <3>1. Append(v, t[k]) \in SpText /\ Range(Append(v, t[k])) = Range(v) \cup {t[k]} /\ ~SpHasWord(Append(v, t[k]))
        BY <2>1, <2>3, SpGrown
      <3>2. Append(v, t[k]) \in V
        BY <2>1, <3>1 DEF SpCensoredOf
      <3> QED BY <2>3, <3>2
    <2> QED BY <2>2, <2>3
  <1>4. <<>> \in V
    BY DEF SpCensoredOf, SpText, Range, SpHasWord
  <1> HIDE DEF V, Turn
  <1>3. F \in [(1 .. len) \X V -> V] /\ \A k \in 1 .. len, v \in V : F[k, v] = Turn(v, t[k])
    <2>2. \A q \in (1 .. len) \X V : Turn(q[2], t[q[1]]) \in V
      BY <1>0, <1>2
    <2>3. \A k \in 1 .. len, v \in V : <<k, v>> \in (1 .. len) \X V /\ <<k, v>>[1] = k /\ <<k, v>>[2] = v
      OBVIOUS
    <2> QED BY <2>2, <2>3
  <1> HIDE DEF F
  <1>5. PICK g \in [SUBSET (1 .. len) -> V] : FoldOf(g, len, <<>>, F)
    <2>1. FoldFor(len, V, <<>>, F)
      BY <1>0, <1>3, <1>4, FoldExists
    <2> QED BY <2>1 DEF FoldFor
  <1>6. g = [u \in SUBSET DOMAIN t |-> IF u = {} THEN <<>> ELSE Turn(g[u \ {Max(u)}], t[Max(u)])]
    <2>1. ASSUME NEW u \in SUBSET (1 .. len)
          PROVE  g[u] = IF u = {} THEN <<>> ELSE Turn(g[u \ {Max(u)}], t[Max(u)])
      <3>1. g[u] = IF u = {} THEN <<>> ELSE F[Max(u), g[u \ {Max(u)}]]
        BY <1>5 DEF FoldOf
      <3>2. u # {} => Max(u) \in 1 .. len
        BY <1>0, MaxIs
      <3>3. g[u \ {Max(u)}] \in V
        BY <1>5
      <3> QED BY <1>3, <3>1, <3>2, <3>3
    <2> QED BY <1>0, <2>1
  <1>7. iter = [u \in SUBSET DOMAIN t |-> IF u = {} THEN <<>> ELSE Turn(iter[u \ {Max(u)}], t[Max(u)])]
    BY <1>6
  <1> HIDE DEF iter
  <1>8. iter[{}] = <<>>
    BY <1>7
  <1>9. ASSUME NEW k \in 1 .. len, iter[1 .. k - 1] \in V
        PROVE  iter[1 .. k] \in V
    <2>1. 1 .. k \in SUBSET DOMAIN t /\ 1 .. k # {} /\ Max(1 .. k) = k /\ (1 .. k) \ {Max(1 .. k)} = 1 .. k - 1
      BY <1>0, MaxOfRange
    <2>2. iter[1 .. k] = Turn(iter[1 .. k - 1], t[k])
      BY <1>7, <2>1
    <2> QED BY <1>2, <1>9, <2>2
  <1>10. iter[1 .. len] \in V
    BY <1>0, <1>4, <1>8, <1>9, FoldStays
  <1> QED BY <1>0, <1>1, <1>10 DEF V

-----------------------------------------------------------------------------
(* The walk over the hooks *)

\* One turn of it, and all of it: w[k] is what is decided after k hooks.
SpVerdict == [ok : BOOLEAN, text : SpText]
SpTurn(hooks, kind, acc, h) ==
    IF h \notin hooks \/ ~acc.ok THEN acc
    ELSE [ok |-> ~SpBlocks(h, kind, acc.text), text |-> SpRewrites(h, acc.text)]
SpRuns(w, hooks, kind, t, o) ==
    /\ w[0] = [ok |-> TRUE, text |-> t]
    /\ \A k \in 1 .. Len(o) : w[k] = SpTurn(hooks, kind, w[k - 1], o[k])

LEMMA SpTurnTyped ==
    ASSUME NEW hooks, NEW kind, NEW acc \in SpVerdict, NEW h
    PROVE  SpTurn(hooks, kind, acc, h) \in SpVerdict
  <1>1. acc.text \in SpText /\ SpBlocks(h, kind, acc.text) \in BOOLEAN
    BY DEF SpVerdict, SpBlocks
  <1>2. SpRewrites(h, acc.text) \in SpText
    BY <1>1, SpStripPlain, SpCensorClean DEF SpRewrites, SpPlain, SpCensoredOf
  <1> QED BY <1>1, <1>2 DEF SpTurn, SpVerdict

LEMMA SpWalkRuns ==
    ASSUME NEW hooks, NEW kind, NEW t \in SpText, NEW o \in Seq(STRING), o = sp_order
    PROVE  \E w : SpRuns(w, hooks, kind, t, o) /\ w[Len(o)] = SpWalk(hooks, kind, t)
  <1> DEFINE V == SpVerdict
             len == Len(o)
             b == [ok |-> TRUE, text |-> t]
             Turn(v, x) == SpTurn(hooks, kind, v, x)
             F == [q \in (1 .. len) \X V |-> Turn(q[2], o[q[1]])]
             iter == CHOOSE g : g = [u \in SUBSET DOMAIN o |->
                        IF u = {} THEN b ELSE Turn(g[u \ {Max(u)}], o[Max(u)])]
  <1>0. len \in Nat /\ DOMAIN o = 1 .. len /\ \A k \in 1 .. len : o[k] \in SpLetter
    BY DEF SpLetter
  <1>1. SpWalk(hooks, kind, t) = iter[DOMAIN o]
    BY DEF SpWalk, SpTurn, FoldLeft, MapThenFoldSet
  <1>2. \A v \in V : \A x \in SpLetter : Turn(v, x) \in V
    BY SpTurnTyped
  <1>4. b \in V
    BY DEF SpVerdict
  <1> HIDE DEF V, Turn, b
  <1>3. F \in [(1 .. len) \X V -> V] /\ \A k \in 1 .. len, v \in V : F[k, v] = Turn(v, o[k])
    <2>2. \A q \in (1 .. len) \X V : Turn(q[2], o[q[1]]) \in V
      BY <1>0, <1>2
    <2>3. \A k \in 1 .. len, v \in V : <<k, v>> \in (1 .. len) \X V /\ <<k, v>>[1] = k /\ <<k, v>>[2] = v
      OBVIOUS
    <2> QED BY <2>2, <2>3
  <1> HIDE DEF F
  <1>5. PICK g \in [SUBSET (1 .. len) -> V] : FoldOf(g, len, b, F)
    <2>1. FoldFor(len, V, b, F)
      BY <1>0, <1>3, <1>4, FoldExists
    <2> QED BY <2>1 DEF FoldFor
  <1>6. g = [u \in SUBSET DOMAIN o |-> IF u = {} THEN b ELSE Turn(g[u \ {Max(u)}], o[Max(u)])]
    <2>1. ASSUME NEW u \in SUBSET (1 .. len)
          PROVE  g[u] = IF u = {} THEN b ELSE Turn(g[u \ {Max(u)}], o[Max(u)])
      <3>1. g[u] = IF u = {} THEN b ELSE F[Max(u), g[u \ {Max(u)}]]
        BY <1>5 DEF FoldOf
      <3>2. u # {} => Max(u) \in 1 .. len
        BY <1>0, MaxIs
      <3>3. g[u \ {Max(u)}] \in V
        BY <1>5
      <3> QED BY <1>3, <3>1, <3>2, <3>3
    <2> QED BY <1>0, <2>1
  <1>7. iter = [u \in SUBSET DOMAIN o |-> IF u = {} THEN b ELSE Turn(iter[u \ {Max(u)}], o[Max(u)])]
    BY <1>6
  <1> HIDE DEF iter
  <1>8. iter[{}] = b
    BY <1>7
  <1>9. \A k \in 1 .. len : iter[1 .. k] = Turn(iter[1 .. k - 1], o[k])
    <2> SUFFICES ASSUME NEW k \in 1 .. len
                 PROVE  iter[1 .. k] = Turn(iter[1 .. k - 1], o[k])
      OBVIOUS
    <2>1. 1 .. k \in SUBSET DOMAIN o /\ 1 .. k # {} /\ Max(1 .. k) = k /\ (1 .. k) \ {Max(1 .. k)} = 1 .. k - 1
      BY <1>0, MaxOfRange
    <2> QED BY <1>7, <2>1
  <1> DEFINE w == [k \in 0 .. len |-> iter[1 .. k]]
  <1>10. w[0] = b
    <2>1. 1 .. 0 = {}
      OBVIOUS
    <2> QED BY <1>0, <1>8, <2>1
  <1>11. \A k \in 1 .. len : w[k] = SpTurn(hooks, kind, w[k - 1], o[k])
    <2> SUFFICES ASSUME NEW k \in 1 .. len
                 PROVE  w[k] = SpTurn(hooks, kind, w[k - 1], o[k])
      OBVIOUS
    <2>1. k \in 0 .. len /\ k - 1 \in 0 .. len
      BY <1>0
    <2>2. w[k] = iter[1 .. k] /\ w[k - 1] = iter[1 .. k - 1]
      BY <2>1
    <2> QED BY <1>9, <2>2 DEF Turn
  <1>12. w[len] = SpWalk(hooks, kind, t)
    BY <1>0, <1>1
  <1> HIDE DEF w
  <1> QED BY <1>10, <1>11, <1>12 DEF SpRuns, b

\* What is true of a text that has passed k hooks: after the stripping it has no colour, and a filter that
\* looked at it left no word in it that the stripping did not put together later.
SpPassed(w, hooks, o, k) ==
    /\ w[k] \in SpVerdict
    /\ w[k].ok => \A i \in 1 .. k :
         /\ o[i] = "S" /\ "S" \in hooks => "^" \notin Range(w[k].text)
         /\ o[i] \in {"g", "G"} \cap hooks /\ SpHasWord(w[k].text) =>
              "S" \in hooks /\ \E j \in 1 .. k : i < j /\ o[j] = "S"

LEMMA SpPassedOn ==
    ASSUME NEW hooks, NEW kind, NEW t \in SpText, NEW o \in Seq(STRING), NEW w, SpRuns(w, hooks, kind, t, o),
           NEW k \in Nat, k + 1 <= Len(o), SpPassed(w, hooks, o, k)
    PROVE  SpPassed(w, hooks, o, k + 1)
  <1> DEFINE h == o[k + 1]
             a == w[k]
             b == w[k + 1]
  <1>1. b = SpTurn(hooks, kind, a, h)
    <2>1. k + 1 \in 1 .. Len(o) /\ (k + 1) - 1 = k
      OBVIOUS
    <2> QED BY <2>1 DEF SpRuns
  <1>2. a \in SpVerdict /\ b \in SpVerdict
    BY <1>1, SpTurnTyped DEF SpPassed
  <1> SUFFICES ASSUME b.ok, NEW i \in 1 .. k + 1
               PROVE  /\ o[i] = "S" /\ "S" \in hooks => "^" \notin Range(b.text)
                      /\ o[i] \in {"g", "G"} \cap hooks /\ SpHasWord(b.text) =>
                           "S" \in hooks /\ \E j \in 1 .. k + 1 : i < j /\ o[j] = "S"
    BY <1>2 DEF SpPassed
  <1>3. a.ok
    BY <1>1 DEF SpTurn
  <1>4. \A l \in 1 .. k :
          /\ o[l] = "S" /\ "S" \in hooks => "^" \notin Range(a.text)
          /\ o[l] \in {"g", "G"} \cap hooks /\ SpHasWord(a.text) =>
               "S" \in hooks /\ \E j \in 1 .. k : l < j /\ o[j] = "S"
    BY <1>3 DEF SpPassed
  <1>5. h \in hooks => ~SpBlocks(h, kind, a.text) /\ b.text = SpRewrites(h, a.text)
    <2> SUFFICES ASSUME h \in hooks
                 PROVE  ~SpBlocks(h, kind, a.text) /\ b.text = SpRewrites(h, a.text)
      OBVIOUS
    <2>1. b = [ok |-> ~SpBlocks(h, kind, a.text), text |-> SpRewrites(h, a.text)]
      BY <1>1, <1>3 DEF SpTurn
    <2> DEFINE no == ~SpBlocks(h, kind, a.text)
               new == SpRewrites(h, a.text)
    <2>2. b = [ok |-> no, text |-> new] /\ b.ok
      BY <2>1
    <2> HIDE DEF no, new, b
    <2>3. no /\ b.text = new
      BY <2>2
    <2> QED BY <2>3 DEF no, new
  <1>6. h \notin hooks => b.text = a.text
    BY <1>1 DEF SpTurn
  <1>7. i \in 1 .. k \/ i = k + 1
    OBVIOUS
  <1>8. a.text \in SpText
    BY <1>2 DEF SpVerdict
  <1> HIDE DEF a, b, h
  <1>9. CASE h = "S" /\ h \in hooks
    <2>1. b.text = SpStrip(a.text)
      BY <1>5, <1>9 DEF SpRewrites
    <2>2. "^" \notin Range(b.text)
      BY <1>8, <2>1, SpStripPlain DEF SpPlain
    <2>3. i \in 1 .. k => \E j \in 1 .. k + 1 : i < j /\ o[j] = "S"
      <3>1. k + 1 \in 1 .. k + 1 /\ (i \in 1 .. k => i < k + 1)
        OBVIOUS
      <3> QED BY <1>9, <3>1 DEF h
    <2>4. i = k + 1 => o[i] \notin {"g", "G"}
      BY <1>9 DEF h
    <2> QED BY <1>7, <1>9, <2>2, <2>3, <2>4
  <1>10. CASE h = "G" /\ h \in hooks
    <2>1. b.text = SpCensor(a.text)
      BY <1>5, <1>10 DEF SpRewrites
    <2>2. ~SpHasWord(b.text) /\ Range(b.text) \subseteq Range(a.text) \cup {"."}
      BY <1>8, <2>1, SpCensorClean DEF SpCensoredOf
    <2>3. i \in 1 .. k /\ o[i] = "S" /\ "S" \in hooks => "^" \notin Range(b.text)
      BY <1>4, <2>2
    <2>4. i = k + 1 => o[i] # "S"
      BY <1>10 DEF h
    <2> QED BY <1>7, <2>2, <2>3, <2>4
  <1>11. CASE h \notin {"S", "G"} \/ h \notin hooks
    <2>1. b.text = a.text
      BY <1>5, <1>6, <1>11 DEF SpRewrites
    <2>2. CASE i \in 1 .. k
      <3>1. \A j \in 1 .. k : j \in 1 .. k + 1
        OBVIOUS
      <3> QED BY <1>4, <2>1, <2>2, <3>1
    <2>3. CASE i = k + 1
      <3>1. ~(o[i] = "S" /\ "S" \in hooks)
        BY <1>11, <2>3 DEF h
      <3>2. o[i] \in {"g", "G"} \cap hooks => ~SpHasWord(b.text)
        BY <1>5, <1>11, <2>1, <2>3 DEF h, SpBlocks, SpChanFilter
      <3> QED BY <3>1, <3>2
    <2> QED BY <1>7, <2>2, <2>3
  <1> QED BY <1>9, <1>10, <1>11

LEMMA SpWalkPasses ==
    ASSUME NEW hooks, NEW kind, NEW t \in SpText, NEW o \in Seq(STRING), o = sp_order, SpWalk(hooks, kind, t).ok
    PROVE  LET text == SpWalk(hooks, kind, t).text
           IN \A i \in 1 .. Len(o) :
                /\ o[i] = "S" /\ "S" \in hooks => "^" \notin Range(text)
                /\ o[i] \in {"g", "G"} \cap hooks /\ SpHasWord(text) =>
                     "S" \in hooks /\ \E j \in 1 .. Len(o) : i < j /\ o[j] = "S"
  <1> DEFINE n == Len(o)
  <1>1. PICK w : SpRuns(w, hooks, kind, t, o) /\ w[n] = SpWalk(hooks, kind, t)
    BY SpWalkRuns
  <1>2. n \in Nat
    OBVIOUS
  <1> DEFINE S == {k \in Nat : k <= n => SpPassed(w, hooks, o, k)}
  <1>3. 0 \in S
    <2>1. w[0] \in SpVerdict
      BY <1>1 DEF SpRuns, SpVerdict
    <2>2. 1 .. 0 = {}
      OBVIOUS
    <2> QED BY <2>1, <2>2 DEF SpPassed
  <1>4. ASSUME NEW k \in Nat, k \in S PROVE k + 1 \in S
    BY <1>1, <1>2, <1>4, SpPassedOn
  <1>5. n \in S
    <2> HIDE DEF S, n
    <2> QED BY <1>2, <1>3, <1>4, Induct
  <1>6. SpPassed(w, hooks, o, n)
    BY <1>2, <1>5
  <1> QED BY <1>1, <1>6 DEF SpPassed

-----------------------------------------------------------------------------
(* The commands *)

SpSet == sp_cm \in SpModeSets /\ sp_order \in SpOrders

\* A client of this server speaks to the channel.
LEMMA SpSayHeard ==
    ASSUME SpSet, NEW u \in SpUsers, NEW kind, NEW st, NEW t \in SpText, SpSay(u, kind, st, t)
    PROVE  SpHeard'
  <1> DEFINE hooks == sp_cm \ SpLetOff(u)
             passed == SpPass(hooks, u, kind, t)
             to == (SpAddressed(st) \cap SpLocal) \ (SpTakenOff(u, st) \cup {u})
             op == SpStatus(u) = "@"
  <1>1. passed.ok /\ UNCHANGED <<sp_on, sp_cm, sp_um, sp_silence, sp_order>>
        /\ sp_heard' = [from |-> {u}, text |-> passed.text, op |-> op, modes |-> sp_cm, public |-> TRUE, to |-> to]
    BY DEF SpSay
  <1>2. sp_heard'.from = {u} /\ sp_heard'.text = passed.text /\ sp_heard'.op = op /\ sp_heard'.modes = sp_cm
        /\ sp_heard'.to = to
    BY <1>1
  <1>3. CASE u \notin SpLocal
    BY <1>2, <1>3 DEF SpHeard, SpTurnedAway, SpClean, SpCensored
  <1>4. CASE u \in SpLocal
    <2>1. SpTurnedAway'
      <3>1. \A v \in to : "d" \notin sp_um[v] /\ <<v, u>> \notin sp_silence
        BY <1>4 DEF SpTakenOff
      <3> HIDE DEF to
      <3> QED BY <1>1, <1>2, <3>1 DEF SpTurnedAway
    <2>2. PICK o \in Seq(STRING) : o = sp_order /\ sp_cm \subseteq Range(o) \cup {"n", "m"}
      BY SpeechOK DEF SpSet
    <2>3. \A i \in 1 .. Len(o) :
            /\ o[i] = "S" /\ "S" \in hooks => "^" \notin Range(passed.text)
            /\ o[i] \in {"g", "G"} \cap hooks /\ SpHasWord(passed.text) =>
                 "S" \in hooks /\ \E j \in 1 .. Len(o) : i < j /\ o[j] = "S"
      <3>1. passed = SpWalk(hooks, kind, t)
        BY <1>4 DEF SpPass
      <3> HIDE DEF hooks, passed
      <3> QED BY <1>1, <2>2, <3>1, SpWalkPasses
    <2>4. \A h \in sp_cm \cap {"S", "g", "G"} : \E i \in 1 .. Len(o) : o[i] = h
      BY <2>2 DEF Range
    <2>5. \A h \in sp_cm \cap {"S", "g", "G"} : h \notin hooks => h \in SpExemptOps /\ op
      BY DEF SpLetOff
    <2>6. SpClean'
      <3> HIDE DEF hooks, passed, to, op
      <3>1. "S" \in sp_cm /\ ~("S" \in SpExemptOps /\ op) => "^" \notin Range(passed.text)
        BY <2>3, <2>4, <2>5
      <3> QED BY <1>2, <3>1 DEF SpClean
    <2>7. SpCensored'
      <3> SUFFICES ASSUME SpHasWord(passed.text), NEW h \in {"g", "G"} \cap sp_cm, ~(h \in SpExemptOps /\ op)
                   PROVE  "S" \in sp_cm /\ \E i, j \in DOMAIN sp_order : i < j /\ sp_order[i] = h /\ sp_order[j] = "S"
        BY <1>1, <1>2 DEF SpCensored, SpAfter
      <3>1. PICK i \in 1 .. Len(o) : o[i] = h
        BY <2>4
      <3>2. h \in hooks
        BY <2>5
      <3>3. "S" \in hooks /\ \E j \in 1 .. Len(o) : i < j /\ o[j] = "S"
        BY <2>3, <3>1, <3>2
      <3> QED BY <2>2, <3>1, <3>3
    <2> QED BY <2>1, <2>6, <2>7 DEF SpHeard
  <1> QED BY <1>3, <1>4

LEMMA SpQuietHeard == SpQuietly => SpHeard'
  <1> SUFFICES ASSUME sp_heard' = SpQuiet
               PROVE  SpHeard'
    BY DEF SpQuietly
  <1>1. sp_heard'.public = FALSE
    BY DEF SpQuiet
  <1> QED BY <1>1 DEF SpHeard, SpTurnedAway, SpClean, SpCensored

\* SpHeard: whatever hooks are loaded in whatever order and whomever a line addresses, what a client of this server
\* says reaches nobody who is deaf to it or has silenced him, no colours pass the stripping, and a filtered word
\* passes a filter only where the colours are taken out behind it.
THEOREM HeardAsModesSay == SpeechSpec => []SpHeard
  <1>1. SpeechInit => SpSet /\ SpHeard
    <2> SUFFICES ASSUME SpeechInit
                 PROVE  SpSet /\ SpHeard
      OBVIOUS
    <2>1. sp_heard.public = FALSE
      BY DEF SpeechInit, SpQuiet
    <2> QED BY <2>1, SpeechOK DEF SpeechInit, SpSet, SpHeard, SpTurnedAway, SpClean, SpCensored
  <1>2. SpSet /\ SpHeard /\ [SpeechNext]_sp_vars => SpSet' /\ SpHeard'
    <2> SUFFICES ASSUME SpSet, SpHeard, [SpeechNext]_sp_vars
                 PROVE  SpSet' /\ SpHeard'
      OBVIOUS
    <2>1. ASSUME UNCHANGED sp_vars PROVE SpSet' /\ SpHeard'
      BY <2>1 DEF sp_vars, SpSet, SpHeard, SpTurnedAway, SpClean, SpCensored, SpAfter
    <2>2. ASSUME NEW u \in SpUsers, NEW kind, NEW st, NEW t \in SpTexts, SpSay(u, kind, st, t)
          PROVE  SpSet' /\ SpHeard'
      <3>1. t \in SpText
        <4>1. t \in Seq(STRING)
          BY SpeechOK
        <4> QED BY <4>1 DEF SpText, SpLetter
      <3>2. SpHeard'
        BY <2>2, <3>1, SpSayHeard
      <3> QED BY <2>2, <3>2 DEF SpSay, SpSet
    <2>3. ASSUME NEW u \in SpUsers, NEW v \in SpUsers, NEW t \in SpTexts, SpPrivate(u, v, t)
          PROVE  SpSet' /\ SpHeard'
      <3>1. sp_heard'.public = FALSE
        BY <2>3 DEF SpPrivate
      <3>2. SpHeard'
        BY <3>1 DEF SpHeard, SpTurnedAway, SpClean, SpCensored
      <3> QED BY <2>3, <3>2 DEF SpPrivate, SpSet
    <2>4. ASSUME NEW p \in SpSilencers, SpSilenceCmd(p) PROVE SpSet' /\ SpHeard'
      BY <2>4, SpQuietHeard DEF SpSilenceCmd, SpSet
    <2>5. ASSUME NEW kinds \in SpModeSets, SpMode(kinds) PROVE SpSet' /\ SpHeard'
      BY <2>5, SpQuietHeard DEF SpMode, SpSet
    <2>6. ASSUME NEW u \in SpUsers, SpPart(u) PROVE SpSet' /\ SpHeard'
      BY <2>6, SpQuietHeard, SpeechOK DEF SpPart, SpSet
    <2>7. ASSUME NEW u \in SpUsers, NEW kinds, SpUserMode(u, kinds) PROVE SpSet' /\ SpHeard'
      BY <2>7, SpQuietHeard DEF SpUserMode, SpSet
    <2>8. ASSUME NEW u \in SpUsers, NEW st, SpJoin(u, st) PROVE SpSet' /\ SpHeard'
      BY <2>8, SpQuietHeard DEF SpJoin, SpSet
    <2> QED BY <2>1, <2>2, <2>3, <2>4, <2>5, <2>6, <2>7, <2>8 DEF SpeechNext, SpPrivmsg, SpNotice
  <1> QED BY <1>1, <1>2, PTL DEF SpeechSpec

-----------------------------------------------------------------------------
(* Who is kept out of a channel (Bans) *)

\* An entry off the channels that went away waits for a ban that is set, and is the only one that does.
BnEntry == [chan : BnChans, ban : BnBan, left : Nat]
BnWaits(lists, timed, lost) ==
    \A i \in DOMAIN timed : timed[i].chan \notin lost =>
        /\ timed[i].ban \in lists[timed[i].chan]
        /\ \A j \in DOMAIN timed : timed[j].chan = timed[i].chan /\ timed[j].ban = timed[i].ban => j = i
BnRecord == [bans : [BnChans -> SUBSET BnBan], redirects : [BnChans -> Seq(BnBan)], timed : Seq(BnEntry)]
BnTidy(lost) == {s \in BnRecord : BnWaits(s.bans, s.timed, lost)}
\* Tidy, and different from s in c's lists only.
BnNear(s, c, lost) ==
    {a \in BnTidy(lost) : \A d \in BnChans \ {c} : a.bans[d] = s.bans[d] /\ a.redirects[d] = s.redirects[d]}
\* Every ban with a target is among the redirects, and none has its own channel for target.
BnRange(list) == {list[i] : i \in DOMAIN list}
BnSentOn(lists, list, c) ==
    /\ \A r \in BnRange(list) : r.to # ""
    /\ \A b \in lists : b.to # "" => b \in BnRange(list)
    /\ \A b \in lists : b.to # c
BnSent(s) == \A c \in BnChans : BnSentOn(s.bans[c], s.redirects[c], c)

\* Without its k-th entry, a list has the others, each where it was or one before.
BnFewer(t, s, k) ==
    \E m \in [DOMAIN t -> DOMAIN s] :
        \A i \in DOMAIN t : t[i] = s[m[i]] /\ m[i] # k /\ \A j \in DOMAIN t : m[i] = m[j] => i = j

LEMMA BnOneLess ==
    ASSUME NEW S, NEW s \in Seq(S), NEW k \in DOMAIN s
    PROVE  /\ RemoveAt(s, k) \in Seq(S) /\ BnFewer(RemoveAt(s, k), s, k)
           /\ \A r : r \in BnRange(s) /\ r # s[k] => r \in BnRange(RemoveAt(s, k))
           /\ BnRange(RemoveAt(s, k)) \subseteq BnRange(s)
  <1> DEFINE t == RemoveAt(s, k)
             n == Len(s)
             m == [i \in 1 .. n - 1 |-> IF i < k THEN i ELSE i + 1]
  <1>1. n \in Nat /\ k \in 1 .. n /\ DOMAIN s = 1 .. n
    OBVIOUS
  <1>2. t \in Seq(S) /\ DOMAIN t = 1 .. n - 1 /\ \A i \in 1 .. n - 1 : t[i] = IF i < k THEN s[i] ELSE s[i + 1]
    BY <1>1, RemoveAtIs
  <1> HIDE DEF t, n
  <1>3. m \in [1 .. n - 1 -> 1 .. n] /\ \A i \in 1 .. n - 1 : t[i] = s[m[i]] /\ m[i] # k
    BY <1>1, <1>2
  <1>4. \A i, j \in 1 .. n - 1 : m[i] = m[j] => i = j
    BY <1>1
  <1>5. BnFewer(t, s, k)
    <2>1. m \in [DOMAIN t -> DOMAIN s]
      BY <1>1, <1>2, <1>3
    <2>2. \A i \in DOMAIN t : t[i] = s[m[i]] /\ m[i] # k /\ \A j \in DOMAIN t : m[i] = m[j] => i = j
      BY <1>2, <1>3, <1>4
    <2> HIDE DEF m
    <2> QED BY <2>1, <2>2 DEF BnFewer
  <1>6. ASSUME NEW r, r \in BnRange(s), r # s[k] PROVE r \in BnRange(t)
    <2>1. PICK i \in 1 .. n : s[i] = r
      BY <1>1, <1>6 DEF BnRange
    <2>2. CASE i < k
      <3>1. i \in 1 .. n - 1 /\ t[i] = r
        BY <1>1, <1>2, <2>1, <2>2
      <3> QED BY <1>2, <3>1 DEF BnRange
    <2>3. CASE i > k
      <3>1. i - 1 \in 1 .. n - 1 /\ t[i - 1] = r
        BY <1>1, <1>2, <2>1, <2>3
      <3> QED BY <1>2, <3>1 DEF BnRange
    <2>4. i # k
      BY <1>6, <2>1
    <2> QED BY <1>1, <2>2, <2>3, <2>4
  <1>7. BnRange(t) \subseteq BnRange(s)
    BY <1>1, <1>2, <1>3 DEF BnRange
  <1> QED BY <1>2, <1>5, <1>6, <1>7 DEF t

\* Entries that go leave the others waiting.
LEMMA BnFewerWait ==
    ASSUME NEW lists, NEW timed, NEW t, NEW k, NEW lost, BnFewer(t, timed, k), BnWaits(lists, timed, lost)
    PROVE  BnWaits(lists, t, lost)
  <1>1. PICK m \in [DOMAIN t -> DOMAIN timed] :
          \A i \in DOMAIN t : t[i] = timed[m[i]] /\ m[i] # k /\ \A j \in DOMAIN t : m[i] = m[j] => i = j
    BY DEF BnFewer
  <1> SUFFICES ASSUME NEW i \in DOMAIN t, t[i].chan \notin lost
               PROVE  /\ t[i].ban \in lists[t[i].chan]
                      /\ \A j \in DOMAIN t : t[j].chan = t[i].chan /\ t[j].ban = t[i].ban => j = i
    BY DEF BnWaits
  <1>2. t[i] = timed[m[i]] /\ m[i] \in DOMAIN timed
    BY <1>1
  <1>3. timed[m[i]].ban \in lists[timed[m[i]].chan]
    BY <1>2 DEF BnWaits
  <1>4. ASSUME NEW j \in DOMAIN t, t[j].chan = t[i].chan, t[j].ban = t[i].ban
        PROVE  j = i
    <2>1. t[j] = timed[m[j]] /\ m[j] \in DOMAIN timed
      BY <1>1
    <2>2. m[j] = m[i]
      BY <1>2, <1>4, <2>1 DEF BnWaits
    <2> QED BY <1>1, <2>2
  <1> QED BY <1>2, <1>3, <1>4

\* OnDelBan takes the entry of the ban that goes.
LEMMA BnOnDelBanTidy ==
    ASSUME NEW lists \in [BnChans -> SUBSET BnBan], NEW timed \in Seq(BnEntry), NEW lost, BnWaits(lists, timed, lost),
           NEW c \in BnChans, NEW b
    PROVE  /\ BnOnDelBan(timed, c, b) \in Seq(BnEntry)
           /\ BnWaits([lists EXCEPT ![c] = @ \ {b}], BnOnDelBan(timed, c, b), lost)
  <1> DEFINE at == {i \in DOMAIN timed : timed[i].chan = c /\ timed[i].ban = b}
             k == CHOOSE i \in at : \A j \in at : i <= j
             less == [lists EXCEPT ![c] = @ \ {b}]
  <1>1. BnOnDelBan(timed, c, b) = IF at = {} THEN timed ELSE RemoveAt(timed, k)
    BY DEF BnOnDelBan, BnDropFirst
  <1>2. ASSUME NEW i \in DOMAIN timed PROVE timed[i].chan \in BnChans
    <2>1. timed[i] \in BnEntry
      OBVIOUS
    <2> QED BY <2>1 DEF BnEntry
  <1>3. CASE at = {}
    <2>1. BnWaits(less, timed, lost)
      <3> SUFFICES ASSUME NEW i \in DOMAIN timed, timed[i].chan \notin lost
                   PROVE  timed[i].ban \in less[timed[i].chan]
        BY DEF BnWaits
      <3>1. timed[i].ban \in lists[timed[i].chan]
        BY DEF BnWaits
      <3> QED BY <1>2, <1>3, <3>1
    <2> QED BY <1>1, <1>3, <2>1
  <1>4. CASE at # {}
    <2> DEFINE t == RemoveAt(timed, k)
    <2>1. k \in at
      <3>1. at \in SUBSET Nat
        OBVIOUS
      <3> HIDE DEF at
      <3> QED BY <1>4, <3>1, Least
    <2>2. k \in DOMAIN timed /\ timed[k].chan = c /\ timed[k].ban = b
      BY <2>1
    <2>3. t \in Seq(BnEntry) /\ BnFewer(t, timed, k)
      BY <2>2, BnOneLess
    <2> HIDE DEF k, at
    <2>4. PICK m \in [DOMAIN t -> DOMAIN timed] : \A i \in DOMAIN t : t[i] = timed[m[i]] /\ m[i] # k
      BY <2>3 DEF BnFewer
    <2>5. BnWaits(lists, t, lost)
      BY <2>3, BnFewerWait
    <2> HIDE DEF t
    <2>6. BnWaits(less, t, lost)
      <3> SUFFICES ASSUME NEW i \in DOMAIN t, t[i].chan \notin lost
                   PROVE  t[i].ban \in less[t[i].chan]
        BY <2>5 DEF BnWaits
      <3>1. t[i].ban \in lists[t[i].chan]
        BY <2>5 DEF BnWaits
      <3>2. t[i] = timed[m[i]] /\ m[i] # k /\ m[i] \in DOMAIN timed
        BY <2>4
      <3>3. ~(t[i].chan = c /\ t[i].ban = b)
        BY <2>2, <3>2 DEF BnWaits
      <3> QED BY <1>2, <3>1, <3>2, <3>3
    <2> QED BY <1>1, <1>4, <2>3, <2>6 DEF t
  <1> QED BY <1>3, <1>4

\* What changes the lists of one channel only.
LEMMA BnChanged ==
    ASSUME NEW s, s \in BnRecord, NEW lost, NEW c \in BnChans,
           NEW B \in SUBSET BnBan, NEW R \in Seq(BnBan), NEW T \in Seq(BnEntry),
           BnWaits([s.bans EXCEPT ![c] = B], T, lost)
    PROVE  [bans |-> [s.bans EXCEPT ![c] = B], redirects |-> [s.redirects EXCEPT ![c] = R], timed |-> T]
             \in BnNear(s, c, lost)
  <1> DEFINE lists == [s.bans EXCEPT ![c] = B]
             redirects == [s.redirects EXCEPT ![c] = R]
             x == [bans |-> lists, redirects |-> redirects, timed |-> T]
  <1>1. lists \in [BnChans -> SUBSET BnBan] /\ redirects \in [BnChans -> Seq(BnBan)]
    BY DEF BnRecord
  <1>2. \A d \in BnChans \ {c} : lists[d] = s.bans[d] /\ redirects[d] = s.redirects[d]
    BY DEF BnRecord
  <1> HIDE DEF lists, redirects
  <1>3. x \in BnRecord /\ x.bans = lists /\ x.redirects = redirects /\ x.timed = T
    BY <1>1 DEF BnRecord
  <1>4. BnWaits(x.bans, x.timed, lost)
    BY <1>3 DEF lists
  <1> HIDE DEF x
  <1>5. x \in BnNear(s, c, lost)
    BY <1>2, <1>3, <1>4 DEF BnNear, BnTidy
  <1> QED BY <1>5 DEF x, lists, redirects

LEMMA BnNearer ==
    ASSUME NEW lost, NEW c \in BnChans, NEW s, NEW a \in BnNear(s, c, lost), NEW x \in BnNear(a, c, lost)
    PROVE  x \in BnNear(s, c, lost)
  BY DEF BnNear

\* More bans leave every entry waiting.
LEMMA BnMoreWait ==
    ASSUME NEW lists, NEW more, NEW timed \in Seq(BnEntry), NEW lost, BnWaits(lists, timed, lost),
           \A d \in BnChans : lists[d] \subseteq more[d]
    PROVE  BnWaits(more, timed, lost)
  <1> SUFFICES ASSUME NEW i \in DOMAIN timed, timed[i].chan \notin lost
               PROVE  timed[i].ban \in more[timed[i].chan]
    BY DEF BnWaits
  <1>1. timed[i].chan \in BnChans
    <2>1. timed[i] \in BnEntry
      OBVIOUS
    <2> QED BY <2>1 DEF BnEntry
  <1>2. timed[i].ban \in lists[timed[i].chan]
    BY DEF BnWaits
  <1> QED BY <1>1, <1>2

\* One ban taken off, and its entry with it.
LEMMA BnOneOff ==
    ASSUME NEW lost, NEW s \in BnTidy(lost), NEW c \in BnChans, NEW b, NEW R \in Seq(BnBan), NEW T,
           T = IF b \in s.bans[c] THEN BnOnDelBan(s.timed, c, b) ELSE s.timed
    PROVE  [bans |-> [s.bans EXCEPT ![c] = @ \ {b}], redirects |-> [s.redirects EXCEPT ![c] = R], timed |-> T]
             \in BnNear(s, c, lost)
  <1> DEFINE B == s.bans[c] \ {b}
             less == [s.bans EXCEPT ![c] = B]
  <1>1. s \in BnRecord /\ BnWaits(s.bans, s.timed, lost)
    BY DEF BnTidy
  <1>2. s.bans \in [BnChans -> SUBSET BnBan] /\ s.timed \in Seq(BnEntry)
    BY <1>1 DEF BnRecord
  <1>3. B \in SUBSET BnBan
    BY <1>2
  <1>4. T \in Seq(BnEntry) /\ BnWaits(less, T, lost)
    <2>1. CASE b \in s.bans[c]
      BY <1>1, <1>2, <2>1, BnOnDelBanTidy
    <2>2. CASE b \notin s.bans[c]
      <3>1. less = s.bans
        BY <1>2, <2>2
      <3> QED BY <1>1, <1>2, <2>2, <3>1
    <2> QED BY <2>1, <2>2
  <1> QED BY <1>1, <1>3, <1>4, BnChanged

LEMMA BnOffRedirectsKeeps ==
    ASSUME NEW list \in Seq(BnBan), NEW b
    PROVE  /\ BnOffRedirects(list, b) \in Seq(BnBan)
           /\ \A r : r \in BnRange(list) /\ r # b => r \in BnRange(BnOffRedirects(list, b))
           /\ BnRange(BnOffRedirects(list, b)) \subseteq BnRange(list)
  <1> DEFINE at == {i \in DOMAIN list : list[i] = b}
             k == CHOOSE i \in at : \A j \in at : i <= j
  <1>1. BnOffRedirects(list, b) = IF at = {} THEN list ELSE RemoveAt(list, k)
    BY DEF BnOffRedirects, BnDropFirst
  <1>2. CASE at # {}
    <2>1. k \in at
      <3>1. at \in SUBSET Nat
        OBVIOUS
      <3> HIDE DEF at
      <3> QED BY <1>2, <3>1, Least
    <2>2. k \in DOMAIN list /\ list[k] = b
      BY <2>1
    <2> HIDE DEF k, at
    <2> QED BY <1>1, <1>2, <2>2, BnOneLess
  <1>3. CASE at = {}
    BY <1>1, <1>3
  <1> QED BY <1>2, <1>3

\* MODE -b
BnOffOne(s, c, b) == IF bn_module /\ b.to # "" THEN BnOffRedirects(s.redirects[c], b) ELSE s.redirects[c]
LEMMA BnDelBanIs ==
    ASSUME NEW s \in BnRecord, NEW c \in BnChans, NEW b \in BnBan, ~BnRefused(s, c, b)
    PROVE  BnDelBan(s, c, b) =
             [bans |-> [s.bans EXCEPT ![c] = @ \ {b}], redirects |-> [s.redirects EXCEPT ![c] = BnOffOne(s, c, b)],
              timed |-> IF b \in s.bans[c] THEN BnOnDelBan(s.timed, c, b) ELSE s.timed]
  <1> DEFINE T == IF b \in s.bans[c] THEN BnOnDelBan(s.timed, c, b) ELSE s.timed
             R == BnOffOne(s, c, b)
  <1>1. BnDelBan(s, c, b) = [s EXCEPT !.redirects[c] = R, !.bans[c] = @ \ {b}, !.timed = T]
    BY DEF BnDelBan, BnOffOne, BnRecord
  <1> HIDE DEF T, R
  <1>2. BnDelBan(s, c, b) =
          [bans |-> [s.bans EXCEPT ![c] = @ \ {b}], redirects |-> [s.redirects EXCEPT ![c] = R], timed |-> T]
    BY <1>1 DEF BnRecord
  <1> QED BY <1>2 DEF T, R

LEMMA BnDelBanTidy ==
    ASSUME NEW lost, NEW s \in BnTidy(lost), NEW c \in BnChans, NEW b \in BnBan
    PROVE  BnDelBan(s, c, b) \in BnNear(s, c, lost)
  <1>1. CASE BnRefused(s, c, b)
    BY <1>1 DEF BnDelBan, BnNear
  <1>2. CASE ~BnRefused(s, c, b)
    <2>1. s \in BnRecord /\ s.redirects[c] \in Seq(BnBan)
      BY DEF BnTidy, BnRecord
    <2>2. BnOffOne(s, c, b) \in Seq(BnBan)
      BY <2>1, BnOffRedirectsKeeps DEF BnOffOne
    <2> DEFINE R == BnOffOne(s, c, b)
               T == IF b \in s.bans[c] THEN BnOnDelBan(s.timed, c, b) ELSE s.timed
               x == [bans |-> [s.bans EXCEPT ![c] = @ \ {b}], redirects |-> [s.redirects EXCEPT ![c] = R], timed |-> T]
    <2>3. BnDelBan(s, c, b) = x
      BY <1>2, <2>1, BnDelBanIs
    <2>4. T = IF b \in s.bans[c] THEN BnOnDelBan(s.timed, c, b) ELSE s.timed
      OBVIOUS
    <2> HIDE DEF R, T
    <2>5. x \in BnNear(s, c, lost)
      BY <2>2, <2>4, BnOneOff DEF R
    <2> QED BY <2>3, <2>5
  <1> QED BY <1>1, <1>2

LEMMA BnDelBanSent ==
    ASSUME NEW s \in BnRecord, NEW c \in BnChans, NEW b \in BnBan, bn_module, BnSent(s)
    PROVE  BnSent(BnDelBan(s, c, b))
  <1>1. CASE BnRefused(s, c, b)
    BY <1>1 DEF BnDelBan
  <1>2. CASE ~BnRefused(s, c, b)
    <2> DEFINE x == BnDelBan(s, c, b)
               X == [s.bans EXCEPT ![c] = @ \ {b}]
               Y == [s.redirects EXCEPT ![c] = BnOffOne(s, c, b)]
               Z == IF b \in s.bans[c] THEN BnOnDelBan(s.timed, c, b) ELSE s.timed
    <2>0. x = [bans |-> X, redirects |-> Y, timed |-> Z]
      BY <1>2, BnDelBanIs
    <2> HIDE DEF x, X, Y, Z
    <2>10. x.bans = X /\ x.redirects = Y
      BY <2>0
    <2>1. x.bans = [s.bans EXCEPT ![c] = @ \ {b}] /\ x.redirects = [s.redirects EXCEPT ![c] = BnOffOne(s, c, b)]
      BY <2>10 DEF X, Y
    <2>2. s.bans \in [BnChans -> SUBSET BnBan] /\ s.redirects \in [BnChans -> Seq(BnBan)]
      BY DEF BnRecord
    <2> SUFFICES ASSUME NEW d \in BnChans
                 PROVE  BnSentOn(x.bans[d], x.redirects[d], d)
      BY DEF BnSent, x
    <2>3. BnSentOn(s.bans[d], s.redirects[d], d)
      BY DEF BnSent
    <2>4. CASE d # c
      BY <2>1, <2>2, <2>3, <2>4
    <2>5. CASE d = c
      <3>1. x.bans[d] = s.bans[c] \ {b} /\ x.redirects[d] = BnOffOne(s, c, b)
        BY <2>1, <2>2, <2>5
      <3>2. CASE b.to # ""
        <4>1. BnOffOne(s, c, b) = BnOffRedirects(s.redirects[c], b)
          BY <3>2 DEF BnOffOne
        <4> QED BY <2>2, <2>3, <2>5, <3>1, <4>1, BnOffRedirectsKeeps DEF BnSentOn
      <3>3. CASE b.to = ""
        BY <2>3, <2>5, <3>1, <3>3 DEF BnOffOne, BnSentOn
      <3> QED BY <3>2, <3>3
    <2> QED BY <2>4, <2>5
  <1> QED BY <1>1, <1>2

\* MODE +b
LEMMA BnAddBanIs ==
    ASSUME NEW s \in BnRecord, NEW c \in BnChans, NEW b \in BnBan, ~BnRefused(s, c, b)
    PROVE  BnAddBan(s, c, b) =
             [bans |-> [s.bans EXCEPT ![c] = IF BnOverfull(s, c) THEN @ ELSE @ \cup {b}],
              redirects |-> [s.redirects EXCEPT ![c] = IF bn_module /\ b.to # "" THEN Append(@, b) ELSE @],
              timed |-> s.timed]
  <1> DEFINE B == IF BnOverfull(s, c) THEN s.bans[c] ELSE s.bans[c] \cup {b}
             R == IF bn_module /\ b.to # "" THEN Append(s.redirects[c], b) ELSE s.redirects[c]
  <1>1. BnAddBan(s, c, b) = [s EXCEPT !.redirects[c] = R, !.bans[c] = B]
    BY DEF BnAddBan, BnRecord
  <1>2. [s.bans EXCEPT ![c] = B] = [s.bans EXCEPT ![c] = IF BnOverfull(s, c) THEN @ ELSE @ \cup {b}]
    BY DEF BnRecord
  <1>3. [s.redirects EXCEPT ![c] = R] = [s.redirects EXCEPT ![c] = IF bn_module /\ b.to # "" THEN Append(@, b) ELSE @]
    BY DEF BnRecord
  <1> HIDE DEF B, R
  <1>4. BnAddBan(s, c, b) =
          [bans |-> [s.bans EXCEPT ![c] = B], redirects |-> [s.redirects EXCEPT ![c] = R], timed |-> s.timed]
    BY <1>1 DEF BnRecord
  <1> QED BY <1>2, <1>3, <1>4

LEMMA BnAddBanTidy ==
    ASSUME NEW lost, NEW s \in BnTidy(lost), NEW c \in BnChans, NEW b \in BnBan
    PROVE  /\ BnAddBan(s, c, b) \in BnNear(s, c, lost)
           /\ BnAddBan(s, c, b).timed = s.timed
  <1>1. CASE BnRefused(s, c, b)
    BY <1>1 DEF BnAddBan, BnNear
  <1>2. CASE ~BnRefused(s, c, b)
    <2> DEFINE B == IF BnOverfull(s, c) THEN s.bans[c] ELSE s.bans[c] \cup {b}
               R == IF bn_module /\ b.to # "" THEN Append(s.redirects[c], b) ELSE s.redirects[c]
               more == [s.bans EXCEPT ![c] = B]
    <2>1. s \in BnRecord /\ BnWaits(s.bans, s.timed, lost)
      BY DEF BnTidy
    <2>2. s.bans \in [BnChans -> SUBSET BnBan] /\ s.redirects \in [BnChans -> Seq(BnBan)] /\ s.timed \in Seq(BnEntry)
      BY <2>1 DEF BnRecord
    <2>3. B \in SUBSET BnBan /\ s.bans[c] \subseteq B
      BY <2>2
    <2>31. R \in Seq(BnBan)
      <3>1. s.redirects[c] \in Seq(BnBan)
        BY <2>2
      <3>2. Append(s.redirects[c], b) \in Seq(BnBan)
        BY <3>1
      <3> QED BY <3>1, <3>2
    <2>32. \A d \in BnChans : s.bans[d] \subseteq more[d]
      <3> HIDE DEF B
      <3> QED BY <2>2, <2>3
    <2>4. BnWaits(more, s.timed, lost)
      <3> HIDE DEF more
      <3> QED BY <2>1, <2>2, <2>32, BnMoreWait
    <2>5. BnAddBan(s, c, b) = [bans |-> more, redirects |-> [s.redirects EXCEPT ![c] = R], timed |-> s.timed]
      BY <1>2, <2>1, <2>2, BnAddBanIs
    <2> DEFINE x == [bans |-> more, redirects |-> [s.redirects EXCEPT ![c] = R], timed |-> s.timed]
    <2> HIDE DEF B, R
    <2>6. x \in BnNear(s, c, lost)
      BY <2>1, <2>2, <2>3, <2>31, <2>4, BnChanged
    <2>7. x.timed = s.timed
      OBVIOUS
    <2> HIDE DEF x
    <2>8. BnAddBan(s, c, b) = x
      BY <2>5 DEF x
    <2> QED BY <2>6, <2>7, <2>8
  <1> QED BY <1>1, <1>2

LEMMA BnRangeAppended ==
    ASSUME NEW list \in Seq(BnBan), NEW b \in BnBan
    PROVE  BnRange(Append(list, b)) = BnRange(list) \cup {b}
  <1> DEFINE n == Len(list)
             t == Append(list, b)
  <1>1. n \in Nat /\ DOMAIN list = 1 .. n /\ DOMAIN t = 1 .. n + 1
    OBVIOUS
  <1>2. t[n + 1] = b /\ \A i \in 1 .. n : t[i] = list[i]
    OBVIOUS
  <1> HIDE DEF t, n
  <1>3. \A i : i \in 1 .. n + 1 <=> i \in 1 .. n \/ i = n + 1
    BY <1>1
  <1> QED BY <1>1, <1>2, <1>3 DEF BnRange, t

LEMMA BnAddBanSent ==
    ASSUME NEW s \in BnRecord, NEW c \in BnChans, NEW b \in BnBan, bn_module, BnSent(s)
    PROVE  BnSent(BnAddBan(s, c, b))
  <1>1. CASE BnRefused(s, c, b)
    BY <1>1 DEF BnAddBan
  <1>2. CASE ~BnRefused(s, c, b)
    <2> DEFINE x == BnAddBan(s, c, b)
               B == IF BnOverfull(s, c) THEN s.bans[c] ELSE s.bans[c] \cup {b}
               R == IF bn_module /\ b.to # "" THEN Append(s.redirects[c], b) ELSE s.redirects[c]
               X == [s.bans EXCEPT ![c] = B]
               Y == [s.redirects EXCEPT ![c] = R]
    <2>0. s.bans \in [BnChans -> SUBSET BnBan] /\ s.redirects \in [BnChans -> Seq(BnBan)]
      BY DEF BnRecord
    <2>9. x = [bans |-> X, redirects |-> Y, timed |-> s.timed]
      BY <1>2, <2>0, BnAddBanIs
    <2> HIDE DEF x, X, Y
    <2>10. x.bans = X /\ x.redirects = Y
      BY <2>9
    <2>1. x.bans = [s.bans EXCEPT ![c] = B] /\ x.redirects = [s.redirects EXCEPT ![c] = R]
      BY <2>10 DEF X, Y
    <2> SUFFICES ASSUME NEW d \in BnChans
                 PROVE  BnSentOn(x.bans[d], x.redirects[d], d)
      BY DEF BnSent, x
    <2>3. BnSentOn(s.bans[d], s.redirects[d], d)
      BY DEF BnSent
    <2>4. CASE d # c
      BY <2>0, <2>1, <2>3, <2>4
    <2>5. CASE d = c
      <3>1. x.bans[d] \subseteq s.bans[c] \cup {b} /\ x.redirects[d] = R
        BY <2>0, <2>1, <2>5
      <3>2. b.to # c
        BY <1>2 DEF BnRefused
      <3>3. s.redirects[c] \in Seq(BnBan)
        BY <2>0
      <3>4. CASE b.to # ""
        <4>1. R = Append(s.redirects[c], b)
          BY <3>4
        <4>2. BnRange(R) = BnRange(s.redirects[c]) \cup {b}
          BY <3>3, <4>1, BnRangeAppended
        <4> QED BY <2>3, <2>5, <3>1, <3>2, <3>4, <4>2 DEF BnSentOn
      <3>5. CASE b.to = ""
        <4>1. R = s.redirects[c]
          BY <3>5
        <4> QED BY <2>3, <2>5, <3>1, <3>2, <3>5, <4>1 DEF BnSentOn
      <3> QED BY <3>4, <3>5
    <2> QED BY <2>4, <2>5
  <1> QED BY <1>1, <1>2

\* OnCleanup, for one channel
LEMMA BnTakeOffTidy ==
    ASSUME NEW lost, NEW c \in BnChans, NEW a \in BnTidy(lost), NEW r \in BnBan
    PROVE  BnTakeOff(a, c, r) \in BnNear(a, c, lost)
  <1> DEFINE T == IF r \in a.bans[c] THEN BnOnDelBan(a.timed, c, r) ELSE a.timed
             R == a.redirects[c]
             x == [bans |-> [a.bans EXCEPT ![c] = @ \ {r}], redirects |-> [a.redirects EXCEPT ![c] = R], timed |-> T]
  <1>1. a \in BnRecord
    BY DEF BnTidy
  <1>2. R \in Seq(BnBan) /\ [a.redirects EXCEPT ![c] = R] = a.redirects
    BY <1>1 DEF BnRecord
  <1>3. T = IF r \in a.bans[c] THEN BnOnDelBan(a.timed, c, r) ELSE a.timed
    OBVIOUS
  <1>4. BnTakeOff(a, c, r) = [a EXCEPT !.bans[c] = @ \ {r}, !.timed = T]
    BY <1>1 DEF BnTakeOff, BnRecord
  <1> HIDE DEF R, T
  <1>5. BnTakeOff(a, c, r) = x
    BY <1>1, <1>2, <1>4 DEF BnRecord
  <1>6. x \in BnNear(a, c, lost)
    BY <1>2, <1>3, BnOneOff
  <1> QED BY <1>5, <1>6

LEMMA BnPutBackTidy ==
    ASSUME NEW lost, NEW c \in BnChans, NEW a \in BnTidy(lost), NEW r \in BnBan
    PROVE  BnPutBack(a, c, r) \in BnNear(a, c, lost)
  <1>1. CASE BnOverfull(a, c)
    BY <1>1 DEF BnPutBack, BnNear
  <1>2. CASE ~BnOverfull(a, c)
    <2> DEFINE p == [r EXCEPT !.to = ""]
               B == a.bans[c] \cup {p}
               more == [a.bans EXCEPT ![c] = B]
               R == a.redirects[c]
               x == [bans |-> more, redirects |-> [a.redirects EXCEPT ![c] = R], timed |-> a.timed]
    <2>1. a \in BnRecord /\ BnWaits(a.bans, a.timed, lost)
      BY DEF BnTidy
    <2>2. a.bans \in [BnChans -> SUBSET BnBan] /\ a.timed \in Seq(BnEntry) /\ R \in Seq(BnBan)
          /\ [a.redirects EXCEPT ![c] = R] = a.redirects
      BY <2>1 DEF BnRecord
    <2>3. p \in BnBan
      BY DEF BnBan
    <2> HIDE DEF p
    <2>4. B \in SUBSET BnBan /\ a.bans[c] \subseteq B
      BY <2>2, <2>3
    <2>5. BnPutBack(a, c, r) = [a EXCEPT !.bans[c] = B]
      BY <1>2, <2>1 DEF BnPutBack, BnRecord, p
    <2> HIDE DEF B, R
    <2>6. BnPutBack(a, c, r) = x
      BY <2>1, <2>2, <2>5 DEF BnRecord
    <2>7. \A d \in BnChans : a.bans[d] \subseteq more[d]
      BY <2>2, <2>4
    <2>8. BnWaits(more, a.timed, lost)
      <3> HIDE DEF more
      <3> QED BY <2>1, <2>2, <2>7, BnMoreWait
    <2>9. x \in BnNear(a, c, lost)
      BY <2>1, <2>2, <2>4, <2>8, BnChanged
    <2> QED BY <2>6, <2>9
  <1> QED BY <1>1, <1>2

LEMMA BnAllOffTidy ==
    ASSUME NEW lost, NEW c \in BnChans, NEW s, NEW from \in BnNear(s, c, lost), NEW list \in Seq(BnBan)
    PROVE  BnAllOff(from, c, list) \in BnNear(s, c, lost)
  <1> DEFINE V == BnNear(s, c, lost)
             t == list
             len == Len(t)
             Turn(v, x) == BnTakeOff(v, c, x)
             F == [q \in (1 .. len) \X V |-> Turn(q[2], t[q[1]])]
             iter == CHOOSE g : g = [u \in SUBSET DOMAIN t |->
                        IF u = {} THEN from ELSE Turn(g[u \ {Max(u)}], t[Max(u)])]
  <1>0. len \in Nat /\ DOMAIN t = 1 .. len /\ \A k \in 1 .. len : t[k] \in BnBan
    OBVIOUS
  <1>1. BnAllOff(from, c, list) = iter[DOMAIN t]
    BY DEF BnAllOff, FoldLeft, MapThenFoldSet
  <1>2. \A v \in V : \A x \in BnBan : Turn(v, x) \in V
    BY BnTakeOffTidy, BnNearer DEF BnNear
  <1>4. from \in V
    OBVIOUS
  <1> HIDE DEF V, Turn, t
  <1>3. F \in [(1 .. len) \X V -> V] /\ \A k \in 1 .. len, v \in V : F[k, v] = Turn(v, t[k])
    <2>2. \A q \in (1 .. len) \X V : Turn(q[2], t[q[1]]) \in V
      BY <1>0, <1>2
    <2>3. \A k \in 1 .. len, v \in V : <<k, v>> \in (1 .. len) \X V /\ <<k, v>>[1] = k /\ <<k, v>>[2] = v
      OBVIOUS
    <2> QED BY <2>2, <2>3
  <1> HIDE DEF F
  <1>5. PICK g \in [SUBSET (1 .. len) -> V] : FoldOf(g, len, from, F)
    <2>1. FoldFor(len, V, from, F)
      BY <1>0, <1>3, <1>4, FoldExists
    <2> QED BY <2>1 DEF FoldFor
  <1>6. g = [u \in SUBSET DOMAIN t |-> IF u = {} THEN from ELSE Turn(g[u \ {Max(u)}], t[Max(u)])]
    <2>1. ASSUME NEW u \in SUBSET (1 .. len)
          PROVE  g[u] = IF u = {} THEN from ELSE Turn(g[u \ {Max(u)}], t[Max(u)])
      <3>1. g[u] = IF u = {} THEN from ELSE F[Max(u), g[u \ {Max(u)}]]
        BY <1>5 DEF FoldOf
      <3>2. u # {} => Max(u) \in 1 .. len
        BY <1>0, MaxIs
      <3>3. g[u \ {Max(u)}] \in V
        BY <1>5
      <3> QED BY <1>3, <3>1, <3>2, <3>3
    <2> QED BY <1>0, <2>1
  <1>7. iter = [u \in SUBSET DOMAIN t |-> IF u = {} THEN from ELSE Turn(iter[u \ {Max(u)}], t[Max(u)])]
    BY <1>6
  <1> HIDE DEF iter
  <1>8. iter[{}] = from
    BY <1>7
  <1>9. ASSUME NEW k \in 1 .. len, iter[1 .. k - 1] \in V
        PROVE  iter[1 .. k] \in V
    <2>1. 1 .. k \in SUBSET DOMAIN t /\ 1 .. k # {} /\ Max(1 .. k) = k /\ (1 .. k) \ {Max(1 .. k)} = 1 .. k - 1
      BY <1>0, MaxOfRange
    <2>2. iter[1 .. k] = Turn(iter[1 .. k - 1], t[k])
      BY <1>7, <2>1
    <2>3. t[k] \in BnBan
      BY <1>0
    <2> QED BY <1>2, <1>9, <2>2, <2>3
  <1>10. iter[1 .. len] \in V
    BY <1>0, <1>4, <1>8, <1>9, FoldStays
  <1> QED BY <1>0, <1>1, <1>10 DEF V

LEMMA BnAllBackTidy ==
    ASSUME NEW lost, NEW c \in BnChans, NEW s, NEW from \in BnNear(s, c, lost), NEW list \in Seq(BnBan)
    PROVE  BnAllBack(from, c, list) \in BnNear(s, c, lost)
  <1> DEFINE V == BnNear(s, c, lost)
             t == list
             len == Len(t)
             Turn(v, x) == BnPutBack(v, c, x)
             F == [q \in (1 .. len) \X V |-> Turn(q[2], t[q[1]])]
             iter == CHOOSE g : g = [u \in SUBSET DOMAIN t |->
                        IF u = {} THEN from ELSE Turn(g[u \ {Max(u)}], t[Max(u)])]
  <1>0. len \in Nat /\ DOMAIN t = 1 .. len /\ \A k \in 1 .. len : t[k] \in BnBan
    OBVIOUS
  <1>1. BnAllBack(from, c, list) = iter[DOMAIN t]
    BY DEF BnAllBack, FoldLeft, MapThenFoldSet
  <1>2. \A v \in V : \A x \in BnBan : Turn(v, x) \in V
    BY BnPutBackTidy, BnNearer DEF BnNear
  <1>4. from \in V
    OBVIOUS
  <1> HIDE DEF V, Turn, t
  <1>3. F \in [(1 .. len) \X V -> V] /\ \A k \in 1 .. len, v \in V : F[k, v] = Turn(v, t[k])
    <2>2. \A q \in (1 .. len) \X V : Turn(q[2], t[q[1]]) \in V
      BY <1>0, <1>2
    <2>3. \A k \in 1 .. len, v \in V : <<k, v>> \in (1 .. len) \X V /\ <<k, v>>[1] = k /\ <<k, v>>[2] = v
      OBVIOUS
    <2> QED BY <2>2, <2>3
  <1> HIDE DEF F
  <1>5. PICK g \in [SUBSET (1 .. len) -> V] : FoldOf(g, len, from, F)
    <2>1. FoldFor(len, V, from, F)
      BY <1>0, <1>3, <1>4, FoldExists
    <2> QED BY <2>1 DEF FoldFor
  <1>6. g = [u \in SUBSET DOMAIN t |-> IF u = {} THEN from ELSE Turn(g[u \ {Max(u)}], t[Max(u)])]
    <2>1. ASSUME NEW u \in SUBSET (1 .. len)
          PROVE  g[u] = IF u = {} THEN from ELSE Turn(g[u \ {Max(u)}], t[Max(u)])
      <3>1. g[u] = IF u = {} THEN from ELSE F[Max(u), g[u \ {Max(u)}]]
        BY <1>5 DEF FoldOf
      <3>2. u # {} => Max(u) \in 1 .. len
        BY <1>0, MaxIs
      <3>3. g[u \ {Max(u)}] \in V
        BY <1>5
      <3> QED BY <1>3, <3>1, <3>2, <3>3
    <2> QED BY <1>0, <2>1
  <1>7. iter = [u \in SUBSET DOMAIN t |-> IF u = {} THEN from ELSE Turn(iter[u \ {Max(u)}], t[Max(u)])]
    BY <1>6
  <1> HIDE DEF iter
  <1>8. iter[{}] = from
    BY <1>7
  <1>9. ASSUME NEW k \in 1 .. len, iter[1 .. k - 1] \in V
        PROVE  iter[1 .. k] \in V
    <2>1. 1 .. k \in SUBSET DOMAIN t /\ 1 .. k # {} /\ Max(1 .. k) = k /\ (1 .. k) \ {Max(1 .. k)} = 1 .. k - 1
      BY <1>0, MaxOfRange
    <2>2. iter[1 .. k] = Turn(iter[1 .. k - 1], t[k])
      BY <1>7, <2>1
    <2>3. t[k] \in BnBan
      BY <1>0
    <2> QED BY <1>2, <1>9, <2>2, <2>3
  <1>10. iter[1 .. len] \in V
    BY <1>0, <1>4, <1>8, <1>9, FoldStays
  <1> QED BY <1>0, <1>1, <1>10 DEF V

LEMMA BnCleanupTidy ==
    ASSUME NEW lost, NEW c \in BnChans, NEW s \in BnTidy(lost)
    PROVE  BnCleanup(s, c) \in BnNear(s, c, lost)
  <1> DEFINE list == s.redirects[c]
             off == BnAllOff(s, c, list)
             back == BnAllBack(off, c, list)
             last == IF BnOverfull(s, c) THEN s ELSE back
  <1>1. s \in BnNear(s, c, lost) /\ list \in Seq(BnBan)
    BY DEF BnNear, BnTidy, BnRecord
  <1>2. off \in BnNear(s, c, lost)
    BY <1>1, BnAllOffTidy
  <1>3. back \in BnNear(s, c, lost)
    BY <1>1, <1>2, BnAllBackTidy
  <1>4. BnCleanup(s, c) = [last EXCEPT !.redirects[c] = <<>>]
    BY DEF BnCleanup
  <1>5. last \in BnNear(s, c, lost)
    BY <1>1, <1>3
  <1> HIDE DEF last
  <1> DEFINE x == [last EXCEPT !.redirects[c] = <<>>]
             B == last.bans[c]
             X == [last.bans EXCEPT ![c] = B]
             Y == [last.redirects EXCEPT ![c] = <<>>]
  <1>6. last \in BnRecord /\ BnWaits(last.bans, last.timed, lost)
    BY <1>5 DEF BnNear, BnTidy
  <1>7. B \in SUBSET BnBan /\ X = last.bans /\ last.timed \in Seq(BnEntry)
    BY <1>6 DEF BnRecord
  <1>81. x = [last EXCEPT !.redirects = Y]
    BY <1>6 DEF BnRecord
  <1> HIDE DEF x, X, Y, B
  <1>8. x = [bans |-> X, redirects |-> Y, timed |-> last.timed]
    BY <1>6, <1>7, <1>81 DEF BnRecord
  <1>9. <<>> \in Seq(BnBan)
    OBVIOUS
  <1>10. x \in BnNear(last, c, lost)
    BY <1>6, <1>7, <1>8, <1>9, BnChanged DEF X, Y
  <1> QED BY <1>4, <1>5, <1>10, BnNearer DEF x

\* ... and for all of them
LEMMA BnChansListed ==
    SetToSeq(BnChans) \in Seq(BnChans)
  BY BansOK, SetListed

BnCleanOne(a, c) == IF a.redirects[c] = <<>> THEN a ELSE BnCleanup(a, c)
LEMMA BnCleanupAllTidy ==
    ASSUME NEW lost, NEW s \in BnTidy(lost)
    PROVE  BnCleanupAll(s) \in BnTidy(lost)
  <1> DEFINE V == BnTidy(lost)
             t == SetToSeq(BnChans)
             len == Len(t)
             Turn(v, x) == BnCleanOne(v, x)
             F == [q \in (1 .. len) \X V |-> Turn(q[2], t[q[1]])]
             iter == CHOOSE g : g = [u \in SUBSET DOMAIN t |->
                        IF u = {} THEN s ELSE Turn(g[u \ {Max(u)}], t[Max(u)])]
  <1>0. len \in Nat /\ DOMAIN t = 1 .. len /\ \A k \in 1 .. len : t[k] \in BnChans
    BY BnChansListed
  <1>1. BnCleanupAll(s) = iter[DOMAIN t]
    BY DEF BnCleanupAll, BnCleanOne, FoldLeft, MapThenFoldSet
  <1>2. \A v \in V : \A x \in BnChans : Turn(v, x) \in V
    BY BnCleanupTidy DEF BnNear, BnCleanOne
  <1>4. s \in V
    OBVIOUS
  <1> HIDE DEF V, Turn, t
  <1>3. F \in [(1 .. len) \X V -> V] /\ \A k \in 1 .. len, v \in V : F[k, v] = Turn(v, t[k])
    <2>2. \A q \in (1 .. len) \X V : Turn(q[2], t[q[1]]) \in V
      BY <1>0, <1>2
    <2>3. \A k \in 1 .. len, v \in V : <<k, v>> \in (1 .. len) \X V /\ <<k, v>>[1] = k /\ <<k, v>>[2] = v
      OBVIOUS
    <2> QED BY <2>2, <2>3
  <1> HIDE DEF F
  <1>5. PICK g \in [SUBSET (1 .. len) -> V] : FoldOf(g, len, s, F)
    <2>1. FoldFor(len, V, s, F)
      BY <1>0, <1>3, <1>4, FoldExists
    <2> QED BY <2>1 DEF FoldFor
  <1>6. g = [u \in SUBSET DOMAIN t |-> IF u = {} THEN s ELSE Turn(g[u \ {Max(u)}], t[Max(u)])]
    <2>1. ASSUME NEW u \in SUBSET (1 .. len)
          PROVE  g[u] = IF u = {} THEN s ELSE Turn(g[u \ {Max(u)}], t[Max(u)])
      <3>1. g[u] = IF u = {} THEN s ELSE F[Max(u), g[u \ {Max(u)}]]
        BY <1>5 DEF FoldOf
      <3>2. u # {} => Max(u) \in 1 .. len
        BY <1>0, MaxIs
      <3>3. g[u \ {Max(u)}] \in V
        BY <1>5
      <3> QED BY <1>3, <3>1, <3>2, <3>3
    <2> QED BY <1>0, <2>1
  <1>7. iter = [u \in SUBSET DOMAIN t |-> IF u = {} THEN s ELSE Turn(iter[u \ {Max(u)}], t[Max(u)])]
    BY <1>6
  <1> HIDE DEF iter
  <1>8. iter[{}] = s
    BY <1>7
  <1>9. ASSUME NEW k \in 1 .. len, iter[1 .. k - 1] \in V
        PROVE  iter[1 .. k] \in V
    <2>1. 1 .. k \in SUBSET DOMAIN t /\ 1 .. k # {} /\ Max(1 .. k) = k /\ (1 .. k) \ {Max(1 .. k)} = 1 .. k - 1
      BY <1>0, MaxOfRange
    <2>2. iter[1 .. k] = Turn(iter[1 .. k - 1], t[k])
      BY <1>7, <2>1
    <2>3. t[k] \in BnChans
      BY <1>0
    <2> QED BY <1>2, <1>9, <2>2, <2>3
  <1>10. iter[1 .. len] \in V
    BY <1>0, <1>4, <1>8, <1>9, FoldStays
  <1> QED BY <1>0, <1>1, <1>10 DEF V

-----------------------------------------------------------------------------
(* The sweep *)

BnGood(lost) == {s \in BnTidy(lost) : bn_module => BnSent(s)}

LEMMA BnSweepOneGood ==
    ASSUME NEW lost, NEW s \in BnGood(lost)
    PROVE  BnSweepOne(s) \in BnGood(lost)
  <1> DEFINE due == {i \in DOMAIN s.timed : s.timed[i].left = 0}
             at == CHOOSE i \in due : \A j \in due : i <= j
             t == s.timed[at]
             gone == [s EXCEPT !.timed = RemoveAt(@, at)]
  <1>0. s \in BnTidy(lost) /\ s \in BnRecord /\ BnWaits(s.bans, s.timed, lost) /\ (bn_module => BnSent(s))
    BY DEF BnGood, BnTidy
  <1>1. s.timed \in Seq(BnEntry)
    BY <1>0 DEF BnRecord
  <1>2. BnSweepOne(s) = IF due = {} THEN s ELSE IF bn_on[t.chan] = {} THEN gone ELSE BnDelBan(s, t.chan, t.ban)
    BY DEF BnSweepOne
  <1>3. CASE due = {}
    BY <1>2, <1>3
  <1>4. CASE due # {}
    <2>1. at \in due
      <3>1. due \in SUBSET Nat
        BY <1>1
      <3> HIDE DEF due
      <3> QED BY <1>4, <3>1, Least
    <2>2. at \in DOMAIN s.timed
      BY <2>1
    <2> HIDE DEF at, due
    <2>3. t \in BnEntry
      BY <1>1, <2>2
    <2>4. t.chan \in BnChans /\ t.ban \in BnBan
      BY <2>3 DEF BnEntry
    <2>5. BnDelBan(s, t.chan, t.ban) \in BnGood(lost)
      <3>1. BnDelBan(s, t.chan, t.ban) \in BnTidy(lost)
        BY <1>0, <2>4, BnDelBanTidy DEF BnNear
      <3>2. bn_module => BnSent(BnDelBan(s, t.chan, t.ban))
        BY <1>0, <2>4, BnDelBanSent
      <3> QED BY <3>1, <3>2 DEF BnGood
    <2>6. gone \in BnGood(lost)
      <3> DEFINE less == RemoveAt(s.timed, at)
      <3>1. less \in Seq(BnEntry) /\ BnFewer(less, s.timed, at)
        BY <1>1, <2>2, BnOneLess
      <3>2. BnWaits(s.bans, less, lost)
        BY <1>0, <3>1, BnFewerWait
      <3>3. gone = [s EXCEPT !.timed = less]
        BY <1>0 DEF BnRecord
      <3> HIDE DEF less, gone
      <3>4. gone \in BnRecord /\ gone.bans = s.bans /\ gone.redirects = s.redirects /\ gone.timed = less
        BY <1>0, <3>1, <3>3 DEF BnRecord
      <3>5. gone \in BnTidy(lost)
        BY <3>2, <3>4 DEF BnTidy
      <3>6. bn_module => BnSent(gone)
        BY <1>0, <3>4 DEF BnSent
      <3> QED BY <3>5, <3>6 DEF BnGood
    <2> QED BY <1>2, <2>5, <2>6
  <1> QED BY <1>3, <1>4

LEMMA BnSweepGood ==
    ASSUME NEW lost, NEW s \in BnGood(lost)
    PROVE  BnSweep(s) \in BnGood(lost)
  <1> DEFINE V == BnGood(lost)
             t == s.timed
             len == Len(t)
             Turn(v, x) == BnSweepOne(v)
             F == [q \in (1 .. len) \X V |-> Turn(q[2], t[q[1]])]
             iter == CHOOSE g : g = [u \in SUBSET DOMAIN t |->
                        IF u = {} THEN s ELSE Turn(g[u \ {Max(u)}], t[Max(u)])]
  <1>0. len \in Nat /\ DOMAIN t = 1 .. len /\ \A k \in 1 .. len : t[k] \in BnEntry
    BY DEF BnGood, BnTidy, BnRecord
  <1>1. BnSweep(s) = iter[DOMAIN t]
    BY DEF BnSweep, FoldLeft, MapThenFoldSet
  <1>2. \A v \in V : \A x \in BnEntry : Turn(v, x) \in V
    BY BnSweepOneGood
  <1>4. s \in V
    OBVIOUS
  <1> HIDE DEF V, Turn, t
  <1>3. F \in [(1 .. len) \X V -> V] /\ \A k \in 1 .. len, v \in V : F[k, v] = Turn(v, t[k])
    <2>2. \A q \in (1 .. len) \X V : Turn(q[2], t[q[1]]) \in V
      BY <1>0, <1>2
    <2>3. \A k \in 1 .. len, v \in V : <<k, v>> \in (1 .. len) \X V /\ <<k, v>>[1] = k /\ <<k, v>>[2] = v
      OBVIOUS
    <2> QED BY <2>2, <2>3
  <1> HIDE DEF F
  <1>5. PICK g \in [SUBSET (1 .. len) -> V] : FoldOf(g, len, s, F)
    <2>1. FoldFor(len, V, s, F)
      BY <1>0, <1>3, <1>4, FoldExists
    <2> QED BY <2>1 DEF FoldFor
  <1>6. g = [u \in SUBSET DOMAIN t |-> IF u = {} THEN s ELSE Turn(g[u \ {Max(u)}], t[Max(u)])]
    <2>1. ASSUME NEW u \in SUBSET (1 .. len)
          PROVE  g[u] = IF u = {} THEN s ELSE Turn(g[u \ {Max(u)}], t[Max(u)])
      <3>1. g[u] = IF u = {} THEN s ELSE F[Max(u), g[u \ {Max(u)}]]
        BY <1>5 DEF FoldOf
      <3>2. u # {} => Max(u) \in 1 .. len
        BY <1>0, MaxIs
      <3>3. g[u \ {Max(u)}] \in V
        BY <1>5
      <3> QED BY <1>3, <3>1, <3>2, <3>3
    <2> QED BY <1>0, <2>1
  <1>7. iter = [u \in SUBSET DOMAIN t |-> IF u = {} THEN s ELSE Turn(iter[u \ {Max(u)}], t[Max(u)])]
    BY <1>6
  <1> HIDE DEF iter
  <1>8. iter[{}] = s
    BY <1>7
  <1>9. ASSUME NEW k \in 1 .. len, iter[1 .. k - 1] \in V
        PROVE  iter[1 .. k] \in V
    <2>1. 1 .. k \in SUBSET DOMAIN t /\ 1 .. k # {} /\ Max(1 .. k) = k /\ (1 .. k) \ {Max(1 .. k)} = 1 .. k - 1
      BY <1>0, MaxOfRange
    <2>2. iter[1 .. k] = Turn(iter[1 .. k - 1], t[k])
      BY <1>7, <2>1
    <2>3. t[k] \in BnEntry
      BY <1>0
    <2> QED BY <1>2, <1>9, <2>2, <2>3
  <1>10. iter[1 .. len] \in V
    BY <1>0, <1>4, <1>8, <1>9, FoldStays
  <1> QED BY <1>0, <1>1, <1>10 DEF V

-----------------------------------------------------------------------------
(* What every step keeps *)

BnSettings == [i : BOOLEAN, l : BOOLEAN, L : BnChans \cup {""}]
BnKept ==
    /\ BnLists \in BnTidy(bn_lost) /\ (bn_module => BnSent(BnLists))
    /\ bn_set \in [BnChans -> BnSettings]
    /\ bn_invited \in [BnUsers \X BnChans -> Nat] /\ bn_given \in [BnUsers \X BnChans -> Nat]
    /\ BnInvitedOnce /\ BnBannedStaysOut

LEMMA BnStored ==
    ASSUME NEW s \in BnRecord, BnStore(s)
    PROVE  BnLists' = s
  BY DEF BnStore, BnLists, BnRecord

LEMMA BnNobodyIn ==
    ASSUME bn_in' = BnNobody
    PROVE  BnBannedStaysOut'
  BY DEF BnBannedStaysOut, BnNobody

\* A step of the lists
LEMMA BnListsStep ==
    ASSUME BnKept, bn_in' = BnNobody, UNCHANGED <<bn_set, bn_invited, bn_given>>,
           NEW s \in BnTidy(bn_lost'), bn_module' => BnSent(s), BnStore(s)
    PROVE  BnKept'
  <1>1. s \in BnRecord
    BY DEF BnTidy
  <1>2. BnLists' = s
    BY <1>1, BnStored
  <1>3. BnLists' \in BnTidy(bn_lost') /\ (bn_module' => BnSent(BnLists'))
    BY <1>2
  <1>4. BnInvitedOnce' /\ BnBannedStaysOut'
    BY BnNobodyIn DEF BnKept, BnInvitedOnce
  <1> QED BY <1>3, <1>4 DEF BnKept

\* ... and of everything else
LEMMA BnOtherStep ==
    ASSUME BnKept, UNCHANGED <<bn_bans, bn_redirects, bn_timed, bn_module, bn_lost>>,
           bn_set' \in [BnChans -> BnSettings],
           bn_invited' \in [BnUsers \X BnChans -> Nat], bn_given' \in [BnUsers \X BnChans -> Nat],
           BnInvitedOnce', BnBannedStaysOut'
    PROVE  BnKept'
  <1>1. BnLists' = BnLists
    BY DEF BnLists
  <1>2. BnLists' \in BnTidy(bn_lost') /\ (bn_module' => BnSent(BnLists'))
    BY <1>1 DEF BnKept
  <1> QED BY <1>2 DEF BnKept

LEMMA BnKeptAtFirst ==
    BansInit => BnKept
  <1> SUFFICES ASSUME BansInit PROVE BnKept
    OBVIOUS
  <1> DEFINE X == [c \in BnChans |-> {}]
             Y == [c \in BnChans |-> <<>>]
  <1>1. X \in [BnChans -> SUBSET BnBan] /\ Y \in [BnChans -> Seq(BnBan)] /\ <<>> \in Seq(BnEntry)
    OBVIOUS
  <1>2. \A c \in BnChans : X[c] = {}
    OBVIOUS
  <1>3. BnLists = [bans |-> X, redirects |-> Y, timed |-> <<>>]
    BY DEF BansInit, BnLists
  <1>4. \A c \in BnChans : Y[c] = <<>>
    OBVIOUS
  <1>5. bn_set \in [BnChans -> BnSettings]
    BY DEF BansInit, BnUnset, BnSettings
  <1>6. bn_invited \in [BnUsers \X BnChans -> Nat] /\ bn_given \in [BnUsers \X BnChans -> Nat] /\ BnInvitedOnce
    BY DEF BansInit, BnInvitedOnce
  <1>7. BnBannedStaysOut
    BY DEF BansInit, BnBannedStaysOut, BnNobody
  <1> HIDE DEF X, Y
  <1>8. BnLists \in BnRecord /\ BnLists.bans = X /\ BnLists.redirects = Y /\ BnLists.timed = <<>>
    BY <1>1, <1>3 DEF BnRecord
  <1>9. BnLists \in BnTidy(bn_lost)
    BY <1>8 DEF BnTidy, BnWaits
  <1>10. BnRange(<<>>) = {}
    BY DEF BnRange
  <1>11. BnSent(BnLists)
    BY <1>2, <1>4, <1>8, <1>10 DEF BnSent, BnSentOn
  <1> QED BY <1>5, <1>6, <1>7, <1>9, <1>11 DEF BnKept

\* What JoinUser and the two modules before it find for a client that gets in
BnGetsIn(u, w) ==
    /\ w.to \in BnChans /\ u \notin bn_on[w.to]
    /\ w.spends = (IF bn_on[w.to] # {} /\ bn_set[w.to].i THEN w.to ELSE "")
    /\ BnOnList(u, bn_list[w.to].e) \/ \A b \in bn_bans[w.to] : BnHit(u, b) => b.to # ""
    /\ w.by = "ban" \/ BnLeads(u, w.to) = ""

LEMMA BnChecked ==
    ASSUME NEW u, NEW d \in BnChans, NEW by, BnChecks(u, d, by).to # "", by = "ban" \/ BnLeads(u, d) = ""
    PROVE  BnGetsIn(u, BnChecks(u, d, by))
  <1> DEFINE invited == BnOnList(u, bn_list[d].I) \/ bn_invited[u, d] > 0
             banned == ~BnOnList(u, bn_list[d].e) /\ \E b \in bn_bans[d] : b.to = "" /\ BnHit(u, b)
             out == u \in bn_on[d] \/ (bn_on[d] # {} /\ bn_set[d].i /\ ~invited)
             spends == IF bn_on[d] # {} /\ bn_set[d].i THEN d ELSE ""
             x == [to |-> IF BnFull(d) \/ banned THEN "" ELSE d, by |-> by, spends |-> spends]
  <1>1. (out => BnChecks(u, d, by) = BnStays) /\ (~out => BnChecks(u, d, by) = x)
    BY DEF BnChecks, BnOnList, BnFull, BnHit
  <1>2. BnStays.to = ""
    BY DEF BnStays
  <1>3. ~out
    BY <1>1, <1>2
  <1>4. BnChecks(u, d, by) = x
    BY <1>1, <1>3
  <1> HIDE DEF out, spends
  <1>5. x.to = (IF BnFull(d) \/ banned THEN "" ELSE d) /\ x.by = by /\ x.spends = spends
    OBVIOUS
  <1>6. ~banned /\ x.to = d
    BY <1>4, <1>5 DEF BnFull, BnOnList, BnHit
  <1> HIDE DEF x
  <1>7. u \notin bn_on[d]
    BY <1>3 DEF out
  <1>8. BnOnList(u, bn_list[d].e) \/ \A b \in bn_bans[d] : BnHit(u, b) => b.to # ""
    BY <1>6 DEF BnOnList, BnHit
  <1>9. BnGetsIn(u, x)
    BY <1>5, <1>6, <1>7, <1>8 DEF BnGetsIn, BnOnList, BnHit, spends
  <1> QED BY <1>4, <1>9

LEMMA BnLeadsTo ==
    ASSUME BnKept, NEW u, NEW c \in BnChans
    PROVE  BnLeads(u, c) \in BnChans \cup {""}
  <1> DEFINE at == {i \in DOMAIN bn_redirects[c] : BnHit(u, bn_redirects[c][i])}
             k == CHOOSE i \in at : \A j \in at : i <= j
  <1>1. bn_redirects[c] \in Seq(BnBan)
    BY DEF BnKept, BnTidy, BnRecord, BnLists
  <1>2. CASE at # {}
    <2>1. at \in SUBSET Nat
      BY <1>1
    <2>2. k \in at
      <3> HIDE DEF at
      <3> QED BY <1>2, <2>1, Least
    <2>3. k \in DOMAIN bn_redirects[c]
      BY <2>2
    <2> HIDE DEF k
    <2>4. bn_redirects[c][k] \in BnBan
      BY <1>1, <2>3
    <2> QED BY <2>4 DEF BnLeads, BnBan, k
  <1>3. CASE at = {}
    BY <1>3 DEF BnLeads
  <1> QED BY <1>2, <1>3

LEMMA BnByBanIs ==
    ASSUME BnKept, NEW u, NEW c \in BnChans, NEW by, BnByBan(u, c, by).to # ""
    PROVE  BnGetsIn(u, BnByBan(u, c, by))
  <1>1. CASE BnLeads(u, c) = ""
    <2>1. BnByBan(u, c, by) = BnChecks(u, c, by)
      BY <1>1 DEF BnByBan
    <2> QED BY <1>1, <2>1, BnChecked
  <1>2. CASE BnLeads(u, c) # ""
    <2> DEFINE to == BnLeads(u, c)
    <2>1. to \in BnChans
      BY <1>2, BnLeadsTo
    <2>2. BnByBan(u, c, by) = BnChecks(u, to, "ban")
      BY <1>2 DEF BnByBan, BnStays
    <2> HIDE DEF to
    <2> QED BY <2>1, <2>2, BnChecked
  <1> QED BY <1>1, <1>2

LEMMA BnWay ==
    ASSUME BnKept, NEW u, NEW c \in BnChans, BnByLink(u, c).to # ""
    PROVE  BnGetsIn(u, BnByLink(u, c))
  <1> DEFINE to == bn_set[c].L
  <1>1. to \in BnChans \cup {""}
    <2>1. bn_set[c] \in BnSettings
      BY DEF BnKept
    <2> QED BY <2>1 DEF BnSettings
  <1>2. CASE BnLeads(u, c) # "" \/ to = "" \/ ~BnFull(c) \/ u \in bn_on[c]
    <2>1. BnByLink(u, c) = BnByBan(u, c, "")
      BY <1>2 DEF BnByLink
    <2> QED BY <2>1, BnByBanIs
  <1>3. CASE ~(BnLeads(u, c) # "" \/ to = "" \/ ~BnFull(c) \/ u \in bn_on[c])
    <2>1. BnByLink(u, c) = BnByBan(u, to, "link")
      BY <1>3 DEF BnByLink, BnStays
    <2>2. to \in BnChans
      BY <1>1, <1>3
    <2> HIDE DEF to
    <2> QED BY <2>1, <2>2, BnByBanIs
  <1> QED BY <1>2, <1>3

LEMMA BnPlaces ==
    ASSUME NEW list \in Seq(BnBan)
    PROVE  DOMAIN list \subseteq Nat
  OBVIOUS

\* A redirect of the ban would have led away.
LEMMA BnLedAway ==
    ASSUME BnKept, bn_module, NEW u, NEW d \in BnChans, NEW b \in bn_bans[d], BnHit(u, b), b.to # "",
           ~BnOnList(u, bn_list[d].e), u \notin bn_on[d]
    PROVE  BnLeads(u, d) # ""
  <1> DEFINE list == bn_redirects[d]
             at == {i \in DOMAIN list : BnHit(u, list[i])}
             k == CHOOSE i \in at : \A j \in at : i <= j
  <1>1. BnSentOn(bn_bans[d], list, d) /\ list \in Seq(BnBan)
    BY DEF BnKept, BnTidy, BnRecord, BnLists, BnSent
  <1>2. b \in BnRange(list)
    BY <1>1 DEF BnSentOn
  <1>8. at \in SUBSET Nat
    <2>1. list \in Seq(BnBan)
      BY <1>1
    <2>2. DOMAIN list \subseteq Nat
      BY <2>1, BnPlaces, Zenon
    <2>3. at \subseteq DOMAIN list
      BY Zenon
    <2> QED BY <2>2, <2>3, Zenon
  <1>3. at # {} /\ at \in SUBSET Nat
    <2>1. PICK i \in DOMAIN list : list[i] = b
      BY <1>2 DEF BnRange
    <2>2. i \in at
      BY <2>1
    <2> QED BY <1>8, <2>2
  <1>4. k \in at
    <2> HIDE DEF at
    <2> QED BY <1>3, Least
  <1>5. list[k] \in BnRange(list)
    BY <1>4 DEF BnRange
  <1>6. list[k].to # ""
    BY <1>1, <1>5 DEF BnSentOn
  <1>7. BnLeads(u, d) = list[k].to
    BY <1>3 DEF BnLeads
  <1> QED BY <1>6, <1>7

LEMMA BnJoinKeeps ==
    ASSUME BnKept, NEW u \in BnUsers, NEW c \in BnChans, BnJoin(u, c)
    PROVE  BnKept'
  <1> DEFINE w == BnByLink(u, c)
             P == BnUsers \X BnChans
             paid(p) == /\ w.to # "" /\ p = <<u, w.to>> /\ bn_on[w.to] # {} /\ bn_set[w.to].i
                        /\ ~BnOnList(u, bn_list[w.to].I) /\ bn_given[p] > 0
             hits == IF BnOnList(u, bn_list[w.to].e) THEN {} ELSE {b \in bn_bans[w.to] : BnHit(u, b)}
  <1>1. /\ bn_invited \in [P -> Nat] /\ bn_given \in [P -> Nat]
        /\ \A p \in P : bn_invited[p] <= bn_given[p]
    BY DEF BnKept, BnInvitedOnce
  <1>2. /\ bn_invited' = [p \in P |->
              IF p = <<u, w.spends>> /\ bn_invited[p] > 0 THEN bn_invited[p] - 1 ELSE bn_invited[p]]
        /\ bn_given' = [p \in P |-> IF paid(p) THEN bn_given[p] - 1 ELSE bn_given[p]]
    BY <1>1 DEF BnJoin
  <1>3. /\ bn_in' = (IF w.to = "" \/ bn_on[w.to] = {} THEN BnNobody
                     ELSE [user |-> u, chan |-> w.to, by |-> w.by, bans |-> hits])
        /\ UNCHANGED <<bn_bans, bn_redirects, bn_timed, bn_set, bn_module, bn_lost>>
    BY DEF BnJoin
  <1>4. w.to # "" => BnGetsIn(u, w)
    BY BnWay
  <1> HIDE DEF w, P, paid
  <1>5. bn_invited' \in [P -> Nat] /\ bn_given' \in [P -> Nat]
    <2>1. \A p \in P : bn_invited[p] \in Nat /\ bn_given[p] \in Nat
      BY <1>1
    <2>2. \A p \in P : bn_invited'[p] \in Nat /\ bn_given'[p] \in Nat
      <3> SUFFICES ASSUME NEW p \in P PROVE bn_invited'[p] \in Nat /\ bn_given'[p] \in Nat
        OBVIOUS
      <3>1. bn_invited[p] \in Nat /\ bn_given[p] \in Nat
        BY <2>1
      <3>2. bn_invited'[p] = bn_invited[p] \/ (bn_invited[p] > 0 /\ bn_invited'[p] = bn_invited[p] - 1)
        BY <1>2
      <3>3. bn_given'[p] = bn_given[p] \/ (bn_given[p] > 0 /\ bn_given'[p] = bn_given[p] - 1)
        BY <1>2 DEF paid
      <3> QED BY <3>1, <3>2, <3>3
    <2> QED BY <1>2, <2>2
  <1>6. BnInvitedOnce'
    <2> SUFFICES ASSUME NEW p \in P PROVE bn_invited'[p] <= bn_given'[p]
      BY <1>5 DEF BnInvitedOnce
    <2>1. bn_invited[p] \in Nat /\ bn_given[p] \in Nat /\ bn_invited[p] <= bn_given[p]
      BY <1>1
    <2>2. CASE paid(p)
      <3>1. p = <<u, w.spends>>
        BY <1>4, <2>2 DEF BnGetsIn, paid
      <3>2. bn_given'[p] = bn_given[p] - 1 /\ bn_given[p] > 0
        BY <1>2, <2>2 DEF paid
      <3>3. bn_invited'[p] = IF bn_invited[p] > 0 THEN bn_invited[p] - 1 ELSE bn_invited[p]
        BY <1>2, <3>1
      <3> QED BY <2>1, <3>2, <3>3
    <2>3. CASE ~paid(p)
      <3>1. bn_given'[p] = bn_given[p]
        BY <1>2, <2>3
      <3>2. bn_invited'[p] <= bn_invited[p]
        BY <1>2, <2>1
      <3> QED BY <2>1, <3>1, <3>2, <1>5
    <2> QED BY <2>2, <2>3
  <1>7. BnBannedStaysOut'
    <2>1. CASE w.to = "" \/ bn_on[w.to] = {}
      BY <1>3, <2>1, BnNobodyIn
    <2>2. CASE ~(w.to = "" \/ bn_on[w.to] = {})
      <3>1. bn_in'.bans = hits /\ bn_in'.by = w.by
        BY <1>3, <2>2
      <3>2. BnGetsIn(u, w)
        BY <1>4, <2>2
      <3>3. ASSUME bn_module, NEW b \in hits PROVE w.by = "ban" /\ b.to # ""
        <4>1. ~BnOnList(u, bn_list[w.to].e) /\ b \in bn_bans[w.to] /\ BnHit(u, b)
          BY <3>3
        <4>2. b.to # ""
          BY <3>2, <4>1 DEF BnGetsIn
        <4>3. BnLeads(u, w.to) # ""
          BY <3>2, <3>3, <4>1, <4>2, BnLedAway DEF BnGetsIn
        <4> QED BY <3>2, <4>2, <4>3 DEF BnGetsIn
      <3> QED BY <1>3, <3>1, <3>3 DEF BnBannedStaysOut
    <2> QED BY <2>1, <2>2
  <1>8. bn_set' \in [BnChans -> BnSettings]
    BY <1>3 DEF BnKept
  <1> QED BY <1>3, <1>5, <1>6, <1>7, <1>8, BnOtherStep DEF P

\* The last member leaves: the lists are emptied, and entries that stay are off from now on.
LEMMA BnEmptied ==
    ASSUME NEW lost, NEW s \in BnTidy(lost), NEW c \in BnChans, NEW more,
           more = IF \E i \in DOMAIN s.timed : s.timed[i].chan = c THEN lost \cup {c} ELSE lost
    PROVE  /\ [s EXCEPT !.bans[c] = {}, !.redirects[c] = <<>>] \in BnTidy(more)
           /\ BnSent(s) => BnSent([s EXCEPT !.bans[c] = {}, !.redirects[c] = <<>>])
  <1> DEFINE X == [s.bans EXCEPT ![c] = {}]
             Y == [s.redirects EXCEPT ![c] = <<>>]
             x == [s EXCEPT !.bans[c] = {}, !.redirects[c] = <<>>]
  <1>1. s \in BnRecord /\ BnWaits(s.bans, s.timed, lost)
    BY DEF BnTidy
  <1>2. s.bans \in [BnChans -> SUBSET BnBan] /\ s.redirects \in [BnChans -> Seq(BnBan)] /\ s.timed \in Seq(BnEntry)
    BY <1>1 DEF BnRecord
  <1>3. X \in [BnChans -> SUBSET BnBan] /\ Y \in [BnChans -> Seq(BnBan)]
    BY <1>2
  <1>4. X[c] = {} /\ Y[c] = <<>> /\ \A d \in BnChans \ {c} : X[d] = s.bans[d] /\ Y[d] = s.redirects[d]
    BY <1>2
  <1>5. x = [s EXCEPT !.bans = X, !.redirects = Y]
    BY <1>1 DEF BnRecord
  <1> HIDE DEF X, Y, x
  <1>6. x = [bans |-> X, redirects |-> Y, timed |-> s.timed]
    BY <1>1, <1>5 DEF BnRecord
  <1>7. x \in BnRecord /\ x.bans = X /\ x.redirects = Y /\ x.timed = s.timed
    BY <1>2, <1>3, <1>6 DEF BnRecord
  <1>8. BnWaits(X, s.timed, more)
    <2> SUFFICES ASSUME NEW i \in DOMAIN s.timed, s.timed[i].chan \notin more
                 PROVE  /\ s.timed[i].ban \in X[s.timed[i].chan]
                        /\ \A j \in DOMAIN s.timed :
                             s.timed[j].chan = s.timed[i].chan /\ s.timed[j].ban = s.timed[i].ban => j = i
      BY DEF BnWaits
    <2>1. s.timed[i] \in BnEntry
      BY <1>2
    <2>2. s.timed[i].chan # c /\ s.timed[i].chan \notin lost /\ s.timed[i].chan \in BnChans
      BY <2>1 DEF BnEntry
    <2> QED BY <1>1, <1>4, <2>2 DEF BnWaits
  <1>9. x \in BnTidy(more)
    BY <1>7, <1>8 DEF BnTidy
  <1>10. BnRange(<<>>) = {}
    BY DEF BnRange
  <1>11. ASSUME BnSent(s) PROVE BnSent(x)
    <2> SUFFICES ASSUME NEW d \in BnChans PROVE BnSentOn(X[d], Y[d], d)
      BY <1>7 DEF BnSent
    <2>1. CASE d = c
      BY <1>4, <1>10, <2>1 DEF BnSentOn
    <2>2. CASE d # c
      BY <1>4, <1>11, <2>2 DEF BnSent
    <2> QED BY <2>1, <2>2
  <1> QED BY <1>9, <1>11 DEF x

LEMMA BnPartKeeps ==
    ASSUME BnKept, NEW u \in BnUsers, NEW c \in BnChans, BnPart(u, c)
    PROVE  BnKept'
  <1>1. CASE bn_on[c] # {u}
    <2>1. UNCHANGED <<bn_bans, bn_redirects, bn_timed, bn_module, bn_lost, bn_set, bn_invited, bn_given>>
      BY <1>1 DEF BnPart
    <2>2. BnBannedStaysOut'
      BY BnNobodyIn DEF BnPart
    <2>3. BnInvitedOnce'
      BY <2>1 DEF BnKept, BnInvitedOnce
    <2> QED BY <2>1, <2>2, <2>3, BnOtherStep DEF BnKept
  <1>2. CASE bn_on[c] = {u}
    <2> DEFINE s == IF bn_module /\ bn_redirects[c] # <<>> THEN BnCleanup(BnLists, c) ELSE BnLists
               x == [s EXCEPT !.bans[c] = {}, !.redirects[c] = <<>>]
    <2>1. /\ bn_in' = BnNobody /\ BnStore(x) /\ UNCHANGED <<bn_invited, bn_module, bn_given>>
          /\ bn_lost' = IF \E i \in DOMAIN s.timed : s.timed[i].chan = c THEN bn_lost \cup {c} ELSE bn_lost
          /\ bn_set' = [bn_set EXCEPT ![c] = BnUnset]
      BY <1>2 DEF BnPart
    <2>2. BnLists \in BnTidy(bn_lost) /\ BnLists \in BnNear(BnLists, c, bn_lost)
      BY DEF BnKept, BnNear
    <2>3. s \in BnNear(BnLists, c, bn_lost)
      BY <2>2, BnCleanupTidy
    <2>30. s \in BnTidy(bn_lost)
      BY <2>3 DEF BnNear
    <2> HIDE DEF s
    <2>4. x \in BnTidy(bn_lost')
      BY <2>1, <2>30, BnEmptied
    <2>5. ASSUME bn_module PROVE BnSent(x)
      <3> DEFINE X == [s.bans EXCEPT ![c] = {}]
                 Y == [s.redirects EXCEPT ![c] = <<>>]
      <3>1. s \in BnRecord
        BY <2>30 DEF BnTidy
      <3>2. X[c] = {} /\ Y[c] = <<>> /\ \A d \in BnChans \ {c} : X[d] = s.bans[d] /\ Y[d] = s.redirects[d]
        BY <3>1 DEF BnRecord
      <3>3. x = [s EXCEPT !.bans = X, !.redirects = Y]
        BY <3>1 DEF BnRecord
      <3> HIDE DEF X, Y
      <3>4. x.bans = X /\ x.redirects = Y
        BY <3>1, <3>3 DEF BnRecord
      <3> HIDE DEF x
      <3> SUFFICES ASSUME NEW d \in BnChans PROVE BnSentOn(X[d], Y[d], d)
        BY <3>4 DEF BnSent
      <3>5. BnRange(<<>>) = {}
        BY DEF BnRange
      <3>6. CASE d = c
        BY <3>2, <3>5, <3>6 DEF BnSentOn
      <3>7. CASE d # c
        <4>1. X[d] = BnLists.bans[d] /\ Y[d] = BnLists.redirects[d]
          BY <2>3, <3>2, <3>7 DEF BnNear
        <4> QED BY <2>5, <4>1 DEF BnKept, BnSent
      <3> QED BY <3>6, <3>7
    <2> HIDE DEF x
    <2>6. bn_set' \in [BnChans -> BnSettings]
      <3>1. BnUnset \in BnSettings
        BY DEF BnUnset, BnSettings
      <3> QED BY <2>1, <3>1 DEF BnKept
    <2>7. BnLists' = x
      BY <2>1, <2>4, BnStored DEF BnTidy
    <2>8. BnLists' \in BnTidy(bn_lost') /\ (bn_module' => BnSent(BnLists'))
      BY <2>1, <2>4, <2>5, <2>7
    <2>9. BnInvitedOnce' /\ BnBannedStaysOut'
      BY <2>1, BnNobodyIn DEF BnKept, BnInvitedOnce
    <2> QED BY <2>1, <2>6, <2>8, <2>9 DEF BnKept
  <1> QED BY <1>1, <1>2

\* TBAN: the new entry is the only one of its ban, which was not set before.
LEMMA BnEntryAdded ==
    ASSUME NEW lost, NEW old \in BnTidy(lost), NEW s \in BnTidy(lost), s.timed = old.timed,
           NEW c \in BnChans, NEW b \in BnBan, NEW d \in Nat, b \notin old.bans[c], b \in s.bans[c]
    PROVE  /\ [s EXCEPT !.timed = Append(@, [chan |-> c, ban |-> b, left |-> d])] \in BnTidy(lost)
           /\ BnSent(s) => BnSent([s EXCEPT !.timed = Append(@, [chan |-> c, ban |-> b, left |-> d])])
  <1> DEFINE e == [chan |-> c, ban |-> b, left |-> d]
             n == Len(s.timed)
             T == Append(s.timed, e)
             x == [s EXCEPT !.timed = Append(@, e)]
  <1>1. s \in BnRecord /\ BnWaits(s.bans, s.timed, lost) /\ BnWaits(old.bans, s.timed, lost)
    BY DEF BnTidy
  <1>2. s.timed \in Seq(BnEntry)
    BY <1>1 DEF BnRecord
  <1>3. e \in BnEntry /\ e.chan = c /\ e.ban = b
    BY DEF BnEntry
  <1> HIDE DEF e
  <1>4. T \in Seq(BnEntry) /\ n \in Nat /\ DOMAIN T = 1 .. n + 1 /\ DOMAIN s.timed = 1 .. n
    BY <1>2, <1>3
  <1>5. T[n + 1] = e /\ \A i \in 1 .. n : T[i] = s.timed[i]
    BY <1>2, <1>3
  <1>6. x = [s EXCEPT !.timed = T]
    BY <1>1 DEF BnRecord
  <1> HIDE DEF T, x, n
  <1>7. x \in BnRecord /\ x.bans = s.bans /\ x.redirects = s.redirects /\ x.timed = T
    BY <1>1, <1>4, <1>6 DEF BnRecord
  <1>8. \A i : i \in 1 .. n + 1 <=> i \in 1 .. n \/ i = n + 1
    BY <1>4
  <1>9. ASSUME NEW i \in 1 .. n, T[i].chan = c, T[i].ban = b PROVE c \in lost
    <2>1. i \in DOMAIN s.timed /\ s.timed[i].chan = c /\ s.timed[i].ban = b
      BY <1>4, <1>5, <1>9
    <2> QED BY <1>1, <2>1 DEF BnWaits
  <1>10. BnWaits(s.bans, T, lost)
    <2> SUFFICES ASSUME NEW i \in DOMAIN T, T[i].chan \notin lost
                 PROVE  /\ T[i].ban \in s.bans[T[i].chan]
                        /\ \A j \in DOMAIN T : T[j].chan = T[i].chan /\ T[j].ban = T[i].ban => j = i
      BY DEF BnWaits
    <2>1. CASE i = n + 1
      <3>1. T[i].chan = c /\ T[i].ban = b
        BY <1>3, <1>5, <2>1
      <3> QED BY <1>4, <1>8, <1>9, <2>1, <3>1
    <2>2. CASE i \in 1 .. n
      <3>1. T[i] = s.timed[i] /\ i \in DOMAIN s.timed
        BY <1>4, <1>5, <2>2
      <3>2. T[i].ban \in s.bans[T[i].chan]
        BY <1>1, <3>1 DEF BnWaits
      <3>3. ASSUME NEW j \in DOMAIN T, T[j].chan = T[i].chan, T[j].ban = T[i].ban PROVE j = i
        <4>1. CASE j \in 1 .. n
          <5>1. T[j] = s.timed[j] /\ j \in DOMAIN s.timed
            BY <1>4, <1>5, <4>1
          <5> QED BY <1>1, <3>1, <3>3, <5>1 DEF BnWaits
        <4>2. CASE j = n + 1
          <5>1. T[i].chan = c /\ T[i].ban = b
            BY <1>3, <1>5, <3>3, <4>2
          <5> QED BY <1>9, <2>2, <5>1
        <4> QED BY <1>4, <1>8, <4>1, <4>2
      <3> QED BY <3>2, <3>3
    <2> QED BY <1>4, <1>8, <2>1, <2>2
  <1>11. x \in BnTidy(lost)
    BY <1>7, <1>10 DEF BnTidy
  <1>12. BnSent(s) => BnSent(x)
    BY <1>7 DEF BnSent
  <1> QED BY <1>11, <1>12 DEF x, e

LEMMA BnTbanKeeps ==
    ASSUME BnKept, NEW c \in BnChans, NEW b \in BnBan, NEW d \in BnTime, BnTban(c, b, d)
    PROVE  BnKept'
  <1> DEFINE s == BnAddBan(BnLists, c, b)
             more == [s EXCEPT !.timed = Append(@, [chan |-> c, ban |-> b, left |-> d])]
             x == IF b \in s.bans[c] THEN more ELSE s
  <1>1. /\ bn_in' = BnNobody /\ b \notin BnLists.bans[c] /\ BnStore(x)
        /\ UNCHANGED <<bn_set, bn_invited, bn_given, bn_lost, bn_module>>
    BY DEF BnTban, BnStrange, BnKeep, BnLists
  <1>2. BnLists \in BnTidy(bn_lost) /\ BnLists \in BnRecord /\ (bn_module => BnSent(BnLists))
    BY DEF BnKept, BnTidy
  <1>3. s \in BnTidy(bn_lost) /\ s.timed = BnLists.timed
    BY <1>2, BnAddBanTidy DEF BnNear
  <1>4. bn_module => BnSent(s)
    BY <1>2, BnAddBanSent
  <1>5. d \in Nat
    BY BansOK
  <1> HIDE DEF s
  <1>6. ASSUME b \in s.bans[c] PROVE more \in BnTidy(bn_lost) /\ (BnSent(s) => BnSent(more))
    BY <1>1, <1>2, <1>3, <1>5, <1>6, BnEntryAdded
  <1> HIDE DEF more
  <1>7. x \in BnTidy(bn_lost') /\ (bn_module' => BnSent(x))
    BY <1>1, <1>3, <1>4, <1>6
  <1> HIDE DEF x
  <1> QED BY <1>1, <1>7, BnListsStep

LEMMA BnSecondKeeps ==
    ASSUME BnKept, BnSecond
    PROVE  BnKept'
  <1> DEFINE T == [i \in DOMAIN bn_timed |-> [bn_timed[i] EXCEPT !.left = IF @ = 0 THEN 0 ELSE @ - 1]]
             x == [bans |-> bn_bans, redirects |-> bn_redirects, timed |-> T]
             n == Len(bn_timed)
  <1>1. /\ bn_timed' = T /\ bn_in' = BnNobody /\ UNCHANGED <<bn_bans, bn_redirects>>
        /\ UNCHANGED <<bn_set, bn_invited, bn_given, bn_lost, bn_module>>
    BY DEF BnSecond, BnKeep
  <1>2. /\ BnLists \in BnRecord /\ BnWaits(bn_bans, bn_timed, bn_lost)
        /\ (bn_module => BnSent(BnLists))
    BY DEF BnKept, BnTidy, BnLists
  <1>3. /\ bn_bans \in [BnChans -> SUBSET BnBan] /\ bn_redirects \in [BnChans -> Seq(BnBan)]
        /\ bn_timed \in Seq(BnEntry)
    BY <1>2 DEF BnRecord, BnLists
  <1>4. n \in Nat /\ DOMAIN bn_timed = 1 .. n
    BY <1>3
  <1>5. ASSUME NEW i \in 1 .. n
        PROVE  T[i] \in BnEntry /\ T[i].chan = bn_timed[i].chan /\ T[i].ban = bn_timed[i].ban
    <2>1. bn_timed[i] \in BnEntry
      BY <1>3, <1>4
    <2>2. T[i] = [bn_timed[i] EXCEPT !.left = IF bn_timed[i].left = 0 THEN 0 ELSE bn_timed[i].left - 1]
      BY <1>4, <2>1 DEF BnEntry
    <2> QED BY <2>1, <2>2 DEF BnEntry
  <1>6. DOMAIN T = 1 .. n
    BY <1>4
  <1>60. T = [i \in 1 .. n |-> T[i]]
    BY <1>4
  <1> HIDE DEF T, n
  <1>7. T \in Seq(BnEntry)
    <2>1. T \in [1 .. n -> BnEntry]
      BY <1>5, <1>60
    <2> QED BY <1>4, <2>1
  <1>8. BnWaits(bn_bans, T, bn_lost)
    BY <1>2, <1>4, <1>5, <1>6 DEF BnWaits
  <1>9. x \in BnTidy(bn_lost') /\ x.bans = BnLists.bans /\ x.redirects = BnLists.redirects
    BY <1>1, <1>3, <1>7, <1>8 DEF BnTidy, BnRecord, BnLists
  <1>10. bn_module' => BnSent(x)
    BY <1>1, <1>2, <1>9 DEF BnSent
  <1>11. BnStore(x)
    BY <1>1 DEF BnStore
  <1> HIDE DEF x
  <1> QED BY <1>1, <1>9, <1>10, <1>11, BnListsStep

LEMMA BnModesKeep ==
    ASSUME BnKept, NEW c \in BnChans
    PROVE  /\ \A which, m, on : BnModeList(c, which, m, on) => BnKept'
           /\ \A which \in {"i", "l"} : BnModeFlag(c, which) => BnKept'
           /\ \A to \in BnChans \cup {""} : BnModeLink(c, to) => BnKept'
  <1>1. bn_set \in [BnChans -> BnSettings] /\ bn_set[c] \in BnSettings
    BY DEF BnKept
  <1>2. ASSUME NEW which, NEW m, NEW on, BnModeList(c, which, m, on) PROVE BnKept'
    <2>1. /\ bn_in' = BnNobody
          /\ UNCHANGED <<bn_bans, bn_redirects, bn_timed, bn_set, bn_invited, bn_module, bn_given, bn_lost>>
      BY <1>2 DEF BnModeList, BnStrange
    <2>2. BnInvitedOnce' /\ BnBannedStaysOut'
      BY <2>1, BnNobodyIn DEF BnKept, BnInvitedOnce
    <2> QED BY <2>1, <2>2, BnOtherStep DEF BnKept
  <1>3. ASSUME NEW which \in {"i", "l"}, BnModeFlag(c, which) PROVE BnKept'
    <2>1. /\ bn_in' = BnNobody /\ bn_set' = [bn_set EXCEPT ![c][which] = ~@]
          /\ UNCHANGED <<bn_bans, bn_redirects, bn_timed, bn_invited, bn_module, bn_given, bn_lost>>
      BY <1>3 DEF BnModeFlag, BnStrange
    <2>2. BnInvitedOnce' /\ BnBannedStaysOut'
      BY <2>1, BnNobodyIn DEF BnKept, BnInvitedOnce
    <2>3. bn_set' \in [BnChans -> BnSettings]
      <3> DEFINE new == [bn_set[c] EXCEPT ![which] = ~@]
      <3>1. new \in BnSettings
        BY <1>1 DEF BnSettings
      <3>2. bn_set' = [bn_set EXCEPT ![c] = new]
        BY <1>1, <2>1
      <3> HIDE DEF new
      <3> QED BY <1>1, <3>1, <3>2
    <2> QED BY <2>1, <2>2, <2>3, BnOtherStep DEF BnKept
  <1>4. ASSUME NEW to \in BnChans \cup {""}, BnModeLink(c, to) PROVE BnKept'
    <2>1. /\ bn_in' = BnNobody /\ bn_set' = [bn_set EXCEPT ![c].L = to]
          /\ UNCHANGED <<bn_bans, bn_redirects, bn_timed, bn_invited, bn_module, bn_given, bn_lost>>
      BY <1>4 DEF BnModeLink, BnStrange
    <2>2. BnInvitedOnce' /\ BnBannedStaysOut'
      BY <2>1, BnNobodyIn DEF BnKept, BnInvitedOnce
    <2>3. bn_set' \in [BnChans -> BnSettings]
      <3> DEFINE new == [bn_set[c] EXCEPT !.L = to]
      <3>1. new \in BnSettings
        BY <1>1 DEF BnSettings
      <3>2. bn_set' = [bn_set EXCEPT ![c] = new]
        BY <1>1, <2>1
      <3> HIDE DEF new
      <3> QED BY <1>1, <3>1, <3>2
    <2> QED BY <2>1, <2>2, <2>3, BnOtherStep DEF BnKept
  <1> QED BY <1>2, <1>3, <1>4

LEMMA BnInvitesKeep ==
    ASSUME BnKept, NEW u \in BnUsers, NEW c \in BnChans, BnInvite(u, c) \/ BnUninvite(u, c)
    PROVE  BnKept'
  <1> DEFINE P == BnUsers \X BnChans
             q == <<u, c>>
  <1>1. /\ bn_invited \in [P -> Nat] /\ bn_given \in [P -> Nat] /\ q \in P
        /\ \A p \in P : bn_invited[p] <= bn_given[p]
    BY DEF BnKept, BnInvitedOnce
  <1>2. \A p \in P : bn_invited[p] \in Nat /\ bn_given[p] \in Nat
    BY <1>1
  <1>3. /\ bn_in' = BnNobody
        /\ UNCHANGED <<bn_bans, bn_redirects, bn_timed, bn_set, bn_module, bn_lost>>
    BY DEF BnInvite, BnUninvite, BnStrange
  <1>4. \/ /\ bn_invited' = [bn_invited EXCEPT ![q] = bn_invited[q] + 1]
           /\ bn_given' = [bn_given EXCEPT ![q] = bn_given[q] + 1]
        \/ /\ bn_invited' = [bn_invited EXCEPT ![q] = bn_invited[q] - 1]
           /\ bn_given' = [bn_given EXCEPT ![q] = bn_given[q] - 1] /\ bn_invited[q] > 0
    BY <1>1 DEF BnInvite, BnUninvite
  <1> HIDE DEF P, q
  <1>5. bn_invited' \in [P -> Nat] /\ bn_given' \in [P -> Nat] /\ \A p \in P : bn_invited'[p] <= bn_given'[p]
    BY <1>1, <1>2, <1>4
  <1>6. BnInvitedOnce'
    BY <1>5 DEF BnInvitedOnce
  <1>7. BnBannedStaysOut' /\ bn_set' \in [BnChans -> BnSettings]
    BY <1>3, BnNobodyIn DEF BnKept
  <1> QED BY <1>3, <1>5, <1>6, <1>7, BnOtherStep DEF P

LEMMA BnBansKeep ==
    ASSUME BnKept, NEW c \in BnChans, NEW b \in BnBan, BnModeBan(c, b) \/ BnModeUnban(c, b)
    PROVE  BnKept'
  <1>1. bn_in' = BnNobody /\ UNCHANGED <<bn_set, bn_invited, bn_given, bn_lost, bn_module>>
    BY DEF BnModeBan, BnModeUnban, BnStrange, BnKeep
  <1>2. BnLists \in BnTidy(bn_lost) /\ BnLists \in BnRecord /\ (bn_module => BnSent(BnLists))
    BY DEF BnKept, BnTidy
  <1>3. CASE BnModeBan(c, b)
    <2> DEFINE s == BnAddBan(BnLists, c, b)
    <2>1. s \in BnTidy(bn_lost) /\ (bn_module => BnSent(s))
      BY <1>2, BnAddBanTidy, BnAddBanSent DEF BnNear
    <2>2. BnStore(s)
      BY <1>3 DEF BnModeBan
    <2> HIDE DEF s
    <2> QED BY <1>1, <2>1, <2>2, BnListsStep
  <1>4. CASE BnModeUnban(c, b)
    <2> DEFINE s == BnDelBan(BnLists, c, b)
    <2>1. s \in BnTidy(bn_lost) /\ (bn_module => BnSent(s))
      BY <1>2, BnDelBanTidy, BnDelBanSent DEF BnNear
    <2>2. BnStore(s)
      BY <1>4 DEF BnModeUnban
    <2> HIDE DEF s
    <2> QED BY <1>1, <2>1, <2>2, BnListsStep
  <1> QED BY <1>3, <1>4

LEMMA BnBackgroundKeeps ==
    ASSUME BnKept, BnBackground \/ BnUnload
    PROVE  BnKept'
  <1>1. bn_in' = BnNobody /\ UNCHANGED <<bn_set, bn_invited, bn_given, bn_lost>>
    BY DEF BnBackground, BnUnload
  <1>2. BnLists \in BnTidy(bn_lost) /\ BnLists \in BnGood(bn_lost)
    BY DEF BnKept, BnGood
  <1>3. CASE BnBackground
    <2> DEFINE s == BnSweep(BnLists)
    <2>1. s \in BnGood(bn_lost)
      BY <1>2, BnSweepGood
    <2>2. BnStore(s) /\ UNCHANGED bn_module
      BY <1>3 DEF BnBackground
    <2> HIDE DEF s
    <2>3. s \in BnTidy(bn_lost) /\ (bn_module => BnSent(s))
      BY <2>1 DEF BnGood
    <2> QED BY <1>1, <2>2, <2>3, BnListsStep
  <1>4. CASE BnUnload
    <2> DEFINE s == BnCleanupAll(BnLists)
    <2>1. s \in BnTidy(bn_lost)
      BY <1>2, BnCleanupAllTidy
    <2>2. BnStore(s) /\ ~bn_module'
      BY <1>4 DEF BnUnload
    <2> HIDE DEF s
    <2> QED BY <1>1, <2>1, <2>2, BnListsStep
  <1> QED BY <1>3, <1>4

LEMMA BnStep ==
    BnKept /\ [BansNext]_bn_vars => BnKept'
  <1> SUFFICES ASSUME BnKept, [BansNext]_bn_vars PROVE BnKept'
    OBVIOUS
  <1>0. \A c \in BnChans : BnBanSet[c] \subseteq BnBan
    BY BansOK
  <1>1. CASE UNCHANGED bn_vars
    <2>1. UNCHANGED <<bn_bans, bn_redirects, bn_timed, bn_set, bn_invited, bn_module, bn_given, bn_in, bn_lost>>
      BY <1>1 DEF bn_vars
    <2>2. BnInvitedOnce' /\ BnBannedStaysOut'
      BY <2>1 DEF BnKept, BnInvitedOnce, BnBannedStaysOut
    <2> QED BY <2>1, <2>2, BnOtherStep DEF BnKept
  <1>2. CASE \E c \in BnChans, u \in BnUsers : BnJoin(u, c) \/ BnPart(u, c) \/ BnInvite(u, c) \/ BnUninvite(u, c)
    BY <1>2, BnJoinKeeps, BnPartKeeps, BnInvitesKeep
  <1>3. CASE \E c \in BnChans : \E b \in BnBanSet[c] :
               BnModeBan(c, b) \/ BnModeUnban(c, b) \/ \E d \in BnTime : BnTban(c, b, d)
    BY <1>0, <1>3, BnBansKeep, BnTbanKeeps
  <1>4. CASE \E c \in BnChans, which \in {"e", "I"}, m \in BnMasks, on \in BOOLEAN : BnModeList(c, which, m, on)
    BY <1>4, BnModesKeep
  <1>5. CASE \E c \in BnChans, which \in {"i", "l"} : BnModeFlag(c, which)
    BY <1>5, BnModesKeep
  <1>6. CASE \E c \in BnChans, to \in BnChans \cup {""} : BnModeLink(c, to)
    BY <1>6, BnModesKeep
  <1>7. CASE BnSecond \/ BnBackground \/ BnUnload
    BY <1>7, BnSecondKeeps, BnBackgroundKeeps
  <1> QED BY <1>1, <1>2, <1>3, <1>4, <1>5, <1>6, <1>7 DEF BansNext

\* In every state that the program reaches, a ban with a target has its redirect, an entry of TimedBanList waits
\* for a ban that is set (off the channels that went away with one), nobody is in a channel he is banned from unless
\* a ban sent him there, and no invitation lets its client in twice: whatever JOIN, PART, MODE, TBAN, INVITE, the
\* expiry of timed bans and the unloading of m_banredirect do, one after the other.
THEOREM KeptOutAsSet ==
    BansSpec => []BnKeepsOut
  <1>1. BnKept => BnKeepsOut
    <2> SUFFICES ASSUME BnKept PROVE BnRedirected /\ BnTimedHasBan
      BY DEF BnKept, BnKeepsOut
    <2>1. BnTimedHasBan
      <3>1. BnWaits(bn_bans, bn_timed, bn_lost)
        BY DEF BnKept, BnTidy, BnLists
      <3> QED BY <3>1 DEF BnWaits, BnTimedHasBan
    <2>2. BnRedirected
      <3> SUFFICES ASSUME bn_module, NEW c \in BnChans, NEW b \in bn_bans[c], b.to \notin {"", c}
                   PROVE  b \in BnRange(bn_redirects[c])
        BY DEF BnRange, BnRedirected
      <3>1. BnSentOn(bn_bans[c], bn_redirects[c], c)
        BY DEF BnKept, BnLists, BnSent
      <3> QED BY <3>1 DEF BnSentOn
    <2> QED BY <2>1, <2>2
  <1> QED BY <1>1, BnKeptAtFirst, BnStep, PTL DEF BansSpec
=============================================================================

------------------------------ MODULE MCPeople -------------------------------
(* What one server keeps of its clients and channels, and what they may do:  *)
(* bounded instances of components, in one run. A behaviour exercises one of *)
(* them.                                                                     *)
EXTENDS Clients, UserModes, ChannelModes, Channels, UserLists, Speech, Flood,
        Bans, Access, TLC
CONSTANTS l1, l2, r1, r2, ip1, ip2, u1, sa, sb, fa, fb, cu, cr

VARIABLE people_part   \* the part of the server this behaviour exercises

MCLocals == {l1, l2}
MCRemotes == {r1, r2}
MCIp == [c \in {l1, l2, r1, r2} |-> IF c = r2 THEN ip2 ELSE ip1]
MCMoMasks == {[nick |-> "n", ident |-> "", host |-> ""], [nick |-> "n", ident |-> "*", host |-> "*"], [nick |-> "", ident |-> "", host |-> "h"]}
MCMoLimits == {-1, 0, 3, 16, 19}
MCCnUsers == {cu, cr}
MCCnLocal == {cu}
MCCnRemote == {cr}
MCDaHost == [u \in DaUsers |-> "home"]
MCSiMatches == {<<"all", "bob">>, <<"all", "eve">>, <<"bob", "bob">>}
MCSiPatterns == {{"p", "n"}, {"a"}, {"p", "x"}}
MCSpUsers == {sa, sb}
MCSpModeSets == {{}, {"S", "g"}, {"G", "T", "n", "m"}, {"c", "C", "P", "S"}}
MCSpTexts == {<<"w", "^", "w">>, <<"^", "^", ".">>, <<"w", "w">>, <<"!">>}
MCSpOrder == <<"c", "C", "T", "P", "g", "G", "S">>
MCSpOrders == {MCSpOrder, <<"S", "G", "g", "P", "T", "C", "c">>}
MCSpUserModes == [u \in {sa, sb} |-> IF u = sa THEN {"S"} ELSE {"d"}]
MCSpSilencers == {<<sb, sa>>}
MCBnMatches == {<<"m", "u">>}
MCBnBan(to) == [mask |-> "m", to |-> to]
MCBnBanSet == [c \in BnChans |-> IF c = "x" THEN {MCBnBan(""), MCBnBan("y")} ELSE {MCBnBan("x")}]
MCBnListed == [c \in BnChans |-> IF c = "x" THEN {"e", "I", "i", "l", "L"} ELSE {"l"}]
MCAcTypes == {"ann" :> {} @@ "bob" :> tokens : tokens \in {{}, {"KICK"}, {"OTHERMODE", "MODEDEOP"}, {"INVITE"}}}
MCAcNoOper == "ann" :> {} @@ "bob" :> {}
MCAcOrder == <<"override", "chanprotect", "nokicks">>
MCAcOrders == {MCAcOrder, <<"chanprotect", "nokicks", "override">>}
MCAcNoKicksFirst == {<<"nokicks", "chanprotect", "override">>}

PeopleParts == {"clients", "usermodes", "chanmodes", "channels", "watch",
    "dccallow", "silence", "speech", "flood", "bans", "access"}

\* The parts a behaviour does not exercise keep one initial state.
PeopleInit ==
    /\ people_part \in PeopleParts
    /\ ClientsInit
    /\ UserModesInit
    /\ ChannelModesInit
    /\ (people_part # "chanmodes" => "u1" \in mo_at["own"].ops)
    /\ Init
    /\ WatchInit
    /\ DccAllowInit
    /\ SilenceInit
    /\ SpeechInit /\ (people_part # "speech" => sp_order = MCSpOrder)
    /\ FloodInit
    /\ BansInit
    /\ AccessInit
    /\ (people_part # "access" => ac_order = MCAcOrder /\ ac_tokens = MCAcNoOper)

PeopleFrame(part) ==
    /\ people_part = part /\ UNCHANGED people_part
    /\ (part # "clients" => UNCHANGED cl_vars)
    /\ (part # "usermodes" => UNCHANGED um_vars)
    /\ (part # "chanmodes" => UNCHANGED mo_vars)
    /\ (part # "channels" => UNCHANGED vars)
    /\ (part # "watch" => UNCHANGED wt_vars)
    /\ (part # "dccallow" => UNCHANGED da_vars)
    /\ (part # "silence" => UNCHANGED si_vars)
    /\ (part # "speech" => UNCHANGED sp_vars)
    /\ (part # "flood" => UNCHANGED fl_vars)
    /\ (part # "bans" => UNCHANGED bn_vars)
    /\ (part # "access" => UNCHANGED ac_vars)

\* Bound: m_banredirect is unloaded, or a channel goes away with timed bans, not both.
PeopleNext ==
    \/ PeopleFrame("clients") /\ ClientsNext
    \/ PeopleFrame("usermodes") /\ UserModesNext
    \/ PeopleFrame("chanmodes") /\ ChannelModesNext
    \/ PeopleFrame("channels") /\ Next
    \/ PeopleFrame("watch") /\ WatchNext
    \/ PeopleFrame("dccallow") /\ DccAllowNext
    \/ PeopleFrame("silence") /\ SilenceNext
    \/ PeopleFrame("speech") /\ SpeechNext
    \/ PeopleFrame("flood") /\ FloodNext
    \/ PeopleFrame("bans") /\ (bn_lost = {} \/ bn_module) /\ BansNext
    \/ PeopleFrame("access") /\ AccessNext

people_vars == <<people_part, cl_vars, um_vars, mo_vars, vars, wt_vars,
    da_vars, si_vars, sp_vars, fl_vars, bn_vars, ac_vars>>
PeopleSpec == PeopleInit /\ [][PeopleNext]_people_vars

\* Every component keeps its types, whichever of them moves: the type
\* invariants of the components, together.
PeopleTypeOK ==
    /\ ClientsTypeOK /\ UserModesTypeOK
    /\ ChannelModesTypeOK /\ TypeOK
    /\ WatchTypeOK /\ DccAllowTypeOK
    /\ SilenceTypeOK /\ SpeechTypeOK
    /\ FloodTypeOK /\ BansTypeOK
    /\ AccessTypeOK
=============================================================================

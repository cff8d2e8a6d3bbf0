------------------------------ MODULE MCServer -------------------------------
(* What one server keeps for itself - timers, modules, x-lines, WHOWAS, its  *)
(* configuration, JSON values: bounded instances of components that do not   *)
(* act on each other, in one run. A behaviour exercises one of them.         *)
EXTENDS Timers, Loader, XLines, Whowas, Config, Texts, Json, TLC
CONSTANTS m1, m2, m3, m4, once1, once2, every1, every2

VARIABLE server_part   \* the part of the server this behaviour exercises

MCTimersAll == {once1, once2, every1, every2}
MCOnce == {once1, once2}
MCEvery == {every1, every2}
MCSecs == [t \in MCTimersAll |-> IF t \in {once1, every1} THEN 1 ELSE 2]
MCLdAlphabet == <<m1, m2, m3, m4>>
MCLdPriority == m1 :> [at |-> "any", of |-> m1] @@ m2 :> [at |-> "after", of |-> m1]
             @@ m3 :> [at |-> "first", of |-> m1] @@ m4 :> [at |-> "before", of |-> m2]
MCLdHooks == m1 :> {"join"} @@ m2 :> {"join", "part"} @@ m3 :> {"quit"} @@ m4 :> {"part", "quit"}
MCLdCommands == <<"JOIN", "SAJOIN", "SAPART", "PART", "WATCH">>
MCLdWants == m1 :> <<"SAJOIN", "SAPART">> @@ m2 :> <<>> @@ m3 :> <<"WATCH">> @@ m4 :> <<"SAPART", "PART">>
MCLdOffers == m1 :> {"hash"} @@ m2 :> {} @@ m3 :> {"hash"} @@ m4 :> {}
MCLdNeeds == m1 :> {} @@ m2 :> {"hash"} @@ m3 :> {} @@ m4 :> {"hash"}
MCCfHere == [base |-> "here", up |-> FALSE, dot |-> TRUE]
MCCfPlain == <<"diepass", "p">>
MCCfSplit(main, inc1, inc2) == [f \in CfFiles |-> CASE f = "main" -> main [] f = "inc1" -> inc1 [] f = "inc2" -> inc2]
MCCfNamed(name) == <<"server", name>>
MCCfOne ==
  MCCfSplit(<<MCCfNamed(MCCfHere), MCCfPlain, <<"module", "m1">>, <<"bind", 1>>, <<"include", "inc1">>>>,
          <<<<"module", "m2">>, <<"include", "inc2">>, <<"bind", 2>>>>, <<>>)
MCCfDisks == {
  MCCfOne,
  MCCfSplit(<<MCCfNamed([MCCfHere EXCEPT !.up = TRUE]), <<"include", "inc2">>, MCCfPlain, <<"bind", 2>>, <<"bind", 1>>>>,
          <<>>, <<<<"module", "m2">>>>),
  MCCfSplit(<<<<"include", "inc1">>, MCCfNamed(MCCfHere), MCCfPlain>>, <<<<"include", "inc2">>>>, <<<<"bind", 2>>, <<"include", "inc1">>>>),
  MCCfSplit(<<MCCfNamed(MCCfHere), <<"diepass", "">>>>, <<>>, <<>>),
  MCCfSplit(<<MCCfNamed([base |-> "there", up |-> FALSE, dot |-> FALSE]), MCCfPlain, <<"bind", 1>>>>, <<>>, <<>>),
  MCCfSplit(<<MCCfNamed(MCCfHere), <<"include", "inc1">>, MCCfPlain>>, <<MCCfNamed(MCCfHere)>>, <<>>)}
MCTxKeys == {<<"a">>, <<"n", "b">>}
MCTxChars == {"a", "n", "\"", "\\", "<", ">", "#", "nl", "=", " "}
MCTxValues == {<<>>} \cup {<<c>> : c \in MCTxChars} \cup {<<c, d>> : c \in {"\\", "nl", "\"", "#", ">"}, d \in {"n", "\\", "nl", "\""}}
MCTxTag == [name |-> <<"a">>, items |-> <<<<<<"a">>, <<>>>>>>]
MCTxComments == {<<"\"", ">", "\\">>}
MCJsNames == {<<>>, <<"m">>}
MCJsStrings == {<<"a">>, <<"\\">>, <<"\"", "n">>}
MCJsNumbers == {0, -16, 31, 35}
MCJsMethods == {<<"a">>}
MCTkWords == {<<"a">>, <<"b", ":">>, <<"c", ":", "d">>}
MCTkFirsts == {<<":", "s">>}
MCTkLasts == {<<>>, <<" ", "x", " ", " ", "y">>, <<":", "x">>, <<"x", " ">>}
MCTkItems == {<<"a">>, <<"A">>, <<"b", "b">>}
MCTkKeys == {<<>>, <<"k">>, <<"l">>}
MCDuLetters == {100, 109}
MCDuMulti == 100 :> 7 @@ 109 :> 3
MCMsFold == [c \in {0, 42, 63, 65, 91, 97} |-> IF c = 65 THEN 97 ELSE IF c = 91 THEN 123 ELSE c]
MCMsUpTo(n, chars) == UNION {[1..k -> chars] : k \in 0..n}
MCMsTexts == MCMsUpTo(3, {91, 97}) \cup {<<65>>, <<91, 65>>}
MCMsMasks == MCMsUpTo(3, {42, 63, 97}) \cup {<<91>>, <<42, 91, 63>>, <<42, 91, 42, 97>>, <<42, 91, 97, 42>>}
MCMsNames == MCMsUpTo(2, {65, 97}) \cup {<<91>>, <<91, 65>>}
MCCiBytes == [v4 |-> 2, v6 |-> 3]
MCCiV4 == [family : {"v4"}, bytes : [1..2 -> 0..3]]
MCCiV6 == [family : {"v6"}, bytes : [1..3 -> {0, 2}]]
MCCiName == [family |-> "name", bytes |-> <<>>]
MCCiHosts == {[family |-> "v4", bytes |-> <<1, 3>>], [family |-> "v6", bytes |-> <<2, 0, 2>>], MCCiName}
MCCiQuestions ==
    ([user : {"no"}, host : MCCiHosts] \X [user : {"no"}, host : MCCiV4 \cup MCCiV6 \cup {MCCiName}, bits : {-1} \cup 0..9])
    \cup ([user : {"no", "bob", "eve"}, host : MCCiHosts] \X [user : {"no", "bob", "any"}, host : MCCiHosts, bits : {3}])

ServerParts == {"timers", "loader", "xlines", "whowas", "config", "text",
    "json", "tokens", "modestack", "ranges", "masks"}

\* The parts a behaviour does not exercise keep one initial state.
ServerInit ==
    /\ server_part \in ServerParts
    /\ Init
    /\ LoaderInit
    /\ XLinesInit /\ (server_part # "xlines" => xl_kind = "G")
    /\ WhowasInit /\ (server_part # "whowas" => wh_size = 0 /\ wh_groups = 0)
    /\ ConfigInit /\ (server_part # "config" => cf_disk = MCCfOne)
    /\ ConfigTextInit
    /\ (server_part # "text" => tx_written = <<MCTxTag, MCTxTag>> /\ tx_text = TxWrite(tx_written, TRUE))
    /\ JsonInit
    /\ TokensInit
    /\ ModeStackInit
    /\ RangesInit
    /\ MasksInit

ServerFrame(part) ==
    /\ server_part = part /\ UNCHANGED server_part
    /\ (part # "timers" => UNCHANGED vars)
    /\ (part # "loader" => UNCHANGED ld_vars)
    /\ (part # "xlines" => UNCHANGED xl_vars)
    /\ (part # "whowas" => UNCHANGED wh_vars)
    /\ (part # "config" => UNCHANGED cf_vars)
    /\ (part # "text" => UNCHANGED tx_vars)
    /\ (part # "json" => UNCHANGED js_vars)
    /\ (part # "tokens" => UNCHANGED tk_vars)
    /\ (part # "modestack" => UNCHANGED mk_vars)
    /\ (part # "ranges" => UNCHANGED rg_vars)
    /\ (part # "masks" => UNCHANGED ms_vars)

\* Bound: lines of a burst are forgotten once; XlEnforced promises nothing from then on.
ServerNext ==
    \/ ServerFrame("timers") /\ Next
    \/ ServerFrame("loader") /\ LoaderNext
    \/ ServerFrame("xlines") /\ ~xl_lost /\ XLinesNext
    \/ ServerFrame("whowas") /\ WhowasNext
    \/ ServerFrame("config") /\ ConfigNext
    \/ ServerFrame("text") /\ ConfigTextNext
    \/ ServerFrame("json") /\ JsonNext
    \/ ServerFrame("tokens") /\ TokensNext
    \/ ServerFrame("modestack") /\ ModeStackNext
    \/ ServerFrame("ranges") /\ RangesNext
    \/ ServerFrame("masks") /\ MasksNext

server_vars == <<server_part, vars, ld_vars, xl_vars, wh_vars, cf_vars,
    tx_vars, js_vars, tk_vars, mk_vars, rg_vars, ms_vars>>
ServerSpec == ServerInit /\ [][ServerNext]_server_vars

\* The fairness of Timers, where the timers are exercised.
Owed(part) == server_part = part
ServerFair ==
    /\ WF_vars(Owed("timers") /\ \E k \in Steps : TimePasses(k))
    /\ WF_vars(Owed("timers") /\ \E t \in Timers : BeginTick(t))
    /\ WF_vars(Owed("timers") /\ \E t \in Timers : EndTick(t))
ServerFairSpec == ServerSpec /\ ServerFair

\* A text that was read means what was written: configuration files (Texts), JSON values and calls (Json);
\* outside these parts the text and the value are the ones they begin with. The loops over lines, lists,
\* modes, ports, durations, masks, addresses and names (Texts) do what their reference definitions say, at
\* every turn and for every text of the instance.
TextsRead ==
    /\ Owed("text") => TxRoundTrip /\ TxAnswered
    /\ Owed("json") => JsRoundTrip /\ JsConverts /\ JsOrdered /\ JsCutRefused /\ JsAnswerReadable
    /\ TkTokens /\ LcOnce /\ LcOwnKey /\ MkAllSent /\ MkFits /\ PpAllPorts /\ DuSums
    /\ MsAgrees /\ CiSameNet /\ CmOneKey

\* Every component keeps its types, whichever of them moves: the type
\* invariants of the components, together.
ServerTypeOK ==
    /\ TypeOK /\ LoaderTypeOK
    /\ XLinesTypeOK /\ WhowasTypeOK
    /\ ConfigTypeOK /\ JsonTypeOK
    /\ TokensTypeOK /\ ModeStackTypeOK
    /\ RangesTypeOK /\ MasksTypeOK
=============================================================================

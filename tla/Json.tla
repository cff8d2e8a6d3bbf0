-------------------------------- MODULE Json --------------------------------
(***************************************************************************)
(* JSON-RPC over HTTP (m_rpc_json): json::Value as a module fills it,      *)
(* Writer, Reader with its error recovery, and the calls of rpc::process.  *)
(* A document is a sequence of characters; the numbers are whole and have  *)
(* JsBits bits; a real is one that neither int nor unsigned took.          *)
(***************************************************************************)
EXTENDS Integers, Sequences, FiniteSets, SequencesExt

CONSTANTS
    JsBits,     \* width of int and unsigned
    JsNames,    \* names of members
    JsStrings,  \* strings a module answers with
    JsNumbers,  \* numbers a module answers with
    JsMethods,  \* names of the methods modules have added, strings as in JsStrings
    JsSteps     \* operations on the value

ASSUME JsonOK == JsBits \in Nat \ {0} /\ JsSteps \in Nat /\ JsMethods \subseteq JsStrings

VARIABLES
    js_value,   \* the answer a method builds
    js_steps

js_vars == <<js_value, js_steps>>

JsQuote == "\""
JsSlash == "\\"
JsDigits == <<"0", "1", "2", "3", "4", "5", "6", "7", "8", "9">>
JsMaxUInt == 2^JsBits - 1
JsMaxInt == 2^(JsBits - 1) - 1
JsMinInt == -(2^(JsBits - 1))

-----------------------------------------------------------------------------
(* Value: a type, a number, a string, the elements of an array by index, the members of an *)
(* object by name.                                                                         *)

JsNoMap == [x \in {} |-> x]
JsNull == [t |-> "null", n |-> 0, s |-> <<>>, els |-> JsNoMap, mem |-> JsNoMap]
JsOf(type) == [JsNull EXCEPT !.t = type]
JsBool(b) == [JsNull EXCEPT !.t = "bool", !.n = IF b THEN 1 ELSE 0]
JsString(s) == [JsNull EXCEPT !.t = "string", !.s = s]
JsReal(n) == [JsNull EXCEPT !.t = "real", !.n = n]
JsNumber(n) == [JsNull EXCEPT !.t = IF n \in JsMinInt .. JsMaxInt THEN "int"
                                    ELSE IF n \in 0 .. JsMaxUInt THEN "uint" ELSE "real", !.n = n]

\* operator[]: a null becomes an array or an object; what is of another type throws.
JsPut(map, k, v) == [x \in DOMAIN map \cup {k} |-> IF x = k THEN v ELSE map[x]]
JsSetIndex(v, i, e) == [v EXCEPT !.t = "array", !.els = JsPut(v.els, i, e)]
JsSetMember(v, k, e) == [v EXCEPT !.t = "object", !.mem = JsPut(v.mem, k, e)]
JsMember(v, k) == IF k \in DOMAIN v.mem THEN v.mem[k] ELSE JsNull
JsElement(v, i) == IF i \in DOMAIN v.els THEN v.els[i] ELSE JsNull
JsSize(v) == IF v.els = JsNoMap THEN 0 ELSE 1 + CHOOSE i \in DOMAIN v.els : \A j \in DOMAIN v.els : j <= i
JsAppended(v, e) == JsSetIndex(v, JsSize(v), e)
JsRemoved(v, k) == [v EXCEPT !.mem = [x \in DOMAIN v.mem \ {k} |-> v.mem[x]]]

\* operator< orders by type, then by size, then by the entries of the map; names are ordered.
JsTypes == <<"null", "int", "uint", "real", "string", "bool", "array", "object">>
JsRank(seq, x) == CHOOSE i \in DOMAIN seq : seq[i] = x
JsNameOrder == SetToSeq(JsNames \cup JsStrings)
JsEntries(v) ==
    IF v.t = "array" THEN LET is == SetToSortSeq(DOMAIN v.els, <) IN [i \in DOMAIN is |-> [k |-> is[i], v |-> v.els[is[i]]]]
    ELSE LET ks == SetToSortSeq(DOMAIN v.mem, LAMBDA a, b : JsRank(JsNameOrder, a) < JsRank(JsNameOrder, b))
         IN [i \in DOMAIN ks |-> [k |-> JsRank(JsNameOrder, ks[i]), v |-> v.mem[ks[i]]]]
RECURSIVE JsLess(_, _)
JsLess(a, b) ==
    LET as == JsEntries(a)
        bs == JsEntries(b)
        same(i) == as[i].k = bs[i].k /\ ~JsLess(as[i].v, bs[i].v) /\ ~JsLess(bs[i].v, as[i].v)
    IN IF a.t # b.t THEN JsRank(JsTypes, a.t) < JsRank(JsTypes, b.t)
       ELSE IF a.t = "string" THEN JsRank(JsNameOrder, a.s) < JsRank(JsNameOrder, b.s)
       ELSE IF a.t \notin {"array", "object"} THEN a.n < b.n
       ELSE IF Len(as) # Len(bs) THEN Len(as) < Len(bs)
       ELSE \E i \in DOMAIN as :
                /\ \A j \in 1 .. i - 1 : same(j)
                /\ as[i].k < bs[i].k \/ (as[i].k = bs[i].k /\ JsLess(as[i].v, bs[i].v))

\* isConvertibleTo, of a number, and the conversions, which throw.
JsFits(v, type) ==
    CASE type = "int" -> v.n \in JsMinInt .. JsMaxInt [] type = "uint" -> v.n \in 0 .. JsMaxUInt [] OTHER -> TRUE
JsConvertible(v, type) ==
    CASE v.t \in {"int", "uint", "real"} -> JsFits(v, type)
      [] v.t \in {"null", "bool"} -> TRUE
      [] OTHER -> FALSE
JsThrows(v, type) ==
    CASE v.t = "uint" /\ type = "int" -> v.n >= JsMaxInt
      [] v.t = "int" /\ type = "uint" -> v.n < 0
      [] v.t = "real" /\ type = "int" -> v.n \notin JsMinInt .. JsMaxInt
      [] v.t = "real" /\ type = "uint" -> v.n \notin 0 .. JsMaxUInt
      [] OTHER -> v.t \in {"string", "array", "object"}

-----------------------------------------------------------------------------
(* Writer *)

RECURSIVE JsDecimal(_)
JsDecimal(n) == IF n < 10 THEN <<JsDigits[n + 1]>> ELSE Append(JsDecimal(n \div 10), JsDigits[(n % 10) + 1])
JsNumberText(n) == IF n < 0 THEN <<"-">> \o JsDecimal(-n) ELSE JsDecimal(n)

\* valueToQuotedString. The letter of each character that is escaped:
JsEscapes == [x \in {JsQuote, JsSlash, "\n"} |-> IF x = "\n" THEN "n" ELSE x]
JsEscaped(c) == IF c \in DOMAIN JsEscapes THEN <<JsSlash, JsEscapes[c]>> ELSE <<c>>
JsQuoted(s) == <<JsQuote>> \o FlattenSeq([i \in DOMAIN s |-> JsEscaped(s[i])]) \o <<JsQuote>>

JsList(parts) == FlattenSeq([i \in DOMAIN parts |-> (IF i > 1 THEN <<",">> ELSE <<>>) \o parts[i]])
RECURSIVE JsWrite(_)
JsWrite(v) ==
    CASE v.t = "null" -> <<"n", "u", "l", "l">>
      [] v.t \in {"int", "uint", "real"} -> JsNumberText(v.n)
      [] v.t = "string" -> JsQuoted(v.s)
      [] v.t = "bool" -> IF v.n = 1 THEN <<"t", "r", "u", "e">> ELSE <<"f", "a", "l", "s", "e">>
      [] v.t = "array" ->
            <<"[">> \o JsList([i \in 1 .. JsSize(v) |-> JsWrite(JsElement(v, i - 1))]) \o <<"]">>
      [] v.t = "object" ->
            LET names == SetToSeq(DOMAIN v.mem)
            IN <<"{">> \o JsList([i \in DOMAIN names |-> JsQuoted(names[i]) \o <<":">> \o JsWrite(v.mem[names[i]])])
               \o <<"}">>

-----------------------------------------------------------------------------
(* Reader: tokens. p is the place of the next character. *)

RECURSIVE JsWhile(_, _, _)
JsWhile(d, p, set) == IF p <= Len(d) /\ d[p] \in set THEN JsWhile(d, p + 1, set) ELSE p
JsSpaces(d, p) == JsWhile(d, p, {" ", "\t", "\r", "\n"})
JsNumberEnd(d, p) == JsWhile(d, p, {JsDigits[i] : i \in 1 .. 10} \cup {".", "e", "E", "+", "-"})

\* readString
RECURSIVE JsStringEnd(_, _)
JsStringEnd(d, p) ==
    IF p > Len(d) THEN [ok |-> FALSE, p |-> Len(d) + 1]
    ELSE IF d[p] = JsSlash THEN JsStringEnd(d, p + 2)
    ELSE IF d[p] = JsQuote THEN [ok |-> TRUE, p |-> p + 1] ELSE JsStringEnd(d, p + 1)

JsMatch(d, p, word) == p + Len(word) - 1 <= Len(d) /\ SubSeq(d, p, p + Len(word) - 1) = word
JsWords == <<[t |-> "true", word |-> <<"t", "r", "u", "e">>], [t |-> "false", word |-> <<"f", "a", "l", "s", "e">>],
             [t |-> "null", word |-> <<"n", "u", "l", "l">>]>>
JsTok(type, from, to) == [t |-> type, from |-> from, p |-> to]
\* readToken
JsToken(d, p0) ==
    LET p == JsSpaces(d, p0)
        words == {i \in DOMAIN JsWords : JsMatch(d, p, JsWords[i].word)}
    IN IF p > Len(d) THEN JsTok("end", p, p)
       ELSE IF d[p] \in {"{", "}", "[", "]", ",", ":"} THEN JsTok(d[p], p, p + 1)
       ELSE IF d[p] = JsQuote
            THEN LET e == JsStringEnd(d, p + 1) IN JsTok(IF e.ok THEN "string" ELSE "error", p, e.p)
       ELSE IF d[p] \in {JsDigits[i] : i \in 1 .. 10} \cup {"-"} THEN JsTok("number", p, JsNumberEnd(d, p + 1))
       ELSE IF words # {} THEN LET w == JsWords[CHOOSE i \in words : TRUE] IN JsTok(w.t, p, p + Len(w.word))
       ELSE JsTok("error", p, p + 1)

\* decodeString of the text between the quotes
RECURSIVE JsDecode(_, _)
JsDecode(text, out) ==
    IF text = <<>> THEN [ok |-> TRUE, s |-> out]
    ELSE IF text[1] # JsSlash THEN JsDecode(Tail(text), Append(out, text[1]))
    ELSE IF Len(text) = 1 THEN [ok |-> FALSE, s |-> out]
    ELSE IF text[2] \in {JsQuote, "/", JsSlash} THEN JsDecode(SubSeq(text, 3, Len(text)), Append(out, text[2]))
    ELSE IF text[2] = "n" THEN JsDecode(SubSeq(text, 3, Len(text)), Append(out, "\n"))
    ELSE [ok |-> FALSE, s |-> out]
JsDecoded(d, tok) == JsDecode(SubSeq(d, tok.from + 1, tok.p - 2), <<>>)

\* decodeNumber, of a number without an exponent: as soon as another digit might not fit, decodeDouble reads the whole of it.
JsIsDigit(c) == \E i \in 1 .. 10 : JsDigits[i] = c
JsDigit(c) == CHOOSE i \in 0 .. 9 : JsDigits[i + 1] = c
JsThreshold(negative) == (IF negative THEN -JsMinInt ELSE JsMaxUInt) \div 10
JsTooLong(value, negative) == value >= JsThreshold(negative)
RECURSIVE JsDigitsOf(_, _)
JsDigitsOf(text, value) == IF text = <<>> \/ ~JsIsDigit(text[1]) THEN value ELSE JsDigitsOf(Tail(text), value * 10 + JsDigit(text[1]))
RECURSIVE JsInteger(_, _, _)
JsInteger(text, value, negative) ==
    IF text = <<>> THEN [fits |-> TRUE, n |-> value]
    ELSE IF ~JsIsDigit(text[1]) \/ JsTooLong(value, negative) THEN [fits |-> FALSE, n |-> 0]
    ELSE JsInteger(Tail(text), (value * 10 + JsDigit(text[1])) % (JsMaxUInt + 1), negative)
JsNumberOf(text) ==
    LET negative == text[1] = "-"
        digits == IF negative THEN Tail(text) ELSE text
        i == JsInteger(digits, 0, negative)
        sign == IF negative THEN -1 ELSE 1
    IN IF i.fits THEN JsNumber(sign * i.n) ELSE JsReal(sign * JsDigitsOf(digits, 0))

-----------------------------------------------------------------------------
(* Reader: values. Each gives [ok, v, p]; what was read before an error stays. *)

JsGot(ok, v, p) == [ok |-> ok, v |-> v, p |-> p]
\* recoverFromError
RECURSIVE JsRecover(_, _, _)
JsRecover(d, p, until) ==
    LET skip == JsToken(d, p)
    IN IF skip.t \in {until, "end"} THEN skip.p ELSE JsRecover(d, skip.p, until)
JsFail(d, v, p, until) == JsGot(FALSE, v, JsRecover(d, p, until))

RECURSIVE JsReadValue(_, _, _), JsReadMembers(_, _, _, _), JsReadElements(_, _, _)
JsReadValue(d, p, old) ==
    LET tok == JsToken(d, p)
        text == SubSeq(d, tok.from, tok.p - 1)
    IN CASE tok.t = "{" -> JsReadMembers(d, tok.p, JsOf("object"), TRUE)
         [] tok.t = "[" -> IF JsToken(d, tok.p).t = "]" THEN JsGot(TRUE, JsOf("array"), JsToken(d, tok.p).p)
                           ELSE JsReadElements(d, tok.p, JsOf("array"))
         [] tok.t = "number" -> JsGot(TRUE, JsNumberOf(text), tok.p)
         [] tok.t = "string" -> LET s == JsDecoded(d, tok)
                                IN JsGot(s.ok, IF s.ok THEN JsString(s.s) ELSE old, tok.p)
         [] tok.t \in {"true", "false"} -> JsGot(TRUE, JsBool(tok.t = "true"), tok.p)
         [] tok.t = "null" -> JsGot(TRUE, JsNull, tok.p)
         [] OTHER -> JsGot(FALSE, old, tok.p)
\* unnamed: the name read last is empty, or none was read.
JsReadMembers(d, p, v, unnamed) ==
    LET tok == JsToken(d, p) IN
    IF tok.t = "}" /\ unnamed THEN JsGot(TRUE, v, tok.p)
    ELSE IF tok.t # "string" THEN JsFail(d, v, tok.p, "}")
    ELSE LET name == JsDecoded(d, tok)
             colon == JsToken(d, tok.p)
             here == JsMember(v, name.s)
             got == JsReadValue(d, colon.p, here)
             v2 == JsSetMember(v, name.s, got.v)
             comma == JsToken(d, got.p)
         IN IF ~name.ok THEN JsFail(d, v, tok.p, "}")
            ELSE IF colon.t # ":" THEN JsFail(d, v, colon.p, "}")
            ELSE IF ~got.ok THEN JsFail(d, v2, got.p, "}")
            ELSE IF comma.t = "}" THEN JsGot(TRUE, v2, comma.p)
            ELSE IF comma.t = "," THEN JsReadMembers(d, comma.p, v2, name.s = <<>>)
            ELSE JsFail(d, v2, comma.p, "}")
JsReadElements(d, p, v) ==
    LET got == JsReadValue(d, p, JsNull)
        v2 == JsAppended(v, got.v)
        comma == JsToken(d, got.p)
    IN IF ~got.ok THEN JsFail(d, v2, got.p, "]")
       ELSE IF comma.t = "]" THEN JsGot(TRUE, v2, comma.p)
       ELSE IF comma.t = "," THEN JsReadElements(d, comma.p, v2)
       ELSE JsFail(d, v2, comma.p, "]")
JsParse(d) == JsReadValue(d, 1, JsOf("object"))

-----------------------------------------------------------------------------
(* rpc::process and OnEvent: whether the request could be read in full is not looked at. *)

\* The fixed text for what threw.
JsFault == JsSetMember(JsOf("object"), <<"e">>, JsNull)
\* service: a request that is no object, or a method that is no string, throws.
JsService(request, answer) ==
    LET method == JsMember(request, <<"m">>)
    IN IF request.t \notin {"object", "null"} \/ method.t # "string" THEN JsFault
       ELSE IF method.s \in JsMethods THEN answer ELSE JsOf("object")
JsProcess(d, answer) == JsWrite(JsService(JsParse(d).v, answer))

-----------------------------------------------------------------------------
(* A method fills its answer *)

JsLeaves == {JsNull, JsBool(TRUE), JsOf("array"), JsOf("object")}
            \cup {JsString(s) : s \in JsStrings} \cup {JsNumber(n) : n \in JsNumbers}
JsonTypeOK == js_value.t = "object" /\ js_steps \in 0 .. JsSteps
JsonInit == js_value = JsOf("object") /\ js_steps = 0
JsStep == js_steps < JsSteps /\ js_steps' = js_steps + 1
JsAssign == JsStep /\ \E k \in JsNames, e \in JsLeaves : js_value' = JsSetMember(js_value, k, e)
\* The methods of Value go further into what is there: append, an index, a member.
JsFill ==
    JsStep /\ \E k \in DOMAIN js_value.mem, e \in JsLeaves :
        \/ /\ js_value.mem[k].t \in {"null", "array"}
           /\ js_value' = JsSetMember(js_value, k, JsAppended(js_value.mem[k], e))
        \/ /\ js_value.mem[k].t \in {"null", "array"}
           /\ js_value' = JsSetMember(js_value, k, JsSetIndex(js_value.mem[k], 1, e))
        \/ /\ js_value.mem[k].t \in {"null", "object"}
           /\ \E k2 \in JsNames : js_value' = JsSetMember(js_value, k, JsSetMember(js_value.mem[k], k2, e))
JsRemove == JsStep /\ \E k \in DOMAIN js_value.mem : js_value' = JsRemoved(js_value, k)
JsonNext == JsAssign \/ JsFill \/ JsRemove
JsonSpec == JsonInit /\ [][JsonNext]_js_vars

-----------------------------------------------------------------------------
(* Properties *)

\* What a reader makes of a value: all elements of an array are there.
RECURSIVE JsFilled(_)
JsFilled(v) ==
    [v EXCEPT !.t = IF v.t \in {"int", "uint", "real"} THEN "number" ELSE v.t,
              !.els = [i \in 0 .. JsSize(v) - 1 |-> JsFilled(JsElement(v, i))],
              !.mem = [k \in DOMAIN v.mem |-> JsFilled(v.mem[k])]]

\* Every answer a method can build is read back from its text as it was, whatever is in its
\* strings and names, and numbers keep their value where they change their type.
JsRoundTrip ==
    LET got == JsParse(JsWrite(js_value)) IN got.ok /\ JsFilled(got.v) = JsFilled(js_value)

\* What is read from a request is converted where isConvertibleTo says so, without a throw.
JsConverts ==
    \A k \in DOMAIN js_value.mem, type \in {"int", "uint", "real"} :
        LET v == JsMember(JsParse(JsWrite(js_value)).v, k) IN JsConvertible(v, type) => ~JsThrows(v, type)

\* Values are ordered: of two different ones one is less, and less is transitive.
JsOrdered ==
    LET built == {js_value.mem[k] : k \in DOMAIN js_value.mem}
        some == JsLeaves \cup built \cup {js_value}
    IN \A a \in built, b \in some :
        /\ a # b => JsLess(a, b) # JsLess(b, a)
        /\ a = b => ~JsLess(a, b)
        /\ JsLess(a, b) => \A c \in some : JsLess(b, c) => JsLess(a, c)

\* A document that is cut off anywhere is not taken for a whole one.
JsCutRefused ==
    LET d == JsWrite(js_value) IN \A n \in 0 .. Len(d) - 1 : ~JsParse(SubSeq(d, 1, n)).ok

\* Every request gets an answer that can be read, whatever the method has put into it, also
\* a request that is cut off or that asks for something that is no method.
JsAnswerReadable ==
    LET call(x) == JsWrite(JsSetMember(js_value, <<"m">>, JsString(x)))
    IN js_steps > 0 => \A x \in JsStrings : \A n \in {Len(call(x)), Len(call(x)) - 2} :
          JsParse(JsProcess(SubSeq(call(x), 1, n), js_value)).ok
=============================================================================

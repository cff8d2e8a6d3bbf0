-------------------------------- MODULE Texts --------------------------------
(***************************************************************************)
(* The helpers that take texts apart, compare and pack them: the streams   *)
(* of tokens every line goes through, LoopCall, the stacker of mode lines, *)
(* the lists of ports, the durations, the masks and names, and the reader  *)
(* of the configuration file. They share nothing but that each is a loop   *)
(* over a text with an object of its own, so each has its own state and    *)
(* specification here.                                                     *)
(***************************************************************************)
EXTENDS Integers, Sequences, FiniteSets, SequencesExt

-----------------------------------------------------------------------------
(* How lines and lists are taken apart: irc::tokenstream, which every line *)
(* of a client or a server goes through, irc::sepstream, and the commands  *)
(* that run once for each entry of a list, CommandParser::LoopCall. Texts  *)
(* are sequences of characters; a stream is its text and two positions,    *)
(* and one action is one call of GetToken.                                 *)

CONSTANTS
    TkWords,       \* parameters that need no colon
    TkFirsts,      \* what only the first may be: the source, which begins with one
    TkLasts,       \* what a last parameter may also be, after a colon
    TkParams,      \* bound: parameters in a line
    TkItems,       \* entries of a list of targets
    TkKeys,        \* entries of the list that goes with it; <<>> is an empty entry
    TkEntries,     \* bound: entries in a list
    TkMaxTargets   \* <options:maxtargets>

Space == " "
TkText == Seq(STRING)
ASSUME TokensOK ==
    /\ <<>> \notin TkWords /\ \A w \in TkWords : w[1] # ":"
    /\ \A t \in TkWords \cup TkItems \cup TkKeys : Space \notin Range(t) /\ "," \notin Range(t)
    /\ TkMaxTargets \in Nat

VARIABLES
    tk_line,       \* the parameters that were written, and the text they became
    tk_stream,     \* tokens, n, last_starting_position, last_pushed
    tk_got,        \* what GetToken has returned so far
    tk_over,       \* the reader was told that nothing is left
    lc_lists,      \* the two lists of a command, as entries
    lc_streams,    \* items1 and items2
    lc_max,        \* the counter of LoopCall
    lc_calls       \* calls of the handler: [item, extra]
tk_vars == <<tk_line, tk_stream, tk_got, tk_over, lc_lists, lc_streams, lc_max, lc_calls>>

\* lowermap, as far as these texts need it
TkFold(c) == IF c = "A" THEN "a" ELSE IF c = "[" THEN "{" ELSE c
TkSame(s, t) == Len(s) = Len(t) /\ \A i \in DOMAIN s : TkFold(s[i]) = TkFold(t[i])

\* stringjoiner
TkJoin(sep, parts) == FoldLeft(LAMBDA text, p : text \o sep \o p, Head(parts), Tail(parts))
\* The longest part that does not end in c
TkStrip(text, c) ==
    LET kept == {0} \cup {i \in DOMAIN text : text[i] # c}
    IN SubSeq(text, 1, CHOOSE i \in kept : \A j \in kept : j <= i)

-----------------------------------------------------------------------------
\* tokenstream::GetToken
TkOpen(text) == [text |-> text, n |-> 1, start |-> 1, pushed |-> FALSE]
\* The last of the spaces that begin at i, or i.
TkSkip(text, i) ==
    CHOOSE j \in i..Len(text) :
        /\ \A k \in i..j : k > i => (text[k] = Space /\ text[k - 1] = Space)
        /\ ~(j < Len(text) /\ text[j] = Space /\ text[j + 1] = Space)
TkStop(text, i) ==
    LET at == {j \in i..Len(text) : text[j] = Space \/ j = Len(text)}
    IN TkSkip(text, CHOOSE j \in at : \A k \in at : j <= k)
TkGetToken(s) ==
    IF s.n > Len(s.text) THEN [stream |-> s, token |-> <<>>, more |-> FALSE]
    ELSE LET i == TkSkip(s.text, s.n)  stop == TkStop(s.text, i)  last == stop = Len(s.text) IN
         IF s.pushed /\ s.text[i] = ":"
         THEN [stream |-> [s EXCEPT !.n = Len(s.text) + 1], token |-> SubSeq(s.text, i + 1, Len(s.text)), more |-> TRUE]
         ELSE LET token == TkStrip(SubSeq(s.text, s.start, IF last THEN stop ELSE stop - 1), Space)
              IN [stream |-> [s EXCEPT !.n = IF last THEN stop ELSE stop + 1, !.start = stop + 1, !.pushed = TRUE],
                  token |-> token, more |-> token # <<>>]

\* sepstream::GetToken
SepOpen(text) == [text |-> text, n |-> 1, start |-> 1]
SepGetToken(s) ==
    IF s.n > Len(s.text) THEN [stream |-> s, token |-> <<>>]
    ELSE LET at == {j \in s.n..Len(s.text) : s.text[j] = "," \/ j = Len(s.text)}
             stop == CHOOSE j \in at : \A k \in at : j <= k
             last == stop = Len(s.text)
         IN [stream |-> [s EXCEPT !.n = IF last THEN stop ELSE stop + 1, !.start = stop + 1],
             token |-> TkStrip(SubSeq(s.text, s.start, IF last THEN stop ELSE stop - 1), ",")]

-----------------------------------------------------------------------------
TkNoLists == [items |-> <<>>, extras |-> <<>>]
TokensInit ==
    /\ tk_line = [params |-> <<>>, colon |-> FALSE] /\ tk_stream = TkOpen(<<>>) /\ tk_got = <<>> /\ tk_over = FALSE
    /\ lc_lists = TkNoLists /\ lc_streams = <<SepOpen(<<>>), SepOpen(<<>>)>> /\ lc_max = 0 /\ lc_calls = <<>>
TkIdle == tk_line.params = <<>> /\ lc_lists = TkNoLists

\* A client or a server writes a line: parameters, one or two spaces between them, a colon before the last.
TkWrite(params, colon, gap) ==
    /\ TkIdle /\ tk_line' = [params |-> params, colon |-> colon]
    /\ tk_stream' = TkOpen(TkJoin(gap, [i \in DOMAIN params |->
                         IF colon /\ i = Len(params) THEN <<":">> \o params[i] ELSE params[i]]))
    /\ UNCHANGED <<tk_got, tk_over, lc_lists, lc_streams, lc_max, lc_calls>>
\* CommandParser::ProcessCommand, TreeSocket::ProcessLine: one more parameter, while there are any.
TkRead ==
    /\ tk_line.params # <<>> /\ ~tk_over
    /\ LET r == TkGetToken(tk_stream) IN
        /\ tk_stream' = r.stream /\ tk_over' = ~r.more
        /\ tk_got' = IF r.more THEN Append(tk_got, r.token) ELSE tk_got
    /\ UNCHANGED <<tk_line, lc_lists, lc_streams, lc_max, lc_calls>>

\* JOIN a,b,c k1,k2: LoopCall with two lists begins, if there is a comma in the first one.
LcBegin(items, extras) ==
    /\ TkIdle /\ Len(items) > 1
    /\ lc_lists' = [items |-> items, extras |-> extras]
    /\ lc_streams' = <<SepOpen(TkJoin(<<",">>, items)), SepOpen(IF extras = <<>> THEN <<>> ELSE TkJoin(<<",">>, extras))>>
    /\ UNCHANGED <<tk_line, tk_stream, tk_got, tk_over, lc_max, lc_calls>>
LcSeen(item) == \E i \in DOMAIN lc_calls : TkSame(lc_calls[i].item, item)
\* One turn of the loop: a target already seen costs a turn, but takes no key.
LcTurn ==
    /\ lc_lists # TkNoLists
    /\ LET a == SepGetToken(lc_streams[1])  b == SepGetToken(lc_streams[2]) IN
        /\ a.token # <<>> /\ lc_max < TkMaxTargets
        /\ lc_max' = lc_max + 1
        /\ IF LcSeen(a.token)
           THEN lc_streams' = <<a.stream, lc_streams[2]>> /\ lc_calls' = lc_calls
           ELSE /\ lc_streams' = <<a.stream, b.stream>>
                /\ lc_calls' = Append(lc_calls, [item |-> a.token, extra |-> b.token])
    /\ UNCHANGED <<tk_line, tk_stream, tk_got, tk_over, lc_lists>>

TokensNext ==
    \/ \E k \in 1..TkParams, colon \in BOOLEAN, gap \in {<<Space>>, <<Space, Space>>} :
        \E words \in [1..k - 1 -> TkWords \cup TkFirsts], last \in IF colon THEN TkWords \cup TkLasts ELSE TkWords :
            /\ k > 1 \/ ~colon
            /\ \A i \in DOMAIN words : i > 1 => words[i] \notin TkFirsts
            /\ TkWrite(Append(words, last), colon, gap)
    \/ TkRead
    \/ \E k \in 2..TkEntries, j \in 0..TkEntries :
        \E items \in [1..k -> TkItems], extras \in [1..j -> TkKeys] : LcBegin(items, extras)
    \/ LcTurn
TokensSpec == TokensInit /\ [][TokensNext]_tk_vars

-----------------------------------------------------------------------------
TokensTypeOK ==
    /\ tk_got \in Seq(TkText) /\ tk_over \in BOOLEAN /\ lc_max \in 0..TkMaxTargets
    /\ tk_stream.n \in 1..Len(tk_stream.text) + 1

\* A line that ends in a colon which does not begin a parameter is read with one more, empty, parameter.
TkColonTail == ~tk_line.colon /\ Last(Last(tk_line.params)) = ":"
\* What is read of a line is what was written, whatever the gaps, the colons within words and the spaces
\* in the last parameter (tokenstream::GetToken).
TkTokens ==
    tk_line.params # <<>> =>
        LET written == IF TkColonTail THEN Append(tk_line.params, <<>>) ELSE tk_line.params
        IN IsPrefix(tk_got, written) /\ (tk_over => tk_got = written)

LcFirst(item) == LET at == {i \in DOMAIN lc_lists.items : lc_lists.items[i] = item} IN CHOOSE i \in at : \A j \in at : i <= j
LcDistinct == \A i, j \in DOMAIN lc_lists.items : TkSame(lc_lists.items[i], lc_lists.items[j]) => i = j
\* No target is handled twice under one of its spellings, nor more of them than are allowed (LoopCall).
LcOnce ==
    /\ Len(lc_calls) <= TkMaxTargets
    /\ \A i, j \in DOMAIN lc_calls : TkSame(lc_calls[i].item, lc_calls[j].item) => i = j
\* A channel is joined with the key that stands at its own place in the list of keys, also after an empty
\* key; after a channel that was named twice this is no longer so (LoopCall).
LcOwnKey ==
    LcDistinct => \A c \in DOMAIN lc_calls :
        LET i == LcFirst(lc_calls[c].item)
        IN lc_calls[c].extra = IF i \in DOMAIN lc_lists.extras THEN lc_lists.extras[i] ELSE <<>>

-----------------------------------------------------------------------------
(* irc::modestacker: mode changes are pushed one at a time and come out as *)
(* lines that a MODE command can carry. Every list mode that is removed,   *)
(* every FJOIN and every unloaded module that had modes goes through one.  *)

CONSTANTS
    MkLetters,     \* mode letters that are pushed
    MkLengths,     \* lengths of their parameters; 0 for a letter without one
    MkMost,        \* bound: changes pushed
    MkMaxModes,    \* MAXMODES
    MkMaxLine      \* max_line_size

ASSUME ModeStackOK == MkLengths \subseteq Nat /\ MkMaxModes \in Nat /\ MkMaxLine \in Nat

VARIABLES
    mk_sequence,   \* what waits, in order: [letter, length]
    mk_pushed,     \* history: everything that was pushed
    mk_lines,      \* the lines taken, as sequences of changes
    mk_drained     \* GetStackedLine has returned 0: the caller stops asking
mk_vars == <<mk_sequence, mk_pushed, mk_lines, mk_drained>>

MkChange == [letter : MkLetters, length : MkLengths]
ModeStackTypeOK == mk_sequence \in Seq(MkChange) /\ mk_lines \in Seq(Seq(MkChange)) /\ mk_drained \in BOOLEAN
ModeStackInit == mk_sequence = <<>> /\ mk_pushed = <<>> /\ mk_lines = <<>> /\ mk_drained = FALSE

MkPush(change) ==
    /\ mk_lines = <<>> /\ ~mk_drained /\ Len(mk_pushed) < MkMost
    /\ mk_sequence' = Append(mk_sequence, change) /\ mk_pushed' = Append(mk_pushed, change)
    /\ UNCHANGED <<mk_lines, mk_drained>>

MkParams(changes) == SelectSeq(changes, LAMBDA c : c.length > 0)
\* The size GetStackedLine reckons with: the sign, and each parameter with its letter and a space.
MkSize(changes) == FoldLeft(LAMBDA n, c : n + c.length + 2, 1, MkParams(changes))
\* The loop goes on after k changes: there is room for one more element, and the next one still fits.
MkGoesOn(k) ==
    /\ k < Len(mk_sequence) /\ 1 + Len(MkParams(SubSeq(mk_sequence, 1, k))) < MkMaxModes
    /\ MkSize(SubSeq(mk_sequence, 1, k)) + mk_sequence[k + 1].length + 2 < MkMaxLine
MkTaken == CHOOSE k \in 0..Len(mk_sequence) : ~MkGoesOn(k) /\ \A j \in 0..k - 1 : MkGoesOn(j)
\* GetStackedLine, once; the callers loop until it returns 0.
MkGetStackedLine ==
    /\ mk_pushed # <<>> /\ ~mk_drained
    /\ LET k == MkTaken IN
        /\ mk_sequence' = SubSeq(mk_sequence, k + 1, Len(mk_sequence))
        /\ mk_lines' = IF k = 0 THEN mk_lines ELSE Append(mk_lines, SubSeq(mk_sequence, 1, k))
        /\ mk_drained' = (k = 0)
    /\ UNCHANGED mk_pushed

ModeStackNext == (\E c \in MkChange : MkPush(c)) \/ MkGetStackedLine
ModeStackSpec == ModeStackInit /\ [][ModeStackNext]_mk_vars

-----------------------------------------------------------------------------
\* A parameter no line can carry: it, and everything pushed after it, is never sent.
MkTooLong(c) == c.length + 3 >= MkMaxLine
\* The lines carry every change that was pushed, once and in order, up to the first that no line can carry
\* (modestacker::GetStackedLine as its callers loop over it).
MkAllSent ==
    LET sent == FlattenSeq(mk_lines)
        bad == {i \in DOMAIN mk_pushed : MkTooLong(mk_pushed[i])}
    IN /\ IsPrefix(sent, mk_pushed)
       /\ mk_drained => IF bad = {} THEN sent = mk_pushed
                        ELSE Len(sent) = (CHOOSE i \in bad : \A j \in bad : i <= j) - 1
\* A line fits what its reader can take: the callers copy it into an array of MAXMODES + 2 (MAXMODES elements,
\* one of them the letters), and it exceeds the size limit by the letters without a parameter at most.
MkFits ==
    \A i \in DOMAIN mk_lines :
        LET params == MkParams(mk_lines[i]) IN
        /\ 1 + Len(params) <= MkMaxModes
        /\ FoldLeft(LAMBDA n, c : n + c.length + 1, 1 + Len(mk_lines[i]), params)
             < MkMaxLine + (Len(mk_lines[i]) - Len(params))

-----------------------------------------------------------------------------
(* Numbers out of texts: the port ranges of <bind>, <link> and WHO p, read *)
(* by irc::portparser, and durations such as 1h30m, read by                *)
(* InspIRCd::Duration. An element of a port list is a pair of numbers, 0   *)
(* for a side that is missing or is no number; a duration is a sequence of *)
(* digits and letters.                                                     *)

CONSTANTS
    PpPorts,       \* numbers that occur in a port list
    PpElements,    \* bound: elements in a list
    PpTop,         \* 65535, the largest port of a range
    DuLetters,     \* letters of a duration and others
    DuMulti,       \* duration_multi for them
    DuDigits,
    DuLength       \* bound: characters in a duration

ASSUME RangesOK ==
    /\ PpPorts \subseteq Nat /\ PpTop \in Nat /\ DuDigits \subseteq 0..9
    /\ DuMulti \in [DuLetters -> Nat]

VARIABLES
    pp_list,       \* the elements the text is made of: [from, to, dash]
    pp_sep,        \* elements the separator stream has not given yet
    pp_range,      \* in_range and range_end
    pp_got,        \* ports returned
    pp_over,       \* 0 was returned
    du_text, du_value
pp_state == <<pp_sep, pp_range, pp_got, pp_over>>
rg_vars == <<pp_list, pp_state, du_text, du_value>>

PpElement == {e \in [from : PpPorts, to : PpPorts, dash : BOOLEAN] : e.dash \/ e.to = 0}
DuChars == DuDigits \cup DuLetters
RangesTypeOK ==
    /\ pp_got \in Seq(1..PpTop + 1) /\ pp_over \in BOOLEAN
    /\ pp_sep \in Seq(PpElement) /\ du_text \in Seq(DuChars) /\ du_value \in Nat

PpNoRange == [in |-> 0, end |-> 0]
RangesInit ==
    /\ pp_list = <<>> /\ pp_sep = <<>> /\ pp_range = PpNoRange /\ pp_got = <<>> /\ pp_over = FALSE
    /\ du_text = <<>> /\ du_value = 0
RgIdle == pp_list = <<>> /\ du_text = <<>>

\* All callers pass false for allow_overlapped, with which Overlaps never says yes.
PpOpen(list) ==
    /\ RgIdle /\ list # <<>> /\ pp_list' = list /\ pp_sep' = list
    /\ UNCHANGED <<pp_range, pp_got, pp_over, du_text, du_value>>

PpLegal(e) == e.dash /\ e.from > 0 /\ e.to > 0 /\ e.from <= PpTop /\ e.to <= PpTop /\ e.from < e.to
\* GetToken within a range: the next port
PpMore == pp_range.in > 0 /\ pp_range.in + 1 <= pp_range.end
PpNextInRange ==
    /\ ~pp_over /\ PpMore
    /\ pp_range' = [pp_range EXCEPT !.in = @ + 1] /\ pp_got' = Append(pp_got, pp_range.in + 1)
    /\ UNCHANGED <<pp_list, pp_sep, pp_over, du_text, du_value>>
\* GetToken where no range is open: the next element. A missing one, and a number of 0, end the list.
PpEnds == pp_sep = <<>> \/ (pp_sep # <<>> /\ Head(pp_sep).from = 0)
PpNextElement ==
    /\ pp_list # <<>> /\ ~pp_over /\ ~PpMore
    /\ IF PpEnds THEN pp_over' = TRUE /\ pp_range' = PpNoRange /\ UNCHANGED <<pp_sep, pp_got>>
       ELSE LET e == Head(pp_sep) IN
            /\ pp_sep' = Tail(pp_sep) /\ pp_got' = Append(pp_got, e.from)
            /\ pp_range' = IF PpLegal(e) THEN [in |-> e.from, end |-> e.to] ELSE PpNoRange
            /\ pp_over' = FALSE
    /\ UNCHANGED <<pp_list, du_text, du_value>>

-----------------------------------------------------------------------------
\* InspIRCd::Duration: from the right, numbers are collected until the letter before them is met.
DuStep(c, s) ==
    IF c \in DuDigits THEN [s EXCEPT !.sub = @ + c * s.times, !.times = @ * 10]
    ELSE [total |-> s.total + s.sub * s.multi, sub |-> 0, times |-> 1, multi |-> DuMulti[c]]
Duration(text) ==
    LET end == FoldRight(DuStep, text, [total |-> 0, sub |-> 0, times |-> 1, multi |-> 1])
    IN end.total + end.sub * end.multi
DuRead(text) ==
    /\ RgIdle /\ text # <<>> /\ du_text' = text /\ du_value' = Duration(text)
    /\ UNCHANGED <<pp_list, pp_state>>

RangesNext ==
    \/ \E k \in 1..PpElements : \E list \in [1..k -> PpElement] : PpOpen(list)
    \/ PpNextInRange
    \/ PpNextElement
    \/ \E k \in 1..DuLength : \E text \in [1..k -> DuChars] : DuRead(text)
RangesSpec == RangesInit /\ [][RangesNext]_rg_vars

-----------------------------------------------------------------------------
\* What a list of ports says: a legal range is each of its ports, another pair is its first number, and the
\* list ends at an element without one (the comment of class portparser).
PpMeant ==
    LET ends == {i \in DOMAIN pp_list : pp_list[i].from = 0}
        upto == IF ends = {} THEN Len(pp_list) ELSE (CHOOSE i \in ends : \A j \in ends : i <= j) - 1
    IN FlattenSeq([i \in 1..upto |->
            LET e == pp_list[i]
            IN IF e.dash /\ e.from \in 1..PpTop /\ e.to \in 1..PpTop /\ e.from < e.to
               THEN [k \in 1..e.to - e.from + 1 |-> e.from + k - 1] ELSE <<e.from>>])
\* Every port the list names is bound, and no other (portparser::GetToken, as its callers loop over it).
PpAllPorts == pp_list # <<>> => LET meant == PpMeant IN IsPrefix(pp_got, meant) /\ (pp_over => pp_got = meant)

\* A duration is the sum of its numbers, each times the letter right after it (InspIRCd::Duration).
DuRunStart(i) == du_text[i] \in DuDigits /\ (i = 1 \/ du_text[i - 1] \notin DuDigits)
DuRunEnd(i) == CHOOSE j \in i..Len(du_text) : /\ \A k \in i..j : du_text[k] \in DuDigits
                                              /\ j = Len(du_text) \/ du_text[j + 1] \notin DuDigits
DuRun(i) ==
    LET j == DuRunEnd(i)
    IN FoldLeft(LAMBDA n, d : 10 * n + d, 0, SubSeq(du_text, i, j))
         * (IF j = Len(du_text) THEN 1 ELSE DuMulti[du_text[j + 1]])
DuSums ==
    du_value = FoldLeft(LAMBDA n, i : IF DuRunStart(i) THEN n + DuRun(i) ELSE n, 0, [i \in DOMAIN du_text |-> i])

-----------------------------------------------------------------------------
(* How names are compared. Glob masks, by the loop of csmatch and match,   *)
(* one turn of it a step; addresses with a number of bits, by MatchCIDR;   *)
(* and the comparison and hash that make two spellings of a nickname one   *)
(* key of the tables of clients and channels. Characters are their codes.  *)

CONSTANTS
    MsChars,       \* characters of a text
    MsFold,        \* lowermap, for them and the two characters of masks
    MsTexts, MsMasks,             \* texts and masks that are compared
    MsNames,       \* names that are compared with each other
    CiWidth,       \* bits in a byte
    CiBytes,       \* bytes in an address of each family: v4, v6
    CiIp6,         \* SUPPORT_IP6LINKS
    CiQuestions    \* <<address, mask>>; the bits as atoi reads them into an unsigned, -1 if there is no slash

Star == 42
Question == 63
ASSUME MasksOK ==
    /\ MsChars \subseteq Nat \ {0, Star, Question} /\ MsFold \in [MsChars \cup {0, Star, Question} -> Nat]
    /\ CiWidth \in Nat \ {0} /\ CiBytes.v4 \in Nat /\ CiBytes.v6 \in Nat /\ CiIp6 \in BOOLEAN

VARIABLES
    ms_ask,        \* the text, the mask, and whether case matters
    ms_at,         \* string, wild, cp and mp, as positions
    ms_phase,      \* which of the three loops runs
    ms_result,
    ci_ask, ci_result,
    cm_pair
ms_match == <<ms_ask, ms_at, ms_phase, ms_result>>
ms_vars == <<ms_match, ci_ask, ci_result, cm_pair>>

CharAt(text, i) == IF i \in DOMAIN text THEN text[i] ELSE 0
MsNoAsk == [text |-> <<>>, mask |-> <<>>, cs |-> FALSE]
CiNoAsk == [with |-> FALSE, address |-> <<>>, mask |-> <<>>]
MasksInit ==
    /\ ms_ask = MsNoAsk /\ ms_at = [string |-> 1, wild |-> 1, cp |-> 0, mp |-> 0]
    /\ ms_phase = "idle" /\ ms_result = FALSE
    /\ ci_ask = CiNoAsk /\ ci_result = FALSE /\ cm_pair = <<>>
MsIdle == ms_phase = "idle" /\ ci_ask = CiNoAsk /\ cm_pair = <<>>

-----------------------------------------------------------------------------
\* csmatch(string, mask) and match(string, mask)
MsBegin(text, mask, cs) ==
    /\ MsIdle /\ ms_ask' = [text |-> text, mask |-> mask, cs |-> cs] /\ ms_phase' = "front"
    /\ UNCHANGED <<ms_at, ms_result, ci_ask, ci_result, cm_pair>>
MsString == CharAt(ms_ask.text, ms_at.string)
MsWild == CharAt(ms_ask.mask, ms_at.wild)
MsSame == MsWild = Question \/ IF ms_ask.cs THEN MsWild = MsString ELSE MsFold[MsWild] = MsFold[MsString]
MsAnswer(result) == ms_phase' = "done" /\ ms_result' = result /\ UNCHANGED ms_at
MsStay(at) == ms_at' = at /\ UNCHANGED <<ms_phase, ms_result>>
MsLeave(phase) == ms_phase' = phase /\ UNCHANGED <<ms_at, ms_result>>
MsBoth == [ms_at EXCEPT !.string = @ + 1, !.wild = @ + 1]
\* Up to the first star, the text has to agree with the mask.
MsFront ==
    /\ ms_phase = "front" /\ UNCHANGED <<ms_ask, ci_ask, ci_result, cm_pair>>
    /\ IF MsString = 0 \/ MsWild = Star THEN MsLeave("loop")
       ELSE IF MsSame THEN MsStay(MsBoth) ELSE MsAnswer(FALSE)
\* A star remembers where it stood; a mismatch returns there, one character of the text further.
MsLoop_stuck ==  \* mutant: the place in the text to return to does not move
    /\ ms_phase = "loop" /\ UNCHANGED <<ms_ask, ci_ask, ci_result, cm_pair>>
    /\ IF MsString = 0 THEN MsLeave("tail")
       ELSE IF MsWild = Star
       THEN IF CharAt(ms_ask.mask, ms_at.wild + 1) = 0 THEN MsAnswer(TRUE)
            ELSE MsStay([ms_at EXCEPT !.wild = @ + 1, !.mp = ms_at.wild + 1, !.cp = ms_at.string + 2])
       ELSE IF MsSame THEN MsStay(MsBoth)
       ELSE MsStay([ms_at EXCEPT !.wild = ms_at.mp, !.string = ms_at.cp, !.cp = @ + 1])
MsLoop ==
    /\ ms_phase = "loop" /\ UNCHANGED <<ms_ask, ci_ask, ci_result, cm_pair>>
    /\ IF MsString = 0 THEN MsLeave("tail")
       ELSE IF MsWild = Star
       THEN IF CharAt(ms_ask.mask, ms_at.wild + 1) = 0 THEN MsAnswer(TRUE)
            ELSE MsStay([ms_at EXCEPT !.wild = @ + 1, !.mp = ms_at.wild + 1, !.cp = ms_at.string + 1])
       ELSE IF MsSame THEN MsStay(MsBoth)
       ELSE MsStay([ms_at EXCEPT !.wild = ms_at.mp, !.string = ms_at.cp, !.cp = @ + 1])
\* The stars that are left match nothing.
MsTail ==
    /\ ms_phase = "tail" /\ UNCHANGED <<ms_ask, ci_ask, ci_result, cm_pair>>
    /\ IF MsWild = Star THEN MsStay([ms_at EXCEPT !.wild = @ + 1]) ELSE MsAnswer(MsWild = 0)

\* What a mask means, without a loop that goes back.
MsFits(text, mask, cs) ==
    LET fits[i \in 1..Len(text) + 1, j \in 1..Len(mask) + 1] ==
            IF j > Len(mask) THEN i > Len(text)
            ELSE IF mask[j] = Star THEN fits[i, j + 1] \/ (i <= Len(text) /\ fits[i + 1, j])
            ELSE /\ i <= Len(text) /\ fits[i + 1, j + 1]
                 /\ mask[j] = Question \/ IF cs THEN mask[j] = text[i] ELSE MsFold[mask[j]] = MsFold[text[i]]
    IN fits[1, 1]

-----------------------------------------------------------------------------
\* An address or a mask as MatchCIDR takes it apart: what stands before the last @ (no: there is none), a host of
\* one of the families or a name, and for a mask the bits (none: there is no slash).
CiUserFits(user, mask) == mask = "any" \/ mask = user
\* inverted_bits: the top m bits of a byte
CiTop(byte, m) == byte - (byte % (2^(CiWidth - m)))
\* MatchCIDRBits
CiBitsMatch(address, mask, bits) ==
    LET divisor == bits \div CiWidth  modulus == bits % CiWidth
    IN /\ SubSeq(address, 1, divisor) = SubSeq(mask, 1, divisor)
       /\ modulus > 0 => CiTop(address[divisor + 1], modulus) = CiTop(mask[divisor + 1], modulus)
\* MatchCIDR(address, cidr_mask, match_with_username)
MatchCIDR(with, address, mask) ==
    /\ IF with /\ address.user # "no" /\ mask.user # "no" THEN CiUserFits(address.user, mask.user)
       ELSE address.user = "no" /\ mask.user = "no"
    /\ mask.bits # -1
    /\ address.host.family \in (IF CiIp6 THEN {"v4", "v6"} ELSE {"v4"}) /\ mask.host.family = address.host.family
    /\ LET most == CiWidth * CiBytes[address.host.family]
       IN CiBitsMatch(address.host.bytes, mask.host.bytes, IF mask.bits > most THEN most ELSE mask.bits)
CiAsk(with, address, mask) ==
    /\ MsIdle /\ ci_ask' = [with |-> with, address |-> address, mask |-> mask]
    /\ ci_result' = MatchCIDR(with, address, mask)
    /\ UNCHANGED <<ms_match, cm_pair>>

-----------------------------------------------------------------------------
\* irc_char_traits::compare over the shorter length, then the lengths, as basic_string does it
CmCompare(s, t) ==
    LET both == {i \in 1..(IF Len(s) < Len(t) THEN Len(s) ELSE Len(t)) : MsFold[s[i]] # MsFold[t[i]]}
        first == CHOOSE i \in both : \A j \in both : i <= j
    IN IF both = {} THEN Len(s) - Len(t) ELSE IF MsFold[s[first]] > MsFold[t[first]] THEN 1 ELSE -1
\* StrHashComp: both walked until one of them ends, where both have to.
CmEqual(s, t) == \A i \in 1..(IF Len(s) < Len(t) THEN Len(s) ELSE Len(t)) + 1 : MsFold[CharAt(s, i)] = MsFold[CharAt(t, i)]
\* hash<std::string> and hash<irc::string>
CmHash(s) == FoldLeft(LAMBDA h, c : (5 * h + MsFold[c]) % 65536, 0, s)
CmAsk(s, t, u) == MsIdle /\ cm_pair' = <<s, t, u>> /\ UNCHANGED <<ms_match, ci_ask, ci_result>>

MasksNext ==
    \/ \E text \in MsTexts, mask \in MsMasks, cs \in BOOLEAN : MsBegin(text, mask, cs)
    \/ MsFront \/ MsLoop \/ MsTail
    \/ \E with \in BOOLEAN, q \in CiQuestions : CiAsk(with, q[1], q[2])
    \/ \E s, t, u \in MsNames : CmAsk(s, t, u)
MasksSpec == MasksInit /\ [][MasksNext]_ms_vars

-----------------------------------------------------------------------------
MasksTypeOK ==
    /\ ms_phase \in {"idle", "front", "loop", "tail", "done"} /\ ms_result \in BOOLEAN /\ ci_result \in BOOLEAN
    /\ ms_at.string \in 1..Len(ms_ask.text) + 2 /\ ms_at.wild \in 0..Len(ms_ask.mask) + 1

\* The loop of match and csmatch answers what the mask means, and never goes back to a star it has not seen.
MsAgrees ==
    /\ ms_phase = "done" => (ms_result <=> MsFits(ms_ask.text, ms_ask.mask, ms_ask.cs))
    /\ ms_phase = "loop" /\ MsString # 0 /\ MsWild # Star => ms_at.mp > 0
\* MatchCIDR says yes exactly where the users fit and the addresses, as numbers, are equal from that bit on upwards.
CiNumber(bytes) == FoldLeft(LAMBDA n, b : n * 2^CiWidth + b, 0, bytes)
CiSameNet ==
    ci_ask # CiNoAsk =>
        LET a == ci_ask.address  m == ci_ask.mask
            most == CiWidth * Len(a.host.bytes)
            shift == IF m.bits > most THEN 0 ELSE most - m.bits
        IN ci_result <=>
             /\ m.bits >= 0 /\ a.host.family = m.host.family /\ a.host.family # "name"
             /\ a.host.family = "v6" => CiIp6
             /\ (a.user = "no") <=> (m.user = "no")
             /\ m.user # "no" => ci_ask.with /\ m.user \in {"any", a.user}
             /\ CiNumber(a.host.bytes) \div 2^shift = CiNumber(m.host.bytes) \div 2^shift
\* Spellings that the comparison calls equal are one key: equal for the hash table and with one hash; and the
\* comparison orders the keys of the maps by name.
CmOneKey ==
    cm_pair # <<>> =>
        LET s == cm_pair[1]  t == cm_pair[2]  u == cm_pair[3] IN
        /\ (CmCompare(s, t) = 0) <=> CmEqual(s, t)
        /\ CmEqual(s, t) => CmHash(s) = CmHash(t)
        /\ CmCompare(s, t) > 0 <=> CmCompare(t, s) < 0
        /\ CmCompare(s, t) <= 0 /\ CmCompare(t, u) <= 0 => CmCompare(s, u) <= 0

-----------------------------------------------------------------------------
(* The characters of a configuration file: ServerConfig::LoadConf, which   *)
(* cuts a file into tags, ParseLine, which cuts a tag into keys and        *)
(* values, and ConfValue, which looks a value up. A text is a sequence of  *)
(* one-character strings; "nl" is a line feed, "tab" a tabulator.          *)

CONSTANTS
    TxKeys,      \* names of tags and keys, as sequences of characters
    TxValues,    \* values
    TxComments   \* texts of comments, without the line feed that ends them

\* A tag as an administrator writes it: its name and the sequence of <<key, value>>.
TxTags ==
    {[name |-> n, items |-> <<<<k, v>>>>] : n \in TxKeys, k \in TxKeys, v \in TxValues}
        \cup {[name |-> n, items |-> <<<<n, v>>, <<k, v>>>>] : <<n, k>> \in {p \in TxKeys \X TxKeys : p[1] # p[2]}, v \in TxValues}

VARIABLES
    tx_written,  \* the tags the administrator means
    tx_text,     \* the file
    tx_read,     \* the tags ParseLine has put into the hash
    tx_answers   \* what ConfValue has said of the first value of the first tag, each time

tx_vars == <<tx_written, tx_text, tx_read, tx_answers>>

-----------------------------------------------------------------------------
(* The text an administrator writes for a tag. Line feeds in a value may be escaped or not. *)

TxEscape(c, lf) ==
    IF c = "\"" \/ c = "\\" THEN <<"\\", c>> ELSE IF c = "nl" /\ lf THEN <<"\\", "n">> ELSE <<c>>
TxQuoted(v, lf) == <<"\"">> \o FlattenSeq([i \in DOMAIN v |-> TxEscape(v[i], lf)]) \o <<"\"">>
TxWriteTag(t, lf) ==
    <<"<">> \o t.name \o FlattenSeq([i \in DOMAIN t.items |->
        <<" ">> \o t.items[i][1] \o <<"=">> \o TxQuoted(t.items[i][2], lf)]) \o <<">">>
TxWrite(ts, lf) == FlattenSeq([i \in DOMAIN ts |-> TxWriteTag(ts[i], lf) \o <<"nl">>])

-----------------------------------------------------------------------------
(* LoadConf: what is outside a tag is kept with the tag that follows. *)

TxStart == [line |-> <<>>, tag |-> FALSE, quote |-> FALSE, comment |-> FALSE, escaped |-> FALSE,
            lines |-> <<>>, ok |-> TRUE]

TxBracket(s, c) ==
    IF c = "<" THEN IF s.tag = s.quote THEN [s EXCEPT !.tag = TRUE] ELSE [s EXCEPT !.ok = FALSE]
    ELSE IF c = "\"" THEN [s EXCEPT !.quote = IF s.tag THEN ~@ ELSE @]
    ELSE IF c # ">" \/ s.quote THEN s
    ELSE IF s.tag THEN [s EXCEPT !.tag = FALSE, !.lines = Append(@, s.line), !.line = <<>>]
    ELSE [s EXCEPT !.ok = FALSE]

TxEscaped(s, c) == [s EXCEPT !.line = Append(@, IF c = "n" THEN "nl" ELSE c), !.escaped = FALSE]
TxComment(s, c) == [s EXCEPT !.comment = TRUE]
TxChar(s, ch) ==
    LET c == IF ch = "tab" THEN " " ELSE ch
        comment == s.comment \/ (c = "#" /\ ~s.quote)
    IN IF ~s.ok THEN s
       ELSE IF s.escaped THEN TxEscaped(s, ch)
       ELSE IF c = "nl" THEN [s EXCEPT !.line = IF s.quote THEN Append(@, c) ELSE @,
                                       !.comment = IF s.quote THEN comment ELSE FALSE]
       ELSE IF comment THEN TxComment(s, c)
       ELSE IF c = "\\" /\ s.quote /\ s.tag THEN [s EXCEPT !.line = Append(@, c), !.escaped = TRUE]
       ELSE TxBracket([s EXCEPT !.line = Append(@, c)], c)
\* The end of the file is refused after a backslash; a tag it leaves open is forgotten.
TxLoadConf(text) ==
    LET s == FoldLeft(TxChar, TxStart, text) IN [lines |-> s.lines, ok |-> s.ok /\ ~s.escaped]

-----------------------------------------------------------------------------
(* ParseLine *)

TxLine == [name |-> <<>>, named |-> FALSE, key |-> <<>>, keyed |-> FALSE, value |-> <<>>,
           quote |-> FALSE, escaped |-> FALSE, items |-> <<>>]

TxNameChar(s, c) ==
    IF c = " " THEN [s EXCEPT !.named = s.name # <<>>]
    ELSE IF c = "<" THEN s ELSE [s EXCEPT !.name = Append(@, c)]
TxKeyChar(s, c) ==
    IF c = "=" THEN [s EXCEPT !.keyed = TRUE] ELSE IF c = " " THEN s ELSE [s EXCEPT !.key = Append(@, c)]
TxValueChar(s, c) ==
    IF s.escaped THEN [s EXCEPT !.value = Append(@, IF c = "n" THEN "nl" ELSE c), !.escaped = FALSE]
    ELSE IF c = "\\" /\ s.quote THEN [s EXCEPT !.escaped = TRUE]
    ELSE IF c # "\"" THEN [s EXCEPT !.value = IF s.quote THEN Append(@, c) ELSE @]
    ELSE IF ~s.quote THEN [s EXCEPT !.quote = TRUE]
    ELSE [s EXCEPT !.items = Append(@, <<s.key, s.value>>), !.quote = FALSE, !.keyed = FALSE,
                   !.key = <<>>, !.value = <<>>]
TxLineChar(s, c) ==
    IF ~s.named THEN TxNameChar(s, c) ELSE IF ~s.keyed THEN TxKeyChar(s, c) ELSE TxValueChar(s, c)

TxParseLine(line) ==
    LET s == FoldLeft(TxLineChar, TxLine, line) IN [name |-> s.name, items |-> s.items]

\* Each tag goes into the hash under its name.
TxParse(text) ==
    LET load == TxLoadConf(text)
    IN [ok |-> load.ok, tags |-> [i \in DOMAIN load.lines |-> TxParseLine(load.lines[i])]]

\* ConfValue: a value with a line feed where none is allowed has it replaced in the hash,
\* and is not returned this time.
TxPlain(v) == [j \in DOMAIN v |-> IF v[j] = "nl" THEN " " ELSE v[j]]
TxStripped(items, i, plain) == [items EXCEPT ![i][2] = plain]
TxConfValue(items, key) ==
    LET i == SelectInSeq(items, LAMBDA x : x[1] = key)
        plain == TxPlain(items[i][2])
    IN IF i = 0 THEN [answer |-> <<"default">>, items |-> items]
       ELSE IF Contains(items[i][2], "nl") THEN [answer |-> <<"default">>, items |-> TxStripped(items, i, plain)]
       ELSE [answer |-> items[i][2], items |-> items]

-----------------------------------------------------------------------------
(* Actions *)

ConfigTextInit ==
    /\ \E t \in TxTags : tx_written = <<t, t>>
    /\ \E lf \in BOOLEAN : tx_text = TxWrite(tx_written, lf)
    /\ tx_read = [ok |-> FALSE, tags |-> <<>>] /\ tx_answers = <<>>

\* The administrator puts a comment anywhere but inside a value.
TxQuotedAt(i) == FoldLeft(TxChar, TxStart, SubSeq(tx_text, 1, i)).quote
TxAnnotate ==
    /\ tx_read.tags = <<>> /\ tx_text = TxWrite(tx_written, TRUE)
    /\ \E i \in 0 .. Len(tx_text), c \in TxComments :
          /\ ~TxQuotedAt(i)
          /\ tx_text' = SubSeq(tx_text, 1, i) \o <<"#">> \o c \o <<"nl">>
                            \o SubSeq(tx_text, i + 1, Len(tx_text))
    /\ UNCHANGED <<tx_written, tx_read, tx_answers>>

TxLoad ==
    /\ tx_read.tags = <<>> /\ tx_read' = TxParse(tx_text)
    /\ UNCHANGED <<tx_written, tx_text, tx_answers>>

TxAsk ==
    /\ tx_read.tags # <<>> /\ Len(tx_answers) < 2
    /\ LET r == TxConfValue(tx_read.tags[1].items, tx_written[1].items[1][1])
       IN /\ tx_answers' = Append(tx_answers, r.answer)
          /\ tx_read' = [tx_read EXCEPT !.tags[1].items = r.items]
    /\ UNCHANGED <<tx_written, tx_text>>

ConfigTextNext == TxAnnotate \/ TxLoad \/ TxAsk
ConfigTextSpec == ConfigTextInit /\ [][ConfigTextNext]_tx_vars

-----------------------------------------------------------------------------
(* Properties *)

\* What was written is what is read, although LoadConf and ParseLine both undo the same
\* escapes: quotes, backslashes, brackets, '#' and line feeds, escaped or not, arrive in
\* the value, and comments, whatever is in them and wherever they stand outside a value,
\* change nothing.
TxRoundTrip == tx_read.tags # <<>> /\ tx_answers = <<>> => tx_read = [ok |-> TRUE, tags |-> tx_written]

\* A value that is asked for is the value in the file or, when it has a line feed, not
\* given the first time and given without it from then on.
TxAnswered ==
    \A i \in DOMAIN tx_answers :
        LET v == tx_written[1].items[1][2]
            plain == TxPlain(v)
        IN tx_answers[i] = IF v = plain \/ i > 1 THEN plain ELSE <<"default">>
=============================================================================

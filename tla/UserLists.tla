------------------------------ MODULE UserLists ------------------------------
(***************************************************************************)
(* Three feature modules that keep a list for each client: whom he waits   *)
(* for (m_watch), from whom he takes files (m_dccallow), from whom he does *)
(* not want to hear (m_silence_ext). Each has its own state and            *)
(* specification.                                                          *)
(***************************************************************************)
EXTENDS Naturals, Sequences, FiniteSets, SequencesExt, Functions

-----------------------------------------------------------------------------
(* m_watch: every client keeps a list of nicknames with their status, and  *)
(* whos_watching_me keeps, for each nickname, the clients to be told. The  *)
(* two are updated by hand on every WATCH, nickname change, connect and    *)
(* quit.                                                                   *)

CONSTANTS
    WtUsers, WtNicks,
    WtMax           \* <watch:maxentries>

ASSUME WatchOK == WtMax \in Nat \ {0} /\ "" \notin WtNicks

VARIABLES
    wt_nick,    \* the nickname of a client, "" when he is not on the network
    wt_reg,     \* registered clients
    wt_list,    \* watchlist of a client: nickname -> status; none is the same as empty
    wt_index,   \* whos_watching_me: nickname -> clients
    wt_dropped  \* <<client, nickname>> that an erase of another entry took out of the index

wt_vars == <<wt_nick, wt_reg, wt_list, wt_index, wt_dropped>>

WtLists == UNION {[D -> {"on", "off"}] : D \in SUBSET WtNicks}
WatchTypeOK ==
    /\ wt_nick \in [WtUsers -> WtNicks \cup {""}]
    /\ wt_reg \subseteq {u \in WtUsers : wt_nick[u] # ""}
    /\ wt_list \in [WtUsers -> WtLists]
    /\ DOMAIN wt_index \subseteq WtNicks /\ \A n \in DOMAIN wt_index : wt_index[n] \in Seq(WtUsers)
    /\ wt_dropped \subseteq WtUsers \X WtNicks

WatchInit ==
    /\ wt_nick = [u \in WtUsers |-> ""] /\ wt_reg = {}
    /\ wt_list = [u \in WtUsers |-> <<>>] /\ wt_index = <<>> /\ wt_dropped = {}

-----------------------------------------------------------------------------
(* What the handlers do to the two tables *)

WtFree(n) == \A u \in WtUsers : wt_nick[u] # n
WtSet(f, n, x) == [m \in DOMAIN f \cup {n} |-> IF m = n THEN x ELSE f[m]]
WtWithout(f, n) == Restrict(f, DOMAIN f \ {n})
WtDropped(index) ==
    {p \in WtUsers \X WtNicks : p[2] \in DOMAIN wt_index \ DOMAIN index /\ p[1] \in Range(wt_index[p[2]])}

\* Everybody in the index of a nickname is told, and his list follows.
WtTell(lists, n, status) ==
    [u \in WtUsers |-> IF n \in DOMAIN wt_index /\ u \in Range(wt_index[n]) /\ lists[u] # <<>>
                       THEN WtSet(lists[u], n, status) ELSE lists[u]]

\* WATCH C and a quit take u out of the index of everything he watches; where an entry becomes
\* empty it is the entry of his own nickname that is erased.
WtUnwatch(u) ==
    LET left == [n \in DOMAIN wt_index |->
                    IF n \in DOMAIN wt_list[u] THEN RemoveFirst(wt_index[n], u) ELSE wt_index[n]]
    IN IF \E n \in DOMAIN wt_list[u] \cap DOMAIN left : left[n] = <<>>
       THEN WtWithout(left, wt_nick[u]) ELSE left

\* remove_watch
WtUnwatchOne(u, n) ==
    IF n \notin DOMAIN wt_index THEN wt_index
    ELSE LET left == RemoveFirst(wt_index[n], u)
         IN IF left = <<>> THEN WtWithout(wt_index, n) ELSE WtSet(wt_index, n, left)

-----------------------------------------------------------------------------
(* Actions *)

\* NICK before registration, which no hook is told of.
WtConnect(u, n) ==
    /\ u \notin wt_reg /\ WtFree(n)
    /\ wt_nick' = [wt_nick EXCEPT ![u] = n]
    /\ UNCHANGED <<wt_reg, wt_list, wt_index, wt_dropped>>
\* OnPostConnect
WtRegister(u) ==
    /\ wt_nick[u] # "" /\ u \notin wt_reg
    /\ wt_reg' = wt_reg \cup {u} /\ wt_list' = WtTell(wt_list, wt_nick[u], "on")
    /\ UNCHANGED <<wt_nick, wt_index, wt_dropped>>
\* OnUserPostNick, also for a change of case only: the new nickname first, then the old one.
WtRename(u, n) ==
    /\ (u \in wt_reg /\ WtFree(n)) \/ n = wt_nick[u]
    /\ wt_nick' = [wt_nick EXCEPT ![u] = n]
    /\ wt_list' = WtTell(WtTell(wt_list, n, "on"), wt_nick[u], "off")
    /\ UNCHANGED <<wt_reg, wt_index, wt_dropped>>
\* OnUserQuit, which is called for registered clients only
WtQuit(u) ==
    /\ wt_nick[u] # ""
    /\ wt_nick' = [wt_nick EXCEPT ![u] = ""] /\ wt_reg' = wt_reg \ {u}
    /\ IF u \in wt_reg
       THEN /\ wt_list' = [WtTell(wt_list, wt_nick[u], "off") EXCEPT ![u] = <<>>]
            /\ wt_index' = WtUnwatch(u)
            /\ wt_dropped' = {p \in wt_dropped \cup WtDropped(WtUnwatch(u)) : p[1] # u}
       ELSE UNCHANGED <<wt_list, wt_index, wt_dropped>>

\* seen: what the Visibility object of the one watched says.
WtAdd(u, n, seen) ==
    /\ u \in wt_reg /\ n \notin DOMAIN wt_list[u] /\ Cardinality(DOMAIN wt_list[u]) # WtMax
    /\ wt_index' = WtSet(wt_index, n, IF n \in DOMAIN wt_index THEN Append(wt_index[n], u) ELSE <<u>>)
    /\ wt_list' = [wt_list EXCEPT ![u] = WtSet(@, n, IF ~WtFree(n) /\ seen THEN "on" ELSE "off")]
    /\ UNCHANGED <<wt_nick, wt_reg, wt_dropped>>
WtRemove(u, n) ==
    /\ u \in wt_reg /\ wt_list[u] # <<>>
    /\ wt_list' = [wt_list EXCEPT ![u] = WtWithout(@, n)]
    /\ wt_index' = WtUnwatchOne(u, n) /\ wt_dropped' = wt_dropped \ {<<u, n>>}
    /\ UNCHANGED <<wt_nick, wt_reg>>
WtClear(u) ==
    /\ u \in wt_reg /\ wt_list[u] # <<>>
    /\ wt_list' = [wt_list EXCEPT ![u] = <<>>] /\ wt_index' = WtUnwatch(u)
    /\ wt_dropped' = {p \in wt_dropped \cup WtDropped(WtUnwatch(u)) : p[1] # u}
    /\ UNCHANGED <<wt_nick, wt_reg>>

WatchNext ==
    \E u \in WtUsers :
        \/ WtRegister(u) \/ WtQuit(u) \/ WtClear(u)
        \/ \E n \in WtNicks :
             \/ WtConnect(u, n) \/ WtRename(u, n) \/ WtRemove(u, n)
             \/ \E seen \in BOOLEAN : WtAdd(u, n, seen)
WatchSpec == WatchInit /\ [][WatchNext]_wt_vars

-----------------------------------------------------------------------------
(* Properties *)

\* The index holds pointers that are written to on every connect, quit and nickname change:
\* each belongs to a registered client who has that nickname on his list, and is there once.
WtIndexSound ==
    \A n \in DOMAIN wt_index :
        /\ IsInjective(wt_index[n])
        /\ \A u \in Range(wt_index[n]) : u \in wt_reg /\ n \in DOMAIN wt_list[u]

\* Whoever has a nickname on his list is told about it, unless a WATCH C or a quit of the one
\* who carried that nickname threw all its watchers out together with an empty entry.
WtIndexComplete ==
    \A u \in WtUsers : \A n \in DOMAIN wt_list[u] :
        (n \in DOMAIN wt_index /\ u \in Range(wt_index[n])) \/ <<u, n>> \in wt_dropped

-----------------------------------------------------------------------------
(* m_dccallow: a client names those who may send him files. An entry keeps *)
(* a nickname and a mask, not a client; ul lists the clients whose lists   *)
(* have to be searched when somebody leaves or an entry runs out.          *)

CONSTANTS
    DaUsers, DaNicks,
    DaHost,         \* ident@host of a client
    DaLengths,      \* how long an entry may be asked to last; 0: "for this session"
    DaMax           \* bound of this model: entries of one list

ASSUME DccAllowOK ==
    /\ "" \notin DaNicks /\ DOMAIN DaHost = DaUsers
    /\ DaLengths \subseteq Nat /\ DaMax \in Nat

VARIABLES
    da_nick,        \* nickname, "" when the client is not there
    da_reg,         \* registered clients
    da_list,        \* the clients who have a list, and its entries
    da_ul,          \* ul
    da_used         \* the entries that let the last DCC through

da_vars == <<da_nick, da_reg, da_list, da_ul, da_used>>

\* who, known: the client the entry was made for and whether he was registered; only the
\* properties read them. left: set_on + length - Time().
DaEntry(w, left) ==
    [nick |-> da_nick[w], host |-> DaHost[w], left |-> left, who |-> w, known |-> w \in da_reg]

DccAllowTypeOK ==
    /\ da_nick \in [DaUsers -> DaNicks \cup {""}] /\ da_reg \subseteq DaUsers
    /\ DOMAIN da_list \subseteq DaUsers /\ da_ul \in Seq(DaUsers)
    /\ \A u \in DOMAIN da_list : \A i \in DOMAIN da_list[u] :
          da_list[u][i].nick \in DaNicks /\ da_list[u][i].left \in Nat

DccAllowInit ==
    /\ da_nick = [u \in DaUsers |-> ""] /\ da_reg = {} /\ da_list = <<>> /\ da_ul = <<>> /\ da_used = {}

-----------------------------------------------------------------------------
(* The helpers of the module *)

DaFree(n) == \A u \in DaUsers : da_nick[u] # n
DaMatches(u, e) == da_nick[u] = e.nick /\ DaHost[u] = e.host

\* Only lists that ul leads to are reached, and each loses the first entry of that nickname.
DaRemoveNick(lists, nick) ==
    [u \in DOMAIN lists |->
        LET at == {i \in DOMAIN lists[u] : lists[u][i].nick = nick}
        IN IF u \in Range(da_ul) /\ at # {}
           THEN RemoveAt(lists[u], CHOOSE i \in at : \A j \in at : i <= j) ELSE lists[u]]

DaLasting(entries) ==
    LET kept[i \in 0 .. Len(entries)] ==
            IF i = 0 THEN <<>>
            ELSE IF entries[i].left > 0 THEN Append(kept[i - 1], entries[i]) ELSE kept[i - 1]
    IN kept[Len(entries)]
DaExpire ==
    [u \in DOMAIN da_list |-> IF u \in Range(da_ul) THEN DaLasting(da_list[u]) ELSE da_list[u]]

-----------------------------------------------------------------------------
(* Actions *)

\* NICK before registration
DaConnect(u, n) ==
    /\ u \notin da_reg /\ DaFree(n)
    /\ da_nick' = [da_nick EXCEPT ![u] = n] /\ UNCHANGED <<da_reg, da_list, da_ul, da_used>>
DaRegister(u) ==
    /\ da_nick[u] # "" /\ u \notin da_reg
    /\ da_reg' = da_reg \cup {u} /\ UNCHANGED <<da_nick, da_list, da_ul, da_used>>

\* OnUserPreNick takes the old nickname off every list, whether or not the change is then made.
DaRename_unheard(u, n, refused) ==  \* mutant: the lists are not told
    /\ u \in da_reg /\ DaFree(n)
    /\ da_nick' = IF refused THEN da_nick ELSE [da_nick EXCEPT ![u] = n]
    /\ UNCHANGED <<da_reg, da_list, da_ul, da_used>>
DaRename(u, n, refused) ==
    /\ u \in da_reg /\ DaFree(n)
    /\ da_list' = DaRemoveNick(da_list, da_nick[u])
    /\ da_nick' = IF refused THEN da_nick ELSE [da_nick EXCEPT ![u] = n]
    /\ UNCHANGED <<da_reg, da_ul, da_used>>

\* Modules hear of the quit of a registered client only.
DaQuit(u) ==
    /\ da_nick[u] # ""
    /\ da_nick' = [da_nick EXCEPT ![u] = ""] /\ da_reg' = da_reg \ {u}
    /\ IF u \in da_reg
       THEN /\ da_list' = DaRemoveNick(Restrict(da_list, DOMAIN da_list \ {u}), da_nick[u])
            /\ da_ul' = RemoveFirst(da_ul, u)
       ELSE UNCHANGED <<da_list, da_ul>>
    /\ UNCHANGED da_used

\* DCCALLOW +w: the list is made first, then the entry may be refused.
DaAdd(u, w, length) ==
    LET own == IF u \in DOMAIN da_list THEN da_list[u] ELSE <<>>
        refused == \E i \in DOMAIN own : own[i].nick = da_nick[w] \/ DaMatches(u, own[i])
    IN /\ u \in da_reg /\ da_nick[w] # "" /\ Len(own) < DaMax
       /\ da_ul' = IF u \in DOMAIN da_list THEN da_ul ELSE Append(da_ul, u)
       /\ da_list' = [v \in DOMAIN da_list \cup {u} |->
                        IF v # u THEN da_list[v]
                        ELSE IF refused THEN own ELSE Append(own, DaEntry(w, length))]
       /\ UNCHANGED <<da_nick, da_reg, da_used>>
\* DCCALLOW -w
DaDel(u, w) ==
    /\ u \in DOMAIN da_list /\ da_nick[w] # ""
    /\ LET at == {i \in DOMAIN da_list[u] : da_list[u][i].nick = da_nick[w]}
       IN da_list' = [da_list EXCEPT ![u] =
              IF at = {} THEN @ ELSE RemoveAt(@, CHOOSE i \in at : \A j \in at : i <= j)]
    /\ UNCHANGED <<da_nick, da_reg, da_ul, da_used>>

\* A CTCP message of s to u first lets the entries of all lists run out; a DCC passes if one of
\* those u still has matches s. What the file is called is not modelled.
DaMessage(s, u) ==
    /\ s \in da_reg /\ u \in da_reg /\ s # u
    /\ da_list' = DaExpire
    /\ da_used' = IF u \in DOMAIN da_list
                  THEN {e \in Range(DaExpire[u]) : DaMatches(s, e)} ELSE {}
    /\ UNCHANGED <<da_nick, da_reg, da_ul>>

DaTick ==
    /\ da_list' = [u \in DOMAIN da_list |-> [i \in DOMAIN da_list[u] |->
          [da_list[u][i] EXCEPT !.left = IF @ = 0 THEN 0 ELSE @ - 1]]]
    /\ da_used' = {} /\ UNCHANGED <<da_nick, da_reg, da_ul>>

DccAllowNext ==
    \/ DaTick
    \/ \E u \in DaUsers :
         \/ DaRegister(u) \/ DaQuit(u)
         \/ \E n \in DaNicks : DaConnect(u, n) \/ \E refused \in BOOLEAN : DaRename(u, n, refused)
         \/ \E w \in DaUsers : DaDel(u, w) \/ DaMessage(u, w) \/ \E l \in DaLengths : DaAdd(u, w, l)
DccAllowSpec == DccAllowInit /\ [][DccAllowNext]_da_vars

-----------------------------------------------------------------------------
(* Properties *)

\* ul holds raw pointers and is walked while entries are removed: it lists exactly the clients
\* with a list, once each, so no freed record is looked at and no list is missed.
DaListed == IsInjective(da_ul) /\ Range(da_ul) = DOMAIN da_list

\* An entry made for a registered client belongs to that client as long as it is there: nobody
\* who takes the nickname later, even from the same host, profits from it.
DaSameUser ==
    \A u \in DOMAIN da_list : \A i \in DOMAIN da_list[u] :
        da_list[u][i].known => da_nick[da_list[u][i].who] = da_list[u][i].nick

\* No entry lets a DCC through after its time has run out.
DaFresh == \A e \in da_used : e.left > 0

-----------------------------------------------------------------------------
(* m_silence_ext: a client's list of masks with the kinds of message they  *)
(* are about. The first entry that fits decides, so the order of the list  *)
(* is what gives exceptions their meaning.                                 *)

CONSTANTS
    SiMasks, SiSenders,
    SiMatches,     \* <<mask, sender>> such that MatchText says yes
    SiPatterns,    \* sets of the letters p c i n t a x that are used
    SiMax          \* <silence:maxentries>

ASSUME SilenceOK == SiMatches \subseteq SiMasks \X SiSenders /\ SiMax \in Nat

VARIABLES
    si_list,       \* the client's list: [mask, pattern], none is the same as empty
    si_verdict     \* the last question asked and its answer
si_vars == <<si_list, si_verdict>>

SiKinds == {"p", "c", "i", "n", "t"}
SiEntry == [mask : SiMasks, pattern : SiPatterns]
SilenceTypeOK == si_list \in Seq(SiEntry)

SiNoVerdict == [asked |-> FALSE, sender |-> CHOOSE s \in SiSenders : TRUE, kind |-> "p", silenced |-> FALSE]
SilenceInit == si_list = <<>> /\ si_verdict = SiNoVerdict

\* MatchPattern
SiFits(e, sender, kind) == (kind \in e.pattern \/ "a" \in e.pattern) /\ <<e.mask, sender>> \in SiMatches
SiMatchPattern(sender, kind) ==
    LET at == {i \in DOMAIN si_list : SiFits(si_list[i], sender, kind)}
    IN at # {} /\ "x" \notin si_list[CHOOSE i \in at : \A j \in at : i <= j].pattern

-----------------------------------------------------------------------------
\* SILENCE +mask pattern: exceptions go to the front. The list may grow one beyond its maximum.
SiAdd(e) ==
    /\ Len(si_list) <= SiMax /\ e \notin Range(si_list)
    /\ si_list' = IF "x" \in e.pattern THEN <<e>> \o si_list ELSE Append(si_list, e)
    /\ si_verdict' = SiNoVerdict
\* SILENCE -mask pattern
SiRemove(e) ==
    /\ e \in Range(si_list) /\ si_list' = RemoveFirst(si_list, e) /\ si_verdict' = SiNoVerdict
SiQuit == si_list # <<>> /\ si_list' = <<>> /\ si_verdict' = SiNoVerdict
\* A message, a notice or an invitation to the client, or a line to a channel he is on.
SiAsk(sender, kind) ==
    /\ si_verdict' = [asked |-> TRUE, sender |-> sender, kind |-> kind,
                      silenced |-> SiMatchPattern(sender, kind)]
    /\ UNCHANGED si_list

SilenceNext ==
    \/ SiQuit
    \/ \E e \in SiEntry : SiAdd(e) \/ SiRemove(e)
    \/ \E s \in SiSenders, k \in SiKinds : SiAsk(s, k)
SilenceSpec == SilenceInit /\ [][SilenceNext]_si_vars

-----------------------------------------------------------------------------
\* In whatever order the entries were added and removed, a message is kept away exactly when an
\* entry asks for it and no exception speaks for the sender.
SiExceptionsWin ==
    LET hit(x) == \E i \in DOMAIN si_list :
                     /\ SiFits(si_list[i], si_verdict.sender, si_verdict.kind)
                     /\ ("x" \in si_list[i].pattern) = x
    IN si_verdict.asked => (si_verdict.silenced = (hit(FALSE) /\ ~hit(TRUE)))

\* Lists kept beside clients follow them: whoever is watched for, allowed or silenced is exactly who was named,
\* after any nickname changes, quits and expiries.
ListsKept == WtIndexSound /\ WtIndexComplete /\ DaListed /\ DaSameUser /\ DaFresh /\ SiExceptionsWin
=============================================================================

------------------------------ MODULE Gateway ------------------------------
(***************************************************************************)
(* Clients who come through a CGI:IRC gateway (m_cgiirc) and DNS           *)
(* blacklists (m_dnsbl).  A gateway names the client's own address in PASS *)
(* or in the ident, which m_cgiirc believes when NICK and USER are there,  *)
(* or by WEBIRC, which it keeps until the client is registered.  m_dnsbl,  *)
(* asked right after it, looks the address up on every list; the answers   *)
(* come later, when the client may have another address, be gone, or have  *)
(* left his record and descriptor to somebody else.                        *)
(***************************************************************************)
EXTENDS Naturals, FiniteSets

CONSTANTS
    GwUsers,        \* client records, each with the descriptor it is found by
    GwAddresses,
    GwConfs,        \* what the <cgihost> tags may say: address -> "pass", "ident", "passfirst", "webirc" or "none"
    GwSent,         \* what clients send: <<PASS, ident>>
    GwLists,        \* the <dnsbl> tags there may be
    GwAction,       \* list -> "kill", "k", "g" or "z"
    GwListed,       \* list -> the addresses on it
    GwMaxClones,    \* <connect:globalmax>
    GwElsewhere,    \* address -> clients of other servers
    GwMaxLookups,   \* bound on the lookups in flight
    GwMaxLines,     \* bound on the lines there are
    GwNobody

GwNone == "none"
GwName == "name"    \* a PASS that holds a host name rather than an address

GwTypes == {"pass", "ident", "passfirst", "webirc"}
GwOffers == GwAddresses \cup {GwNone}
\* What is known of a client. History: web, his address came by WEBIRC; moved, m_cgiirc gave him another one; heir,
\* his host name was looked up for somebody else.
GwClient == [from : GwAddresses, ip : GwAddresses, host : {"plain", "given", "found"},
    pass : GwOffers \cup {GwName}, ident : GwOffers, webirc : GwOffers,
    reg : {"new", "ready", "all"}, gone : BOOLEAN, web : BOOLEAN, heir : BOOLEAN, moved : BOOLEAN]

ASSUME GatewayOK ==
    /\ GwAction \in [GwLists -> {"kill", "k", "g", "z"}]
    /\ GwListed \in [GwLists -> SUBSET GwAddresses]
    /\ GwConfs \subseteq [GwAddresses -> {"pass", "ident", "passfirst", "webirc", GwNone}]
    /\ GwSent \subseteq (GwAddresses \cup {GwNone, GwName}) \X (GwAddresses \cup {GwNone})
    /\ IsFiniteSet(GwUsers) /\ GwNobody \notin GwClient /\ "name" \notin GwLists
    /\ {GwNone, GwName} \cap GwAddresses = {} /\ GwMaxClones \in Nat /\ GwElsewhere \in [GwAddresses -> Nat]

VARIABLES
    gw_users,       \* record -> the client, or GwNobody
    gw_hosts,       \* ModuleCgiIRC::Hosts: address -> the type of the first entry for it
    gw_command,     \* cmd_webirc's copy of them, made when the module was loaded
    gw_lists,       \* DNSBLConfEntries
    gw_lookups,     \* resolvers waiting for an answer (late: history, their client has been deleted)
    gw_lines,       \* K-, G- and Z-lines on addresses
    gw_clones       \* address -> local (and so global) clones
gw_vars == <<gw_users, gw_hosts, gw_command, gw_lists, gw_lookups, gw_lines, gw_clones>>

GwLookup == [kind : {"name"} \cup GwLists, who : GwUsers, late : BOOLEAN, of : GwAddresses, freed : BOOLEAN]

GatewayTypeOK ==
    /\ gw_users \in [GwUsers -> GwClient \cup {GwNobody}]
    /\ gw_hosts \in [GwAddresses -> GwTypes \cup {GwNone}] /\ gw_command \in [GwAddresses -> GwTypes \cup {GwNone}]
    /\ gw_lists \subseteq GwLists /\ gw_lookups \subseteq GwLookup
    /\ gw_lines \subseteq {"k", "g", "z"} \X GwAddresses /\ gw_clones \in [GwAddresses -> 0 .. Cardinality(GwUsers)]

GatewayInit ==
    /\ gw_users = [u \in GwUsers |-> GwNobody]
    /\ gw_hosts \in GwConfs /\ gw_command = gw_hosts
    /\ gw_lists = GwLists /\ gw_lookups = {} /\ gw_lines = {} /\ gw_clones = [a \in GwAddresses |-> 0]

GwHere(u) == gw_users[u] # GwNobody

-----------------------------------------------------------------------------
\* CheckClass, with the counts as they are by then.
GwCheckClass(c, clones) == [c EXCEPT !.gone = @ \/ clones[c.ip] + GwElsewhere[c.ip] > GwMaxClones]
\* RemoveCloneCounts, the address is overwritten, AddLocalClone and AddGlobalClone
GwRecount_late(from, to) ==  \* mutant: the counts are removed when the new address is there
    LET less == [gw_clones EXCEPT ![to] = IF @ = 0 THEN 0 ELSE @ - 1] IN [less EXCEPT ![to] = @ + 1]
GwRecount(from, to) == LET less == [gw_clones EXCEPT ![from] = @ - 1] IN [less EXCEPT ![to] = @ + 1]

\* AddClient: only Z-lines are asked about here, and about the address he connects from.
GwConnect(u, a, sent) ==
    /\ ~GwHere(u)
    /\ gw_clones' = [gw_clones EXCEPT ![a] = @ + 1]
    /\ LET c == [from |-> a, ip |-> a, host |-> "plain", pass |-> sent[1], ident |-> sent[2], webirc |-> GwNone,
                 reg |-> "new", gone |-> <<"z", a>> \in gw_lines, web |-> FALSE, heir |-> FALSE, moved |-> FALSE]
       IN gw_users' = [gw_users EXCEPT ![u] = GwCheckClass(c, gw_clones')]
    /\ UNCHANGED <<gw_hosts, gw_command, gw_lists, gw_lookups, gw_lines>>

\* WEBIRC: an address that is already kept is not replaced (Extend).
GwWebirc(u, to) ==
    /\ GwHere(u) /\ gw_users[u].reg # "all" /\ gw_users[u].webirc = GwNone
    /\ gw_command[gw_users[u].ip] = "webirc"
    /\ gw_users' = [gw_users EXCEPT ![u].webirc = to]
    /\ UNCHANGED <<gw_hosts, gw_command, gw_lists, gw_lookups, gw_lines, gw_clones>>

\* OnUserRegister of m_cgiirc: what the entry for his address makes it believe.
GwBelieved(c) ==
    LET type == gw_hosts[c.ip]
    IN IF type \in {"pass", "passfirst"} /\ c.pass # GwNone THEN "pass"
       ELSE IF type \in {"ident", "passfirst"} /\ c.ident # GwNone THEN "ident" ELSE GwNone
GwCheckPass(c) ==
    [c EXCEPT !.host = "given", !.pass = GwNone, !.ip = IF c.pass = GwName THEN @ ELSE c.pass]
GwCheckIdent(c) == [c EXCEPT !.host = "given", !.ident = GwNone, !.ip = c.ident]

\* The last of NICK and USER, and each NICK after it until he is registered: m_cgiirc, then m_dnsbl.
GwRegister(u) ==
    /\ GwHere(u) /\ gw_users[u].reg # "all"
    /\ LET old == gw_users[u]
           way == GwBelieved(old)
           told == CASE way = "pass" -> GwCheckPass(old) [] way = "ident" -> GwCheckIdent(old) [] OTHER -> old
           new == [told EXCEPT !.reg = "ready", !.moved = @ \/ told.ip # old.ip]
           names == IF way = "ident" \/ (way = "pass" /\ old.pass = GwName) THEN {"name"} ELSE {}
       IN /\ gw_clones' = GwRecount(old.ip, new.ip)
          /\ gw_users' = [gw_users EXCEPT ![u] = IF way = GwNone THEN new ELSE GwCheckClass(new, gw_clones')]
          /\ gw_lookups' = gw_lookups \cup
                 [kind : names \cup gw_lists, who : {u}, late : {FALSE}, of : {new.ip}, freed : {FALSE}]
          /\ Cardinality(gw_lookups') <= GwMaxLookups
    /\ UNCHANGED <<gw_hosts, gw_command, gw_lists, gw_lines>>

\* FullConnect: G- and K-lines, and only then OnUserConnect, where WEBIRC takes effect.
GwFullConnect(u) ==
    LET c == GwCheckClass(gw_users[u], gw_clones)
        to == IF c.webirc = GwNone THEN c.ip ELSE c.webirc
        new == [c EXCEPT !.ip = to, !.reg = "all", !.web = c.webirc # GwNone,
                         !.host = IF c.webirc = GwNone THEN @ ELSE "given", !.webirc = GwNone]
        banned == {<<"g", c.ip>>, <<"k", c.ip>>} \cap gw_lines # {}
    IN /\ GwHere(u) /\ c.reg = "ready" /\ ~gw_users[u].gone
       /\ gw_clones' = IF banned THEN gw_clones ELSE GwRecount(c.ip, to)
       /\ gw_users' = [gw_users EXCEPT ![u] = IF banned THEN [c EXCEPT !.gone = TRUE] ELSE GwCheckClass(new, gw_clones')]
       /\ UNCHANGED <<gw_hosts, gw_command, gw_lists, gw_lookups, gw_lines>>

\* CGIResolver: the name is taken as it is, registered or not.
GwNameFound(l) ==
    /\ l \in gw_lookups /\ l.kind = "name" /\ gw_lookups' = gw_lookups \ {l}
    /\ gw_users' = IF ~GwHere(l.who) THEN gw_users
                   ELSE [gw_users EXCEPT ![l.who].host = "found", ![l.who].heir = @ \/ l.late]
    /\ UNCHANGED <<gw_hosts, gw_command, gw_lists, gw_lines, gw_clones>>

\* The line is added, if there is none, and then every client is held against it; not so a K-line, which
\* is looked at only when the next client registers.
GwPunished(u, action) ==
    LET line == <<action, gw_users[u].ip>>
    IN /\ gw_users' =
            CASE action = "kill" -> [gw_users EXCEPT ![u].gone = TRUE]
              [] action \in {"g", "z"} /\ line \notin gw_lines ->
                    [v \in GwUsers |-> IF GwHere(v) /\ gw_users[v].ip = line[2]
                                       THEN [gw_users[v] EXCEPT !.gone = TRUE] ELSE gw_users[v]]
              [] OTHER -> gw_users
       /\ gw_lines' = IF action = "kill" THEN gw_lines ELSE gw_lines \cup {line}
\* DNSBLResolver: the entry it points to may have been deleted, and hold anything.
GwActions(l) ==
    IF l.of \notin GwListed[l.kind] THEN {GwNone}
    ELSE IF l.freed THEN {"kill", "k", "g", "z", GwNone} ELSE {GwAction[l.kind]}
GwListAnswered(l, action) ==
    /\ l \in gw_lookups /\ l.kind # "name" /\ gw_lookups' = gw_lookups \ {l} /\ action \in GwActions(l)
    /\ IF GwHere(l.who) /\ action # GwNone THEN GwPunished(l.who, action) ELSE UNCHANGED <<gw_users, gw_lines>>
    /\ Cardinality(gw_lines') <= GwMaxLines
    /\ UNCHANGED <<gw_hosts, gw_command, gw_lists, gw_clones>>
\* OnError of both.
GwLookupFails(l) ==
    /\ l \in gw_lookups /\ gw_lookups' = gw_lookups \ {l}
    /\ UNCHANGED <<gw_users, gw_hosts, gw_command, gw_lists, gw_lines, gw_clones>>

\* OnRehash: m_cgiirc adds the entries to those it has, the first for an address decides; m_dnsbl deletes its own.
GwRehash(conf, lists) ==
    /\ gw_hosts' = [a \in GwAddresses |-> IF gw_hosts[a] = GwNone THEN conf[a] ELSE gw_hosts[a]]
    /\ gw_lists' = lists
    /\ gw_lookups' = {[l EXCEPT !.freed = l.kind # "name"] : l \in gw_lookups}
    /\ UNCHANGED <<gw_users, gw_command, gw_lines, gw_clones>>
GwExpire(line) ==
    /\ line \in gw_lines /\ gw_lines' = gw_lines \ {line}
    /\ UNCHANGED <<gw_users, gw_hosts, gw_command, gw_lists, gw_lookups, gw_clones>>
GwQuit(u) ==
    /\ GwHere(u) /\ ~gw_users[u].gone /\ gw_users' = [gw_users EXCEPT ![u].gone = TRUE]
    /\ UNCHANGED <<gw_hosts, gw_command, gw_lists, gw_lookups, gw_lines, gw_clones>>
\* The culls, and the destructor's RemoveCloneCounts.
GwApply(u) ==
    /\ GwHere(u) /\ gw_users[u].gone
    /\ gw_users' = [gw_users EXCEPT ![u] = GwNobody] /\ gw_lookups' = {[l EXCEPT !.late = @ \/ l.who = u] : l \in gw_lookups}
    /\ gw_clones' = [gw_clones EXCEPT ![gw_users[u].ip] = IF @ = 0 THEN 0 ELSE @ - 1]
    /\ UNCHANGED <<gw_hosts, gw_command, gw_lists, gw_lines>>

GatewayNext ==
    \/ \E u \in GwUsers, a \in GwAddresses, sent \in GwSent : GwConnect(u, a, sent)
    \/ \E u \in GwUsers, to \in GwAddresses : GwWebirc(u, to)
    \/ \E u \in GwUsers : GwRegister(u) \/ GwFullConnect(u) \/ GwQuit(u) \/ GwApply(u)
    \/ \E l \in gw_lookups : GwNameFound(l) \/ GwLookupFails(l)
    \/ \E l \in gw_lookups, action \in {"kill", "k", "g", "z", GwNone} : GwListAnswered(l, action)
    \/ \E conf \in GwConfs, lists \in SUBSET GwLists : GwRehash(conf, lists)
    \/ \E line \in gw_lines : GwExpire(line)
GatewaySpec == GatewayInit /\ [][GatewayNext]_gw_vars

-----------------------------------------------------------------------------
\* The counts of clones follow the addresses, through every change of them: m_cgiirc calls RemoveCloneCounts before
\* and AddLocalClone after it overwrites the address.
GwClonesCounted == \A a \in GwAddresses : gw_clones[a] = Cardinality({u \in GwUsers : GwHere(u) /\ gw_users[u].ip = a})
\* Only who connects from a gateway that was configured at some time since the module was loaded has another address
\* or host than he came with; but the host can also be the one that was looked up for an earlier client.
GwTrusted ==
    \A u \in GwUsers : GwHere(u) =>
        LET c == gw_users[u] IN c.ip # c.from \/ c.host # "plain" => gw_hosts[c.from] # GwNone \/ c.heir
\* A G-line lets nobody with the address stay, but who got the address from WEBIRC, whose address nobody holds against
\* the lines; a Z-line in the same way those who have had the address from the start.
GwBannedStaysOut ==
    \A u \in GwUsers : GwHere(u) /\ gw_users[u].reg = "all" /\ ~gw_users[u].gone =>
        LET c == gw_users[u]
        IN /\ <<"g", c.ip>> \in gw_lines => c.web
           /\ <<"z", c.ip>> \in gw_lines => c.web \/ c.moved
\* Who is on no list is not banned by m_dnsbl, unless the answer was about the address he had before, or about the
\* client who had his record before.
GwListedOnly ==
    [][\A line \in gw_lines' \ gw_lines :
          \/ \E list \in GwLists : line[2] \in GwListed[list]
          \/ \E l \in gw_lookups \ gw_lookups' : l.of # line[2]]_gw_vars

\* A client who comes through a gateway is counted, banned and looked up under the address he has, and only
\* gateways that were named can give him one.
GwRightAddress == [](GwClonesCounted /\ GwTrusted /\ GwBannedStaysOut) /\ GwListedOnly
=============================================================================

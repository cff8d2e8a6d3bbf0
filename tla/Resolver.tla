------------------------------ MODULE Resolver ------------------------------
(***************************************************************************)
(* The DNS resolver (dns.cpp) and the host name lookup of a connecting     *)
(* client (UserResolver).  A query in flight has a number; requests[id]    *)
(* waits for the answer and Classes[id] is the object to tell.  A client's *)
(* address is looked up, then the name that comes back is looked up, and   *)
(* the name is used if that gives the address again.  Answers come late,   *)
(* in any order or never; the client may be gone, and another one have his *)
(* record and his descriptor; modules with lookups are unloaded.           *)
(***************************************************************************)
EXTENDS Naturals, FiniteSets, TLC

CONSTANTS
    ReIds,          \* query numbers
    ReUsers,        \* client records, each with the descriptor it is found by
    ReAddresses,    \* the addresses clients come from
    ReReverse,      \* address -> the name the DNS gives for it, or ReNone
    ReForward,      \* name -> the address the DNS gives for it
    ReModule,       \* a module that looks names up
    ReNone

ReNames == DOMAIN ReForward
ReAsked == ReAddresses \cup ReNames

ASSUME ResolverOK ==
    /\ ReReverse \in [ReAddresses -> ReNames \cup {ReNone}]
    /\ ReForward \in [ReNames -> ReAddresses]
    /\ ReAddresses \cap ReNames = {} /\ ReNone \notin ReAsked
    /\ ReModule \notin ReUsers

VARIABLES
    re_requests,    \* id -> the name asked for, or ReNone
    re_classes,     \* id -> the resolver: [kind, who]
    re_cache,       \* the answers that have not expired
    re_clients,     \* record -> [ip, host, stored, done, all], or ReNone
    re_loaded       \* the module is loaded

re_vars == <<re_requests, re_classes, re_cache, re_clients, re_loaded>>

ReResolvers == [kind : {"reverse", "forward"}, who : ReUsers] \cup [kind : {"module"}, who : {ReModule}]
ReClient == [ip : ReAddresses, host : ReAsked \cup {ReNone}, stored : ReNames \cup {ReNone}, done : BOOLEAN, all : BOOLEAN]

ResolverTypeOK ==
    /\ re_requests \in [ReIds -> ReAsked \cup {ReNone}]
    /\ re_classes \in [ReIds -> ReResolvers \cup {ReNone}]
    /\ DOMAIN re_cache \subseteq ReAsked /\ \A n \in DOMAIN re_cache : re_cache[n] \in ReAsked
    /\ re_clients \in [ReUsers -> ReClient \cup {ReNone}]
    /\ re_loaded \in BOOLEAN

ResolverInit ==
    /\ re_requests = [i \in ReIds |-> ReNone] /\ re_classes = [i \in ReIds |-> ReNone]
    /\ re_cache = <<>> /\ re_clients = [u \in ReUsers |-> ReNone] /\ re_loaded = TRUE

\* The tables as one record.
ReNow == [requests |-> re_requests, classes |-> re_classes, cache |-> re_cache, clients |-> re_clients]
ReBecome(r) ==
    /\ re_requests' = r.requests /\ re_classes' = r.classes
    /\ re_cache' = r.cache /\ re_clients' = r.clients

-----------------------------------------------------------------------------
(* Queries *)

\* AddQuery and SendRequests: a free number is taken, also when the query cannot be sent.
ReAddQuery(r, id, name) == [r EXCEPT !.requests = [@ EXCEPT ![id] = name]]

\* AddResolverClass: a number that has a resolver already keeps it, the new one is lost.
ReAddClass(r, id, resolver) ==
    IF r.classes[id] = ReNone THEN [r EXCEPT !.classes = [@ EXCEPT ![id] = resolver]] ELSE r

\* A resolver for a name that is not cached: it counts only once its query was sent.
ReAsk(r, id, name, resolver, sent) ==
    LET asked == ReAddQuery(r, id, name) IN
    IF sent THEN ReAddClass(asked, id, resolver) ELSE asked

ReFreeIds(r) == {i \in ReIds : r.requests[i] = ReNone}

-----------------------------------------------------------------------------
(* Host names of clients.  A resolver finds its client by record and descriptor. *)

ReSet(r, u, c) == [r EXCEPT !.clients = [@ EXCEPT ![u] = c]]

\* UserResolver::OnLookupComplete of the forward lookup: the name must lead back.
ReForwardDone(r, u, address) ==
    LET c == r.clients[u] IN
    IF c = ReNone \/ c.done THEN r
    ELSE IF c.ip # address THEN ReSet(r, u, [c EXCEPT !.done = TRUE])
    ELSE IF c.all THEN r
    ELSE ReSet(r, u, [c EXCEPT !.done = TRUE, !.host = c.stored])

\* ... of the reverse lookup: the name is stored and looked up, perhaps from the cache.
ReReverseDone(r, u, name, id, sent) ==
    LET c == r.clients[u]
        stored == ReSet(r, u, [c EXCEPT !.stored = name]) IN
    IF c = ReNone THEN r
    ELSE IF c.all THEN stored
    ELSE IF name \in DOMAIN r.cache THEN ReForwardDone(stored, u, r.cache[name])
    ELSE ReAsk(stored, id, name, [kind |-> "forward", who |-> u], sent)

\* UserResolver::OnError.
ReFailed(r, u) ==
    LET c == r.clients[u] IN
    IF c = ReNone \/ c.done THEN r ELSE ReSet(r, u, [c EXCEPT !.done = TRUE])

\* The resolver of a number is told the answer, or that there is none.
ReTell(r, resolver, data, id, sent) ==
    IF resolver.kind = "module" THEN r
    ELSE IF data = ReNone THEN ReFailed(r, resolver.who)
    ELSE IF resolver.kind = "forward" THEN ReForwardDone(r, resolver.who, data)
    ELSE ReReverseDone(r, resolver.who, data, id, sent)

ReForget(r, id) == [r EXCEPT !.classes = [@ EXCEPT ![id] = ReNone]]

-----------------------------------------------------------------------------
(* Actions *)

\* AddClient; the record and the descriptor may have been somebody else's.
ReConnect(u, ip) ==
    /\ re_clients[u] = ReNone
    /\ re_clients' = [re_clients EXCEPT ![u] =
            [ip |-> ip, host |-> ip, stored |-> ReNone, done |-> FALSE, all |-> FALSE]]
    /\ UNCHANGED <<re_requests, re_classes, re_cache, re_loaded>>

\* NICK of a client who is not registered starts a lookup, each time (StartDNSLookup).
ReStart(u, id, sent) ==
    /\ re_clients[u] # ReNone /\ ~re_clients[u].all
    /\ LET ip == re_clients[u].ip IN
       IF ip \in DOMAIN re_cache THEN ReBecome(ReReverseDone(ReNow, u, re_cache[ip], id, sent))
       ELSE ReBecome(ReAsk(ReNow, id, ip, [kind |-> "reverse", who |-> u], sent))
    /\ UNCHANGED re_loaded

\* A module asks for a name.
ReModuleAsks(name, id, sent) ==
    /\ re_loaded /\ name \notin DOMAIN re_cache
    /\ ReBecome(ReAsk(ReNow, id, name, [kind |-> "module", who |-> ReModule], sent))
    /\ UNCHANGED re_loaded

ReTruth(name) == IF name \in ReAddresses THEN ReReverse[name] ELSE ReForward[name]

\* DNS::GetResult and HandleEvent: the answer to a query in flight.  The number is free
\* from here on, for the forward lookup too; its resolver is told and deleted.
ReAnswer(id, next, sent, data) ==
    /\ re_requests[id] # ReNone /\ data \in {ReNone, ReTruth(re_requests[id])}
    /\ LET name == re_requests[id]
           got == [ReNow EXCEPT !.requests = [@ EXCEPT ![id] = ReNone]]
           resolver == re_classes[id]
           cached == IF data = ReNone \/ name \in DOMAIN re_cache THEN got
                     ELSE [got EXCEPT !.cache = [n \in DOMAIN @ \cup {name} |-> IF n = name THEN data ELSE @[n]]] IN
       /\ next \in ReFreeIds(got)
       /\ IF resolver = ReNone THEN ReBecome(got)
          ELSE ReBecome(ReForget(ReTell(cached, resolver, data, next, sent), id))
    /\ UNCHANGED re_loaded

\* RequestTimeout::Tick.
ReTimeout(id) ==
    /\ re_requests[id] # ReNone
    /\ LET gone == [ReNow EXCEPT !.requests = [@ EXCEPT ![id] = ReNone]] IN
       IF re_classes[id] = ReNone THEN ReBecome(gone)
       ELSE ReBecome(ReForget(ReTell(gone, re_classes[id], ReNone, id, FALSE), id))
    /\ UNCHANGED re_loaded

\* CalcTTLRemaining is 0: PruneCache, or the next lookup, drops the entry.
ReExpire(name) ==
    /\ name \in DOMAIN re_cache
    /\ re_cache' = [n \in DOMAIN re_cache \ {name} |-> re_cache[n]]
    /\ UNCHANGED <<re_requests, re_classes, re_clients, re_loaded>>

\* UnloadModule: CleanResolvers; the requests stay.  The module may be loaded again.
ReUnload_keeps ==  \* mutant: CleanResolvers is not called
    /\ re_loaded /\ re_loaded' = FALSE
    /\ UNCHANGED <<re_requests, re_classes, re_cache, re_clients>>
ReUnload ==
    /\ re_loaded /\ re_loaded' = FALSE
    /\ re_classes' = [i \in ReIds |->
            IF re_classes[i] # ReNone /\ re_classes[i].who = ReModule THEN ReNone ELSE re_classes[i]]
    /\ UNCHANGED <<re_requests, re_cache, re_clients>>
ReLoad ==
    /\ ~re_loaded /\ re_loaded' = TRUE
    /\ UNCHANGED <<re_requests, re_classes, re_cache, re_clients>>

\* The background check registers a client who was kept waiting long enough, looked up or not.
ReRegister(u) ==
    /\ re_clients[u] # ReNone /\ ~re_clients[u].all
    /\ re_clients' = [re_clients EXCEPT ![u].all = TRUE, ![u].done = TRUE]
    /\ UNCHANGED <<re_requests, re_classes, re_cache, re_loaded>>

\* CullList::Apply: his lookups go on.
ReQuit(u) ==
    /\ re_clients[u] # ReNone
    /\ re_clients' = [re_clients EXCEPT ![u] = ReNone]
    /\ UNCHANGED <<re_requests, re_classes, re_cache, re_loaded>>

ResolverNext ==
    \/ \E u \in ReUsers, ip \in ReAddresses : ReConnect(u, ip)
    \/ \E u \in ReUsers, id \in ReFreeIds(ReNow), sent \in BOOLEAN : ReStart(u, id, sent)
    \/ \E name \in ReAsked, id \in ReFreeIds(ReNow), sent \in BOOLEAN : ReModuleAsks(name, id, sent)
    \/ \E id \in ReIds, next \in ReIds, sent \in BOOLEAN, data \in ReAsked \cup {ReNone} :
            ReAnswer(id, next, sent, data)
    \/ \E id \in ReIds : ReTimeout(id)
    \/ \E name \in ReAsked : ReExpire(name)
    \/ ReUnload \/ ReLoad
    \/ \E u \in ReUsers : ReRegister(u) \/ ReQuit(u)

\* Timers fire.
ResolverSpec == ResolverInit /\ [][ResolverNext]_re_vars
ResolverFairSpec ==
    ResolverSpec /\ \A id \in ReIds : WF_re_vars(ReTimeout(id))

-----------------------------------------------------------------------------
(* Properties *)

\* A resolver object whose request is gone would never be told anything and never be
\* deleted, and its number could not be used for another: there is none.
ReAlwaysTold == \A i \in ReIds : re_classes[i] # ReNone => re_requests[i] # ReNone

\* A client whose address no name leads back to never gets a name, whatever answers to
\* lookups of earlier clients with his record and descriptor arrive.
ReForwardConfirmed ==
    \A u \in ReUsers : re_clients[u] # ReNone =>
        LET c == re_clients[u] IN
        c.host \notin {c.ip, ReNone} => \E n \in ReNames : ReForward[n] = c.ip

\* No resolver of a module outlives it: an answer after the unload calls nobody.
ReNoneOfUnloaded == ~re_loaded => \A i \in ReIds : re_classes[i] = ReNone \/ re_classes[i].who # ReModule

\* Every object that asked has a request that will tell it, by an answer or by its timeout, none outlives its module,
\* and no answer to somebody else's lookup gives a client a name that does not lead back to his address.
ReAnswered == ReAlwaysTold /\ ReForwardConfirmed /\ ReNoneOfUnloaded
=============================================================================

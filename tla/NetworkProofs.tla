---------------------------- MODULE NetworkProofs ----------------------------
(***************************************************************************)
(* Components of what passes between servers, clients and name servers, for*)
(* any instance. The resolver: the invariant is ReKept, in which every number*)
(* an object waits under has a request of the object's kind, and the cache *)
(* says the truth. The I/O hooks: the invariant is SlKept, in which the    *)
(* slot is the current connection's own (SlSound), no session is left when *)
(* the descriptor is closed, and a link to a server whose capabilities are *)
(* sent has no handshake under way. SlSound is a property of the record a  *)
(* call works on, so that each step of a call is one lemma. Descriptors:   *)
(* SoEngineKept says that a number with a handler is watched and that the  *)
(* handler has it; SoIdentsKept that a client knows the lookup about him   *)
(* unless it has ended, and is not replaced before it is deleted. HTTP:    *)
(* HtSound says of each connection how far its request has come and whether*)
(* it is answered, and which timers there are. Gateways: GwKept says that  *)
(* the counts are those of the addresses clients have, that a gateway      *)
(* vouches for who has another than he came with or waits for one, and     *)
(* which lines a client cannot be under.                                   *)
(***************************************************************************)
EXTENDS Resolver, TransportHooks, Sockets, Http, Gateway, FiniteSetTheorems, SequenceTheorems, WellFoundedInduction, TLAPS

\* The lookup an object stands for is of the kind it was made for.
ReFits(resolver, name) ==
    /\ resolver.kind = "forward" => name \in ReNames
    /\ resolver.kind = "reverse" => name \in ReAddresses

\* The client has the name of his address, if any, from a name that leads back to it.
ReConfirmed(c) ==
    c # ReNone => c \in ReClient /\ (c.host \notin {c.ip, ReNone} => \E n \in ReNames : ReForward[n] = c.ip)

\* The tables of the resolver, except for a number whose object is being told.
ReSound(r, telling) ==
    /\ r = [requests |-> r.requests, classes |-> r.classes, cache |-> r.cache, clients |-> r.clients]
    /\ r.requests \in [ReIds -> ReAsked \cup {ReNone}]
    /\ r.classes \in [ReIds -> ReResolvers \cup {ReNone}]
    /\ DOMAIN r.cache \subseteq ReAsked
    /\ \A n \in DOMAIN r.cache : r.cache[n] = ReTruth(n) /\ r.cache[n] # ReNone
    /\ r.clients \in [ReUsers -> ReClient \cup {ReNone}]
    /\ \A u \in ReUsers : ReConfirmed(r.clients[u])
    /\ \A i \in ReIds \ telling : r.classes[i] # ReNone => r.requests[i] # ReNone /\ ReFits(r.classes[i], r.requests[i])
    /\ re_loaded \/ \A i \in ReIds : r.classes[i] = ReNone \/ r.classes[i].who # ReModule

ReKept == ReSound(ReNow, {}) /\ re_loaded \in BOOLEAN

-----------------------------------------------------------------------------
\* What an answer can be.
LEMMA ReTruths ==
    /\ \A a \in ReAddresses : ReTruth(a) \in ReNames \cup {ReNone}
    /\ \A n \in ReNames : ReTruth(n) = ReForward[n] /\ ReTruth(n) \in ReAddresses
    /\ \A n \in ReAsked : ReTruth(n) \in ReAsked \cup {ReNone}
  BY ResolverOK DEF ReTruth, ReAsked

\* A client record may be given any name that leads back to its address.
LEMMA ReSetSound ==
    ASSUME NEW r, NEW telling, ReSound(r, telling), NEW u \in ReUsers, NEW c \in ReClient, ReConfirmed(c)
    PROVE  ReSound(ReSet(r, u, c), telling)
  <1> DEFINE s == ReSet(r, u, c)
  <1>1. /\ s.requests = r.requests /\ s.classes = r.classes /\ s.cache = r.cache
        /\ s = [requests |-> s.requests, classes |-> s.classes, cache |-> s.cache, clients |-> s.clients]
        /\ s.clients = [r.clients EXCEPT ![u] = c]
    BY DEF ReSet, ReSound
  <1>2. s.clients \in [ReUsers -> ReClient \cup {ReNone}] /\ \A v \in ReUsers : s.clients[v] = IF v = u THEN c ELSE r.clients[v]
    BY <1>1 DEF ReSound
  <1> HIDE DEF s
  <1>3. \A v \in ReUsers : ReConfirmed(s.clients[v])
    BY <1>2 DEF ReSound
  <1>4. ReSound(s, telling)
    BY <1>1, <1>2, <1>3 DEF ReSound
  <1> QED BY <1>4 DEF s

\* A query is sent under a number that is free, and an object may be made for it.
LEMMA ReAskSound ==
    ASSUME NEW r, NEW telling, ReSound(r, telling), NEW id \in ReFreeIds(r), NEW name \in ReAsked, NEW resolver \in ReResolvers,
           ReFits(resolver, name), re_loaded \/ resolver.who # ReModule, NEW sent
    PROVE  ReSound(ReAsk(r, id, name, resolver, sent), telling)
  <1>0. id \in ReIds /\ r.requests[id] = ReNone
    BY DEF ReFreeIds
  <1> DEFINE s == ReAddQuery(r, id, name)
  <1>1. /\ s.clients = r.clients /\ s.classes = r.classes /\ s.cache = r.cache
        /\ s = [requests |-> s.requests, classes |-> s.classes, cache |-> s.cache, clients |-> s.clients]
        /\ s.requests = [r.requests EXCEPT ![id] = name]
    BY DEF ReAddQuery, ReSound
  <1>2. s.requests \in [ReIds -> ReAsked \cup {ReNone}] /\ \A i \in ReIds : s.requests[i] = IF i = id THEN name ELSE r.requests[i]
    BY <1>1 DEF ReSound
  <1> HIDE DEF s
  <1>3. id \notin telling => r.classes[id] = ReNone
    BY <1>0 DEF ReSound
  <1>4. ReSound(s, telling)
    BY <1>0, <1>1, <1>2, <1>3 DEF ReSound
  <1>5. CASE s.classes[id] # ReNone \/ ~sent
    BY <1>4, <1>5 DEF ReAsk, ReAddClass, s
  <1>6. CASE s.classes[id] = ReNone /\ sent
    <2> DEFINE t == [s EXCEPT !.classes = [@ EXCEPT ![id] = resolver]]
    <2>1. ReAsk(r, id, name, resolver, sent) = t
      BY <1>6 DEF ReAsk, ReAddClass, s
    <2>2. /\ t.clients = s.clients /\ t.requests = s.requests /\ t.cache = s.cache
          /\ t = [requests |-> t.requests, classes |-> t.classes, cache |-> t.cache, clients |-> t.clients]
          /\ t.classes = [s.classes EXCEPT ![id] = resolver]
      BY <1>1
    <2>3. t.classes \in [ReIds -> ReResolvers \cup {ReNone}] /\ \A i \in ReIds : t.classes[i] = IF i = id THEN resolver ELSE s.classes[i]
      BY <1>4, <2>2 DEF ReSound
    <2> HIDE DEF t
    <2>4. name # ReNone
      BY ResolverOK
    <2>5. ReSound(t, telling)
      BY <1>2, <1>4, <2>2, <2>3, <2>4 DEF ReSound
    <2> QED BY <2>1, <2>5
  <1> QED BY <1>5, <1>6

\* The name that came back is taken only when it leads to the client's own address.
LEMMA ReForwardSound ==
    ASSUME NEW r, NEW telling, ReSound(r, telling), NEW u \in ReUsers, NEW n \in ReNames
    PROVE  ReSound(ReForwardDone(r, u, ReForward[n]), telling)
  <1> DEFINE c == r.clients[u]
  <1>1. c = ReNone \/ (c \in ReClient /\ ReConfirmed(c))
    BY DEF ReSound
  <1>2. CASE c = ReNone \/ c.done
    BY <1>2 DEF ReForwardDone
  <1>3. CASE c # ReNone /\ ~c.done
    <2> DEFINE refused == [c EXCEPT !.done = TRUE]
               taken == [c EXCEPT !.done = TRUE, !.host = c.stored]
    <2>1. refused \in ReClient /\ refused.host = c.host /\ refused.ip = c.ip
      BY <1>1, <1>3 DEF ReClient
    <2>2. taken \in ReClient /\ taken.ip = c.ip
      BY <1>1, <1>3, ResolverOK DEF ReClient, ReAsked
    <2> HIDE DEF refused, taken
    <2>3. ReConfirmed(refused) /\ (c.ip = ReForward[n] => ReConfirmed(taken))
      BY <1>1, <1>3, <2>1, <2>2 DEF ReConfirmed
    <2>4. ReSound(ReSet(r, u, refused), telling) /\ (c.ip = ReForward[n] => ReSound(ReSet(r, u, taken), telling))
      BY <2>1, <2>2, <2>3, ReSetSound
    <2>5. ReForwardDone(r, u, ReForward[n]) \in {r, ReSet(r, u, refused)} \/
          (c.ip = ReForward[n] /\ ReForwardDone(r, u, ReForward[n]) = ReSet(r, u, taken))
      BY <1>3 DEF ReForwardDone, refused, taken
    <2> QED BY <2>4, <2>5
  <1> QED BY <1>2, <1>3

\* The object of a reverse lookup asks forward with the name it was told.
LEMMA ReReverseSound ==
    ASSUME NEW r, NEW telling, ReSound(r, telling), NEW u \in ReUsers, NEW name \in ReNames,
           NEW id, id \in ReFreeIds(r), NEW sent
    PROVE  ReSound(ReReverseDone(r, u, name, id, sent), telling)
  <1> DEFINE c == r.clients[u]
             stored == ReSet(r, u, [c EXCEPT !.stored = name])
  <1>1. CASE c = ReNone
    BY <1>1 DEF ReReverseDone
  <1>2. CASE c # ReNone
    <2>1. c \in ReClient /\ ReConfirmed(c)
      BY <1>2 DEF ReSound
    <2>2. /\ [c EXCEPT !.stored = name] \in ReClient
          /\ [c EXCEPT !.stored = name].host = c.host /\ [c EXCEPT !.stored = name].ip = c.ip
      BY <2>1 DEF ReClient
    <2>3. ReConfirmed([c EXCEPT !.stored = name])
      BY <1>2, <2>1, <2>2 DEF ReConfirmed
    <2>4. ReSound(stored, telling)
      BY <2>2, <2>3, ReSetSound
    <2>5. stored.requests = r.requests
      BY DEF ReSet, ReSound
    <2> HIDE DEF stored
    <2>6. ASSUME name \in DOMAIN r.cache
          PROVE  ReSound(ReForwardDone(stored, u, r.cache[name]), telling)
      <3>1. r.cache[name] = ReForward[name]
        BY <2>6, ReTruths DEF ReSound
      <3> QED BY <2>4, <3>1, ReForwardSound
    <2>7. ReSound(ReAsk(stored, id, name, [kind |-> "forward", who |-> u], sent), telling)
      <3> DEFINE resolver == [kind |-> "forward", who |-> u]
      <3>1. resolver \in ReResolvers /\ ReFits(resolver, name) /\ resolver.who # ReModule
        BY ResolverOK DEF ReResolvers, ReFits
      <3>2. id \in ReFreeIds(stored) /\ name \in ReAsked
        BY <2>5 DEF ReFreeIds, ReAsked
      <3> HIDE DEF resolver
      <3>3. ReSound(ReAsk(stored, id, name, resolver, sent), telling)
        BY <2>4, <3>1, <3>2, ReAskSound
      <3> QED BY <3>3 DEF resolver
    <2>8. ReReverseDone(r, u, name, id, sent) =
             IF c.all THEN stored
             ELSE IF name \in DOMAIN r.cache THEN ReForwardDone(stored, u, r.cache[name])
             ELSE ReAsk(stored, id, name, [kind |-> "forward", who |-> u], sent)
      BY <1>2 DEF ReReverseDone, stored
    <2> QED BY <2>4, <2>6, <2>7, <2>8
  <1> QED BY <1>1, <1>2

\* The object that is told there is no answer.
LEMMA ReFailedSound ==
    ASSUME NEW r, NEW telling, ReSound(r, telling), NEW u \in ReUsers
    PROVE  ReSound(ReFailed(r, u), telling)
  <1> DEFINE c == r.clients[u]
  <1>1. CASE c = ReNone \/ c.done
    BY <1>1 DEF ReFailed
  <1>2. CASE c # ReNone /\ ~c.done
    <2>1. c \in ReClient /\ ReConfirmed(c)
      BY <1>2 DEF ReSound
    <2>2. /\ [c EXCEPT !.done = TRUE] \in ReClient
          /\ [c EXCEPT !.done = TRUE].host = c.host /\ [c EXCEPT !.done = TRUE].ip = c.ip
      BY <2>1 DEF ReClient
    <2>3. ReConfirmed([c EXCEPT !.done = TRUE])
      BY <1>2, <2>1, <2>2 DEF ReConfirmed
    <2> QED BY <1>2, <2>2, <2>3, ReSetSound DEF ReFailed
  <1> QED BY <1>1, <1>2

\* The object of a number is told the answer to its own question, or that there is none.
LEMMA ReTellSound ==
    ASSUME NEW r, NEW telling, ReSound(r, telling), NEW resolver \in ReResolvers, NEW name \in ReAsked, ReFits(resolver, name),
           NEW data, data \in {ReNone, ReTruth(name)}, NEW id, data = ReNone \/ id \in ReFreeIds(r), NEW sent
    PROVE  ReSound(ReTell(r, resolver, data, id, sent), telling)
  <1>1. CASE resolver.kind = "module"
    BY <1>1 DEF ReTell
  <1>2. CASE resolver.kind # "module"
    <2>1. resolver.who \in ReUsers /\ resolver.kind \in {"reverse", "forward"}
      BY <1>2 DEF ReResolvers
    <2>2. CASE data = ReNone
      BY <1>2, <2>1, <2>2, ReFailedSound DEF ReTell
    <2>3. CASE data # ReNone /\ resolver.kind = "forward"
      <3>1. name \in ReNames /\ data = ReForward[name]
        BY <2>3, ReTruths DEF ReFits
      <3> QED BY <2>1, <2>3, <3>1, ReForwardSound DEF ReTell
    <2>4. CASE data # ReNone /\ resolver.kind = "reverse"
      <3>1. data \in ReNames /\ id \in ReFreeIds(r)
        BY <2>4, ReTruths DEF ReFits
      <3> QED BY <2>1, <2>4, <3>1, ReReverseSound DEF ReTell
    <2> QED BY <2>1, <2>2, <2>3, <2>4
  <1> QED BY <1>1, <1>2

\* Once it has been told the object is deleted, and nothing is left of its number but perhaps a new query.
LEMMA ReForgetSound ==
    ASSUME NEW r, NEW id \in ReIds, ReSound(r, {id})
    PROVE  ReSound(ReForget(r, id), {})
  <1> DEFINE s == ReForget(r, id)
  <1>1. /\ s.clients = r.clients /\ s.requests = r.requests /\ s.cache = r.cache
        /\ s = [requests |-> s.requests, classes |-> s.classes, cache |-> s.cache, clients |-> s.clients]
        /\ s.classes = [r.classes EXCEPT ![id] = ReNone]
    BY DEF ReForget, ReSound
  <1>2. s.classes \in [ReIds -> ReResolvers \cup {ReNone}] /\ \A i \in ReIds : s.classes[i] = IF i = id THEN ReNone ELSE r.classes[i]
    BY <1>1 DEF ReSound
  <1> HIDE DEF s
  <1>3. ReSound(s, {})
    BY <1>1, <1>2 DEF ReSound
  <1> QED BY <1>3 DEF s

\* A query that is answered or timed out leaves its number.
LEMMA ReFreedSound ==
    ASSUME ReKept, NEW id \in ReIds
    PROVE  LET got == [ReNow EXCEPT !.requests = [@ EXCEPT ![id] = ReNone]] IN
           ReSound(got, {id}) /\ got.classes = re_classes /\ got.cache = re_cache
           /\ (re_classes[id] = ReNone => ReSound(got, {}))
  <1> DEFINE got == [ReNow EXCEPT !.requests = [@ EXCEPT ![id] = ReNone]]
  <1>1. /\ got.clients = re_clients /\ got.classes = re_classes /\ got.cache = re_cache
        /\ got = [requests |-> got.requests, classes |-> got.classes, cache |-> got.cache, clients |-> got.clients]
        /\ got.requests = [re_requests EXCEPT ![id] = ReNone]
    BY DEF ReNow
  <1>2. re_requests \in [ReIds -> ReAsked \cup {ReNone}]
    BY DEF ReKept, ReSound, ReNow
  <1>3. got.requests \in [ReIds -> ReAsked \cup {ReNone}] /\ \A i \in ReIds : got.requests[i] = IF i = id THEN ReNone ELSE re_requests[i]
    BY <1>1, <1>2
  <1> HIDE DEF got
  <1>4. ReSound(got, {id}) /\ (re_classes[id] = ReNone => ReSound(got, {}))
    BY <1>1, <1>3 DEF ReKept, ReSound, ReNow
  <1> QED BY <1>1, <1>4 DEF got

\* The tables after ReBecome.
LEMMA ReBecomeSound ==
    ASSUME NEW r, ReSound(r, {}), ReBecome(r), UNCHANGED re_loaded, re_loaded \in BOOLEAN
    PROVE  ReKept'
  <1>1. ReNow' = r
    BY DEF ReNow, ReBecome, ReSound
  <1> QED BY <1>1 DEF ReKept, ReSound

-----------------------------------------------------------------------------
\* A client who is not registered looks his address up.
LEMMA ReStartKept ==
    ASSUME ReKept, NEW u \in ReUsers, NEW id \in ReFreeIds(ReNow), NEW sent, ReStart(u, id, sent)
    PROVE  ReKept'
  <1> DEFINE ip == re_clients[u].ip
  <1>1. re_clients[u] \in ReClient /\ ip \in ReAddresses
    BY DEF ReStart, ReKept, ReSound, ReNow, ReClient
  <1>2. CASE ip \in DOMAIN re_cache
    <2>1. re_cache[ip] \in ReNames
      BY <1>1, <1>2, ReTruths DEF ReKept, ReSound, ReNow
    <2>2. ReSound(ReReverseDone(ReNow, u, re_cache[ip], id, sent), {})
      BY <2>1, ReReverseSound DEF ReKept
    <2> QED BY <1>2, <2>2, ReBecomeSound DEF ReStart, ReKept
  <1>3. CASE ip \notin DOMAIN re_cache
    <2> DEFINE resolver == [kind |-> "reverse", who |-> u]
    <2>1. resolver \in ReResolvers /\ ReFits(resolver, ip) /\ resolver.who # ReModule /\ ip \in ReAsked
      BY <1>1, ResolverOK DEF ReResolvers, ReFits, ReAsked
    <2> HIDE DEF resolver
    <2>2. ReSound(ReAsk(ReNow, id, ip, resolver, sent), {})
      BY <2>1, ReAskSound DEF ReKept
    <2> QED BY <1>3, <2>2, ReBecomeSound DEF ReStart, ReKept, resolver
  <1> QED BY <1>2, <1>3

\* A module asks for a name.
LEMMA ReModuleAsksKept ==
    ASSUME ReKept, NEW name \in ReAsked, NEW id \in ReFreeIds(ReNow), NEW sent, ReModuleAsks(name, id, sent)
    PROVE  ReKept'
  <1> DEFINE resolver == [kind |-> "module", who |-> ReModule]
  <1>1. resolver \in ReResolvers /\ ReFits(resolver, name) /\ re_loaded
    BY DEF ReResolvers, ReFits, ReModuleAsks
  <1>2. ReBecome(ReAsk(ReNow, id, name, resolver, sent)) /\ UNCHANGED re_loaded
    BY DEF ReModuleAsks
  <1> HIDE DEF resolver
  <1>3. ReSound(ReAsk(ReNow, id, name, resolver, sent), {})
    BY <1>1, ReAskSound DEF ReKept
  <1> QED BY <1>2, <1>3, ReBecomeSound DEF ReKept

\* An answer arrives.
LEMMA ReAnswerKept ==
    ASSUME ReKept, NEW id \in ReIds, NEW next, NEW sent, NEW data, ReAnswer(id, next, sent, data)
    PROVE  ReKept'
  <1> DEFINE name == re_requests[id]
             got == [ReNow EXCEPT !.requests = [@ EXCEPT ![id] = ReNone]]
             resolver == re_classes[id]
             more == [got EXCEPT !.cache = [n \in DOMAIN @ \cup {name} |-> IF n = name THEN data ELSE @[n]]]
             cached == IF data = ReNone \/ name \in DOMAIN re_cache THEN got ELSE more
  <1>1. /\ name # ReNone /\ name \in ReAsked /\ data \in {ReNone, ReTruth(name)}
        /\ next \in ReFreeIds(got) /\ UNCHANGED re_loaded /\ re_loaded \in BOOLEAN
        /\ IF resolver = ReNone THEN ReBecome(got)
           ELSE ReBecome(ReForget(ReTell(cached, resolver, data, next, sent), id))
    BY DEF ReAnswer, ReKept, ReSound, ReNow
  <1>2. /\ ReSound(got, {id}) /\ got.classes = re_classes /\ got.cache = re_cache
        /\ resolver = ReNone => ReSound(got, {})
    BY ReFreedSound
  <1>3. CASE resolver = ReNone
    BY <1>1, <1>2, <1>3, ReBecomeSound
  <1>4. CASE resolver # ReNone
    <2>1. resolver \in ReResolvers /\ ReFits(resolver, name)
      BY <1>4 DEF ReKept, ReSound, ReNow
    <2> HIDE DEF got, name, resolver
    <2>2. /\ more.requests = got.requests /\ more.classes = got.classes /\ more.clients = got.clients
          /\ more = [requests |-> more.requests, classes |-> more.classes, cache |-> more.cache, clients |-> more.clients]
          /\ more.cache = [n \in DOMAIN got.cache \cup {name} |-> IF n = name THEN data ELSE got.cache[n]]
      BY <1>2 DEF ReSound
    <2> HIDE DEF more
    <2>3. data # ReNone => ReSound(more, {id})
      BY <1>1, <1>2, <2>2 DEF ReSound
    <2>4. ReSound(cached, {id}) /\ next \in ReFreeIds(cached)
      BY <1>1, <1>2, <2>2, <2>3 DEF ReFreeIds
    <2> HIDE DEF cached
    <2>5. ReSound(ReTell(cached, resolver, data, next, sent), {id})
      BY <1>1, <2>1, <2>4, ReTellSound
    <2>6. ReSound(ReForget(ReTell(cached, resolver, data, next, sent), id), {})
      BY <2>5, ReForgetSound
    <2> QED BY <1>1, <1>4, <2>6, ReBecomeSound
  <1> QED BY <1>3, <1>4

\* No answer arrived in time.
LEMMA ReTimeoutKept ==
    ASSUME ReKept, NEW id \in ReIds, ReTimeout(id)
    PROVE  ReKept'
  <1> DEFINE gone == [ReNow EXCEPT !.requests = [@ EXCEPT ![id] = ReNone]]
             resolver == re_classes[id]
             name == re_requests[id]
  <1>1. /\ name # ReNone /\ name \in ReAsked /\ UNCHANGED re_loaded /\ re_loaded \in BOOLEAN
        /\ IF resolver = ReNone THEN ReBecome(gone)
           ELSE ReBecome(ReForget(ReTell(gone, resolver, ReNone, id, FALSE), id))
    BY DEF ReTimeout, ReKept, ReSound, ReNow
  <1>2. ReSound(gone, {id}) /\ (resolver = ReNone => ReSound(gone, {}))
    BY ReFreedSound
  <1>3. CASE resolver = ReNone
    BY <1>1, <1>2, <1>3, ReBecomeSound
  <1>4. CASE resolver # ReNone
    <2>1. resolver \in ReResolvers /\ ReFits(resolver, name)
      BY <1>4 DEF ReKept, ReSound, ReNow
    <2> HIDE DEF gone, name, resolver
    <2>2. ReSound(ReTell(gone, resolver, ReNone, id, FALSE), {id})
      BY <1>1, <1>2, <2>1, ReTellSound
    <2>3. ReSound(ReForget(ReTell(gone, resolver, ReNone, id, FALSE), id), {})
      BY <2>2, ReForgetSound
    <2> QED BY <1>1, <1>4, <2>3, ReBecomeSound
  <1> QED BY <1>3, <1>4

\* A client connects, is registered or quits.
LEMMA ReClientsKept ==
    ASSUME ReKept, NEW u \in ReUsers, UNCHANGED <<re_requests, re_classes, re_cache, re_loaded>>,
           \/ \E ip \in ReAddresses : ReConnect(u, ip)
           \/ ReRegister(u) \/ ReQuit(u)
    PROVE  ReKept'
  <1>1. re_clients \in [ReUsers -> ReClient \cup {ReNone}] /\ \A v \in ReUsers : ReConfirmed(re_clients[v])
    BY DEF ReKept, ReSound, ReNow
  <1>2. PICK c \in ReClient \cup {ReNone} : re_clients' = [re_clients EXCEPT ![u] = c] /\ ReConfirmed(c)
    <2>1. ASSUME NEW ip \in ReAddresses, ReConnect(u, ip)
          PROVE  \E c \in ReClient \cup {ReNone} : re_clients' = [re_clients EXCEPT ![u] = c] /\ ReConfirmed(c)
      <3> DEFINE c == [ip |-> ip, host |-> ip, stored |-> ReNone, done |-> FALSE, all |-> FALSE]
      <3>1. c \in ReClient /\ ReConfirmed(c)
        BY DEF ReClient, ReConfirmed, ReAsked
      <3> QED BY <2>1, <3>1 DEF ReConnect
    <2>2. ASSUME ReQuit(u)
          PROVE  \E c \in ReClient \cup {ReNone} : re_clients' = [re_clients EXCEPT ![u] = c] /\ ReConfirmed(c)
      BY <2>2 DEF ReQuit, ReConfirmed
    <2>3. ASSUME ReRegister(u)
          PROVE  \E c \in ReClient \cup {ReNone} : re_clients' = [re_clients EXCEPT ![u] = c] /\ ReConfirmed(c)
      <3> DEFINE d == re_clients[u]
                 c == [d EXCEPT !.all = TRUE, !.done = TRUE]
      <3>1. d \in ReClient /\ ReConfirmed(d) /\ d # ReNone
        BY <1>1, <2>3 DEF ReRegister
      <3>2. c \in ReClient /\ c.host = d.host /\ c.ip = d.ip
        BY <3>1 DEF ReClient
      <3>3. ReConfirmed(c)
        BY <3>1, <3>2 DEF ReConfirmed
      <3>4. re_clients' = [re_clients EXCEPT ![u] = c]
        BY <1>1, <2>3 DEF ReRegister
      <3> QED BY <3>2, <3>3, <3>4
    <2> QED BY <2>1, <2>2, <2>3
  <1>3. re_clients' \in [ReUsers -> ReClient \cup {ReNone}] /\ \A v \in ReUsers : ReConfirmed(re_clients'[v])
    BY <1>1, <1>2
  <1>4. ReNow'.clients = re_clients' /\ ReNow'.requests = re_requests /\ ReNow'.classes = re_classes /\ ReNow'.cache = re_cache
    BY DEF ReNow
  <1> QED BY <1>3, <1>4 DEF ReKept, ReSound, ReNow

\* Every step keeps the tables.
LEMMA ReStepKept ==
    ASSUME ReKept, [ResolverNext]_re_vars
    PROVE  ReKept'
  <1>1. ASSUME NEW u \in ReUsers, NEW ip \in ReAddresses, ReConnect(u, ip)
        PROVE  ReKept'
    BY <1>1, ReClientsKept DEF ReConnect
  <1>2. ASSUME NEW u \in ReUsers, ReRegister(u) \/ ReQuit(u)
        PROVE  ReKept'
    BY <1>2, ReClientsKept DEF ReRegister, ReQuit
  <1>3. ASSUME NEW name \in ReAsked, ReExpire(name)
        PROVE  ReKept'
    BY <1>3 DEF ReExpire, ReKept, ReSound, ReNow
  <1>4. CASE ReUnload
    <2>1. /\ re_classes \in [ReIds -> ReResolvers \cup {ReNone}]
          /\ re_classes' \in [ReIds -> ReResolvers \cup {ReNone}]
          /\ \A i \in ReIds : re_classes'[i] \in {ReNone, re_classes[i]} /\ (re_classes'[i] = ReNone \/ re_classes'[i].who # ReModule)
      BY <1>4 DEF ReUnload, ReKept, ReSound, ReNow
    <2> QED BY <1>4, <2>1 DEF ReUnload, ReKept, ReSound, ReNow
  <1>5. CASE ReLoad \/ UNCHANGED re_vars
    BY <1>5 DEF ReLoad, re_vars, ReKept, ReSound, ReNow
  <1> QED BY <1>1, <1>2, <1>3, <1>4, <1>5, ReStartKept, ReModuleAsksKept, ReAnswerKept, ReTimeoutKept DEF ResolverNext

\* Before the first lookup.
LEMMA ReInitKept == ResolverInit => ReKept
  <1> SUFFICES ASSUME ResolverInit
               PROVE  ReKept
    OBVIOUS
  <1>1. DOMAIN re_cache = {}
    BY DEF ResolverInit
  <1> QED BY <1>1 DEF ResolverInit, ReKept, ReSound, ReNow, ReConfirmed

\* ReAnswered for any clients, addresses and names: in whatever order answers, timeouts, quits and unloads come, every
\* object that waits has a request, none is one of a module that is gone, and a client has no name but one that leads
\* back to his address.
THEOREM EveryLookupAnswered == ResolverSpec => []ReAnswered
  <1>1. ReKept /\ [ResolverNext]_re_vars => ReKept'
    BY ReStepKept
  <1>2. ReKept => ReAnswered
    <2> SUFFICES ASSUME ReKept
                 PROVE  ReAnswered
      OBVIOUS
    <2>1. ReAlwaysTold
      BY DEF ReKept, ReSound, ReNow, ReAlwaysTold
    <2>2. ReForwardConfirmed
      BY DEF ReKept, ReSound, ReNow, ReForwardConfirmed, ReConfirmed
    <2>3. ReNoneOfUnloaded
      BY DEF ReKept, ReSound, ReNow, ReNoneOfUnloaded
    <2> QED BY <2>1, <2>2, <2>3 DEF ReAnswered
  <1> QED BY <1>1, <1>2, ReInitKept, PTL DEF ResolverSpec

-----------------------------------------------------------------------------
(* The I/O hooks *)

\* The texts written on the connection so far.
SlText == Int \X Int
SlWritten(conn, n) == [k \in 1 .. n |-> <<conn, k>>]

\* A record of the slot and of what a call changes, and a session.
SlShape(s) ==
    s = [ses |-> s.ses, bufs |-> s.bufs, sent |-> s.sent, got |-> s.got, handed |-> s.handed, eof |-> s.eof]
SlSesShape(x) ==
    x = [live |-> x.live, status |-> x.status, rstat |-> x.rstat, wstat |-> x.wstat, in |-> x.in, out |-> x.out]

\* The slot and what a call has changed with it: one buffer for a live session, what was decoded is handed on or
\* waits, a session that is gone has nothing queued, and on a connection that works nothing of text is lost.
SlSound(s, text) ==
    /\ SlShape(s) /\ SlSesShape(s.ses)
    /\ s.ses.live \in BOOLEAN
    /\ s.bufs = IF s.ses.live THEN 1 ELSE 0
    /\ s.got \in Nat /\ s.handed \in Nat /\ s.ses.in \in Nat
    /\ s.ses.live => s.got = s.handed + s.ses.in
    /\ s.ses.out \in Seq(SlText) /\ s.sent \in Seq(SlText)
    /\ ~s.ses.live => s.ses.out = <<>>
    /\ s.ses.live /\ ~sl_broken => s.sent \o s.ses.out = text

SlCurrent(wrote) == SlSound(SlState, SlWritten(sl_conn, wrote))

\* No handshake starts but where one was under way.
SlSteady(s, r) == r.ses.status \in {s.ses.status, "none"}

\* A session whose status, or what it waits for, is replaced.
SlPutStatus(s, v) == [s EXCEPT !.ses = [s.ses EXCEPT !.status = v]]
SlPutRstat(s, v) == [s EXCEPT !.ses = [s.ses EXCEPT !.rstat = v]]
SlPutThree(s, u, v, w) == [s EXCEPT !.ses = [s.ses EXCEPT !.status = u, !.rstat = v, !.wstat = w]]
SlPutWstat(s, v) == [s EXCEPT !.ses = [s.ses EXCEPT !.wstat = v]]

-----------------------------------------------------------------------------
(* What a call does to the slot *)

\* One field of the record is replaced.
LEMMA SlReplaced ==
    ASSUME NEW s, SlShape(s), NEW v
    PROVE  /\ [s EXCEPT !.ses = v] =
                 [ses |-> v, bufs |-> s.bufs, sent |-> s.sent, got |-> s.got, handed |-> s.handed, eof |-> s.eof]
           /\ [s EXCEPT !.bufs = v] =
                 [ses |-> s.ses, bufs |-> v, sent |-> s.sent, got |-> s.got, handed |-> s.handed, eof |-> s.eof]
           /\ [s EXCEPT !.sent = v] =
                 [ses |-> s.ses, bufs |-> s.bufs, sent |-> v, got |-> s.got, handed |-> s.handed, eof |-> s.eof]
           /\ [s EXCEPT !.got = v] =
                 [ses |-> s.ses, bufs |-> s.bufs, sent |-> s.sent, got |-> v, handed |-> s.handed, eof |-> s.eof]
           /\ [s EXCEPT !.handed = v] =
                 [ses |-> s.ses, bufs |-> s.bufs, sent |-> s.sent, got |-> s.got, handed |-> v, eof |-> s.eof]
           /\ [s EXCEPT !.eof = v] =
                 [ses |-> s.ses, bufs |-> s.bufs, sent |-> s.sent, got |-> s.got, handed |-> s.handed, eof |-> v]
  BY DEF SlShape

\* One field of the session is replaced.
LEMMA SlSesReplaced ==
    ASSUME NEW x, SlSesShape(x), NEW v
    PROVE  /\ [x EXCEPT !.live = v] = [live |-> v, status |-> x.status, rstat |-> x.rstat, wstat |-> x.wstat,
                                       in |-> x.in, out |-> x.out]
           /\ [x EXCEPT !.status = v] = [live |-> x.live, status |-> v, rstat |-> x.rstat, wstat |-> x.wstat,
                                         in |-> x.in, out |-> x.out]
           /\ [x EXCEPT !.rstat = v] = [live |-> x.live, status |-> x.status, rstat |-> v, wstat |-> x.wstat,
                                        in |-> x.in, out |-> x.out]
           /\ [x EXCEPT !.wstat = v] = [live |-> x.live, status |-> x.status, rstat |-> x.rstat, wstat |-> v,
                                        in |-> x.in, out |-> x.out]
           /\ [x EXCEPT !.in = v] = [live |-> x.live, status |-> x.status, rstat |-> x.rstat, wstat |-> x.wstat,
                                     in |-> v, out |-> x.out]
           /\ [x EXCEPT !.out = v] = [live |-> x.live, status |-> x.status, rstat |-> x.rstat, wstat |-> x.wstat,
                                      in |-> x.in, out |-> v]
  BY DEF SlSesShape

\* SlCloseSession, field by field.
LEMMA SlCloseIs ==
    ASSUME NEW s, SlShape(s), SlSesShape(s.ses), NEW r, r = SlCloseSession(s)
    PROVE  /\ SlShape(r) /\ SlSesShape(r.ses)
           /\ r.sent = s.sent /\ r.got = s.got /\ r.handed = s.handed /\ r.eof = s.eof
           /\ r.bufs = IF s.ses.live THEN s.bufs - 1 ELSE s.bufs
           /\ r.ses.live = FALSE /\ r.ses.status = "none" /\ r.ses.in = s.ses.in /\ r.ses.out = <<>>
  <1> DEFINE none == "none"
             empty == <<>>
             x == [s.ses EXCEPT !.live = FALSE]
             y == [x EXCEPT !.status = none]
             v == [y EXCEPT !.out = empty]
             w == IF s.ses.live THEN s.bufs - 1 ELSE s.bufs
             t == [s EXCEPT !.ses = v]
  <1>1. r = [t EXCEPT !.bufs = w]
    BY DEF SlCloseSession
  <1> HIDE DEF none, w, empty
  <1>2. SlSesShape(v) /\ v.live = FALSE /\ v.status = none /\ v.in = s.ses.in /\ v.out = empty
    <2>1. SlSesShape(x) /\ x.live = FALSE /\ x.in = s.ses.in /\ x.out = s.ses.out
      BY SlSesReplaced DEF SlSesShape
    <2> HIDE DEF x
    <2>2. SlSesShape(y) /\ y.live = FALSE /\ y.status = none /\ y.in = s.ses.in /\ y.out = s.ses.out
      BY ZenonT(60), <2>1, SlSesReplaced DEF SlSesShape
    <2> HIDE DEF y
    <2>3. v = [live |-> y.live, status |-> y.status, rstat |-> y.rstat, wstat |-> y.wstat, in |-> y.in, out |-> empty]
      BY <2>2, SlSesReplaced
    <2> HIDE DEF v
    <2> QED BY <2>2, <2>3 DEF SlSesShape
  <1> HIDE DEF v
  <1>3. SlShape(t) /\ t.ses = v /\ t.sent = s.sent /\ t.got = s.got /\ t.handed = s.handed /\ t.eof = s.eof
    BY SlReplaced DEF SlShape
  <1> HIDE DEF t
  <1>4. SlShape(r) /\ r.ses = v /\ r.sent = s.sent /\ r.got = s.got /\ r.handed = s.handed /\ r.eof = s.eof /\ r.bufs = w
    BY <1>1, <1>3, SlReplaced DEF SlShape
  <1> QED BY <1>2, <1>4 DEF none, w, empty

\* A session that is closed is empty.
LEMMA SlCloseSound ==
    ASSUME NEW text, NEW s, SlSound(s, text), NEW r, r = SlCloseSession(s)
    PROVE  /\ SlSound(r, text) /\ SlSteady(s, r)
           /\ ~r.ses.live /\ r.ses.status = "none" /\ r.eof = s.eof /\ r.got = s.got
  <1>1. SlShape(s) /\ SlSesShape(s.ses)
    BY DEF SlSound
  <1>2. <<>> \in Seq(SlText)
    BY EmptySeq
  <1>3. /\ SlShape(r) /\ SlSesShape(r.ses)
        /\ r.sent = s.sent /\ r.got = s.got /\ r.handed = s.handed /\ r.eof = s.eof
        /\ r.bufs = IF s.ses.live THEN s.bufs - 1 ELSE s.bufs
        /\ r.ses.live = FALSE /\ r.ses.status = "none" /\ r.ses.in = s.ses.in /\ r.ses.out = <<>>
    BY <1>1, SlCloseIs
  <1>4. r.bufs = 0
    BY <1>3 DEF SlSound
  <1> QED BY <1>2, <1>3, <1>4 DEF SlSound, SlSteady

\* The session of the record changes, but neither what waits in it nor whether it lives.
LEMMA SlStatusSound ==
    ASSUME NEW text, NEW s, SlSound(s, text), NEW x, SlSesShape(x),
           x.live = s.ses.live, x.in = s.ses.in, x.out = s.ses.out, NEW r,
           r = [ses |-> x, bufs |-> s.bufs, sent |-> s.sent, got |-> s.got, handed |-> s.handed, eof |-> s.eof]
    PROVE  SlSound(r, text) /\ r.ses = x /\ r.eof = s.eof /\ r.got = s.got
  <1>1. SlShape(r) /\ r.ses = x /\ r.bufs = s.bufs /\ r.sent = s.sent /\ r.got = s.got /\ r.handed = s.handed /\ r.eof = s.eof
    BY DEF SlShape
  <1> QED BY <1>1 DEF SlSound

\* Another status, another thing to wait for.
LEMMA SlPutSound ==
    ASSUME NEW text, NEW s, SlSound(s, text), NEW v
    PROVE  /\ SlSound(SlPutStatus(s, v), text) /\ SlPutStatus(s, v).ses.status = v
           /\ SlPutStatus(s, v).eof = s.eof /\ SlPutStatus(s, v).got = s.got
           /\ SlSound(SlPutRstat(s, v), text) /\ SlPutRstat(s, v).ses.status = s.ses.status
           /\ SlPutRstat(s, v).eof = s.eof /\ SlPutRstat(s, v).got = s.got
           /\ SlSound(SlPutWstat(s, v), text) /\ SlPutWstat(s, v).ses.status = s.ses.status
           /\ SlPutWstat(s, v).eof = s.eof /\ SlPutWstat(s, v).got = s.got
  <1> DEFINE ses == s.ses
  <1>1. SlShape(s) /\ SlSesShape(ses)
    BY DEF SlSound
  <1>2. SlSound(SlPutStatus(s, v), text) /\ SlPutStatus(s, v).ses.status = v
        /\ SlPutStatus(s, v).eof = s.eof /\ SlPutStatus(s, v).got = s.got
    <2> DEFINE x == [ses EXCEPT !.status = v]
               r == [s EXCEPT !.ses = x]
    <2>1. SlPutStatus(s, v) = r
      BY DEF SlPutStatus
    <2> HIDE DEF ses
    <2>2. x = [live |-> ses.live, status |-> v, rstat |-> ses.rstat, wstat |-> ses.wstat, in |-> ses.in, out |-> ses.out]
      BY <1>1, SlSesReplaced
    <2> HIDE DEF x
    <2>3. r = [ses |-> x, bufs |-> s.bufs, sent |-> s.sent, got |-> s.got, handed |-> s.handed, eof |-> s.eof]
      BY <1>1, SlReplaced
    <2> HIDE DEF r
    <2>4. SlSesShape(x) /\ x.live = s.ses.live /\ x.in = s.ses.in /\ x.out = s.ses.out /\ x.status = v
      BY <2>2 DEF SlSesShape, ses
    <2>5. SlSound(r, text) /\ r.ses = x /\ r.eof = s.eof /\ r.got = s.got
      BY <2>3, <2>4, SlStatusSound
    <2> QED BY <2>1, <2>4, <2>5
  <1>3. SlSound(SlPutRstat(s, v), text) /\ SlPutRstat(s, v).ses.status = s.ses.status
        /\ SlPutRstat(s, v).eof = s.eof /\ SlPutRstat(s, v).got = s.got
    <2> DEFINE x == [ses EXCEPT !.rstat = v]
               r == [s EXCEPT !.ses = x]
    <2>1. SlPutRstat(s, v) = r
      BY DEF SlPutRstat
    <2> HIDE DEF ses
    <2>2. x = [live |-> ses.live, status |-> ses.status, rstat |-> v, wstat |-> ses.wstat, in |-> ses.in, out |-> ses.out]
      BY <1>1, SlSesReplaced
    <2> HIDE DEF x
    <2>3. r = [ses |-> x, bufs |-> s.bufs, sent |-> s.sent, got |-> s.got, handed |-> s.handed, eof |-> s.eof]
      BY <1>1, SlReplaced
    <2> HIDE DEF r
    <2>4. SlSesShape(x) /\ x.live = s.ses.live /\ x.in = s.ses.in /\ x.out = s.ses.out /\ x.status = s.ses.status
      BY <2>2 DEF SlSesShape, ses
    <2>5. SlSound(r, text) /\ r.ses = x /\ r.eof = s.eof /\ r.got = s.got
      BY <2>3, <2>4, SlStatusSound
    <2> QED BY <2>1, <2>4, <2>5
  <1>4. SlSound(SlPutWstat(s, v), text) /\ SlPutWstat(s, v).ses.status = s.ses.status
        /\ SlPutWstat(s, v).eof = s.eof /\ SlPutWstat(s, v).got = s.got
    <2> DEFINE x == [ses EXCEPT !.wstat = v]
               r == [s EXCEPT !.ses = x]
    <2>1. SlPutWstat(s, v) = r
      BY DEF SlPutWstat
    <2> HIDE DEF ses
    <2>2. x = [live |-> ses.live, status |-> ses.status, rstat |-> ses.rstat, wstat |-> v, in |-> ses.in, out |-> ses.out]
      BY <1>1, SlSesReplaced
    <2> HIDE DEF x
    <2>3. r = [ses |-> x, bufs |-> s.bufs, sent |-> s.sent, got |-> s.got, handed |-> s.handed, eof |-> s.eof]
      BY <1>1, SlReplaced
    <2> HIDE DEF r
    <2>4. SlSesShape(x) /\ x.live = s.ses.live /\ x.in = s.ses.in /\ x.out = s.ses.out /\ x.status = s.ses.status
      BY <2>2 DEF SlSesShape, ses
    <2>5. SlSound(r, text) /\ r.ses = x /\ r.eof = s.eof /\ r.got = s.got
      BY <2>3, <2>4, SlStatusSound
    <2> QED BY <2>1, <2>4, <2>5
  <1> QED BY <1>2, <1>3, <1>4

\* Three fields of the session, one after the other.
LEMMA SlPutAll ==
    ASSUME NEW s, SlShape(s), NEW u, NEW v, NEW w
    PROVE  SlPutThree(s, u, v, w) = SlPutWstat(SlPutRstat(SlPutStatus(s, u), v), w)
  <1> DEFINE a == SlPutStatus(s, u)
             b == SlPutRstat(a, v)
             x == [s.ses EXCEPT !.status = u]
             y == [x EXCEPT !.rstat = v]
             z == [y EXCEPT !.wstat = w]
  <1>1. a = [ses |-> x, bufs |-> s.bufs, sent |-> s.sent, got |-> s.got, handed |-> s.handed, eof |-> s.eof]
    <2> HIDE DEF x
    <2> QED BY SlReplaced DEF SlPutStatus, x
  <1> HIDE DEF a, x
  <1>2. b = [ses |-> y, bufs |-> s.bufs, sent |-> s.sent, got |-> s.got, handed |-> s.handed, eof |-> s.eof]
    <2>1. SlShape(a) /\ a.ses = x
      BY <1>1 DEF SlShape
    <2>2. b = [a EXCEPT !.ses = y]
      BY <2>1 DEF SlPutRstat
    <2> HIDE DEF y
    <2> QED BY <1>1, <2>1, <2>2, SlReplaced
  <1> HIDE DEF b, y
  <1>3. SlPutWstat(b, w) = [ses |-> z, bufs |-> s.bufs, sent |-> s.sent, got |-> s.got, handed |-> s.handed, eof |-> s.eof]
    <2>1. SlShape(b) /\ b.ses = y
      BY <1>2 DEF SlShape
    <2>2. SlPutWstat(b, w) = [b EXCEPT !.ses = z]
      BY <2>1 DEF SlPutWstat
    <2> HIDE DEF z
    <2> QED BY <1>2, <2>1, <2>2, SlReplaced
  <1>4. [s EXCEPT !.ses = z] = [ses |-> z, bufs |-> s.bufs, sent |-> s.sent, got |-> s.got, handed |-> s.handed, eof |-> s.eof]
    <2> HIDE DEF z
    <2> QED BY SlReplaced
  <1>5. z = [s.ses EXCEPT !.status = u, !.rstat = v, !.wstat = w]
    BY DEF x, y
  <1> QED BY <1>3, <1>4, <1>5 DEF a, b, SlPutThree

\* Texts are queued behind each other.
LEMMA SlConcat ==
    ASSUME NEW S, NEW a, NEW b, NEW c, a \in Seq(S), b \in Seq(S), c \in Seq(S)
    PROVE  (a \o b) \o c = a \o (b \o c)
  BY ConcatAssociative

\* What the library takes of the queue and what is left of it are the queue.
LEMMA SlParts ==
    ASSUME NEW out \in Seq(SlText), NEW n \in 1 .. Len(out)
    PROVE  /\ SubSeq(out, 1, n) \in Seq(SlText) /\ SubSeq(out, n + 1, Len(out)) \in Seq(SlText)
           /\ SubSeq(out, 1, n) \o SubSeq(out, n + 1, Len(out)) = out
  <1>1. Len(out) \in Nat /\ n \in Int /\ n <= Len(out) /\ 1 <= n
    BY LenProperties
  <1>2. \A i \in 1 .. Len(out) : out[i] \in SlText
    BY <1>1, ElementOfSeq
  <1>3. SubSeq(out, 1, n) \in Seq(SlText) /\ SubSeq(out, n + 1, Len(out)) \in Seq(SlText)
    BY <1>1, <1>2, SubSeqProperties
  <1>4. 1 \in 1 .. Len(out) + 1 /\ n \in 1 - 1 .. Len(out) /\ Len(out) \in n .. Len(out)
    BY <1>1
  <1>5. SubSeq(out, 1, n) \o SubSeq(out, n + 1, Len(out)) = SubSeq(out, 1, Len(out))
    BY <1>1, <1>4, ConcatAdjacentSubSeq
  <1>6. SubSeq(out, 1, Len(out)) = out
    BY <1>1, SubSeqFull
  <1> QED BY <1>3, <1>5, <1>6

\* The library takes the first texts that are queued.
LEMMA SlTakeSound ==
    ASSUME NEW text, NEW s, SlSound(s, text), NEW n \in 1 .. Len(s.ses.out), NEW r, r = SlTake(s, n)
    PROVE  SlSound(r, text) /\ SlSteady(s, r) /\ r.eof = s.eof /\ r.got = s.got
  <1> DEFINE out == s.ses.out
             first == SubSeq(out, 1, n)
             rest == SubSeq(out, n + 1, Len(out))
             v == [s.ses EXCEPT !.out = rest]
             w == s.sent \o first
             t == [s EXCEPT !.ses = v]
  <1>1. r = [t EXCEPT !.sent = w]
    BY DEF SlTake
  <1>2. out \in Seq(SlText) /\ s.sent \in Seq(SlText) /\ SlShape(s) /\ SlSesShape(s.ses)
    BY DEF SlSound
  <1>3. first \in Seq(SlText) /\ rest \in Seq(SlText)
    BY <1>2, SlParts
  <1>9. first \o rest = out
    BY <1>2, SlParts
  <1> HIDE DEF first, rest
  <1>4. w \in Seq(SlText) /\ w \o rest = s.sent \o out
    <2>1. w \in Seq(SlText)
      BY <1>2, <1>3, ConcatProperties
    <2> DEFINE sent == s.sent
    <2>2. sent \in Seq(SlText) /\ w = sent \o first
      BY <1>2
    <2> HIDE DEF sent, out, w, v, t
    <2>3. (sent \o first) \o rest = sent \o (first \o rest)
      BY <1>3, <2>2, SlConcat
    <2>4. w \o rest = sent \o out
      BY <1>9, <2>2, <2>3
    <2> QED BY <2>1, <2>4 DEF sent
  <1> HIDE DEF w
  <1>5. SlSesShape(v) /\ v.live = s.ses.live /\ v.status = s.ses.status /\ v.in = s.ses.in /\ v.out = rest
    <2> DEFINE ses == s.ses
    <2>1. v = [ses EXCEPT !.out = rest] /\ SlSesShape(ses)
      BY <1>2
    <2> HIDE DEF v, ses
    <2>2. v = [live |-> ses.live, status |-> ses.status, rstat |-> ses.rstat, wstat |-> ses.wstat, in |-> ses.in, out |-> rest]
      BY <2>1, SlSesReplaced
    <2>3. SlSesShape(v) /\ v.live = ses.live /\ v.status = ses.status /\ v.in = ses.in /\ v.out = rest
      BY <2>2 DEF SlSesShape
    <2> QED BY <2>3 DEF ses
  <1> HIDE DEF v
  <1>6. SlShape(t) /\ t.ses = v /\ t.bufs = s.bufs /\ t.got = s.got /\ t.handed = s.handed /\ t.eof = s.eof
    BY <1>2, SlReplaced DEF SlShape
  <1> HIDE DEF t
  <1>7. /\ SlShape(r) /\ r.ses = v /\ r.bufs = s.bufs /\ r.got = s.got /\ r.handed = s.handed /\ r.eof = s.eof
        /\ r.sent = w
    BY <1>1, <1>6, SlReplaced DEF SlShape
  <1>8. s.ses.live
    <2>1. out # <<>>
      BY <1>2, EmptySeq
    <2> QED BY <2>1 DEF SlSound
  <1> QED BY <1>3, <1>4, <1>5, <1>7, <1>8 DEF SlSound, SlSteady

\* What a session becomes when its input or its queue does.
LEMMA SlHolds ==
    ASSUME NEW s, SlShape(s), SlSesShape(s.ses), NEW v
    PROVE  /\ \A x : x = [s.ses EXCEPT !.in = v] => /\ SlSesShape(x) /\ x.live = s.ses.live /\ x.in = v
                                                    /\ x.out = s.ses.out /\ x.status = s.ses.status
           /\ \A x : x = [s.ses EXCEPT !.out = v] => /\ SlSesShape(x) /\ x.live = s.ses.live /\ x.in = s.ses.in
                                                     /\ x.out = v /\ x.status = s.ses.status
  <1> DEFINE ses == s.ses
  <1>1. SlSesShape(ses)
    OBVIOUS
  <1> HIDE DEF ses
  <1>2. ASSUME NEW x, x = [ses EXCEPT !.in = v]
        PROVE  SlSesShape(x) /\ x.live = ses.live /\ x.in = v /\ x.out = ses.out /\ x.status = ses.status
    <2>1. x = [live |-> ses.live, status |-> ses.status, rstat |-> ses.rstat, wstat |-> ses.wstat, in |-> v, out |-> ses.out]
      BY <1>1, <1>2, SlSesReplaced
    <2> QED BY <2>1 DEF SlSesShape
  <1>3. ASSUME NEW x, x = [ses EXCEPT !.out = v]
        PROVE  SlSesShape(x) /\ x.live = ses.live /\ x.in = ses.in /\ x.out = v /\ x.status = ses.status
    <2>1. x = [live |-> ses.live, status |-> ses.status, rstat |-> ses.rstat, wstat |-> ses.wstat, in |-> ses.in, out |-> v]
      BY <1>1, <1>3, SlSesReplaced
    <2> QED BY <2>1 DEF SlSesShape
  <1> QED BY <1>2, <1>3 DEF ses

\* DoWrite
LEMMA SlDoWriteSound ==
    ASSUME NEW text, NEW s, SlSound(s, text), NEW r \in SlDoWrite(s)
    PROVE  SlSound(r, text) /\ SlSteady(s, r) /\ r.eof = s.eof /\ r.got = s.got
  <1>1. CASE r = s
    BY <1>1 DEF SlSteady
  <1>2. CASE r = SlCloseSession(s)
    <2>1. r.got = s.got
      BY <1>2 DEF SlCloseSession, SlSound
    <2> QED BY <1>2, <2>1, SlCloseSound
  <1>3. CASE s.ses.out # <<>> /\ \E n \in 1 .. Len(s.ses.out) : r = SlTake(s, n)
    BY <1>3, SlTakeSound
  <1>4. CASE \E w : r = SlPutWstat(s, w)
    BY <1>4, SlPutSound DEF SlSteady
  <1>5. CASE sl_broken /\ sl_module = "zip" /\ r = [s EXCEPT !.ses = [s.ses EXCEPT !.out = <<>>]]
    <2> DEFINE empty == <<>>
               x == [s.ses EXCEPT !.out = empty]
    <2>1. r = [s EXCEPT !.ses = x]
      BY <1>5
    <2>2. empty \in Seq(SlText)
      BY EmptySeq
    <2> HIDE DEF empty
    <2>3. /\ SlSesShape(x) /\ x.live = s.ses.live /\ x.in = s.ses.in /\ x.out = empty /\ x.status = s.ses.status
          /\ SlShape(s)
      BY SlHolds DEF SlSound
    <2> HIDE DEF x
    <2>4. /\ SlShape(r) /\ r.ses = x /\ r.bufs = s.bufs /\ r.sent = s.sent /\ r.got = s.got /\ r.handed = s.handed
          /\ r.eof = s.eof
      <3>1. r = [ses |-> x, bufs |-> s.bufs, sent |-> s.sent, got |-> s.got, handed |-> s.handed, eof |-> s.eof]
        BY <2>1, <2>3, SlReplaced
      <3> QED BY <3>1 DEF SlShape
    <2>5. ~(r.ses.live /\ ~sl_broken) /\ (~r.ses.live => r.ses.out = <<>>)
      BY <1>5, <2>3, <2>4 DEF empty
    <2> QED BY <2>2, <2>3, <2>4, <2>5 DEF SlSound, SlSteady
  <1> QED BY <1>1, <1>2, <1>3, <1>4, <1>5 DEF SlDoWrite, SlRefused, SlPutWstat

\* DoRead
LEMMA SlDoReadSound ==
    ASSUME NEW text, NEW s, SlSound(s, text), NEW r \in SlDoRead(s)
    PROVE  SlSound(r, text) /\ SlSteady(s, r) /\ r.eof = s.eof /\ r.got >= s.got
  <1>0. s.got \in Nat
    BY DEF SlSound
  <1>1. CASE r = SlCloseSession(s)
    <2>1. r.got = s.got
      BY <1>1 DEF SlCloseSession, SlSound
    <2> QED BY <1>0, <1>1, <2>1, SlCloseSound
  <1>2. CASE \E rd : r = SlPutRstat(s, rd)
    <2>1. PICK rd : r = SlPutRstat(s, rd)
      BY <1>2
    <2> QED BY <1>0, <2>1, SlPutSound DEF SlSteady
  <1>3. CASE r = [s EXCEPT !.got = @ + 1, !.ses = [s.ses EXCEPT !.in = @ + 1]]
    <2> DEFINE got == s.got + 1
               in == s.ses.in + 1
               t == [s EXCEPT !.got = got]
               x == [s.ses EXCEPT !.in = in]
    <2>1. r = [t EXCEPT !.ses = x]
      BY <1>3
    <2>2. SlShape(s) /\ SlSesShape(s.ses) /\ s.ses.in \in Nat /\ s.handed \in Nat /\ s.got = got - 1 /\ s.ses.in = in - 1
      BY <1>0 DEF SlSound
    <2>3. got \in Nat /\ in \in Nat /\ got >= s.got /\ (s.ses.live => got = s.handed + in)
      BY <1>0 DEF SlSound
    <2> HIDE DEF got, in
    <2>4. SlSesShape(x) /\ x.live = s.ses.live /\ x.in = in /\ x.out = s.ses.out /\ x.status = s.ses.status
      BY <2>2, SlHolds
    <2> HIDE DEF x
    <2>5. t = [ses |-> s.ses, bufs |-> s.bufs, sent |-> s.sent, got |-> got, handed |-> s.handed, eof |-> s.eof]
      BY <2>2, SlReplaced
    <2> HIDE DEF t
    <2>6. SlShape(t)
      BY <2>5 DEF SlShape
    <2>7. r = [ses |-> x, bufs |-> t.bufs, sent |-> t.sent, got |-> t.got, handed |-> t.handed, eof |-> t.eof]
      BY <2>1, <2>6, SlReplaced
    <2>8. /\ SlShape(r) /\ r.ses = x /\ r.bufs = s.bufs /\ r.sent = s.sent /\ r.got = got /\ r.handed = s.handed
          /\ r.eof = s.eof
      BY <2>5, <2>7 DEF SlShape
    <2> QED BY <2>3, <2>4, <2>8 DEF SlSound, SlSteady
  <1> QED BY <1>1, <1>2, <1>3 DEF SlDoRead, SlPutRstat

\* MakePollWrite and what follows it
LEMMA SlPollWriteSound ==
    ASSUME NEW text, NEW s, SlSound(s, text), NEW r \in SlPollWrite(s)
    PROVE  SlSound(r, text) /\ SlSteady(s, r) /\ r.eof = s.eof
  <1>1. CASE r = s
    BY <1>1 DEF SlSteady
  <1>2. CASE r # s
    <2> DEFINE read == IF s.ses.rstat = "write" THEN SlDoRead(s) ELSE {s}
    <2>1. PICK q \in read : r \in IF q.ses.live /\ q.ses.wstat = "write" THEN SlDoWrite(q) ELSE {q}
      BY <1>2 DEF SlPollWrite
    <2>2. SlSound(q, text) /\ SlSteady(s, q) /\ q.eof = s.eof
      BY <2>1, SlDoReadSound DEF SlSteady
    <2>3. SlSound(r, text) /\ SlSteady(q, r) /\ r.eof = q.eof
      BY <2>1, <2>2, SlDoWriteSound DEF SlSteady
    <2> QED BY <2>2, <2>3 DEF SlSteady
  <1> QED BY <1>1, <1>2

\* A handshake, begun or gone on with
LEMMA SlHandshakeSound ==
    ASSUME NEW text, NEW s, SlSound(s, text), NEW r \in SlHandshake(s)
    PROVE  SlSound(r, text) /\ r.eof = s.eof
  <1>1. CASE \E st : r = SlPutStatus(SlCloseSession(s), st)
    <2>1. PICK st : r = SlPutStatus(SlCloseSession(s), st)
      BY <1>1
    <2>2. SlSound(SlCloseSession(s), text) /\ SlCloseSession(s).eof = s.eof
      BY SlCloseSound
    <2> QED BY <2>1, <2>2, SlPutSound
  <1>2. CASE \E st : r = SlPutStatus(s, st)
    BY <1>2, SlPutSound
  <1>3. CASE \E w : r = SlPutWstat(SlPutRstat(SlPutStatus(s, "handshake"), "read"), w)
    <2>1. PICK w : r = SlPutWstat(SlPutRstat(SlPutStatus(s, "handshake"), "read"), w)
      BY <1>3
    <2> DEFINE t == SlPutStatus(s, "handshake")
               q == SlPutRstat(t, "read")
    <2>2. SlSound(t, text) /\ t.eof = s.eof
      BY SlPutSound
    <2> HIDE DEF t
    <2>3. SlSound(q, text) /\ q.eof = s.eof
      BY <2>2, SlPutSound
    <2>4. r = SlPutWstat(q, w)
      BY <2>1 DEF t
    <2> HIDE DEF q
    <2> QED BY <2>3, <2>4, SlPutSound
  <1>4. CASE r \in SlPollWrite(SlPutStatus(s, "open"))
    <2>1. SlSound(SlPutStatus(s, "open"), text) /\ SlPutStatus(s, "open").eof = s.eof
      BY SlPutSound
    <2> QED BY <1>4, <2>1, SlPollWriteSound
  <1>5. CASE r = [SlCloseSession(s) EXCEPT !.ses.status = IF sl_module = "gnutls" THEN "closing" ELSE "none"]
    <2> DEFINE t == SlCloseSession(s)
               st == IF sl_module = "gnutls" THEN "closing" ELSE "none"
    <2>1. r = SlPutStatus(t, st)
      BY <1>5 DEF SlPutStatus
    <2> QED BY <1>1, <2>1
  <1>6. CASE \E w : r = [s EXCEPT !.ses = [s.ses EXCEPT !.status = "handshake", !.rstat = "read", !.wstat = w]]
    <2>1. PICK w : r = [s EXCEPT !.ses = [s.ses EXCEPT !.status = "handshake", !.rstat = "read", !.wstat = w]]
      BY <1>6
    <2>2. r = SlPutWstat(SlPutRstat(SlPutStatus(s, "handshake"), "read"), w)
      <3>1. r = SlPutThree(s, "handshake", "read", w)
        BY <2>1 DEF SlPutThree
      <3> QED BY <3>1, SlPutAll DEF SlSound
    <2> QED BY <1>3, <2>2
  <1> QED BY <1>2, <1>4, <1>5, <1>6 DEF SlHandshake, SlGnutlsHandshake, SlOpensslHandshake, SlPutStatus

\* What was decoded is handed on.
LEMMA SlHandSound ==
    ASSUME NEW text, NEW s, SlSound(s, text), NEW r, r = SlHand(s)
    PROVE  SlSound(r, text) /\ SlSteady(s, r)
  <1> DEFINE none == 0
             x == [s.ses EXCEPT !.in = none]
             handed == s.handed + s.ses.in
             t == [s EXCEPT !.handed = handed]
  <1>1. r = [t EXCEPT !.ses = x]
    BY DEF SlHand
  <1>2. SlShape(s) /\ SlSesShape(s.ses)
    BY DEF SlSound
  <1>3. handed \in Nat /\ none \in Nat /\ (s.ses.live => s.got = handed + none)
    BY DEF SlSound
  <1> HIDE DEF none, handed
  <1>4. SlSesShape(x) /\ x.live = s.ses.live /\ x.in = none /\ x.out = s.ses.out /\ x.status = s.ses.status
    BY <1>2, SlHolds
  <1> HIDE DEF x
  <1>5. t = [ses |-> s.ses, bufs |-> s.bufs, sent |-> s.sent, got |-> s.got, handed |-> handed, eof |-> s.eof]
    BY <1>2, SlReplaced
  <1> HIDE DEF t
  <1>6. SlShape(t)
    BY <1>5 DEF SlShape
  <1>7. r = [ses |-> x, bufs |-> t.bufs, sent |-> t.sent, got |-> t.got, handed |-> t.handed, eof |-> t.eof]
    BY <1>1, <1>6, SlReplaced
  <1>8. /\ SlShape(r) /\ r.ses = x /\ r.bufs = s.bufs /\ r.sent = s.sent /\ r.got = s.got /\ r.handed = handed
        /\ r.eof = s.eof
    BY <1>5, <1>7 DEF SlShape
  <1> QED BY <1>3, <1>4, <1>8 DEF SlSound, SlSteady

\* The reader is told that the connection has ended.
LEMMA SlEofSound ==
    ASSUME NEW text, NEW s, SlSound(s, text), NEW r, r = SlEof(s)
    PROVE  SlSound(r, text) /\ SlSteady(s, r) /\ r.ses = s.ses /\ r.eof
  <1>1. ASSUME NEW over, r = [s EXCEPT !.eof = over]
        PROVE  SlSound(r, text) /\ SlSteady(s, r) /\ r.ses = s.ses /\ r.eof = over
    <2>1. r = [ses |-> s.ses, bufs |-> s.bufs, sent |-> s.sent, got |-> s.got, handed |-> s.handed, eof |-> over]
      BY <1>1, SlReplaced DEF SlSound
    <2>2. /\ SlShape(r) /\ r.ses = s.ses /\ r.bufs = s.bufs /\ r.sent = s.sent /\ r.got = s.got
          /\ r.handed = s.handed /\ r.eof = over
      BY <2>1 DEF SlShape
    <2> QED BY <2>2 DEF SlSound, SlSteady
  <1>2. r = [s EXCEPT !.eof = TRUE]
    BY DEF SlEof
  <1> QED BY <1>1, <1>2, Zenon

\* What OnRawSocketRead does after the handshake
LEMMA SlReadOpenSound ==
    ASSUME NEW text, NEW s, SlSound(s, text), NEW r \in SlReadOpen(s)
    PROVE  SlSound(r, text) /\ SlSteady(s, r)
  <1>1. ASSUME NEW t, NEW q, SlSound(t, text), SlSound(q, text), SlSteady(t, q)
        PROVE  SlSound(SlDecoded(t, q), text) /\ SlSteady(t, SlDecoded(t, q))
    <2>1. SlDecoded(t, q) \in {SlEof(q), SlHand(q), q}
      BY DEF SlDecoded
    <2>2. \A x \in {SlEof(q), SlHand(q), q} : SlSound(x, text) /\ SlSteady(q, x)
      BY <1>1, SlEofSound, SlHandSound DEF SlSteady
    <2> QED BY <1>1, <2>1, <2>2 DEF SlSteady
  <1>2. CASE sl_module # "openssl"
    <2>1. PICK q \in SlDoRead(s) : r = SlDecoded(s, q)
      BY <1>2 DEF SlReadOpen
    <2> QED BY <1>1, <2>1, SlDoReadSound
  <1>3. CASE sl_module = "openssl"
    <2>1. PICK w \in (IF s.ses.wstat = "read" THEN SlDoWrite(s) ELSE {s}) :
             r \in IF ~w.ses.live THEN {SlEof(w)}
                   ELSE IF w.ses.rstat = "read" THEN {SlDecoded(w, q) : q \in SlDoRead(w)}
                   ELSE {w}
      BY <1>3 DEF SlReadOpen, SlOpensslReadOpen
    <2>2. SlSound(w, text) /\ SlSteady(s, w)
      BY <2>1, SlDoWriteSound DEF SlSteady
    <2>3. CASE r = SlEof(w) \/ r = w
      BY <2>2, <2>3, SlEofSound DEF SlSteady
    <2>4. CASE \E q \in SlDoRead(w) : r = SlDecoded(w, q)
      <3>1. PICK q \in SlDoRead(w) : r = SlDecoded(w, q)
        BY <2>4
      <3>2. SlSound(r, text) /\ SlSteady(w, r)
        BY <1>1, <2>2, <3>1, SlDoReadSound
      <3> QED BY <2>2, <3>2 DEF SlSteady
    <2> QED BY <2>1, <2>3, <2>4
  <1> QED BY <1>2, <1>3

-----------------------------------------------------------------------------
(* The text *)

\* What is written on a connection, text after text.
LEMMA SlWrittenGrows ==
    ASSUME NEW c \in Nat, NEW n \in Nat
    PROVE  /\ SlWritten(c, n) \in Seq(SlText) /\ SlWritten(c, 0) = <<>>
           /\ SlWritten(c, n + 1) = Append(SlWritten(c, n), <<c, n + 1>>)
  <1>1. \A m \in Nat : SlWritten(c, m) \in Seq(SlText) /\ Len(SlWritten(c, m)) = m
    <2> TAKE m \in Nat
    <2>1. SlWritten(c, m) \in [1 .. m -> SlText]
      BY DEF SlWritten, SlText
    <2>2. SlWritten(c, m) \in Seq(SlText)
      BY <2>1, SeqDef
    <2>3. DOMAIN SlWritten(c, m) = 1 .. m /\ DOMAIN SlWritten(c, m) = 1 .. Len(SlWritten(c, m))
          /\ Len(SlWritten(c, m)) \in Nat
      BY <2>1, <2>2, LenProperties
    <2> QED BY <2>2, <2>3
  <1>2. <<c, n + 1>> \in SlText
    BY DEF SlText
  <1> DEFINE old == SlWritten(c, n)
             x == <<c, n + 1>>
             new == SlWritten(c, n + 1)
  <1>3. \A i \in 1 .. n + 1 : new[i] = IF i <= n THEN old[i] ELSE x
    BY DEF SlWritten
  <1>4. new \in Seq(SlText) /\ old \in Seq(SlText) /\ Len(old) = n /\ Len(new) = n + 1
    BY <1>1
  <1>5. SlWritten(c, 0) = <<>>
    BY <1>1, EmptySeq, SeqEqual
  <1> HIDE DEF old, x, new
  <1>6. x \in SlText
    BY <1>2 DEF x
  <1>7. /\ Append(old, x) \in Seq(SlText) /\ Len(Append(old, x)) = n + 1
        /\ \A i \in 1 .. n : Append(old, x)[i] = old[i]
        /\ Append(old, x)[n + 1] = x
    BY <1>4, <1>6, AppendProperties
  <1>8. \A i \in 1 .. n + 1 : new[i] = Append(old, x)[i]
    BY <1>3, <1>7
  <1>9. new = Append(old, x)
    BY <1>4, <1>7, <1>8, SeqEqual
  <1> QED BY <1>4, <1>5, <1>9 DEF old, x, new

\* A text that is queued comes after all that was written before it.
LEMMA SlQueued ==
    ASSUME NEW sent, NEW out, NEW x, sent \in Seq(SlText), out \in Seq(SlText), x \in SlText
    PROVE  /\ Append(out, x) \in Seq(SlText)
           /\ sent \o Append(out, x) = Append(sent \o out, x)
  <1>1. Append(out, x) \in Seq(SlText) /\ Append(out, x) = out \o <<x>>
    BY AppendProperties, AppendIsConcat
  <1> DEFINE one == <<x>>
             all == sent \o out
  <1>2. one \in Seq(SlText)
    OBVIOUS
  <1>3. all \in Seq(SlText)
    BY ConcatProperties
  <1>4. Append(all, x) = all \o one
    <2> HIDE DEF all
    <2> QED BY <1>3, AppendIsConcat
  <1> HIDE DEF one
  <1>5. (sent \o out) \o one = sent \o (out \o one)
    BY <1>2, SlConcat
  <1> QED BY <1>1, <1>4, <1>5 DEF one

-----------------------------------------------------------------------------
(* The invariant *)

SlUnderWay == {"handshake", "want_write"}

SlKept ==
    /\ SlCurrent(sl_wrote)
    /\ sl_conn \in Nat /\ sl_last \in Nat /\ sl_wrote \in Nat
    /\ sl_conn = 0 => ~sl_ses.live /\ ~sl_broken
    /\ sl_conn # 0 => sl_hooked
    /\ sl_link /\ sl_conn # 0 /\ (sl_greeted \/ sl_wrote > 0) => sl_ses.status \notin SlUnderWay

\* The record a call works on, of the slot as it is.
LEMMA SlStateIs ==
    /\ SlState.ses = sl_ses /\ SlState.bufs = sl_bufs /\ SlState.sent = sl_sent /\ SlState.got = sl_got
    /\ SlState.handed = sl_handed /\ SlState.eof = FALSE /\ SlShape(SlState)
  BY DEF SlState, SlShape

\* What it means for the slot that the record is sound.
LEMMA SlCurrentIs ==
    ASSUME NEW text
    PROVE  SlSound(SlState, text) <=>
             /\ SlSesShape(sl_ses) /\ sl_ses.live \in BOOLEAN
             /\ sl_bufs = IF sl_ses.live THEN 1 ELSE 0
             /\ sl_got \in Nat /\ sl_handed \in Nat /\ sl_ses.in \in Nat
             /\ sl_ses.live => sl_got = sl_handed + sl_ses.in
             /\ sl_ses.out \in Seq(SlText) /\ sl_sent \in Seq(SlText)
             /\ ~sl_ses.live => sl_ses.out = <<>>
             /\ sl_ses.live /\ ~sl_broken => sl_sent \o sl_ses.out = text
  BY SlStateIs DEF SlSound

\* A call that is over has left the slot sound.
LEMMA SlSetSound ==
    ASSUME NEW r, SlSound(r, SlWritten(sl_conn', sl_wrote')), SlSet(r), (sl_broken' = sl_broken) \/ ~r.ses.live
    PROVE  SlCurrent(sl_wrote)' /\ sl_ses' = r.ses
  <1>1. /\ sl_ses' = r.ses /\ sl_bufs' = r.bufs /\ sl_sent' = r.sent /\ sl_got' = r.got /\ sl_handed' = r.handed
    BY DEF SlSet
  <1>2. /\ SlSesShape(r.ses) /\ r.ses.live \in BOOLEAN
        /\ r.bufs = IF r.ses.live THEN 1 ELSE 0
        /\ r.got \in Nat /\ r.handed \in Nat /\ r.ses.in \in Nat
        /\ r.ses.live => r.got = r.handed + r.ses.in
        /\ r.ses.out \in Seq(SlText) /\ r.sent \in Seq(SlText)
        /\ ~r.ses.live => r.ses.out = <<>>
        /\ r.ses.live /\ ~sl_broken' => r.sent \o r.ses.out = SlWritten(sl_conn', sl_wrote')
    BY DEF SlSound
  <1>3. SlShape(SlState)'
    BY DEF SlState, SlShape
  <1>4. /\ SlState'.ses = r.ses /\ SlState'.bufs = r.bufs /\ SlState'.sent = r.sent /\ SlState'.got = r.got
        /\ SlState'.handed = r.handed
    BY <1>1 DEF SlState
  <1> QED BY <1>1, <1>2, <1>3, <1>4 DEF SlCurrent, SlSound

-----------------------------------------------------------------------------
(* The actions *)

\* The constructor: what the slot had before is gone.
LEMMA SlAcceptKept ==
    ASSUME SlKept, SlAccept
    PROVE  SlKept'
  <1>1. sl_conn = 0 /\ ~sl_ses.live /\ ~sl_broken /\ sl_last \in Nat /\ sl_hooked
    BY DEF SlKept, SlAccept
  <1>2. /\ SlSesShape(sl_ses) /\ sl_ses.live \in BOOLEAN /\ sl_ses.out = <<>>
        /\ sl_bufs = 0 /\ sl_sent \in Seq(SlText) /\ sl_ses.out \in Seq(SlText)
    BY <1>1, SlCurrentIs DEF SlKept, SlCurrent
  <1> DEFINE st == IF sl_module = "zip" THEN "open" ELSE "none"
             zero == 0
             x == [sl_ses EXCEPT !.live = TRUE]
             y == [x EXCEPT !.in = zero]
             z == [y EXCEPT !.status = st]
             s == [ses |-> z, bufs |-> sl_bufs + 1, sent |-> <<>>, got |-> 0, handed |-> 0, eof |-> FALSE]
  <1>3. \E r \in IF sl_module = "zip" THEN {s} ELSE SlHandshake(s) : SlSet(r)
    BY DEF SlAccept
  <1>4. SlSesShape(z) /\ z.live = TRUE /\ z.in = 0 /\ z.out = <<>>
    <2> HIDE DEF st, zero
    <2>1. ASSUME NEW true, NEW p, p = [sl_ses EXCEPT !.live = true]
          PROVE  SlSesShape(p) /\ p.live = true /\ p.out = sl_ses.out
      <3>1. p = [live |-> true, status |-> sl_ses.status, rstat |-> sl_ses.rstat, wstat |-> sl_ses.wstat,
                 in |-> sl_ses.in, out |-> sl_ses.out]
        BY <1>2, <2>1, SlSesReplaced
      <3> QED BY <3>1 DEF SlSesShape
    <2>2. SlSesShape(x) /\ x.live = TRUE /\ x.out = sl_ses.out
      BY <2>1, Zenon
    <2> HIDE DEF x
    <2>3. y = [live |-> x.live, status |-> x.status, rstat |-> x.rstat, wstat |-> x.wstat, in |-> zero, out |-> x.out]
      BY <2>2, SlSesReplaced
    <2> HIDE DEF y
    <2>4. SlSesShape(y) /\ y.live = x.live /\ y.in = zero /\ y.out = x.out
      BY <2>3 DEF SlSesShape
    <2>5. z = [live |-> y.live, status |-> st, rstat |-> y.rstat, wstat |-> y.wstat, in |-> y.in, out |-> y.out]
      BY <2>4, SlSesReplaced
    <2> HIDE DEF z
    <2>6. SlSesShape(z) /\ z.live = y.live /\ z.in = y.in /\ z.out = y.out
      BY <2>5 DEF SlSesShape
    <2> QED BY <1>2, <2>2, <2>4, <2>6 DEF zero
  <1> HIDE DEF z
  <1> DEFINE text == SlWritten(sl_conn', sl_wrote')
  <1>5. text = <<>> /\ sl_conn' \in Nat /\ sl_wrote' = 0 /\ sl_last' \in Nat /\ sl_conn' # 0
        /\ sl_broken' = sl_broken /\ sl_hooked' = sl_hooked /\ sl_greeted' = FALSE
    BY <1>1, SlWrittenGrows DEF SlAccept
  <1> HIDE DEF text
  <1>6. SlSound(s, text)
    <2> DEFINE empty == <<>>
    <2>1. s = [ses |-> z, bufs |-> 1, sent |-> empty, got |-> zero, handed |-> zero, eof |-> FALSE]
      BY <1>2
    <2>2. empty \in Seq(SlText) /\ empty \o empty = empty
      BY EmptySeq, ConcatEmptySeq
    <2>3. z.out = empty /\ text = empty
      BY <1>4, <1>5
    <2> HIDE DEF s, empty
    <2>4. SlShape(s) /\ s.ses = z /\ s.bufs = 1 /\ s.sent = empty /\ s.got = 0 /\ s.handed = 0
      BY <2>1 DEF SlShape
    <2>5. s.ses.live /\ s.ses.live \in BOOLEAN /\ SlSesShape(s.ses) /\ s.ses.in = 0
      BY <1>4, <2>4
    <2>6. s.sent \o s.ses.out = text /\ s.sent \in Seq(SlText) /\ s.ses.out \in Seq(SlText)
      BY <2>2, <2>3, <2>4
    <2> QED BY <2>4, <2>5, <2>6 DEF SlSound
  <1> HIDE DEF s
  <1>7. PICK r : SlSound(r, text) /\ SlSet(r)
    BY <1>3, <1>6, SlHandshakeSound
  <1>8. SlCurrent(sl_wrote)'
    BY <1>5, <1>7, SlSetSound DEF text
  <1> QED BY <1>1, <1>5, <1>8 DEF SlKept

\* OnRawSocketWrite.
LEMMA SlWriteKept ==
    ASSUME SlKept, SlWrite
    PROVE  SlKept'
  <1> DEFINE s == [SlState EXCEPT !.ses = [sl_ses EXCEPT !.out = Append(@, <<sl_conn, sl_wrote + 1>>)]]
             text == SlWritten(sl_conn, sl_wrote + 1)
             resumed == IF SlResumable THEN SlHandshake(s) ELSE {s}
             results == IF ~sl_ses.live THEN {SlCloseSession(SlState)}
                        ELSE IF SlResumable /\ sl_module = "gnutls" THEN resumed
                        ELSE UNION {SlWriteOpen(r) : r \in resumed}
  <1>1. /\ sl_conn # 0 /\ sl_conn \in Nat /\ sl_wrote \in Nat /\ sl_last \in Nat
        /\ sl_wrote' = sl_wrote + 1 /\ sl_conn' = sl_conn /\ sl_last' = sl_last /\ sl_hooked' = sl_hooked
        /\ sl_broken' = sl_broken /\ sl_link' = sl_link /\ sl_greeted' = sl_greeted
        /\ sl_hooked /\ (sl_link => sl_greeted \/ sl_ses.status = "open")
    BY DEF SlKept, SlWrite
  <1>2. PICK r \in results : SlSet(r)
    BY DEF SlWrite
  <1>3. sl_link => sl_ses.status \notin SlUnderWay
    BY <1>1 DEF SlKept, SlUnderWay
  <1>4. /\ SlSesShape(sl_ses) /\ sl_ses.live \in BOOLEAN
        /\ sl_bufs = IF sl_ses.live THEN 1 ELSE 0
        /\ sl_got \in Nat /\ sl_handed \in Nat /\ sl_ses.in \in Nat
        /\ sl_ses.live => sl_got = sl_handed + sl_ses.in
        /\ sl_ses.out \in Seq(SlText) /\ sl_sent \in Seq(SlText)
        /\ ~sl_ses.live => sl_ses.out = <<>>
        /\ sl_ses.live /\ ~sl_broken => sl_sent \o sl_ses.out = SlWritten(sl_conn, sl_wrote)
    BY SlCurrentIs DEF SlKept, SlCurrent
  <1>5. CASE ~sl_ses.live
    <2>1. r = SlCloseSession(SlState)
      BY <1>2, <1>5
    <2>2. SlSound(SlState, text)
      BY <1>4, <1>5, SlCurrentIs
    <2> HIDE DEF text
    <2>3. SlSound(r, text) /\ ~r.ses.live /\ r.ses.status = "none"
      BY <2>1, <2>2, SlCloseSound
    <2>4. SlCurrent(sl_wrote)' /\ sl_ses' = r.ses
      BY <1>1, <1>2, <2>3, SlSetSound DEF text
    <2> QED BY <1>1, <2>3, <2>4 DEF SlKept, SlUnderWay
  <1>6. CASE sl_ses.live
    <2>1. SlSound(s, text) /\ s.ses.status = sl_ses.status
      <3> DEFINE queue == Append(sl_ses.out, <<sl_conn, sl_wrote + 1>>)
                 x == [sl_ses EXCEPT !.out = queue]
                 old == SlWritten(sl_conn, sl_wrote)
                 new == <<sl_conn, sl_wrote + 1>>
                 ses == sl_ses
                 sent == sl_sent
                 out == sl_ses.out
      <3>1. s = [SlState EXCEPT !.ses = x]
        OBVIOUS
      <3>2. new \in SlText
        BY <1>1 DEF SlText
      <3>3. text = Append(old, new)
        BY <1>1, SlWrittenGrows
      <3>4. queue = Append(out, new) /\ sent \in Seq(SlText) /\ out \in Seq(SlText)
            /\ (~sl_broken => sent \o out = old)
        BY <1>4, <1>6
      <3> HIDE DEF queue, new, old, sent, out, text
      <3>5. queue \in Seq(SlText)
        BY <3>2, <3>4, SlQueued
      <3>6. sent \o Append(out, new) = Append(sent \o out, new)
        <4>1. sent \in Seq(SlText) /\ out \in Seq(SlText)
          BY <3>4
        <4> QED BY <3>2, <4>1, SlQueued
      <3>7. ~sl_broken => sent \o queue = text
        BY <3>3, <3>4, <3>6
      <3>8. SlSesShape(x) /\ x.live = sl_ses.live /\ x.in = sl_ses.in /\ x.out = queue /\ x.status = sl_ses.status
        <4>1. ASSUME NEW p, SlSesShape(p)
              PROVE  LET q == [p EXCEPT !.out = queue]
                     IN SlSesShape(q) /\ q.live = p.live /\ q.in = p.in /\ q.out = queue /\ q.status = p.status
          <5> DEFINE q == [p EXCEPT !.out = queue]
          <5>1. q = [live |-> p.live, status |-> p.status, rstat |-> p.rstat, wstat |-> p.wstat, in |-> p.in, out |-> queue]
            BY <4>1, SlSesReplaced
          <5> HIDE DEF q
          <5>2. SlSesShape(q) /\ q.live = p.live /\ q.in = p.in /\ q.out = queue /\ q.status = p.status
            BY <5>1 DEF SlSesShape
          <5> QED BY <5>2 DEF q
        <4> QED BY <1>4, <4>1, Zenon
      <3> HIDE DEF x
      <3>9. s = [ses |-> x, bufs |-> SlState.bufs, sent |-> SlState.sent, got |-> SlState.got,
                 handed |-> SlState.handed, eof |-> SlState.eof]
        BY <3>1, SlStateIs, SlReplaced
      <3> HIDE DEF s
      <3>10. /\ SlShape(s) /\ s.ses = x /\ s.bufs = sl_bufs /\ s.sent = sl_sent /\ s.got = sl_got /\ s.handed = sl_handed
        BY <3>9, SlStateIs DEF SlShape
      <3>11. s.sent = sent
        BY <3>10 DEF sent
      <3> QED BY <1>4, <1>6, <3>4, <3>5, <3>7, <3>8, <3>10, <3>11 DEF SlSound
    <2> HIDE DEF s
    <2>2. ASSUME NEW q, SlSound(q, text), NEW p \in SlWriteOpen(q)
          PROVE  SlSound(p, text) /\ SlSteady(q, p)
      BY <2>2, SlPollWriteSound, SlDoWriteSound DEF SlWriteOpen, SlSteady
    <2>3. CASE SlResumable
      <3>1. \A q \in SlHandshake(s) : SlSound(q, text)
        BY <2>1, SlHandshakeSound
      <3>2. SlSound(r, text)
        BY <1>2, <1>6, <2>2, <2>3, <3>1
      <3>3. ~sl_link
        BY <1>3, <2>3 DEF SlResumable, SlUnderWay
      <3>4. SlCurrent(sl_wrote)' /\ sl_ses' = r.ses
        BY <1>1, <1>2, <3>2, SlSetSound
      <3> QED BY <1>1, <3>3, <3>4 DEF SlKept
    <2>4. CASE ~SlResumable
      <3>1. r \in SlWriteOpen(s)
        BY <1>2, <1>6, <2>4
      <3>2. SlSound(r, text) /\ SlSteady(s, r)
        BY <2>1, <2>2, <3>1
      <3>3. SlCurrent(sl_wrote)' /\ sl_ses' = r.ses
        BY <1>1, <1>2, <3>2, SlSetSound
      <3>4. sl_link => sl_ses'.status \notin SlUnderWay
        BY <1>3, <2>1, <3>2, <3>3 DEF SlSteady, SlUnderWay
      <3> QED BY <1>1, <3>3, <3>4 DEF SlKept
    <2> QED BY <2>3, <2>4
  <1> QED BY <1>4, <1>5, <1>6

\* OnRawSocketRead.
LEMMA SlReadKept ==
    ASSUME SlKept, SlRead
    PROVE  SlKept'
  <1> DEFINE text == SlWritten(sl_conn, sl_wrote)
             resumes == sl_ses.status = "handshake"
                        /\ (sl_module = "openssl" => "read" \in {sl_ses.rstat, sl_ses.wstat})
             open == IF resumes THEN SlHandshake(SlState) ELSE {SlState}
             results == IF ~sl_ses.live THEN {SlEof(SlCloseSession(SlState))}
                        ELSE UNION {IF r.ses.status = "open" THEN SlReadOpen(r) ELSE {r} : r \in open}
  <1>1. /\ sl_conn # 0 /\ sl_conn \in Nat /\ sl_wrote \in Nat /\ sl_last \in Nat /\ sl_hooked
        /\ sl_wrote' = sl_wrote /\ sl_last' = sl_last /\ sl_hooked' = sl_hooked
        /\ sl_link' = sl_link /\ sl_greeted' = sl_greeted
    BY DEF SlKept, SlRead
  <1>2. PICK r \in results :
           IF r.eof THEN SlSet(SlCloseSession(r)) /\ sl_conn' = 0 /\ sl_broken' = FALSE
           ELSE SlSet(r) /\ UNCHANGED <<sl_conn, sl_broken>>
    BY DEF SlRead
  <1>3. SlSound(SlState, text)
    BY DEF SlKept, SlCurrent
  <1> HIDE DEF text
  <1>4. SlSound(r, text)
    <2>1. CASE ~sl_ses.live
      <3>1. SlSound(SlCloseSession(SlState), text)
        BY <1>3, SlCloseSound
      <3> QED BY <1>2, <2>1, <3>1, SlEofSound
    <2>2. CASE sl_ses.live
      <3>1. \A q \in open : SlSound(q, text)
        BY <1>3, SlHandshakeSound
      <3> HIDE DEF open
      <3>2. PICK q \in open : r \in IF q.ses.status = "open" THEN SlReadOpen(q) ELSE {q}
        BY <1>2, <2>2
      <3> QED BY <3>1, <3>2, SlReadOpenSound
    <2> QED BY <2>1, <2>2
  <1>5. CASE r.eof
    <2>1. SlSound(SlCloseSession(r), SlWritten(0, sl_wrote)) /\ ~SlCloseSession(r).ses.live
      <3>1. SlSound(SlCloseSession(r), text) /\ ~SlCloseSession(r).ses.live
        BY <1>4, SlCloseSound
      <3> QED BY <3>1 DEF SlSound
    <2>2. SlSet(SlCloseSession(r)) /\ sl_conn' = 0 /\ sl_broken' = FALSE
      BY <1>2, <1>5
    <2>3. SlCurrent(sl_wrote)' /\ sl_ses' = SlCloseSession(r).ses
      BY <1>1, <2>1, <2>2, SlSetSound
    <2> QED BY <1>1, <2>1, <2>2, <2>3 DEF SlKept
  <1>6. CASE ~r.eof
    <2>1. SlSet(r) /\ sl_conn' = sl_conn /\ sl_broken' = sl_broken
      BY <1>2, <1>6
    <2>2. SlCurrent(sl_wrote)' /\ sl_ses' = r.ses
      BY <1>1, <1>4, <2>1, SlSetSound DEF text
    <2>3. sl_link /\ (sl_greeted \/ sl_wrote > 0) => r.ses.status \notin SlUnderWay
      <3> SUFFICES ASSUME sl_link, sl_greeted \/ sl_wrote > 0
                   PROVE  r.ses.status \notin SlUnderWay
        OBVIOUS
      <3>1. sl_ses.status \notin SlUnderWay
        BY <1>1 DEF SlKept
      <3>2. CASE ~sl_ses.live
        <4>1. r = SlEof(SlCloseSession(SlState)) /\ SlSound(SlCloseSession(SlState), text)
              /\ SlCloseSession(SlState).ses.status = "none"
          BY <1>2, <1>3, <3>2, SlCloseSound
        <4>2. r.ses.status = "none"
          BY <4>1, SlEofSound
        <4> QED BY <4>2 DEF SlUnderWay
      <3>3. CASE sl_ses.live
        <4>1. open = {SlState}
          BY <3>1 DEF SlUnderWay
        <4> HIDE DEF open
        <4>2. r \in IF SlState.ses.status = "open" THEN SlReadOpen(SlState) ELSE {SlState}
          BY <1>2, <3>3, <4>1
        <4>3. SlSteady(SlState, r)
          BY <1>3, <4>2, SlReadOpenSound DEF SlSteady
        <4> QED BY <3>1, <4>3, SlStateIs DEF SlSteady, SlUnderWay
      <3>4. sl_ses.live \in BOOLEAN
        BY <1>3, SlCurrentIs
      <3> QED BY <3>2, <3>3, <3>4
    <2> QED BY <1>1, <2>1, <2>2, <2>3 DEF SlKept
  <1> QED BY <1>5, <1>6

\* The connection is closed on this side.
LEMMA SlCloseKept ==
    ASSUME SlKept, SlClose
    PROVE  SlKept'
  <1>1. SlSet(SlCloseSession(SlState)) /\ sl_conn' = 0 /\ sl_broken' = FALSE /\ sl_wrote' = sl_wrote /\ sl_last' = sl_last
    BY DEF SlClose, SlKept
  <1>2. SlSound(SlCloseSession(SlState), SlWritten(0, sl_wrote)) /\ ~SlCloseSession(SlState).ses.live
    <2>1. SlSound(SlCloseSession(SlState), SlWritten(sl_conn, sl_wrote)) /\ ~SlCloseSession(SlState).ses.live
      BY SlCloseSound DEF SlKept, SlCurrent
    <2> QED BY <2>1 DEF SlSound
  <1>3. SlCurrent(sl_wrote)' /\ sl_ses' = SlCloseSession(SlState).ses
    BY <1>1, <1>2, SlSetSound
  <1> QED BY <1>1, <1>2, <1>3 DEF SlKept

\* Every step keeps the slot the connection's own.
LEMMA SlStepKept ==
    ASSUME ~SlDropsBusy, SlKept, [TransportHooksNext]_sl_vars
    PROVE  SlKept'
  <1>1. ASSUME sl_ses' = sl_ses, sl_bufs' = sl_bufs, sl_sent' = sl_sent, sl_got' = sl_got, sl_handed' = sl_handed,
               sl_conn' = sl_conn, sl_wrote' = sl_wrote, sl_last' = sl_last, sl_link' = sl_link,
               sl_broken' = sl_broken \/ (sl_broken' /\ sl_conn # 0),
               sl_hooked' = sl_hooked \/ sl_conn = 0,
               sl_greeted' = sl_greeted \/ sl_ses.status \notin SlUnderWay
        PROVE  SlKept'
    <2>1. SlSound(SlState, SlWritten(sl_conn, sl_wrote))
      BY DEF SlKept, SlCurrent
    <2>2. SlSet(SlState)
      BY <1>1, SlStateIs DEF SlSet
    <2>3. SlState' = SlState
      BY <1>1 DEF SlState
    <2>4. SlCurrent(sl_wrote)'
      BY <1>1, <2>1, <2>3 DEF SlCurrent, SlSound
    <2> QED BY <1>1, <2>4 DEF SlKept
  <1>2. CASE SlReset
    BY <1>1, <1>2 DEF SlReset
  <1>3. CASE SlRehash
    BY <1>1, <1>3 DEF SlRehash
  <1>4. CASE SlHandshakeTimer
    BY <1>1, <1>4 DEF SlHandshakeTimer, SlHsDone, SlUnderWay
  <1>5. CASE UNCHANGED sl_vars
    BY <1>1, <1>5 DEF sl_vars
  <1> QED BY <1>2, <1>3, <1>4, <1>5, SlAcceptKept, SlWriteKept, SlReadKept, SlCloseKept DEF TransportHooksNext

\* Before the first connection.
LEMMA SlInitKept == TransportHooksInit => SlKept
  <1> SUFFICES ASSUME TransportHooksInit
               PROVE  SlKept
    OBVIOUS
  <1>1. SlSesShape(sl_ses)
    BY DEF TransportHooksInit, SlSesShape
  <1>2. <<>> \in Seq(SlText)
    BY EmptySeq
  <1>3. SlSound(SlState, SlWritten(sl_conn, sl_wrote))
    BY <1>1, <1>2, SlCurrentIs DEF TransportHooksInit
  <1> QED BY <1>3 DEF TransportHooksInit, SlKept, SlCurrent

\* SlSessionsOwn for any number of connections, texts and pieces, whatever the library answers, where no REHASH takes
\* a port away that has connections on it.
THEOREM SessionsAlwaysOwn == ~SlDropsBusy /\ TransportHooksSpec => []SlSessionsOwn
  <1> SUFFICES ASSUME ~SlDropsBusy
               PROVE  TransportHooksSpec => []SlSessionsOwn
    OBVIOUS
  <1>1. SlKept /\ [TransportHooksNext]_sl_vars => SlKept'
    BY SlStepKept
  <1>2. SlKept => SlSessionsOwn
    <2> SUFFICES ASSUME SlKept
                 PROVE  SlSessionsOwn
      OBVIOUS
    <2>1. /\ sl_bufs = IF sl_ses.live THEN 1 ELSE 0
          /\ sl_ses.live => sl_got = sl_handed + sl_ses.in
          /\ sl_ses.live /\ ~sl_broken => sl_sent \o sl_ses.out = SlWritten(sl_conn, sl_wrote)
      BY SlCurrentIs DEF SlKept, SlCurrent
    <2>2. SlStreamIsOwn
      BY <2>1 DEF SlStreamIsOwn, SlWritten
    <2>3. SlBufferPerSession /\ SlInputOnce
      BY <2>1 DEF SlBufferPerSession, SlInputOnce
    <2>4. SlLinkWaits
      BY DEF SlKept, SlLinkWaits, SlUnderWay
    <2> QED BY <2>2, <2>3, <2>4 DEF SlSessionsOwn
  <1> QED BY <1>1, <1>2, SlInitKept, PTL DEF TransportHooksSpec

-----------------------------------------------------------------------------
(* Descriptors *)

\* What an entry of a table can be.
SoHandler == SoHandlers \cup {SoNone}

\* The three tables: a number with a handler is watched.
SoTablesOK(t) ==
    /\ t = [os |-> t.os, watched |-> t.watched, ref |-> t.ref]
    /\ t.os \in [SoFds -> SoHandler] /\ t.watched \subseteq SoFds /\ t.ref \in [SoFds -> SoHandler]
    /\ \A f \in SoFds : t.ref[f] # SoNone => f \in t.watched

\* The second table is the first with some handlers taken out.
SoFewer(t, r) == \A f \in SoFds : r.ref[f] \in {t.ref[f], SoNone}

-----------------------------------------------------------------------------
(* The engine *)

\* There is a lowest free number.
LEMMA SoNextFdFree ==
    ASSUME SoFree # {}
    PROVE  SoNextFd \in SoFree
  <1>1. SoFree \subseteq Nat
    BY SocketsOK DEF SoFree, SoFds
  <1>2. PICK f \in SoFree : \A g \in SoFree : ~(<<g, f>> \in OpToRel(<, Nat))
    BY <1>1, NatLessThanWellFounded, WFMin
  <1>3. \A g \in SoFree : ~(g < f)
    BY <1>1, <1>2 DEF OpToRel
  <1>4. \A g \in SoFree : f <= g
    BY <1>1, <1>3
  <1> QED BY <1>4 DEF SoNextFd

\* The number a new socket gets, seen by the engine.
LEMMA SoOsOpenOK ==
    ASSUME NEW t, SoTablesOK(t), NEW f \in SoFds, NEW h \in SoHandlers
    PROVE  /\ SoTablesOK([t EXCEPT !.os = [@ EXCEPT ![f] = h]])
           /\ [t EXCEPT !.os = [@ EXCEPT ![f] = h]].ref = t.ref
  BY DEF SoTablesOK, SoHandler

LEMMA SoAddFdOK ==
    ASSUME NEW t, SoTablesOK(t), NEW f \in SoFds, NEW h \in SoHandlers
    PROVE  /\ SoTablesOK(SoAddFd(t, h, f))
           /\ \A g \in SoFds : SoAddFd(t, h, f).ref[g] = t.ref[g] \/ (g = f /\ SoAddFd(t, h, f).ref[g] = h)
  <1>1. CASE t.ref[f] # SoNone
    BY <1>1 DEF SoAddFd
  <1>2. CASE t.ref[f] = SoNone
    <2> DEFINE r == [t.ref EXCEPT ![f] = h]
               w == t.watched \cup {f}
               s == SoAddFd(t, h, f)
    <2>1. s = [t EXCEPT !.ref = r, !.watched = w]
      BY <1>2 DEF SoAddFd
    <2>2. r \in [SoFds -> SoHandler] /\ \A g \in SoFds : r[g] = IF g = f THEN h ELSE t.ref[g]
      BY DEF SoTablesOK, SoHandler
    <2>3. w \subseteq SoFds /\ \A g \in SoFds : r[g] # SoNone => g \in w
      BY <2>2 DEF SoTablesOK
    <2> HIDE DEF r, w, s
    <2>4. s = [os |-> t.os, watched |-> w, ref |-> r]
      BY <2>1 DEF SoTablesOK
    <2>5. SoTablesOK(s) /\ s.ref = r
      BY <2>2, <2>3, <2>4 DEF SoTablesOK
    <2> QED BY <2>2, <2>5 DEF s
  <1> QED BY <1>1, <1>2

LEMMA SoDelFdOK ==
    ASSUME NEW t, SoTablesOK(t), NEW f
    PROVE  /\ SoTablesOK(SoDelFd(t, f)) /\ SoFewer(t, SoDelFd(t, f))
           /\ f \in SoFds => SoDelFd(t, f).ref[f] = SoNone
  <1>1. CASE f \notin t.watched
    BY <1>1 DEF SoDelFd, SoFewer, SoTablesOK
  <1>2. CASE f \in t.watched
    <2> DEFINE r == [t.ref EXCEPT ![f] = SoNone]
               w == t.watched \ {f}
               s == SoDelFd(t, f)
    <2>1. s = [t EXCEPT !.ref = r, !.watched = w]
      BY <1>2 DEF SoDelFd
    <2>2. r \in [SoFds -> SoHandler] /\ \A g \in SoFds : r[g] = IF g = f THEN SoNone ELSE t.ref[g]
      BY DEF SoTablesOK, SoHandler
    <2>3. w \subseteq SoFds /\ (\A g \in SoFds : r[g] # SoNone => g \in w)
      BY <2>2 DEF SoTablesOK
    <2> HIDE DEF r, w, s
    <2>4. s = [os |-> t.os, watched |-> w, ref |-> r]
      BY <2>1 DEF SoTablesOK
    <2>5. SoTablesOK(s) /\ s.ref = r
      BY <2>2, <2>3, <2>4 DEF SoTablesOK
    <2> QED BY <2>2, <2>5 DEF s, SoFewer
  <1> QED BY <1>1, <1>2

\* A number is closed after it was taken out of the engine.
LEMMA SoOsCloseOK ==
    ASSUME NEW t, SoTablesOK(t), NEW f \in SoFds \cup {0}, f \in SoFds => t.ref[f] = SoNone
    PROVE  SoTablesOK(SoOsClose(t, f)) /\ SoOsClose(t, f).ref = t.ref
  <1>1. CASE f = 0
    BY <1>1 DEF SoOsClose
  <1>2. CASE f # 0
    <2> DEFINE o == [t.os EXCEPT ![f] = SoNone]
               w == t.watched \ {f}
               s == SoOsClose(t, f)
    <2>1. s = [t EXCEPT !.os = o, !.watched = w]
      BY <1>2 DEF SoOsClose
    <2>2. o \in [SoFds -> SoHandler]
      BY DEF SoTablesOK, SoHandler
    <2>3. w \subseteq SoFds /\ (\A g \in SoFds : t.ref[g] # SoNone => g \in w)
      BY <1>2 DEF SoTablesOK
    <2> HIDE DEF o, w, s
    <2>4. s = [os |-> o, watched |-> w, ref |-> t.ref]
      BY <2>1 DEF SoTablesOK
    <2>5. SoTablesOK(s) /\ s.ref = t.ref
      BY <2>2, <2>3, <2>4 DEF SoTablesOK
    <2> QED BY <2>5 DEF s
  <1> QED BY <1>1, <1>2

-----------------------------------------------------------------------------
(* The invariant *)

SoTypes ==
    /\ so_phase \in {"timers", "events", "users", "sockets"}
    /\ so_state \in [SoHandlers -> {"free", "connecting", "connected", "error"}]
    /\ so_fd \in [SoHandlers -> SoFds \cup {0}]
    /\ so_timers \subseteq SoSockets /\ so_quits \subseteq SoUsers /\ so_culls \subseteq SoSockets
    /\ so_ident \in [SoUsers -> SoIdents \cup {SoNone}]
    /\ so_about \in [SoIdents -> [u : SoUsers \cup {SoNone}, ufd : SoFds \cup {0}, gen : {0, 1}]]
    /\ so_gen \in [SoUsers -> {0, 1}]

SoEngineKept == SoTablesOK(SoTables) /\ SoRefsLive

\* Whom a lookup is about knows it, unless it has ended; when he is gone, it is deleted before anybody can have
\* his place.
SoIdentsKept ==
    /\ \A i \in SoIdents : so_state[i] = "free" => so_about[i].u = SoNone
    /\ \A i, j \in SoIdents : so_about[i].u # SoNone /\ so_about[j].u = so_about[i].u => i = j
    /\ \A i \in SoIdents, u \in SoUsers : so_about[i].u = u =>
          /\ so_ident[u] = i \/ i \in so_culls
          /\ so_state[u] # "free" => so_gen[u] = so_about[i].gen
          /\ so_state[u] = "free" => i \in so_culls /\ so_phase \in {"users", "sockets"}

SoKept == SoTypes /\ SoEngineKept

-----------------------------------------------------------------------------
(* What the actions do to the engine *)

LEMMA SoTablesAre == SoTables.os = so_os /\ SoTables.watched = so_watched /\ SoTables.ref = so_ref
  BY DEF SoTables

LEMMA SoTablesSet ==
    ASSUME NEW r, SoTablesOK(r), SoSetTables(r)
    PROVE  SoTablesOK(SoTables)' /\ so_ref' = r.ref
  <1>1. so_os' = r.os /\ so_watched' = r.watched /\ so_ref' = r.ref
    BY DEF SoSetTables
  <1>2. SoTables' = [os |-> r.os, watched |-> r.watched, ref |-> r.ref]
    BY <1>1 DEF SoTables
  <1>3. SoTables' = r
    BY <1>2 DEF SoTablesOK
  <1> QED BY <1>1, <1>3 DEF SoTablesOK

\* Handlers are taken out of the engine, and those that change are among them.
LEMMA SoEngineShrinks ==
    ASSUME SoKept, NEW r, SoTablesOK(r), SoFewer(SoTables, r), SoSetTables(r),
           \A h \in SoHandlers :
              \/ so_fd'[h] = so_fd[h] /\ (so_state[h] # "free" => so_state'[h] # "free")
              \/ so_fd[h] \in SoFds => r.ref[so_fd[h]] # h
    PROVE  SoEngineKept'
  <1>1. SoTablesOK(SoTables)' /\ so_ref' = r.ref
    BY SoTablesSet
  <1>2. \A f \in SoFds : r.ref[f] \in {so_ref[f], SoNone}
    BY SoTablesAre DEF SoFewer
  <1>3. so_ref \in [SoFds -> SoHandler]
    BY SoTablesAre DEF SoKept, SoEngineKept, SoTablesOK
  <1>4. ASSUME NEW f \in SoFds, so_ref'[f] # SoNone
        PROVE  so_state'[so_ref'[f]] # "free" /\ so_fd'[so_ref'[f]] = f
    <2>1. r.ref[f] = so_ref[f] /\ so_ref'[f] = so_ref[f] /\ so_ref[f] \in SoHandlers
      BY <1>1, <1>2, <1>3, <1>4 DEF SoHandler
    <2>2. so_state[so_ref[f]] # "free" /\ so_fd[so_ref[f]] = f
      BY <1>4, <2>1 DEF SoKept, SoEngineKept, SoRefsLive
    <2> QED BY <2>1, <2>2
  <1>5. SoRefsLive'
    BY <1>4 DEF SoRefsLive, SoFds
  <1> QED BY <1>1, <1>5 DEF SoEngineKept

\* A handler that is not in the engine gets a number there.
LEMMA SoEngineGrows ==
    ASSUME SoKept, NEW h \in SoHandlers, so_state[h] = "free", NEW f \in SoFds, NEW st, st # "free",
           NEW t, SoTablesOK(t), t.ref = so_ref, SoSetTables(SoAddFd(t, h, f)),
           so_fd' = [so_fd EXCEPT ![h] = f], so_state' = [so_state EXCEPT ![h] = st]
    PROVE  SoEngineKept'
  <1> DEFINE r == SoAddFd(t, h, f)
  <1>1. SoTablesOK(r) /\ \A g \in SoFds : r.ref[g] = so_ref[g] \/ (g = f /\ r.ref[g] = h)
    BY SoAddFdOK
  <1> HIDE DEF r
  <1>2. SoTablesOK(SoTables)' /\ so_ref' = r.ref
    BY <1>1, SoTablesSet DEF r
  <1>3. so_ref \in [SoFds -> SoHandler]
    BY SoTablesAre DEF SoKept, SoEngineKept, SoTablesOK
  <1>4. ASSUME NEW g \in SoFds, so_ref'[g] # SoNone
        PROVE  so_state'[so_ref'[g]] # "free" /\ so_fd'[so_ref'[g]] = g
    <2>1. CASE so_ref'[g] = so_ref[g]
      <3>1. so_ref[g] \in SoHandlers /\ so_state[so_ref[g]] # "free" /\ so_fd[so_ref[g]] = g
        BY <1>3, <1>4, <2>1 DEF SoKept, SoEngineKept, SoRefsLive, SoHandler
      <3> QED BY <2>1, <3>1 DEF SoKept, SoTypes
    <2>2. CASE g = f /\ so_ref'[g] = h
      BY <2>2 DEF SoKept, SoTypes
    <2> QED BY <1>1, <1>2, <2>1, <2>2
  <1>5. SoRefsLive'
    BY <1>4 DEF SoRefsLive, SoFds
  <1> QED BY <1>2, <1>5 DEF SoEngineKept

\* A number is taken out of the engine and closed.
LEMMA SoDelAndClose ==
    ASSUME NEW t, SoTablesOK(t), NEW f \in SoFds \cup {0}
    PROVE  LET r == SoOsClose(SoDelFd(t, f), f)
           IN SoTablesOK(r) /\ SoFewer(t, r) /\ (f \in SoFds => r.ref[f] = SoNone)
  <1> DEFINE d == SoDelFd(t, f)
  <1>1. SoTablesOK(d) /\ SoFewer(t, d) /\ (f \in SoFds => d.ref[f] = SoNone)
    BY SoDelFdOK
  <1> HIDE DEF d
  <1>2. SoTablesOK(SoOsClose(d, f)) /\ SoOsClose(d, f).ref = d.ref
    BY <1>1, SoOsCloseOK
  <1> QED BY <1>1, <1>2 DEF d, SoFewer

\* An open number is one of the socket that got it.
LEMMA SoOpened ==
    ASSUME SoKept, SoFree # {}, NEW h \in SoHandlers
    PROVE  LET t == [SoTables EXCEPT !.os = [@ EXCEPT ![SoNextFd] = h]]
           IN SoNextFd \in SoFds /\ SoTablesOK(t) /\ t.ref = so_ref
  <1>1. SoNextFd \in SoFds
    BY SoNextFdFree DEF SoFree
  <1> DEFINE f == SoNextFd
             tables == SoTables
  <1>2. SoTablesOK(tables) /\ tables.ref = so_ref
    BY SoTablesAre DEF SoKept, SoEngineKept
  <1> HIDE DEF f, tables
  <1>3. f \in SoFds
    BY <1>1 DEF f
  <1>4. SoTablesOK([tables EXCEPT !.os = [@ EXCEPT ![f] = h]])
        /\ [tables EXCEPT !.os = [@ EXCEPT ![f] = h]].ref = so_ref
    BY <1>2, <1>3, SoOsOpenOK
  <1> QED BY <1>1, <1>4 DEF f, tables

\* Nothing happens to the engine.
LEMMA SoEngineStays ==
    ASSUME SoKept, UNCHANGED so_tables, so_fd' = so_fd,
           \A h \in SoHandlers : so_state[h] # "free" => so_state'[h] # "free"
    PROVE  SoEngineKept'
  <1>1. SoTablesOK(SoTables) /\ SoSetTables(SoTables)
    BY SoTablesAre DEF SoKept, SoEngineKept, SoSetTables, so_tables
  <1>2. SoFewer(SoTables, SoTables)
    BY DEF SoFewer
  <1> QED BY <1>1, <1>2, SoEngineShrinks

-----------------------------------------------------------------------------
(* The engine's invariant, action by action *)

LEMMA SoAcceptEngine ==
    ASSUME SoKept, NEW u \in SoUsers, SoAccept(u)
    PROVE  SoEngineKept'
  <1>1. u \in SoHandlers /\ so_state[u] = "free" /\ SoFree # {} /\ "connected" # "free"
    BY DEF SoAccept, SoHandlers
  <1> DEFINE f == SoNextFd
             t == [SoTables EXCEPT !.os = [@ EXCEPT ![f] = u]]
             connected == "connected"
  <1>2. f \in SoFds /\ SoTablesOK(t) /\ t.ref = so_ref
    BY <1>1, SoOpened
  <1>3. SoSetTables(SoAddFd(t, u, f)) /\ so_fd' = [so_fd EXCEPT ![u] = f]
        /\ so_state' = [so_state EXCEPT ![u] = connected]
    BY DEF SoAccept
  <1>4. connected # "free"
    OBVIOUS
  <1> HIDE DEF f, t, connected
  <1> QED BY <1>1, <1>2, <1>3, <1>4, SoEngineGrows

LEMMA SoAcceptLinkEngine ==
    ASSUME SoKept, NEW l \in SoLinks, SoAcceptLink(l)
    PROVE  SoEngineKept'
  <1>1. l \in SoHandlers /\ so_state[l] = "free" /\ SoFree # {}
    BY DEF SoAcceptLink, SoHandlers, SoSockets
  <1> DEFINE f == SoNextFd
             t == [SoTables EXCEPT !.os = [@ EXCEPT ![f] = l]]
             connected == "connected"
  <1>2. f \in SoFds /\ SoTablesOK(t) /\ t.ref = so_ref
    BY <1>1, SoOpened
  <1>3. SoSetTables(SoAddFd(t, l, f)) /\ so_fd' = [so_fd EXCEPT ![l] = f]
        /\ so_state' = [so_state EXCEPT ![l] = connected]
    BY DEF SoAcceptLink
  <1>4. connected # "free"
    OBVIOUS
  <1> HIDE DEF f, t, connected
  <1> QED BY <1>1, <1>2, <1>3, <1>4, SoEngineGrows

LEMMA SoLookupEngine ==
    ASSUME SoKept, NEW u \in SoUsers, NEW i \in SoIdents, SoLookup(u, i)
    PROVE  SoEngineKept'
  <1>1. i \in SoHandlers /\ so_state[i] = "free" /\ SoFree # {}
    BY DEF SoLookup, SoHandlers, SoSockets
  <1> DEFINE f == SoNextFd
             t == [SoTables EXCEPT !.os = [@ EXCEPT ![f] = i]]
             connecting == "connecting"
  <1>2. f \in SoFds /\ SoTablesOK(t) /\ t.ref = so_ref
    BY <1>1, SoOpened
  <1>3. SoSetTables(SoAddFd(t, i, f)) /\ so_fd' = [so_fd EXCEPT ![i] = f]
        /\ so_state' = [so_state EXCEPT ![i] = connecting]
    BY DEF SoLookup
  <1>4. connecting # "free"
    OBVIOUS
  <1> HIDE DEF f, t, connecting
  <1> QED BY <1>1, <1>2, <1>3, <1>4, SoEngineGrows

\* The number is taken out and put in again for the same handler.
LEMMA SoConnectedEngine ==
    ASSUME SoKept, NEW i \in SoIdents, SoConnected(i)
    PROVE  SoEngineKept'
  <1> DEFINE f == so_fd[i]
             d == SoDelFd(SoTables, f)
             r == SoAddFd(d, i, f)
  <1>1. i \in SoHandlers /\ f \in SoFds /\ so_ref[f] = i
    BY DEF SoConnected, SoDispatched, SoIsRef, SoHandlers, SoSockets, SoKept, SoTypes
  <1>2. SoTablesOK(SoTables) /\ SoTables.ref = so_ref
    BY SoTablesAre DEF SoKept, SoEngineKept
  <1>3. SoSetTables(r) /\ so_fd' = so_fd /\ so_state' = [so_state EXCEPT ![i] = "connected"]
    BY DEF SoConnected
  <1> HIDE DEF f, d
  <1>4. SoTablesOK(d) /\ SoFewer(SoTables, d)
    BY <1>2, SoDelFdOK DEF d
  <1>5. SoTablesOK(r) /\ \A g \in SoFds : r.ref[g] = d.ref[g] \/ (g = f /\ r.ref[g] = i)
    BY <1>1, <1>4, SoAddFdOK
  <1> HIDE DEF r
  <1>6. SoFewer(SoTables, r)
    BY <1>1, <1>2, <1>4, <1>5 DEF SoFewer
  <1>7. \A h \in SoHandlers : so_fd'[h] = so_fd[h] /\ (so_state[h] # "free" => so_state'[h] # "free")
    BY <1>3 DEF SoKept, SoTypes
  <1> QED BY <1>3, <1>5, <1>6, <1>7, SoEngineShrinks

\* A socket whose write fails is taken out at once.
LEMMA SoWriteErrorEngine ==
    ASSUME SoKept, NEW s \in SoSockets, SoWriteError(s)
    PROVE  SoEngineKept'
  <1> DEFINE f == so_fd[s]
             r == SoOsClose(SoDelFd(SoTables, f), f)
  <1>1. f \in SoFds \cup {0}
    BY DEF SoKept, SoTypes, SoHandlers
  <1>2. SoTablesOK(SoTables)
    BY DEF SoKept, SoEngineKept
  <1>3. SoSetTables(r) /\ so_fd' = so_fd /\ so_state' = [so_state EXCEPT ![s] = "error"]
    BY DEF SoWriteError
  <1>4. SoTablesOK(r) /\ SoFewer(SoTables, r)
    BY <1>1, <1>2, SoDelAndClose
  <1> HIDE DEF r
  <1>5. \A h \in SoHandlers : so_fd'[h] = so_fd[h] /\ (so_state[h] # "free" => so_state'[h] # "free")
    BY <1>3 DEF SoKept, SoTypes
  <1> QED BY <1>3, <1>4, <1>5, SoEngineShrinks

\* A client is deleted; so is, before him, the lookup that is about him taken out.
LEMMA SoApplyEngine ==
    ASSUME SoKept, NEW u \in SoUsers, SoApply(u)
    PROVE  SoEngineKept'
  <1> DEFINE f == so_fd[u]
             t == SoForget(u, SoTables).tables
             r == SoOsClose(SoDelFd(t, f), f)
  <1>1. f \in SoFds \cup {0} /\ u \in SoHandlers
    BY DEF SoKept, SoTypes, SoHandlers
  <1>2. SoTablesOK(SoTables) /\ SoTables.ref = so_ref
    BY SoTablesAre DEF SoKept, SoEngineKept
  <1>3. SoSetTables(r) /\ so_fd' = [so_fd EXCEPT ![u] = 0] /\ so_state' = [so_state EXCEPT ![u] = "free"]
    BY DEF SoApply
  <1>4. SoTablesOK(t) /\ SoFewer(SoTables, t)
    <2>1. t = SoTables \/ t = SoDelFd(SoTables, so_fd[so_ident[u]])
      BY DEF SoForget
    <2> HIDE DEF t
    <2> QED BY <1>2, <2>1, SoDelFdOK DEF SoFewer
  <1> HIDE DEF t
  <1>5. SoTablesOK(r) /\ SoFewer(t, r) /\ (f \in SoFds => r.ref[f] = SoNone)
    BY <1>1, <1>4, SoDelAndClose
  <1> HIDE DEF r
  <1>6. SoFewer(SoTables, r)
    BY <1>4, <1>5 DEF SoFewer
  <1>7. ASSUME NEW h \in SoHandlers
        PROVE  \/ so_fd'[h] = so_fd[h] /\ (so_state[h] # "free" => so_state'[h] # "free")
               \/ so_fd[h] \in SoFds => r.ref[so_fd[h]] # h
    <2>1. CASE h = u
      BY <1>5, <2>1, SocketsOK
    <2>2. CASE h # u
      BY <1>3, <2>2 DEF SoKept, SoTypes
    <2> QED BY <2>1, <2>2
  <1> QED BY <1>3, <1>5, <1>6, <1>7, SoEngineShrinks

LEMMA SoCullEngine ==
    ASSUME SoKept, NEW s \in SoSockets, SoCull(s)
    PROVE  SoEngineKept'
  <1> DEFINE f == so_fd[s]
             r == SoOsClose(SoDelFd(SoTables, f), f)
  <1>1. f \in SoFds \cup {0} /\ s \in SoHandlers
    BY DEF SoKept, SoTypes, SoHandlers
  <1>2. SoTablesOK(SoTables)
    BY DEF SoKept, SoEngineKept
  <1>3. SoSetTables(r) /\ so_fd' = [so_fd EXCEPT ![s] = 0] /\ so_state' = [so_state EXCEPT ![s] = "free"]
    BY DEF SoCull
  <1>4. SoTablesOK(r) /\ SoFewer(SoTables, r) /\ (f \in SoFds => r.ref[f] = SoNone)
    BY <1>1, <1>2, SoDelAndClose
  <1> HIDE DEF r
  <1>5. ASSUME NEW h \in SoHandlers
        PROVE  \/ so_fd'[h] = so_fd[h] /\ (so_state[h] # "free" => so_state'[h] # "free")
               \/ so_fd[h] \in SoFds => r.ref[so_fd[h]] # h
    <2>1. CASE h = s
      BY <1>4, <2>1, SocketsOK
    <2>2. CASE h # s
      BY <1>3, <2>2 DEF SoKept, SoTypes
    <2> QED BY <2>1, <2>2
  <1> QED BY <1>3, <1>4, <1>5, SoEngineShrinks
-----------------------------------------------------------------------------
(* Types *)

\* A client lets go of his lookup, or not.
LEMMA SoLetGoIs ==
    ASSUME SoTypes, NEW s \in SoSockets, NEW ref
    PROVE  \/ SoLetGo(s, ref) = so_ident
           \/ /\ s \in SoIdents /\ so_about[s].u \in SoUsers
              /\ SoLetGo(s, ref) = [so_ident EXCEPT ![so_about[s].u] = SoNone]
  BY DEF SoLetGo, SoAboutHolds, SoTypes

LEMMA SoTypesKept ==
    ASSUME SoKept, [SocketsNext]_so_vars
    PROVE  SoTypes'
  <1> SUFFICES ASSUME SoTypes
               PROVE  SoTypes'
    BY DEF SoKept
  <1>h. SoUsers \subseteq SoHandlers /\ SoLinks \subseteq SoSockets /\ SoIdents \subseteq SoSockets
        /\ SoSockets \subseteq SoHandlers /\ SoNone \notin SoHandlers
    BY SocketsOK DEF SoHandlers, SoSockets
  <1>f. SoFree # {} => SoNextFd \in SoFds
    BY SoNextFdFree DEF SoFree
  <1>l. \A s \in SoSockets : \A ref : SoLetGo(s, ref) \in [SoUsers -> SoIdents \cup {SoNone}]
    <2> TAKE s \in SoSockets
    <2> TAKE ref
    <2>1. so_ident \in [SoUsers -> SoIdents \cup {SoNone}]
      BY DEF SoTypes
    <2>2. CASE SoLetGo(s, ref) = so_ident
      BY <2>1, <2>2
    <2>3. CASE s \in SoIdents /\ so_about[s].u \in SoUsers
               /\ SoLetGo(s, ref) = [so_ident EXCEPT ![so_about[s].u] = SoNone]
      BY <2>1, <2>3
    <2> QED BY <2>2, <2>3, SoLetGoIs
  <1>1. ASSUME NEW u \in SoUsers, SoAccept(u)
        PROVE  SoTypes'
    <2>1. so_gen' \in [SoUsers -> {0, 1}]
      BY <1>1 DEF SoAccept, SoTypes
    <2>2. so_quits' \subseteq SoUsers /\ so_fd' \in [SoHandlers -> SoFds \cup {0}]
          /\ so_state' \in [SoHandlers -> {"free", "connecting", "connected", "error"}]
      BY <1>h, <1>f, <1>1 DEF SoAccept, SoTypes
    <2> QED BY <1>1, <2>1, <2>2 DEF SoAccept, SoTypes
  <1>2. ASSUME NEW l \in SoLinks, SoAcceptLink(l)
        PROVE  SoTypes'
    <2>1. so_fd' \in [SoHandlers -> SoFds \cup {0}]
          /\ so_state' \in [SoHandlers -> {"free", "connecting", "connected", "error"}]
      BY <1>h, <1>f, <1>2 DEF SoAcceptLink, SoTypes
    <2> QED BY <1>2, <2>1 DEF SoAcceptLink, SoTypes
  <1>3. ASSUME NEW u \in SoUsers, NEW i \in SoIdents, SoLookup(u, i)
        PROVE  SoTypes'
    <2>1. so_fd' \in [SoHandlers -> SoFds \cup {0}]
          /\ so_state' \in [SoHandlers -> {"free", "connecting", "connected", "error"}]
      BY <1>h, <1>f, <1>3 DEF SoLookup, SoTypes
    <2>2. so_timers' \subseteq SoSockets /\ so_ident' \in [SoUsers -> SoIdents \cup {SoNone}]
      BY <1>h, <1>3 DEF SoLookup, SoTypes
    <2>3. so_about' \in [SoIdents -> [u : SoUsers \cup {SoNone}, ufd : SoFds \cup {0}, gen : {0, 1}]]
      <3>1. so_fd[u] \in SoFds \cup {0} /\ so_gen[u] \in {0, 1}
        BY <1>h DEF SoTypes
      <3> QED BY <1>3, <3>1 DEF SoLookup, SoTypes
    <2> QED BY <1>3, <2>1, <2>2, <2>3 DEF SoLookup, SoTypes
  <1>4. ASSUME NEW i \in SoIdents, SoConnected(i)
        PROVE  SoTypes'
    BY <1>h, <1>4 DEF SoConnected, SoTypes
  <1>5. ASSUME NEW s \in SoSockets, SoReadEnds(s)
        PROVE  SoTypes'
    BY <1>l, <1>5 DEF SoReadEnds, SoTypes
  <1>6. ASSUME NEW s \in SoSockets, SoWriteError(s)
        PROVE  SoTypes'
    BY <1>h, <1>l, <1>6 DEF SoWriteError, SoTypes
  <1>7. ASSUME NEW u \in SoUsers, SoQuit(u)
        PROVE  SoTypes'
    BY <1>7 DEF SoQuit, SoTypes
  <1>8. ASSUME NEW s \in SoSockets, SoTick(s)
        PROVE  SoTypes'
    BY <1>h, <1>l, <1>8 DEF SoTick, SoTypes
  <1>9. ASSUME NEW u \in SoUsers, SoApply(u)
        PROVE  SoTypes'
    <2>1. so_about' \in [SoIdents -> [u : SoUsers \cup {SoNone}, ufd : SoFds \cup {0}, gen : {0, 1}]]
      BY <1>9 DEF SoApply, SoForget, SoTypes
    <2>2. so_fd' \in [SoHandlers -> SoFds \cup {0}] /\ so_quits' \subseteq SoUsers
          /\ so_state' \in [SoHandlers -> {"free", "connecting", "connected", "error"}]
          /\ so_ident' \in [SoUsers -> SoIdents \cup {SoNone}]
      BY <1>h, <1>9 DEF SoApply, SoTypes
    <2>3. so_gen' \in [SoUsers -> {0, 1}]
      BY <1>9 DEF SoApply, SoTypes
    <2> QED BY <1>9, <2>1, <2>2, <2>3 DEF SoApply, SoTypes
  <1>10. ASSUME NEW s \in SoSockets, SoCull(s)
         PROVE  SoTypes'
    <2>1. so_about' \in [SoIdents -> [u : SoUsers \cup {SoNone}, ufd : SoFds \cup {0}, gen : {0, 1}]]
      BY <1>10 DEF SoCull, SoFreed, SoNobody, SoTypes
    <2> QED BY <1>h, <1>l, <1>10, <2>1 DEF SoCull, SoTypes
  <1>11. CASE SoNextPhase
    BY <1>11 DEF SoNextPhase, SoTypes
  <1>12. CASE UNCHANGED so_vars
    BY <1>12 DEF so_vars, SoTypes
  <1> QED BY <1>1, <1>2, <1>3, <1>4, <1>5, <1>6, <1>7, <1>8, <1>9, <1>10, <1>11, <1>12 DEF SocketsNext

LEMMA SoEngineStep ==
    ASSUME SoKept, [SocketsNext]_so_vars
    PROVE  SoEngineKept'
  <1>1. ASSUME NEW s \in SoSockets, SoReadEnds(s)
        PROVE  SoEngineKept'
    BY <1>1, SoEngineStays DEF SoReadEnds
  <1>2. ASSUME NEW u \in SoUsers, SoQuit(u)
        PROVE  SoEngineKept'
    BY <1>2, SoEngineStays DEF SoQuit
  <1>3. ASSUME NEW s \in SoSockets, SoTick(s)
        PROVE  SoEngineKept'
    <2>1. \A h \in SoHandlers : so_state[h] # "free" => so_state'[h] # "free"
      BY <1>3 DEF SoTick, SoKept, SoTypes
    <2> QED BY <1>3, <2>1, SoEngineStays DEF SoTick
  <1>4. CASE SoNextPhase
    BY <1>4, SoEngineStays DEF SoNextPhase
  <1>5. CASE UNCHANGED so_vars
    BY <1>5, SoEngineStays DEF so_vars, so_tables
  <1> QED BY <1>1, <1>2, <1>3, <1>4, <1>5, SoAcceptEngine, SoAcceptLinkEngine, SoLookupEngine, SoConnectedEngine,
             SoWriteErrorEngine, SoApplyEngine, SoCullEngine DEF SocketsNext
-----------------------------------------------------------------------------
(* Ident lookups *)

\* No lookup gets or loses its client but those that end: they are in SocketCull.
LEMMA SoIdentsStay ==
    ASSUME SoTypes, SoIdentsKept, so_about' = so_about, so_gen' = so_gen, so_culls \subseteq so_culls',
           so_phase' = so_phase \/ so_phase' \in {"users", "sockets"} \/ so_culls = {},
           \A u \in SoUsers : so_state'[u] = "free" <=> so_state[u] = "free",
           \A i \in SoIdents : so_state'[i] = "free" => so_state[i] = "free",
           \A u \in SoUsers : so_ident'[u] = so_ident[u]
                              \/ \E i \in SoIdents : so_about[i].u = u /\ i \in so_culls'
    PROVE  SoIdentsKept'
  <1>1. ASSUME NEW i \in SoIdents, NEW u \in SoUsers, so_about[i].u = u
        PROVE  /\ so_ident'[u] = i \/ i \in so_culls'
               /\ so_state'[u] # "free" => so_gen'[u] = so_about'[i].gen
               /\ so_state'[u] = "free" => i \in so_culls' /\ so_phase' \in {"users", "sockets"}
    <2>1. /\ so_ident[u] = i \/ i \in so_culls
          /\ so_state[u] # "free" => so_gen[u] = so_about[i].gen
          /\ so_state[u] = "free" => i \in so_culls /\ so_phase \in {"users", "sockets"}
      BY <1>1 DEF SoIdentsKept
    <2>2. so_ident'[u] = i \/ i \in so_culls'
      <3>1. CASE so_ident'[u] = so_ident[u]
        BY <2>1, <3>1
      <3>2. CASE \E j \in SoIdents : so_about[j].u = u /\ j \in so_culls'
        <4>1. PICK j \in SoIdents : so_about[j].u = u /\ j \in so_culls'
          BY <3>2
        <4>2. u # SoNone
          BY SocketsOK DEF SoHandlers
        <4>3. j = i
          BY <1>1, <4>1, <4>2 DEF SoIdentsKept
        <4> QED BY <4>1, <4>3
      <3> QED BY <3>1, <3>2
    <2> QED BY <2>1, <2>2
  <1>2. \A i, j \in SoIdents : so_about'[i].u # SoNone /\ so_about'[j].u = so_about'[i].u => i = j
    BY DEF SoIdentsKept
  <1>3. \A i \in SoIdents : so_state'[i] = "free" => so_about'[i].u = SoNone
    BY DEF SoIdentsKept
  <1> QED BY <1>1, <1>2, <1>3 DEF SoIdentsKept

LEMMA SoAcceptIdents ==
    ASSUME SoTypes, SoIdentsKept, NEW u \in SoUsers, SoAccept(u)
    PROVE  SoIdentsKept'
  <1>1. u \in SoHandlers /\ u \notin SoSockets /\ SoIdents \subseteq SoHandlers /\ SoUsers \subseteq SoHandlers
        /\ SoIdents \subseteq SoSockets
    BY SocketsOK DEF SoHandlers, SoSockets
  <1>2. \A i \in SoIdents : so_about[i].u # u
    BY DEF SoAccept, SoIdentsKept
  <1>3. /\ so_about' = so_about /\ so_culls' = so_culls /\ so_phase' = so_phase /\ so_ident' = so_ident
        /\ so_state' = [so_state EXCEPT ![u] = "connected"]
        /\ \A v \in SoUsers : v # u => so_gen'[v] = so_gen[v]
    BY DEF SoAccept, SoTypes
  <1>4. \A h \in SoHandlers : h # u => so_state'[h] = so_state[h]
    BY <1>3 DEF SoTypes
  <1>5. \A i \in SoIdents : so_state'[i] = so_state[i]
    BY <1>1, <1>4
  <1>6. ASSUME NEW i \in SoIdents, NEW v \in SoUsers, so_about[i].u = v
        PROVE  /\ so_ident'[v] = i \/ i \in so_culls'
               /\ so_state'[v] # "free" => so_gen'[v] = so_about'[i].gen
               /\ so_state'[v] = "free" => i \in so_culls' /\ so_phase' \in {"users", "sockets"}
    <2>1. v # u /\ v \in SoHandlers
      BY <1>1, <1>2, <1>6
    <2> QED BY <1>3, <1>4, <1>6, <2>1 DEF SoIdentsKept
  <1> QED BY <1>3, <1>5, <1>6 DEF SoIdentsKept

\* The only lookup about the client starts.
LEMMA SoLookupIdents ==
    ASSUME ~SoOverlap, SoKept, SoIdentsKept, NEW u \in SoUsers, NEW i \in SoIdents, SoLookup(u, i)
    PROVE  SoIdentsKept'
  <1>1. u \in SoHandlers /\ i \in SoHandlers /\ u # i /\ SoIdents \subseteq SoHandlers /\ SoUsers \subseteq SoHandlers
        /\ (\A v \in SoUsers : v # i) /\ u # SoNone
    BY SocketsOK DEF SoHandlers, SoSockets
  <1>2. so_ident[u] = SoNone /\ \A j \in SoIdents : so_about[j].u # u
    BY DEF SoLookup
  <1> DEFINE about == [u |-> u, ufd |-> so_fd[u], gen |-> so_gen[u]]
  <1>3. /\ so_about' = [so_about EXCEPT ![i] = about] /\ about.u = u /\ about.gen = so_gen[u]
        /\ so_gen' = so_gen /\ so_culls' = so_culls /\ so_phase' = so_phase
        /\ so_ident' = [so_ident EXCEPT ![u] = i] /\ so_state' = [so_state EXCEPT ![i] = "connecting"]
    BY <1>2 DEF SoLookup, SoKept, SoTypes
  <1> HIDE DEF about
  <1>4. /\ so_about'[i] = about /\ \A j \in SoIdents : j # i => so_about'[j] = so_about[j]
        /\ so_ident'[u] = i /\ \A v \in SoUsers : v # u => so_ident'[v] = so_ident[v]
        /\ so_state'[i] # "free" /\ \A h \in SoHandlers : h # i => so_state'[h] = so_state[h]
    BY <1>1, <1>3 DEF SoKept, SoTypes
  <1>5. so_state[u] # "free"
    BY SoTablesAre, <1>1 DEF SoLookup, SoDispatched, SoIsRef, SoKept, SoEngineKept, SoRefsLive, SoTypes
  <1>6. \A j \in SoIdents : so_state'[j] = "free" => so_about'[j].u = SoNone
    BY <1>1, <1>4 DEF SoIdentsKept
  <1>7. ASSUME NEW j \in SoIdents, NEW k \in SoIdents, so_about'[j].u # SoNone, so_about'[k].u = so_about'[j].u
        PROVE  j = k
    <2>1. CASE j # i /\ k # i
      BY <1>4, <1>7, <2>1 DEF SoIdentsKept
    <2>2. CASE j = i /\ k # i
      BY <1>2, <1>3, <1>4, <1>7, <2>2
    <2>3. CASE j # i /\ k = i
      BY <1>2, <1>3, <1>4, <1>7, <2>3
    <2> QED BY <2>1, <2>2, <2>3
  <1>8. ASSUME NEW j \in SoIdents, NEW v \in SoUsers, so_about'[j].u = v
        PROVE  /\ so_ident'[v] = j \/ j \in so_culls'
               /\ so_state'[v] # "free" => so_gen'[v] = so_about'[j].gen
               /\ so_state'[v] = "free" => j \in so_culls' /\ so_phase' \in {"users", "sockets"}
    <2>1. CASE j = i
      <3>1. v = u
        BY <1>3, <1>4, <1>8, <2>1
      <3>2. so_state'[u] # "free" /\ so_ident'[u] = i /\ so_gen'[u] = so_about'[i].gen
        BY <1>1, <1>3, <1>4, <1>5
      <3> QED BY <2>1, <3>1, <3>2
    <2>2. CASE j # i
      <3>1. so_about[j].u = v /\ so_about'[j] = so_about[j]
        BY <1>4, <1>8, <2>2
      <3>2. v # u
        BY <1>2, <3>1
      <3>3. so_ident'[v] = so_ident[v] /\ so_state'[v] = so_state[v]
        BY <1>1, <1>4, <3>2
      <3> QED BY <1>3, <3>1, <3>3 DEF SoIdentsKept
    <2> QED BY <2>1, <2>2
  <1> QED BY <1>6, <1>7, <1>8 DEF SoIdentsKept

\* A client is deleted: the lookup he knows forgets him, and one he does not know any more is deleted after him.
LEMMA SoApplyIdents ==
    ASSUME SoTypes, SoIdentsKept, NEW u \in SoUsers, SoApply(u)
    PROVE  SoIdentsKept'
  <1>1. u \in SoHandlers /\ SoIdents \subseteq SoHandlers /\ SoUsers \subseteq SoHandlers
        /\ (\A i \in SoIdents : i # u) /\ u # SoNone /\ \A v \in SoUsers : v # SoNone
    BY SocketsOK DEF SoHandlers, SoSockets
  <1>2. /\ so_culls' = so_culls /\ so_phase' = so_phase /\ so_phase = "users"
        /\ so_about' = SoForget(u, SoTables).about
        /\ so_state' = [so_state EXCEPT ![u] = "free"] /\ so_ident' = [so_ident EXCEPT ![u] = SoNone]
        /\ \A v \in SoUsers : v # u => so_gen'[v] = so_gen[v]
    BY DEF SoApply, SoTypes
  <1>3. \A h \in SoHandlers : h # u => so_state'[h] = so_state[h]
    BY <1>2 DEF SoTypes
  <1>4. so_state'[u] = "free" /\ \A v \in SoUsers : v # u => so_ident'[v] = so_ident[v]
    BY <1>1, <1>2 DEF SoTypes
  <1>5. \A i \in SoIdents : so_about'[i] = so_about[i] \/ so_about'[i].u = SoNone
    BY <1>2 DEF SoForget, SoTypes
  <1>6. \A i \in SoIdents : i = so_ident[u] => so_about'[i].u = SoNone
    BY <1>2, SocketsOK DEF SoForget, SoTypes, SoHandlers, SoSockets
  <1>7. \A i \in SoIdents : so_state'[i] = "free" => so_about'[i].u = SoNone
    <2> TAKE i \in SoIdents
    <2>1. so_state'[i] = so_state[i]
      BY <1>1, <1>3
    <2> QED BY <1>5, <2>1 DEF SoIdentsKept
  <1>8. \A i, j \in SoIdents : so_about'[i].u # SoNone /\ so_about'[j].u = so_about'[i].u => i = j
    BY <1>5 DEF SoIdentsKept
  <1>9. ASSUME NEW i \in SoIdents, NEW v \in SoUsers, so_about'[i].u = v
        PROVE  /\ so_ident'[v] = i \/ i \in so_culls'
               /\ so_state'[v] # "free" => so_gen'[v] = so_about'[i].gen
               /\ so_state'[v] = "free" => i \in so_culls' /\ so_phase' \in {"users", "sockets"}
    <2>1. so_about'[i] = so_about[i] /\ so_about[i].u = v /\ i # so_ident[u]
      BY <1>1, <1>5, <1>6, <1>9
    <2>2. so_ident[v] = i \/ i \in so_culls
      BY <2>1 DEF SoIdentsKept
    <2>3. CASE v = u
      BY <1>2, <1>4, <2>1, <2>2, <2>3
    <2>4. CASE v # u
      <3>1. so_state'[v] = so_state[v] /\ so_ident'[v] = so_ident[v] /\ so_gen'[v] = so_gen[v]
        BY <1>1, <1>2, <1>3, <1>4, <2>4
      <3> QED BY <1>2, <2>1, <3>1 DEF SoIdentsKept
    <2> QED BY <2>3, <2>4
  <1> QED BY <1>7, <1>8, <1>9 DEF SoIdentsKept

\* A socket is deleted, with what it was about.
LEMMA SoCullIdents ==
    ASSUME SoTypes, SoIdentsKept, NEW s \in SoSockets, SoCull(s)
    PROVE  SoIdentsKept'
  <1>1. s \in SoHandlers /\ SoIdents \subseteq SoHandlers /\ SoUsers \subseteq SoHandlers
        /\ (\A v \in SoUsers : v # s /\ v # SoNone)
    BY SocketsOK DEF SoHandlers, SoSockets
  <1>2. /\ so_culls' = so_culls \ {s} /\ so_phase' = so_phase /\ so_gen' = so_gen
        /\ so_about' = SoFreed(s) /\ so_state' = [so_state EXCEPT ![s] = "free"]
        /\ \E ref : so_ident' = SoLetGo(s, ref)
    BY DEF SoCull
  <1>3. \A h \in SoHandlers : h # s => so_state'[h] = so_state[h]
    BY <1>2 DEF SoTypes
  <1>4. \A i \in SoIdents : so_about'[i] = IF i = s THEN SoNobody ELSE so_about[i]
    BY <1>2 DEF SoFreed
  <1>5. SoNobody.u = SoNone
    BY DEF SoNobody
  <1>6. \A v \in SoUsers : so_ident'[v] = so_ident[v] \/ (s \in SoIdents /\ so_about[s].u = v)
    BY <1>2, SoLetGoIs DEF SoTypes
  <1>7. \A i \in SoIdents : so_state'[i] = "free" => so_about'[i].u = SoNone
    <2> TAKE i \in SoIdents
    <2>1. CASE i = s
      BY <1>4, <1>5, <2>1
    <2>2. CASE i # s
      <3>1. so_state'[i] = so_state[i] /\ so_about'[i] = so_about[i]
        BY <1>1, <1>3, <1>4, <2>2
      <3> QED BY <3>1 DEF SoIdentsKept
    <2> QED BY <2>1, <2>2
  <1>8. ASSUME NEW i \in SoIdents, NEW j \in SoIdents, so_about'[i].u # SoNone, so_about'[j].u = so_about'[i].u
        PROVE  i = j
    <2>1. i # s /\ j # s
      BY <1>4, <1>5, <1>8
    <2>2. so_about'[i] = so_about[i] /\ so_about'[j] = so_about[j]
      BY <1>4, <2>1
    <2> QED BY <1>8, <2>2 DEF SoIdentsKept
  <1>9. ASSUME NEW i \in SoIdents, NEW v \in SoUsers, so_about'[i].u = v
        PROVE  /\ so_ident'[v] = i \/ i \in so_culls'
               /\ so_state'[v] # "free" => so_gen'[v] = so_about'[i].gen
               /\ so_state'[v] = "free" => i \in so_culls' /\ so_phase' \in {"users", "sockets"}
    <2>1. i # s /\ so_about'[i] = so_about[i] /\ so_about[i].u = v
      BY <1>1, <1>4, <1>5, <1>9
    <2>2. s \in SoIdents => so_about[s].u # v
      BY <1>1, <2>1 DEF SoIdentsKept
    <2>3. so_ident'[v] = so_ident[v] /\ so_state'[v] = so_state[v]
      BY <1>1, <1>3, <1>6, <2>2
    <2> QED BY <1>2, <2>1, <2>3 DEF SoIdentsKept
  <1> QED BY <1>7, <1>8, <1>9 DEF SoIdentsKept

LEMMA SoIdentsStep ==
    ASSUME ~SoOverlap, SoKept, SoIdentsKept, [SocketsNext]_so_vars
    PROVE  SoIdentsKept'
  <1> SUFFICES ASSUME SoTypes
               PROVE  SoIdentsKept'
    BY DEF SoKept
  <1>h. /\ SoUsers \subseteq SoHandlers /\ SoSockets \subseteq SoHandlers /\ SoIdents \subseteq SoSockets
        /\ (\A u \in SoUsers : u \notin SoSockets) /\ \A l \in SoLinks : l \in SoSockets /\ l \notin SoIdents
    BY SocketsOK DEF SoHandlers, SoSockets
  <1>l. \A s \in SoSockets : \A ref : \A u \in SoUsers :
           SoLetGo(s, ref)[u] = so_ident[u] \/ (s \in SoIdents /\ so_about[s].u = u)
    BY SoLetGoIs DEF SoTypes
  <1>1. ASSUME NEW l \in SoLinks, SoAcceptLink(l)
        PROVE  SoIdentsKept'
    <2>1. so_state' = [so_state EXCEPT ![l] = "connected"]
      BY <1>1 DEF SoAcceptLink
    <2>2. \A h \in SoHandlers : h # l => so_state'[h] = so_state[h]
      BY <2>1 DEF SoTypes
    <2>3. (\A u \in SoUsers : so_state'[u] = so_state[u]) /\ \A i \in SoIdents : so_state'[i] = so_state[i]
      BY <1>h, <2>2
    <2> QED BY <1>1, <2>3, SoIdentsStay DEF SoAcceptLink
  <1>2. ASSUME NEW i \in SoIdents, SoConnected(i)
        PROVE  SoIdentsKept'
    <2>1. so_state' = [so_state EXCEPT ![i] = "connected"] /\ so_state[i] # "free"
      BY <1>2 DEF SoConnected
    <2>2. \A h \in SoHandlers : so_state'[h] = "free" <=> so_state[h] = "free"
      BY <2>1 DEF SoTypes
    <2> QED BY <1>h, <1>2, <2>2, SoIdentsStay DEF SoConnected
  <1>3. ASSUME NEW s \in SoSockets, SoReadEnds(s)
        PROVE  SoIdentsKept'
    <2>1. so_culls' = so_culls \cup {s} /\ UNCHANGED <<so_phase, so_state, so_about, so_gen>>
      BY <1>3 DEF SoReadEnds
    <2>2. \A u \in SoUsers : so_ident'[u] = so_ident[u] \/ (s \in SoIdents /\ so_about[s].u = u)
      BY <1>l, <1>3 DEF SoReadEnds
    <2> QED BY <2>1, <2>2, SoIdentsStay
  <1>4. ASSUME NEW s \in SoSockets, SoWriteError(s)
        PROVE  SoIdentsKept'
    <2>1. so_culls' = so_culls \cup {s} /\ UNCHANGED <<so_phase, so_about, so_gen>>
          /\ so_state' = [so_state EXCEPT ![s] = "error"] /\ so_state[s] # "free"
      BY <1>4 DEF SoWriteError
    <2>2. \A u \in SoUsers : so_ident'[u] = so_ident[u] \/ (s \in SoIdents /\ so_about[s].u = u)
      BY <1>l, <1>4 DEF SoWriteError
    <2>3. \A h \in SoHandlers : so_state'[h] = "free" <=> so_state[h] = "free"
      BY <2>1 DEF SoTypes
    <2> QED BY <1>h, <2>1, <2>2, <2>3, SoIdentsStay
  <1>5. ASSUME NEW s \in SoSockets, SoTick(s)
        PROVE  SoIdentsKept'
    <2>1. CASE UNCHANGED <<so_ident, so_state, so_culls>>
      BY <1>5, <2>1, SoIdentsStay DEF SoTick
    <2>2. CASE ~UNCHANGED <<so_ident, so_state, so_culls>>
      <3>1. so_culls' = so_culls \cup {s} /\ UNCHANGED <<so_phase, so_about, so_gen>>
            /\ so_state' = [so_state EXCEPT ![s] = "error"] /\ so_state[s] # "free"
        BY <1>5, <2>2 DEF SoTick
      <3>2. \A u \in SoUsers : so_ident'[u] = so_ident[u] \/ (s \in SoIdents /\ so_about[s].u = u)
        BY <1>l, <1>5, <2>2 DEF SoTick
      <3>3. \A h \in SoHandlers : so_state'[h] = "free" <=> so_state[h] = "free"
        BY <3>1 DEF SoTypes
      <3> QED BY <1>h, <3>1, <3>2, <3>3, SoIdentsStay
    <2> QED BY <2>1, <2>2
  <1>6. ASSUME NEW u \in SoUsers, SoQuit(u)
        PROVE  SoIdentsKept'
    BY <1>6, SoIdentsStay DEF SoQuit
  <1>7. CASE SoNextPhase
    <2>1. so_phase' \in {"users", "sockets"} \/ so_culls = {} \/ so_phase = "timers"
      BY <1>7 DEF SoNextPhase, SoTypes
    <2>2. CASE so_phase' \in {"users", "sockets"} \/ so_culls = {}
      BY <1>7, <2>2, SoIdentsStay DEF SoNextPhase
    <2>3. CASE so_phase = "timers"
      <3>1. so_phase' = "events" /\ UNCHANGED <<so_state, so_culls, so_ident, so_about, so_gen>>
        BY <1>7, <2>3 DEF SoNextPhase
      <3> QED BY <2>3, <3>1 DEF SoIdentsKept
    <2> QED BY <2>1, <2>2, <2>3
  <1>8. CASE UNCHANGED so_vars
    BY <1>8, SoIdentsStay DEF so_vars
  <1> QED BY <1>1, <1>2, <1>3, <1>4, <1>5, <1>6, <1>7, <1>8, SoAcceptIdents, SoLookupIdents, SoApplyIdents,
             SoCullIdents DEF SocketsNext

-----------------------------------------------------------------------------
LEMMA SoInitKept == SocketsInit => SoKept /\ SoIdentsKept
  <1> SUFFICES ASSUME SocketsInit
               PROVE  SoKept /\ SoIdentsKept
    OBVIOUS
  <1>1. SoTypes
    BY DEF SocketsInit, SoTypes, SoNobody, SoHandlers, SoSockets
  <1>2. SoTablesOK(SoTables)
    BY DEF SocketsInit, SoTables, SoTablesOK, SoHandler
  <1>3. SoRefsLive
    BY DEF SocketsInit, SoRefsLive
  <1>4. \A i \in SoIdents : so_about[i].u = SoNone
    BY DEF SocketsInit, SoNobody
  <1>5. \A u \in SoUsers : u # SoNone
    BY SocketsOK DEF SoHandlers
  <1> QED BY <1>1, <1>2, <1>3, <1>4, <1>5 DEF SoKept, SoEngineKept, SoIdentsKept

\* Every descriptor the engine knows leads to the one live handler that has it, for any number of clients, links,
\* lookups and descriptors, in whatever order they fail, close and are used again.
THEOREM RefsAlwaysLive == SocketsSpec => []SoRefsLive
  <1>1. SoKept /\ [SocketsNext]_so_vars => SoKept'
    BY SoTypesKept, SoEngineStep DEF SoKept
  <1>2. SoKept => SoRefsLive
    BY DEF SoKept, SoEngineKept
  <1> QED BY <1>1, <1>2, SoInitKept, PTL DEF SocketsSpec

\* And a lookup that passes its check is about the client it was started for, where a client does not ask for a
\* second one meanwhile.
THEOREM DescriptorsAlwaysLive == ~SoOverlap /\ SocketsSpec => []SoDescriptorsLive
  <1> SUFFICES ASSUME ~SoOverlap
               PROVE  SocketsSpec => []SoDescriptorsLive
    OBVIOUS
  <1>1. SoKept /\ SoIdentsKept /\ [SocketsNext]_so_vars => SoKept' /\ SoIdentsKept'
    BY SoTypesKept, SoEngineStep, SoIdentsStep DEF SoKept
  <1>2. SoKept /\ SoIdentsKept => SoDescriptorsLive
    <2> SUFFICES ASSUME SoKept, SoIdentsKept
                 PROVE  SoDescriptorsLive
      OBVIOUS
    <2>1. SoRefsLive
      BY DEF SoKept, SoEngineKept
    <2>2. ASSUME NEW i \in SoIdents, SoAboutHolds(i, so_ref)
          PROVE  so_gen[so_about[i].u] = so_about[i].gen
      <3> DEFINE u == so_about[i].u
                 f == so_about[i].ufd
      <3>1. u \in SoUsers /\ u # SoNone /\ f \in SoFds /\ so_ref[f] = u
        BY <2>2 DEF SoAboutHolds, SoKept, SoTypes
      <3> HIDE DEF f
      <3>2. so_state[u] # "free"
        BY <2>1, <3>1 DEF SoRefsLive
      <3> QED BY <3>1, <3>2 DEF SoIdentsKept
    <2>3. SoAboutOwnClient
      BY <2>2 DEF SoAboutOwnClient
    <2> QED BY <2>1, <2>3 DEF SoDescriptorsLive
  <1> QED BY <1>1, <1>2, SoInitKept, PTL DEF SocketsSpec

-----------------------------------------------------------------------------
(* The HTTP server *)

\* No client sends data with a GET that announces its length: m_httpd answers a GET when its headers are there,
\* and again when its data comes.
HtGetsBare == \A r \in HtRequests : r.method = "GET" => r.length = 0

HtConnection == [state : {"wait", "post", "sent"}, request : HtRequests, read : Nat, size : Nat, data : Nat,
                 answers : Seq({"400", "404", "505", "index", "page"}), given : SUBSET Nat, timer : HtTimers,
                 closed : BOOLEAN]
\* How far a connection is: nothing has been answered before the state is "sent", and data follows what was read.
HtOn(s) ==
    /\ s.read <= 2 + Len(s.request.body)
    /\ s.state # "sent" => s.answers = <<>> /\ s.given = {}
    /\ s.state = "post" => s.request.method = "POST" /\ s.read = s.data + 2 /\ (HtPlain(s) => s.size = s.request.length)
HtDone(s) ==
    HtGetsBare /\ HtPlain(s) =>
        /\ s.state = "sent" => s.read >= 2 + s.request.length
        /\ s.state = "sent" /\ s.request.method = "POST" => s.data >= s.request.length
        /\ s.request.method = "POST" => \A n \in s.given : n >= s.request.length
        /\ s.read <= 2 + s.request.length => Len(s.answers) <= 1
HtOf(timers, c) == {t \in HtTimers : <<c, t>> \in timers}
\* Names are left for the timers the connection will still get.
HtRoom(c) ==
    HtHere(c) => Cardinality(HtOf(ht_timers, c)) + (IF ht_conns[c].state = "wait" THEN 2 ELSE 1) <= Cardinality(HtTimers)
HtTimersKept ==
    /\ ht_timers \subseteq HtConns \X HtTimers /\ ht_left \subseteq ht_timers
    /\ \A c \in HtConns : HtHere(c) => <<c, ht_conns[c].timer>> \notin ht_left
    /\ HtTimed /\ HtTimersLive
HtKept ==
    /\ ht_conns \in [HtConns -> HtConnection \cup {HtFree}]
    /\ \A c \in HtConns : HtHere(c) => HtOn(ht_conns[c])
    /\ \A c \in HtConns : HtRoom(c)
    /\ HtTimersKept
HtSound == HtKept /\ \A c \in HtConns : HtHere(c) => HtDone(ht_conns[c])

-----------------------------------------------------------------------------
\* Two connections do not share timers.
HtApart(c) == \A d \in HtConns \ {c}, t \in HtTimers : (<<d, t>> \in ht_timers <=> <<d, t>> \in ht_timers')
                                                   /\ (<<d, t>> \in ht_left <=> <<d, t>> \in ht_left')

LEMMA HtNamesCounted ==
    ASSUME NEW c, NEW timers
    PROVE  IsFiniteSet(HtOf(timers, c)) /\ Cardinality(HtOf(timers, c)) \in Nat /\ Cardinality(HtTimers) \in Nat
  <1>1. HtOf(timers, c) \subseteq HtTimers
    BY DEF HtOf
  <1> QED BY <1>1, FS_Subset, FS_CardinalityType, HttpOK

LEMMA HtFreshIs ==
    ASSUME HtKept, NEW c \in HtConns,
           Cardinality(HtOf(ht_timers, c)) + 1 <= Cardinality(HtTimers),
           HtHere(c) => <<c, ht_conns[c].timer>> \in ht_timers
    PROVE  /\ HtFresh(c) \in HtTimers /\ <<c, HtFresh(c)>> \notin ht_timers
           /\ HtHere(c) => HtFresh(c) # ht_conns[c].timer
  <1>1. PICK t \in HtTimers : t \notin HtOf(ht_timers, c)
    <2> SUFFICES ASSUME HtTimers = HtOf(ht_timers, c) PROVE FALSE
      BY DEF HtOf
    <2> QED BY HtNamesCounted
  <1>2. <<c, t>> \notin ht_timers /\ (HtHere(c) => ht_conns[c].timer # t)
    BY <1>1 DEF HtOf
  <1>3. \E x \in HtTimers : <<c, x>> \notin ht_timers /\ (HtHere(c) => ht_conns[c].timer # x)
    BY <1>2
  <1> HIDE DEF HtHere
  <1> QED BY <1>3 DEF HtFresh

\* A step of one connection, put together from what it does to the record and to the timers.
LEMMA HtStep ==
    ASSUME HtSound, NEW c \in HtConns, NEW r \in HtConnection, HtOn(r), HtDone(r),
           ht_conns' = [ht_conns EXCEPT ![c] = r], HtApart(c), HtTimersKept', HtRoom(c)'
    PROVE  HtSound'
  <1>1. ht_conns' \in [HtConns -> HtConnection \cup {HtFree}] /\ ht_conns'[c] = r
        /\ \A d \in HtConns \ {c} : ht_conns'[d] = ht_conns[d] /\ (HtHere(d)' <=> HtHere(d))
    BY DEF HtSound, HtKept, HtHere
  <1>2. \A d \in HtConns : HtHere(d)' => HtOn(ht_conns'[d]) /\ HtDone(ht_conns'[d])
    BY <1>1 DEF HtSound, HtKept
  <1>3. ASSUME NEW d \in HtConns \ {c} PROVE HtRoom(d)'
    <2>1. HtOf(ht_timers', d) = HtOf(ht_timers, d)
      BY DEF HtApart, HtOf
    <2>2. HtRoom(d)
      BY DEF HtSound, HtKept
    <2> QED BY <1>1, <2>1, <2>2 DEF HtRoom
  <1> QED BY <1>1, <1>2, <1>3 DEF HtSound, HtKept

LEMMA HtWhole ==
    ASSUME NEW s \in HtConnection
    PROVE  s = [state |-> s.state, request |-> s.request, read |-> s.read, size |-> s.size, data |-> s.data,
                answers |-> s.answers, given |-> s.given, timer |-> s.timer, closed |-> s.closed]
  BY DEF HtConnection

LEMMA HtClosedIs ==
    ASSUME NEW s \in HtConnection
    PROVE  /\ [s EXCEPT !.closed = TRUE] \in HtConnection
           /\ [s EXCEPT !.closed = TRUE] =
                [state |-> s.state, request |-> s.request, read |-> s.read, size |-> s.size, data |-> s.data,
                 answers |-> s.answers, given |-> s.given, timer |-> s.timer, closed |-> TRUE]
  <1> DEFINE yes == TRUE
             r == [s EXCEPT !.closed = yes]
  <1>1. yes \in BOOLEAN
    OBVIOUS
  <1>2. r = [s EXCEPT !.closed = yes]
    OBVIOUS
  <1> HIDE DEF yes, r
  <1>3. r \in HtConnection
    BY <1>1, <1>2 DEF HtConnection
  <1>4. r = [state |-> s.state, request |-> s.request, read |-> s.read, size |-> s.size, data |-> s.data,
             answers |-> s.answers, given |-> s.given, timer |-> s.timer, closed |-> yes]
    BY <1>2, HtWhole
  <1> QED BY <1>3, <1>4 DEF r, yes

LEMMA HtFreeIsNone == HtFree \notin HtConnection
  <1>1. HtFree.state = "free"
    BY DEF HtFree
  <1>2. \A s \in HtConnection : s.state # "free"
    BY DEF HtConnection
  <1> QED BY <1>1, <1>2

LEMMA HtHereIs ==
    ASSUME HtSound, NEW c \in HtConns, HtHere(c)
    PROVE  ht_conns[c] \in HtConnection /\ HtOn(ht_conns[c]) /\ HtDone(ht_conns[c])
  <1> QED BY DEF HtSound, HtKept, HtHere

\* Only the record changes.
LEMMA HtOnlyRecord ==
    ASSUME HtSound, NEW c \in HtConns, HtHere(c), NEW r \in HtConnection, HtOn(r), HtDone(r),
           r.timer = ht_conns[c].timer, ht_conns[c].closed => r.closed, r.state = "wait" => ht_conns[c].state = "wait",
           ht_conns' = [ht_conns EXCEPT ![c] = r], UNCHANGED <<ht_timers, ht_left>>
    PROVE  HtSound'
  <1>1. ht_conns'[c] = r /\ \A d \in HtConns \ {c} : ht_conns'[d] = ht_conns[d]
    BY DEF HtSound, HtKept
  <1>2. \A d \in HtConns : HtHere(d)' <=> HtHere(d)
    BY <1>1, HtFreeIsNone DEF HtHere
  <1>3. \A d \in HtConns : ht_conns'[d].timer = ht_conns[d].timer /\ (ht_conns[d].closed => ht_conns'[d].closed)
    BY <1>1
  <1>4. HtTimersKept'
    <2>1. HtTimersKept
      BY DEF HtSound, HtKept
    <2>2. HtTimed'
      BY <1>2, <1>3, <2>1 DEF HtTimersKept, HtTimed
    <2>3. HtTimersLive'
      <3> SUFFICES ASSUME NEW timer \in ht_timers \ ht_left
                   PROVE  HtHere(timer[1])' /\ ht_conns'[timer[1]].timer = timer[2]
        BY DEF HtTimersLive
      <3>1. timer[1] \in HtConns
        BY <2>1 DEF HtTimersKept
      <3> QED BY <1>2, <1>3, <2>1, <3>1 DEF HtTimersKept, HtTimersLive
    <2> QED BY <1>2, <1>3, <2>1, <2>2, <2>3 DEF HtTimersKept
  <1>5. HtRoom(c)'
    <2>1. HtRoom(c)
      BY DEF HtSound, HtKept
    <2> QED BY <1>1, <2>1, HtNamesCounted DEF HtRoom
  <1> QED BY <1>4, <1>5, HtStep DEF HtApart

\* A new timer takes the place of the old one, which is deleted or left behind.
LEMMA HtNewTimer ==
    ASSUME HtSound, NEW c \in HtConns, HtHere(c), ~ht_conns[c].closed,
           NEW r \in HtConnection, HtOn(r), HtDone(r), r.timer = HtFresh(c), r.state = "sent",
           ht_conns' = [ht_conns EXCEPT ![c] = r],
           \/ /\ ht_timers' = (ht_timers \ {<<c, ht_conns[c].timer>>}) \cup {<<c, r.timer>>} /\ UNCHANGED ht_left
           \/ /\ ht_timers' = ht_timers \cup {<<c, r.timer>>} /\ ht_left' = ht_left \cup {<<c, ht_conns[c].timer>>}
              /\ ht_conns[c].state = "wait"
    PROVE  HtSound'
  <1> DEFINE old == ht_conns[c].timer
             t == r.timer
             mine == HtOf(ht_timers, c)
  <1>1. ht_conns'[c] = r /\ \A d \in HtConns \ {c} : ht_conns'[d] = ht_conns[d]
    BY DEF HtSound, HtKept
  <1>2. HtTimersKept /\ HtRoom(c)
    BY DEF HtSound, HtKept
  <1>3. old \in HtTimers /\ <<c, old>> \in ht_timers /\ <<c, old>> \notin ht_left
    BY <1>2, HtHereIs DEF HtTimersKept, HtTimed, HtConnection
  <1>4. Cardinality(mine) + 1 <= Cardinality(HtTimers)
        /\ (ht_conns[c].state = "wait" => Cardinality(mine) + 2 <= Cardinality(HtTimers))
    BY <1>2, HtNamesCounted DEF HtRoom
  <1>5. t \in HtTimers /\ <<c, t>> \notin ht_timers /\ t # old
    <2>1. HtKept
      BY DEF HtSound
    <2> QED BY <1>3, <1>4, <2>1, HtFreshIs
  <1>6. \A d \in HtConns : HtHere(d)' <=> HtHere(d)
    BY <1>1, HtFreeIsNone DEF HtHere
  <1> HIDE DEF old, t, mine
  <1>7. HtApart(c)
    BY DEF HtApart, old, t
  <1>8. HtTimersKept'
    <2>1. ht_timers' \subseteq HtConns \X HtTimers /\ ht_left' \subseteq ht_timers'
      BY <1>2, <1>3, <1>5 DEF HtTimersKept, old, t
    <2>2. <<c, t>> \in ht_timers' /\ <<c, t>> \notin ht_left'
      BY <1>2, <1>5 DEF HtTimersKept, old, t
    <2>3. ASSUME NEW d \in HtConns, HtHere(d)'
          PROVE  <<d, ht_conns'[d].timer>> \notin ht_left' /\ (~ht_conns'[d].closed => <<d, ht_conns'[d].timer>> \in ht_timers')
      <3>1. CASE d = c
        BY <1>1, <2>2, <3>1 DEF t
      <3>2. CASE d # c
        <4>1. HtHere(d) /\ ht_conns'[d] = ht_conns[d]
          BY <1>1, <1>6, <2>3, <3>2
        <4>2. <<d, ht_conns[d].timer>> \notin ht_left
              /\ (~ht_conns[d].closed => <<d, ht_conns[d].timer>> \in ht_timers)
          BY <1>2, <4>1 DEF HtTimersKept, HtTimed
        <4> QED BY <3>2, <4>1, <4>2
      <3> QED BY <3>1, <3>2
    <2>4. ASSUME NEW timer \in ht_timers' \ ht_left'
          PROVE  HtHere(timer[1])' /\ ht_conns'[timer[1]].timer = timer[2]
      <3>1. CASE timer = <<c, t>>
        BY <1>1, <1>6, <3>1 DEF t
      <3>2. CASE timer # <<c, t>>
        <4>1. timer \in ht_timers \ ht_left /\ timer # <<c, old>>
          BY <3>2, <2>4 DEF old, t
        <4>2. HtHere(timer[1]) /\ ht_conns[timer[1]].timer = timer[2] /\ timer[1] \in HtConns
              /\ timer = <<timer[1], timer[2]>>
          BY <1>2, <4>1 DEF HtTimersKept, HtTimersLive
        <4>3. timer[1] # c
          BY <4>1, <4>2 DEF old
        <4> QED BY <1>1, <1>6, <4>2, <4>3
      <3> QED BY <3>1, <3>2
    <2> QED BY <2>1, <2>3, <2>4 DEF HtTimersKept, HtTimed, HtTimersLive
  <1>9. HtRoom(c)'
    <2>1. IsFiniteSet(mine) /\ Cardinality(mine) \in Nat /\ Cardinality(HtTimers) \in Nat
      BY HtNamesCounted DEF mine
    <2>2. t \notin mine /\ old \in mine
      BY <1>3, <1>5 DEF mine, HtOf
    <2>3. CASE ht_timers' = (ht_timers \ {<<c, old>>}) \cup {<<c, t>>}
      <3>1. HtOf(ht_timers', c) = (mine \ {old}) \cup {t}
        BY <1>3, <1>5, <2>3 DEF mine, HtOf
      <3>2. IsFiniteSet(mine \ {old}) /\ Cardinality(mine \ {old}) = Cardinality(mine) - 1
        BY <2>1, <2>2, FS_RemoveElement
      <3>3. Cardinality((mine \ {old}) \cup {t}) = Cardinality(mine \ {old}) + 1
        BY <2>2, <3>2, FS_AddElement
      <3> QED BY <1>1, <1>4, <2>1, <3>1, <3>2, <3>3 DEF HtRoom
    <2>4. CASE ht_timers' = ht_timers \cup {<<c, t>>} /\ ht_conns[c].state = "wait"
      <3>1. HtOf(ht_timers', c) = mine \cup {t}
        BY <1>5, <2>4 DEF mine, HtOf
      <3>2. Cardinality(mine \cup {t}) = Cardinality(mine) + 1
        BY <2>1, <2>2, FS_AddElement
      <3>3. Cardinality(HtOf(ht_timers', c)) + 1 <= Cardinality(HtTimers)
        <4> DEFINE k == Cardinality(mine)  room == Cardinality(HtTimers)  new == HtOf(ht_timers', c)
        <4>1. k + 2 <= room /\ k \in Nat /\ room \in Nat
          BY <1>4, <2>1, <2>4
        <4>2. Cardinality(new) = k + 1
          BY <3>1, <3>2
        <4> HIDE DEF k, room, new
        <4>3. Cardinality(new) + 1 <= room
          BY <4>1, <4>2
        <4> QED BY <4>3 DEF room, new
      <3>4. ht_conns'[c].state # "wait"
        BY <1>1
      <3> QED BY <3>3, <3>4 DEF HtRoom
    <2> QED BY <2>3, <2>4 DEF old, t
  <1> QED BY <1>7, <1>8, <1>9, HtStep

LEMMA HtInitSound == HttpInit => HtSound
  <1> SUFFICES ASSUME HttpInit PROVE HtSound
    OBVIOUS
  <1>1. \A c \in HtConns : ~HtHere(c)
    BY DEF HttpInit, HtHere
  <1> QED BY <1>1 DEF HttpInit, HtSound, HtKept, HtRoom, HtTimersKept, HtTimed, HtTimersLive

LEMMA HtAcceptSound ==
    ASSUME HtSound, NEW c \in HtConns, NEW request \in HtRequests, HtAccept(c, request)
    PROVE  HtSound'
  <1> DEFINE t == HtFresh(c)
             r == [state |-> "wait", request |-> request, read |-> 0, size |-> 0,
                   data |-> 0, answers |-> <<>>, given |-> {}, timer |-> t, closed |-> FALSE]
             mine == HtOf(ht_timers, c)
  <1>1. /\ ~HtHere(c) /\ Cardinality(mine) + 3 <= Cardinality(HtTimers)
        /\ ht_conns' = [ht_conns EXCEPT ![c] = r] /\ ht_timers' = ht_timers \cup {<<c, t>>} /\ ht_left' = ht_left
    BY DEF HtAccept, HtOf
  <1>2. HtTimersKept
    BY DEF HtSound, HtKept
  <1>3. IsFiniteSet(mine) /\ Cardinality(mine) \in Nat /\ Cardinality(HtTimers) \in Nat
    BY HtNamesCounted
  <1>4. t \in HtTimers /\ <<c, t>> \notin ht_timers
    <2>1. HtKept /\ Cardinality(mine) + 1 <= Cardinality(HtTimers)
      BY <1>1, <1>3 DEF HtSound
    <2> QED BY <1>1, <2>1, HtFreshIs
  <1>5. r \in HtConnection
    BY <1>4 DEF HtConnection
  <1>6. HtOn(r) /\ HtDone(r)
    <2>1. /\ r.read = 0 /\ r.state = "wait" /\ r.answers = <<>> /\ r.given = {} /\ r.request = request
          /\ Len(request.body) \in Nat
      BY HttpOK DEF HtRequest
    <2> HIDE DEF r
    <2> QED BY <2>1 DEF HtOn, HtDone
  <1>7. r.timer = t /\ ~r.closed /\ r.state = "wait"
    OBVIOUS
  <1> HIDE DEF r, t, mine
  <1>8. ht_conns'[c] = r /\ \A d \in HtConns \ {c} : ht_conns'[d] = ht_conns[d]
    BY <1>1 DEF HtSound, HtKept
  <1>9. HtHere(c)' /\ \A d \in HtConns \ {c} : HtHere(d)' <=> HtHere(d)
    BY <1>5, <1>8, HtFreeIsNone DEF HtHere
  <1>10. HtTimersKept'
    <2>1. ht_timers' \subseteq HtConns \X HtTimers /\ ht_left' \subseteq ht_timers'
      BY <1>1, <1>2, <1>4 DEF HtTimersKept
    <2>2. ASSUME NEW d \in HtConns, HtHere(d)'
          PROVE  <<d, ht_conns'[d].timer>> \notin ht_left' /\ (~ht_conns'[d].closed => <<d, ht_conns'[d].timer>> \in ht_timers')
      <3>1. CASE d = c
        BY <1>1, <1>2, <1>4, <1>7, <1>8, <3>1 DEF HtTimersKept
      <3>2. CASE d # c
        BY <1>1, <1>2, <1>8, <1>9, <2>2, <3>2 DEF HtTimersKept, HtTimed
      <3> QED BY <3>1, <3>2
    <2>3. ASSUME NEW timer \in ht_timers' \ ht_left'
          PROVE  HtHere(timer[1])' /\ ht_conns'[timer[1]].timer = timer[2]
      <3>1. CASE timer = <<c, t>>
        BY <1>7, <1>8, <1>9, <3>1
      <3>2. CASE timer \in ht_timers
        <4>1. timer[1] \in HtConns /\ HtHere(timer[1]) /\ ht_conns[timer[1]].timer = timer[2]
          BY <1>1, <1>2, <2>3, <3>2 DEF HtTimersKept, HtTimersLive
        <4>2. timer[1] # c
          BY <1>1, <4>1
        <4> QED BY <1>8, <1>9, <4>1, <4>2
      <3> QED BY <1>1, <2>3, <3>1, <3>2
    <2> QED BY <2>1, <2>2, <2>3 DEF HtTimersKept, HtTimed, HtTimersLive
  <1>11. HtRoom(c)'
    <2>1. HtOf(ht_timers', c) = mine \cup {t} /\ t \notin mine
      BY <1>1, <1>4 DEF mine, HtOf
    <2>2. Cardinality(mine \cup {t}) = Cardinality(mine) + 1
      BY <1>3, <2>1, FS_AddElement
    <2>3. Cardinality(HtOf(ht_timers', c)) + 2 <= Cardinality(HtTimers)
      <3> DEFINE k == Cardinality(mine)  room == Cardinality(HtTimers)  new == HtOf(ht_timers', c)
      <3>1. k + 3 <= room /\ k \in Nat /\ room \in Nat
        BY <1>1, <1>3
      <3>2. Cardinality(new) = k + 1
        BY <2>1, <2>2
      <3> HIDE DEF k, room, new
      <3>3. Cardinality(new) + 2 <= room
        BY <3>1, <3>2
      <3> QED BY <3>3 DEF room, new
    <2>4. ht_conns'[c].state = "wait"
      BY <1>7, <1>8
    <2> QED BY <2>3, <2>4 DEF HtRoom
  <1>12. HtApart(c)
    BY <1>1 DEF HtApart
  <1> QED BY <1>1, <1>5, <1>6, <1>10, <1>11, <1>12, HtStep

\* What ServeData makes of a connection.
LEMMA HtServedIs ==
    ASSUME NEW s \in HtConnection, NEW t \in HtTimers
    PROVE  LET r == HtServed(s, t) IN
           /\ r \in HtConnection /\ r.state = "sent" /\ r.timer = t /\ r.request = s.request
           /\ r.read = s.read /\ r.data = s.data /\ r.closed = s.closed
           /\ Len(r.answers) = Len(s.answers) + 1
           /\ r.given \subseteq s.given \cup {s.data}
  <1> DEFINE a == HtAnswer(s)
             g == IF a \in {"page", "404"} THEN s.given \cup {s.data} ELSE s.given
             b == Append(s.answers, a)
             r == HtServed(s, t)
  <1>1. a \in {"400", "404", "505", "index", "page"}
    BY DEF HtAnswer
  <1>2. b \in Seq({"400", "404", "505", "index", "page"}) /\ Len(b) = Len(s.answers) + 1
    BY <1>1 DEF HtConnection
  <1>3. g \in SUBSET Nat /\ g \subseteq s.given \cup {s.data}
    BY DEF HtConnection
  <1>4. r = [s EXCEPT !.state = "sent", !.answers = b, !.timer = t, !.given = g]
    BY DEF HtServed
  <1> HIDE DEF a, b, g, r
  <1>5. r = [state |-> "sent", request |-> s.request, read |-> s.read, size |-> s.size, data |-> s.data,
             answers |-> b, given |-> g, timer |-> t, closed |-> s.closed]
    BY <1>4 DEF HtConnection
  <1>6. r \in HtConnection
    BY <1>2, <1>3, <1>5 DEF HtConnection
  <1> QED BY <1>2, <1>3, <1>5, <1>6 DEF r

LEMMA HtServeSound ==
    ASSUME HtSound, NEW c \in HtConns, HtHere(c), ~ht_conns[c].closed,
           NEW s \in HtConnection, s.timer = ht_conns[c].timer, HtServe(c, s),
           s.read <= 2 + Len(s.request.body),
           HtGetsBare /\ HtPlain(s) =>
              /\ s.read >= 2 + s.request.length
              /\ s.request.method = "POST" => s.data >= s.request.length
              /\ s.request.method = "POST" => \A n \in s.given : n >= s.request.length
              /\ s.read <= 2 + s.request.length => Len(s.answers) = 0
    PROVE  HtSound'
  <1> DEFINE t == HtFresh(c)
             r == HtServed(s, t)
  <1>1. /\ ht_conns' = [ht_conns EXCEPT ![c] = r]
        /\ ht_timers' = (ht_timers \ {<<c, ht_conns[c].timer>>}) \cup {<<c, t>>} /\ ht_left' = ht_left
    BY DEF HtServe
  <1>2. t \in HtTimers
    <2>1. HtKept /\ HtRoom(c) /\ HtTimersKept
      BY DEF HtSound, HtKept
    <2>2. Cardinality(HtOf(ht_timers, c)) + 1 <= Cardinality(HtTimers)
      BY <2>1, HtNamesCounted DEF HtRoom
    <2>3. <<c, ht_conns[c].timer>> \in ht_timers
      BY <2>1 DEF HtTimersKept, HtTimed
    <2> QED BY <2>1, <2>2, <2>3, HtFreshIs
  <1>3. /\ r \in HtConnection /\ r.state = "sent" /\ r.timer = t /\ r.request = s.request
        /\ r.read = s.read /\ r.data = s.data
        /\ Len(r.answers) = Len(s.answers) + 1 /\ r.given \subseteq s.given \cup {s.data}
    BY <1>2, HtServedIs
  <1> HIDE DEF r, t
  <1>4. HtOn(r)
    BY <1>3 DEF HtOn
  <1>5. HtDone(r)
    BY <1>3 DEF HtDone, HtPlain, HtConnection
  <1> QED BY <1>1, <1>3, <1>4, <1>5, HtNewTimer DEF t

LEMMA HtBegunIs ==
    ASSUME NEW s \in HtConnection, NEW state, NEW size, NEW data, NEW r, r = [s EXCEPT !.state = state, !.size = size, !.data = data]
    PROVE  r = [state |-> state, request |-> s.request, read |-> s.read, size |-> size, data |-> data,
                answers |-> s.answers, given |-> s.given, timer |-> s.timer, closed |-> s.closed]
  BY DEF HtConnection

LEMMA HtRefusedIs ==
    ASSUME NEW s \in HtConnection, NEW t \in HtTimers, s.given = {}, s.answers = <<>>,
           s.read <= 2 + Len(s.request.body), s.read >= 2, HtPlain(s) => s.request.length = 0
    PROVE  LET r == [s EXCEPT !.state = "sent", !.answers = Append(s.answers, "400"), !.timer = t]
           IN  r \in HtConnection /\ HtOn(r) /\ HtDone(r) /\ r.state = "sent" /\ r.timer = t
  <1> DEFINE b == Append(s.answers, "400")
             sent == "sent"
             r == [s EXCEPT !.state = sent, !.answers = b, !.timer = t]
  <1>1. b \in Seq({"400", "404", "505", "index", "page"}) /\ Len(b) = 1
    BY DEF HtConnection
  <1> HIDE DEF b
  <1>2. sent = "sent" /\ sent \in {"wait", "post", "sent"}
    OBVIOUS
  <1>3. r = [s EXCEPT !.state = sent, !.answers = b, !.timer = t]
    OBVIOUS
  <1> HIDE DEF sent, r
  <1>4. r = [state |-> sent, request |-> s.request, read |-> s.read, size |-> s.size, data |-> s.data,
             answers |-> b, given |-> s.given, timer |-> t, closed |-> s.closed]
    BY <1>3 DEF HtConnection
  <1>5. r \in HtConnection
    BY <1>1, <1>2, <1>4 DEF HtConnection
  <1>6. /\ r.state = sent /\ r.timer = t /\ r.request = s.request /\ r.read = s.read /\ r.data = s.data
        /\ r.answers = b /\ r.given = {}
    BY <1>4
  <1>7. HtOn(r)
    BY <1>2, <1>6 DEF HtOn
  <1>8. HtDone(r)
    <2>1. HtPlain(r) => r.request.length = 0
      BY <1>6 DEF HtPlain
    <2>2. s.read \in Nat /\ s.data \in Nat
      BY DEF HtConnection
    <2>3. HtPlain(r) => r.read >= 2 + r.request.length /\ r.data >= r.request.length
      BY <1>6, <2>1, <2>2
    <2>4. Len(r.answers) <= 1 /\ r.given = {}
      BY <1>1, <1>6
    <2> QED BY <2>3, <2>4 DEF HtDone
  <1> QED BY <1>2, <1>5, <1>6, <1>7, <1>8 DEF r, sent, b

LEMMA HtRefuseSound ==
    ASSUME HtSound, NEW c \in HtConns, HtHere(c), ~ht_conns[c].closed, ht_conns[c].state = "wait",
           NEW s \in HtConnection, s.timer = ht_conns[c].timer, HtRefuse(c, s),
           s.read <= 2 + Len(s.request.body), s.read >= 2, s.given = {}, s.answers = <<>>,
           HtPlain(s) => s.request.length = 0
    PROVE  HtSound'
  <1> DEFINE t == HtFresh(c)
             b == Append(s.answers, "400")
             r == [s EXCEPT !.state = "sent", !.answers = b, !.timer = t]
  <1>1. /\ ht_conns' = [ht_conns EXCEPT ![c] = r]
        /\ ht_timers' = ht_timers \cup {<<c, t>>} /\ ht_left' = ht_left \cup {<<c, ht_conns[c].timer>>}
    BY DEF HtRefuse
  <1>2. t \in HtTimers
    <2>1. HtKept /\ HtRoom(c) /\ HtTimersKept
      BY DEF HtSound, HtKept
    <2>2. Cardinality(HtOf(ht_timers, c)) + 1 <= Cardinality(HtTimers)
      BY <2>1, HtNamesCounted DEF HtRoom
    <2>3. <<c, ht_conns[c].timer>> \in ht_timers
      BY <2>1 DEF HtTimersKept, HtTimed
    <2> QED BY <2>1, <2>2, <2>3, HtFreshIs
  <1>3. r \in HtConnection /\ HtOn(r) /\ HtDone(r) /\ r.state = "sent" /\ r.timer = t
    BY <1>2, HtRefusedIs
  <1> HIDE DEF r
  <1> QED BY <1>1, <1>3, HtNewTimer DEF t

\* How much data there is to come: the words of a plain request do not change it.
LEMMA HtLengthIs ==
    ASSUME NEW s \in HtConnection, s.read <= 2 + Len(s.request.body)
    PROVE  HtLength(s) \in Nat /\ (HtPlain(s) => HtLength(s) = s.request.length)
  <1>1. s.request \in HtRequest /\ s.request.length \in Nat /\ s.request.body \in Seq({"x", "len"})
    BY HttpOK DEF HtConnection, HtRequest
  <1>2. \A i \in 1 .. s.read - 2 : i \in DOMAIN s.request.body
    BY <1>1 DEF HtConnection
  <1> QED BY <1>1, <1>2, HttpOK DEF HtLength, HtPlain

LEMMA HtReadSound ==
    ASSUME HtSound, NEW c \in HtConns, NEW n \in 1 .. 4, HtRead(c, n)
    PROVE  HtSound'
  <1> DEFINE k == ht_conns[c]
             read == k.read + n
             s == [k EXCEPT !.read = @ + n]
             begins == s.state = "wait" /\ s.request.method = "POST"
             size == HtLength(s)
             much == k.data + n
             first == [s EXCEPT !.state = "post", !.size = size, !.data = s.read - 2]
             more == [s EXCEPT !.data = @ + n]
             post == IF begins THEN first ELSE more
             keep(r) == ht_conns' = [ht_conns EXCEPT ![c] = r] /\ UNCHANGED <<ht_timers, ht_left>>
  <1>1. /\ HtHere(c) /\ ~k.closed /\ read <= 2 + Len(k.request.body)
        /\ \/ s.read < 2 /\ keep(s)
           \/ s.read >= 2 /\ begins /\ HtLength(s) = 0 /\ HtRefuse(c, s)
           \/ /\ s.read >= 2 /\ ((begins /\ HtLength(s) > 0) \/ s.state = "post")
              /\ IF HtEnough(post) THEN HtServe(c, post) ELSE keep(post)
           \/ s.read >= 2 /\ ~begins /\ s.state # "post" /\ HtServe(c, s)
    BY DEF HtRead
  <1>2. k \in HtConnection /\ HtOn(k) /\ HtDone(k)
    BY <1>1, HtHereIs
  <1>3. read \in Nat /\ read > k.read /\ read = k.read + n /\ n \in Nat \ {0} /\ k.read \in Nat
    <2>1. k.read \in Nat
      BY <1>2 DEF HtConnection
    <2> HIDE DEF k
    <2> QED BY <2>1
  <1>4. s = [state |-> k.state, request |-> k.request, read |-> read, size |-> k.size, data |-> k.data,
             answers |-> k.answers, given |-> k.given, timer |-> k.timer, closed |-> k.closed]
    <2>1. s = [k EXCEPT !.read = read]
      OBVIOUS
    <2> HIDE DEF k, read, s
    <2> QED BY <1>2, <2>1, HtWhole
  <1> HIDE DEF k, read, s
  <1>5. s \in HtConnection
    BY <1>2, <1>3, <1>4 DEF HtConnection
  <1>6. /\ s.state = k.state /\ s.request = k.request /\ s.read = read /\ s.size = k.size /\ s.data = k.data
        /\ s.answers = k.answers /\ s.given = k.given /\ s.timer = k.timer /\ s.closed = k.closed
    BY <1>4
  <1>7. s.request.length \in Nat /\ s.request.method \in {"GET", "POST"} /\ Len(s.request.body) \in Nat
        /\ (HtGetsBare /\ s.request.method = "GET" => s.request.length = 0)
    <2>1. s.request \in HtRequests
      BY <1>5 DEF HtConnection
    <2> QED BY <2>1, HttpOK DEF HtRequest, HtGetsBare
  <1>8. HtPlain(s) <=> HtPlain(k)
    BY <1>6 DEF HtPlain
  <1>9. CASE s.read < 2 /\ keep(s)
    <2>1. s.state # "sent" \/ ~HtGetsBare \/ ~HtPlain(s)
      BY <1>2, <1>3, <1>6, <1>7, <1>8, <1>9 DEF HtDone
    <2>2. s.state # "post"
      BY <1>2, <1>3, <1>6, <1>9 DEF HtOn, HtConnection
    <2>3. HtOn(s)
      BY <1>1, <1>2, <1>6, <2>2 DEF HtOn
    <2>4. HtDone(s)
      BY <1>2, <1>6, <1>8, <2>1, <2>3 DEF HtDone, HtOn
    <2> QED BY <1>1, <1>5, <1>6, <1>9, <2>3, <2>4, HtOnlyRecord DEF k
  <1>10. CASE s.read >= 2 /\ begins /\ HtLength(s) = 0 /\ HtRefuse(c, s)
    <2>1. s.given = {} /\ s.answers = <<>> /\ k.state = "wait"
      BY <1>2, <1>6, <1>10 DEF HtOn
    <2>2. s.read <= 2 + Len(s.request.body) /\ (HtPlain(s) => s.request.length = 0)
      BY <1>1, <1>5, <1>6, <1>10, HtLengthIs
    <2> QED BY <1>1, <1>5, <1>6, <1>10, <2>1, <2>2, HtRefuseSound DEF k
  <1>11. CASE s.read >= 2 /\ ~begins /\ s.state # "post" /\ HtServe(c, s)
    <2>1. CASE s.state = "sent"
      <3>1. s.read <= 2 + Len(s.request.body)
        BY <1>1, <1>6
      <3>2. HtGetsBare /\ HtPlain(s) =>
              /\ s.read >= 2 + s.request.length
              /\ s.request.method = "POST" => s.data >= s.request.length
              /\ s.request.method = "POST" => \A m \in s.given : m >= s.request.length
              /\ s.read <= 2 + s.request.length => Len(s.answers) = 0
        <4> SUFFICES ASSUME HtGetsBare, HtPlain(s)
                     PROVE  /\ s.read >= 2 + s.request.length
                            /\ s.request.method = "POST" => s.data >= s.request.length
                            /\ s.request.method = "POST" => \A m \in s.given : m >= s.request.length
                            /\ s.read <= 2 + s.request.length => Len(s.answers) = 0
          OBVIOUS
        <4>1. /\ k.read >= 2 + s.request.length
              /\ s.request.method = "POST" => s.data >= s.request.length
              /\ s.request.method = "POST" => \A m \in s.given : m >= s.request.length
          BY <1>2, <1>6, <1>8, <2>1 DEF HtDone
        <4>2. s.read > 2 + s.request.length
          BY <1>3, <1>6, <1>7, <4>1
        <4>3. ~(s.read <= 2 + s.request.length) /\ s.read >= 2 + s.request.length
          BY <1>3, <1>6, <1>7, <4>2
        <4> QED BY <4>1, <4>3
      <3> QED BY <1>1, <1>5, <1>6, <1>11, <3>1, <3>2, HtServeSound DEF k
    <2>2. CASE s.state = "wait"
      <3>1. s.request.method = "GET" /\ s.given = {} /\ s.answers = <<>> /\ s.read <= 2 + Len(s.request.body)
        BY <1>1, <1>2, <1>6, <1>7, <1>11, <2>2 DEF HtOn
      <3>2. HtGetsBare /\ HtPlain(s) =>
              /\ s.read >= 2 + s.request.length
              /\ s.request.method = "POST" => s.data >= s.request.length
              /\ s.request.method = "POST" => \A m \in s.given : m >= s.request.length
              /\ s.read <= 2 + s.request.length => Len(s.answers) = 0
        BY <1>7, <1>11, <3>1
      <3> QED BY <1>1, <1>5, <1>6, <1>11, <3>1, <3>2, HtServeSound DEF k
    <2> QED BY <1>5, <1>11, <2>1, <2>2 DEF HtConnection
  <1>12. CASE /\ s.read >= 2 /\ ((begins /\ HtLength(s) > 0) \/ s.state = "post")
              /\ IF HtEnough(post) THEN HtServe(c, post) ELSE keep(post)
    <2>1. size \in Nat /\ (HtPlain(s) => size = s.request.length) /\ s.read <= 2 + Len(s.request.body)
      BY <1>1, <1>5, <1>6, HtLengthIs
    <2>2. s.read - 2 \in Nat /\ much \in Nat
      BY <1>2, <1>3, <1>5, <1>6, <1>12 DEF HtConnection
    <2> HIDE DEF size, much
    <2>3. first = [state |-> "post", request |-> s.request, read |-> s.read, size |-> size, data |-> s.read - 2,
                   answers |-> s.answers, given |-> s.given, timer |-> s.timer, closed |-> s.closed]
      <3> DEFINE p == "post"  left == s.read - 2
      <3>1. first = [s EXCEPT !.state = p, !.size = size, !.data = left]
        OBVIOUS
      <3> HIDE DEF first, p, left
      <3>2. first = [state |-> p, request |-> s.request, read |-> s.read, size |-> size, data |-> left,
                   answers |-> s.answers, given |-> s.given, timer |-> s.timer, closed |-> s.closed]
        BY <1>5, <3>1, HtBegunIs
      <3> QED BY <3>2 DEF p, left
    <2>4. more = [s EXCEPT !.data = much]
      BY <1>6 DEF much
    <2>5. more = [state |-> s.state, request |-> s.request, read |-> s.read, size |-> s.size, data |-> much,
                   answers |-> s.answers, given |-> s.given, timer |-> s.timer, closed |-> s.closed]
      <3> HIDE DEF more
      <3> QED BY <1>5, <2>4, HtWhole
    <2> HIDE DEF first, more
    <2>6. first \in HtConnection
      BY <1>5, <2>1, <2>2, <2>3 DEF HtConnection
    <2>7. more \in HtConnection
      BY <1>5, <2>2, <2>5 DEF HtConnection
    <2>8. ASSUME NEW p \in HtConnection, p.state = "post", p.request = s.request, p.request.method = "POST", p.read = s.read,
                 p.data + 2 = s.read, p.answers = <<>>, p.given = {}, p.timer = s.timer, p.closed = s.closed,
                 HtPlain(s) => p.size = s.request.length, IF HtEnough(p) THEN HtServe(c, p) ELSE keep(p)
          PROVE  HtSound'
      <3>1. HtPlain(p) <=> HtPlain(s)
        BY <2>8 DEF HtPlain
      <3>2. HtOn(p)
        BY <2>1, <2>8, <3>1 DEF HtOn, HtConnection
      <3>3. HtDone(p)
        BY <2>8 DEF HtDone
      <3>4. CASE ~HtEnough(p)
        BY <1>1, <1>6, <2>8, <3>2, <3>3, <3>4, HtOnlyRecord DEF k
      <3>5. CASE HtEnough(p)
        <4>1. HtGetsBare /\ HtPlain(p) =>
                /\ p.read >= 2 + p.request.length
                /\ p.request.method = "POST" => p.data >= p.request.length
                /\ p.request.method = "POST" => \A m \in p.given : m >= p.request.length
                /\ p.read <= 2 + p.request.length => Len(p.answers) = 0
          BY <1>7, <2>8, <3>1, <3>5 DEF HtEnough, HtConnection
        <4> QED BY <1>1, <1>6, <2>1, <2>8, <3>5, <4>1, HtServeSound DEF k
      <3> QED BY <3>4, <3>5
    <2>9. CASE begins
      <3>1. /\ first.state = "post" /\ first.request = s.request /\ first.read = s.read /\ first.data = s.read - 2
            /\ first.answers = s.answers /\ first.given = s.given /\ first.timer = s.timer /\ first.closed = s.closed
            /\ first.size = size
        BY <2>3
      <3>2. s.answers = <<>> /\ s.given = {}
        BY <1>2, <1>6, <2>9 DEF HtOn
      <3>3. first.data + 2 = s.read
        BY <1>5, <3>1 DEF HtConnection
      <3>4. IF HtEnough(first) THEN HtServe(c, first) ELSE keep(first)
        BY <1>12, <2>9
      <3> QED BY <2>1, <2>6, <2>8, <2>9, <3>1, <3>2, <3>3, <3>4
    <2>10. CASE ~begins
      <3>1. /\ more.state = s.state /\ more.request = s.request /\ more.read = s.read /\ more.data = much
            /\ more.answers = s.answers /\ more.given = s.given /\ more.timer = s.timer /\ more.closed = s.closed
            /\ more.size = s.size
        BY <2>5
      <3>2. s.state = "post" /\ s.answers = <<>> /\ s.given = {} /\ s.request.method = "POST"
            /\ k.read = k.data + 2 /\ (HtPlain(s) => s.size = s.request.length)
        BY <1>2, <1>6, <1>8, <1>12, <2>10 DEF HtOn
      <3>3. more.data + 2 = s.read
        <4>1. k.data \in Nat
          BY <1>2 DEF HtConnection
        <4> QED BY <1>3, <1>6, <3>1, <3>2, <4>1 DEF much
      <3>4. IF HtEnough(more) THEN HtServe(c, more) ELSE keep(more)
        BY <1>12, <2>10
      <3> QED BY <2>7, <2>8, <3>1, <3>2, <3>3, <3>4
    <2> QED BY <2>9, <2>10
  <1> QED BY <1>1, <1>9, <1>10, <1>11, <1>12

LEMMA HtCloseSound ==
    ASSUME HtSound, NEW c \in HtConns, HtClose(c)
    PROVE  HtSound'
  <1> DEFINE k == ht_conns[c]
             r == [k EXCEPT !.closed = TRUE]
  <1>1. HtHere(c) /\ ht_conns' = [ht_conns EXCEPT ![c] = r] /\ UNCHANGED <<ht_timers, ht_left>>
    BY DEF HtClose
  <1>2. k \in HtConnection /\ HtOn(k) /\ HtDone(k)
    BY <1>1, HtHereIs
  <1> HIDE DEF k
  <1>3. r = [state |-> k.state, request |-> k.request, read |-> k.read, size |-> k.size, data |-> k.data,
             answers |-> k.answers, given |-> k.given, timer |-> k.timer, closed |-> TRUE]
    BY <1>2, HtClosedIs
  <1> HIDE DEF r
  <1>4. r \in HtConnection
    BY <1>2, <1>3 DEF HtConnection
  <1>5. HtOn(r) /\ HtDone(r)
    BY <1>2, <1>3 DEF HtOn, HtDone, HtPlain
  <1>6. r.timer = k.timer /\ r.closed /\ r.state = k.state
    BY <1>3
  <1> QED BY <1>1, <1>4, <1>5, <1>6, HtOnlyRecord DEF k

\* Its timer goes with the connection; those left behind stay.
LEMMA HtDeleteSound ==
    ASSUME HtSound, NEW c \in HtConns, HtDelete(c)
    PROVE  HtSound'
  <1> DEFINE old == ht_conns[c].timer
  <1>1. /\ HtHere(c) /\ ht_conns' = [ht_conns EXCEPT ![c] = HtFree]
        /\ ht_timers' = ht_timers \ {<<c, old>>} /\ ht_left' = ht_left
    BY DEF HtDelete
  <1> HIDE DEF old
  <1>2. HtKept /\ HtTimersKept
    BY DEF HtSound, HtKept
  <1>3. /\ ht_conns' \in [HtConns -> HtConnection \cup {HtFree}]
        /\ ht_conns'[c] = HtFree /\ \A d \in HtConns \ {c} : ht_conns'[d] = ht_conns[d]
    BY <1>1, <1>2 DEF HtKept
  <1>4. ~HtHere(c)' /\ \A d \in HtConns \ {c} : HtHere(d)' <=> HtHere(d)
    BY <1>3 DEF HtHere
  <1>5. \A d \in HtConns : HtHere(d)' => HtOn(ht_conns'[d]) /\ HtDone(ht_conns'[d])
    BY <1>3, <1>4 DEF HtSound, HtKept
  <1>6. ASSUME NEW d \in HtConns PROVE HtRoom(d)'
    <2>1. CASE d = c
      BY <1>4, <2>1 DEF HtRoom
    <2>2. CASE d # c
      <3>1. HtOf(ht_timers', d) = HtOf(ht_timers, d)
        BY <1>1, <2>2 DEF HtOf
      <3>2. HtRoom(d)
        BY <1>2 DEF HtKept
      <3> QED BY <1>3, <1>4, <2>2, <3>1, <3>2 DEF HtRoom
    <2> QED BY <2>1, <2>2
  <1>7. HtTimersKept'
    <2>1. <<c, old>> \notin ht_left
      BY <1>1, <1>2 DEF HtTimersKept, old
    <2>2. ASSUME NEW d \in HtConns, HtHere(d)'
          PROVE  <<d, ht_conns'[d].timer>> \notin ht_left' /\ (~ht_conns'[d].closed => <<d, ht_conns'[d].timer>> \in ht_timers')
      <3>1. d # c
        BY <1>4, <2>2
      <3> QED BY <1>1, <1>2, <1>3, <1>4, <2>2, <3>1 DEF HtTimersKept, HtTimed
    <2>3. ASSUME NEW timer \in ht_timers' \ ht_left'
          PROVE  HtHere(timer[1])' /\ ht_conns'[timer[1]].timer = timer[2]
      <3>1. /\ timer[1] \in HtConns /\ HtHere(timer[1]) /\ ht_conns[timer[1]].timer = timer[2]
            /\ timer = <<timer[1], timer[2]>> /\ timer # <<c, old>>
        BY <1>1, <1>2, <2>3 DEF HtTimersKept, HtTimersLive
      <3>2. timer[1] # c
        BY <3>1 DEF old
      <3> QED BY <1>3, <1>4, <3>1, <3>2
    <2> QED BY <1>1, <1>2, <2>1, <2>2, <2>3 DEF HtTimersKept, HtTimed, HtTimersLive
  <1> QED BY <1>3, <1>5, <1>6, <1>7 DEF HtSound, HtKept

\* A timer ticks when every connection that is there is open, so the one it closes has lost nothing but this timer.
LEMMA HtTickSound ==
    ASSUME HtSound, NEW timer \in ht_timers, HtTick(timer)
    PROVE  HtSound'
  <1> DEFINE c == timer[1]
             k == ht_conns[c]
             r == [k EXCEPT !.closed = TRUE]
  <1>1. /\ ht_timers' = ht_timers \ {timer} /\ ht_left' = ht_left \ {timer}
        /\ ht_conns' = IF HtHere(c) THEN [ht_conns EXCEPT ![c] = r] ELSE ht_conns
    BY DEF HtTick
  <1>2. HtKept /\ HtTimersKept
    BY DEF HtSound, HtKept
  <1>3. c \in HtConns /\ timer = <<c, timer[2]>> /\ timer[2] \in HtTimers
    BY <1>2 DEF HtTimersKept
  <1>4. HtHere(c) => k \in HtConnection /\ HtOn(k) /\ HtDone(k)
    BY <1>3, HtHereIs
  <1>5. HtHere(c) => r = [state |-> k.state, request |-> k.request, read |-> k.read, size |-> k.size, data |-> k.data,
             answers |-> k.answers, given |-> k.given, timer |-> k.timer, closed |-> TRUE]
    <2> HIDE DEF k
    <2> QED BY <1>4, HtClosedIs
  <1> HIDE DEF r
  <1>6. HtHere(c) => /\ r \in HtConnection /\ HtOn(r) /\ HtDone(r)
                    /\ r.timer = k.timer /\ r.closed /\ r.state = k.state
    <2> SUFFICES ASSUME HtHere(c)
                 PROVE  /\ r \in HtConnection /\ HtOn(r) /\ HtDone(r)
                        /\ r.timer = k.timer /\ r.closed /\ r.state = k.state
      OBVIOUS
    <2> HIDE DEF k
    <2>1. k \in HtConnection /\ HtOn(k) /\ HtDone(k)
      BY <1>4
    <2>2. r \in HtConnection
      BY <2>1, HtClosedIs DEF r
    <2>3. /\ r.state = k.state /\ r.request = k.request /\ r.read = k.read /\ r.size = k.size /\ r.data = k.data
          /\ r.answers = k.answers /\ r.given = k.given /\ r.timer = k.timer /\ r.closed = TRUE
      BY <1>5
    <2>4. HtPlain(r) <=> HtPlain(k)
      BY <2>3 DEF HtPlain
    <2>5. HtOn(r)
      BY <2>1, <2>3, <2>4 DEF HtOn
    <2>6. HtDone(r)
      BY <2>1, <2>3, <2>4 DEF HtDone
    <2> QED BY <2>2, <2>3, <2>5, <2>6
  <1> HIDE DEF c
  <1>7. /\ ht_conns' \in [HtConns -> HtConnection \cup {HtFree}]
        /\ \A d \in HtConns : HtHere(d)' <=> HtHere(d)
        /\ \A d \in HtConns : HtHere(d) => /\ ht_conns'[d].timer = ht_conns[d].timer
                                          /\ ht_conns'[d].state = ht_conns[d].state
                                          /\ HtOn(ht_conns'[d]) /\ HtDone(ht_conns'[d])
                                          /\ (d = c \/ ht_conns'[d] = ht_conns[d])
        /\ HtHere(c) => ht_conns'[c].closed
    <2>1. CASE HtHere(c)
      <3>1. ht_conns'[c] = r /\ \A d \in HtConns \ {c} : ht_conns'[d] = ht_conns[d]
        BY <1>1, <1>2, <1>3, <2>1 DEF HtKept
      <3>2. ht_conns' \in [HtConns -> HtConnection \cup {HtFree}]
        BY <1>1, <1>2, <1>6, <2>1 DEF HtKept
      <3>3. \A d \in HtConns : HtHere(d)' <=> HtHere(d)
        BY <1>6, <2>1, <3>1, HtFreeIsNone DEF HtHere
      <3>4. \A d \in HtConns : HtHere(d) => HtOn(ht_conns[d]) /\ HtDone(ht_conns[d])
        BY HtHereIs
      <3> QED BY <1>6, <2>1, <3>1, <3>2, <3>3, <3>4
    <2>2. CASE ~HtHere(c)
      BY <1>1, <1>2, <2>2, HtHereIs DEF HtKept, HtHere
    <2> QED BY <2>1, <2>2
  <1>8. ASSUME NEW d \in HtConns PROVE HtRoom(d)'
    <2>1. HtOf(ht_timers', d) \subseteq HtOf(ht_timers, d)
      BY <1>1 DEF HtOf
    <2>2. Cardinality(HtOf(ht_timers', d)) <= Cardinality(HtOf(ht_timers, d))
      BY <2>1, HtNamesCounted, FS_Subset
    <2>3. HtRoom(d)
      BY <1>2 DEF HtKept
    <2> QED BY <1>7, <2>2, <2>3, HtNamesCounted DEF HtRoom
  <1>9. HtTimersKept'
    <2>1. ASSUME NEW d \in HtConns, HtHere(d)'
          PROVE  <<d, ht_conns'[d].timer>> \notin ht_left' /\ (~ht_conns'[d].closed => <<d, ht_conns'[d].timer>> \in ht_timers')
      <3>1. HtHere(d) /\ ht_conns'[d].timer = ht_conns[d].timer
        BY <1>7, <2>1
      <3>2. <<d, ht_conns[d].timer>> \notin ht_left
        BY <1>2, <3>1 DEF HtTimersKept
      <3>3. ASSUME ~ht_conns'[d].closed
            PROVE  <<d, ht_conns[d].timer>> \in ht_timers'
        <4>1. d # c /\ ht_conns'[d] = ht_conns[d]
          BY <1>7, <3>1, <3>3
        <4>2. <<d, ht_conns[d].timer>> \in ht_timers
          BY <1>2, <3>1, <3>3, <4>1 DEF HtTimersKept, HtTimed
        <4> QED BY <1>1, <1>3, <4>1, <4>2
      <3> QED BY <1>1, <3>1, <3>2, <3>3
    <2>2. ASSUME NEW other \in ht_timers' \ ht_left'
          PROVE  HtHere(other[1])' /\ ht_conns'[other[1]].timer = other[2]
      <3>1. other \in ht_timers \ ht_left /\ other[1] \in HtConns
        BY <1>1, <1>2, <2>2 DEF HtTimersKept
      <3>2. HtHere(other[1]) /\ ht_conns[other[1]].timer = other[2]
        BY <1>2, <3>1 DEF HtTimersKept, HtTimersLive
      <3> QED BY <1>7, <3>1, <3>2
    <2> QED BY <1>1, <1>2, <2>1, <2>2 DEF HtTimersKept, HtTimed, HtTimersLive
  <1> QED BY <1>7, <1>8, <1>9 DEF HtSound, HtKept

\* HtSound is inductive, whatever clients send.
THEOREM HttpAlwaysSound == HttpSpec => []HtSound
  <1>1. HtSound /\ [HttpNext]_ht_vars => HtSound'
    <2> SUFFICES ASSUME HtSound, [HttpNext]_ht_vars PROVE HtSound'
      OBVIOUS
    <2>1. CASE UNCHANGED ht_vars
      BY <2>1 DEF ht_vars, HtSound, HtKept, HtRoom, HtTimersKept, HtTimed, HtTimersLive, HtHere
    <2> QED BY <2>1, HtAcceptSound, HtReadSound, HtCloseSound, HtDeleteSound, HtTickSound DEF HttpNext
  <1> QED BY <1>1, HtInitSound, PTL DEF HttpSpec

\* However a request is cut into pieces, it is answered once and when all of it is there, and a timer closes the
\* connection; provided no GET announces data.
THEOREM RequestsAlwaysAnswered == HtGetsBare /\ HttpSpec => []HtAnswered
  <1> SUFFICES ASSUME HtGetsBare PROVE HttpSpec => []HtAnswered
    OBVIOUS
  <1>1. ASSUME HtSound PROVE HtAnswered
    <2>1. HtTimed /\ HtTimersLive
      BY <1>1 DEF HtSound, HtKept, HtTimersKept
    <2>2. \A c \in HtConns : HtHere(c) => HtDone(ht_conns[c])
      BY <1>1 DEF HtSound
    <2>3. HtWholePost /\ HtOneAnswer
      BY <2>2 DEF HtWholePost, HtOneAnswer, HtDone
    <2> QED BY <2>1, <2>3 DEF HtAnswered
  <1> QED BY <1>1, HttpAlwaysSound, PTL

\* No connection is open without the timer that closes it and no timer outlives its connection, but those an answer
\* 400 leaves behind, whatever clients send.
THEOREM TimersAlwaysOwned == HttpSpec => [](HtTimed /\ HtTimersLive)
  <1>1. HtSound => HtTimed /\ HtTimersLive
    BY DEF HtSound, HtKept, HtTimersKept
  <1> QED BY <1>1, HttpAlwaysSound, PTL

-----------------------------------------------------------------------------
(* Gateways *)

GwOf(users, a) == {u \in GwUsers : users[u] # GwNobody /\ users[u].ip = a}
GwCounts(users, clones) ==
    /\ clones \in [GwAddresses -> Nat]
    /\ \A a \in GwAddresses : clones[a] = Cardinality(GwOf(users, a))

\* A gateway is why c is not what he came as.
GwVouched(hosts, c) == hosts[c.from] # GwNone \/ c.heir
\* What is so of a client at any time: he is not under a line he had to be held against.
GwClientSound(hosts, lines, c) ==
    /\ c.ip # c.from \/ c.host # "plain" \/ c.webirc # GwNone => GwVouched(hosts, c)
    /\ ~c.gone /\ ~c.web /\ ~c.moved => <<"z", c.ip>> \notin lines
    /\ ~c.gone /\ ~c.web /\ c.reg = "all" => <<"g", c.ip>> \notin lines
    /\ c.web => c.reg = "all"
GwLookupSound(users, hosts, l) ==
    l.kind = "name" /\ ~l.late => users[l.who] # GwNobody /\ GwVouched(hosts, users[l.who])

GwTables ==
    /\ gw_users \in [GwUsers -> GwClient \cup {GwNobody}]
    /\ gw_hosts \in [GwAddresses -> GwTypes \cup {GwNone}] /\ gw_command \in [GwAddresses -> GwTypes \cup {GwNone}]
    /\ gw_lists \subseteq GwLists /\ gw_lookups \subseteq GwLookup
    /\ \A a \in GwAddresses : gw_command[a] # GwNone => gw_hosts[a] # GwNone
GwSound ==
    /\ \A u \in GwUsers : gw_users[u] # GwNobody => GwClientSound(gw_hosts, gw_lines, gw_users[u])
    /\ \A l \in gw_lookups : GwLookupSound(gw_users, gw_hosts, l)
GwKept == GwTables /\ GwSound /\ GwCounts(gw_users, gw_clones)

LEMMA GwNoneApart == GwNone \notin GwAddresses /\ GwName \notin GwAddresses /\ GwNone # GwName /\ GwNone \notin GwTypes
  BY GatewayOK DEF GwNone, GwName, GwTypes

LEMMA GwKindsApart == "name" \notin GwLists
  BY GatewayOK

-----------------------------------------------------------------------------
(* The counts of clones *)

LEMMA GwFinite ==
    ASSUME NEW users, NEW a
    PROVE  IsFiniteSet(GwOf(users, a)) /\ Cardinality(GwOf(users, a)) \in Nat
  <1>1. GwOf(users, a) \subseteq GwUsers
    BY DEF GwOf
  <1> QED BY <1>1, GatewayOK, FS_Subset, FS_CardinalityType

\* Who keeps his address and stays or stays away changes no count.
LEMMA GwCountsSame ==
    ASSUME NEW users, NEW clones, GwCounts(users, clones), NEW new,
           \A u \in GwUsers : new[u] # GwNobody <=> users[u] # GwNobody,
           \A u \in GwUsers : users[u] # GwNobody => new[u].ip = users[u].ip
    PROVE  GwCounts(new, clones)
  <1>1. \A a : GwOf(new, a) = GwOf(users, a)
    BY DEF GwOf
  <1> QED BY <1>1 DEF GwCounts

LEMMA GwCountsMore ==
    ASSUME NEW users, NEW clones, GwCounts(users, clones), NEW u \in GwUsers, users[u] = GwNobody, NEW a \in GwAddresses,
           NEW new, new[u] # GwNobody, new[u].ip = a, \A v \in GwUsers : v # u => new[v] = users[v]
    PROVE  GwCounts(new, [clones EXCEPT ![a] = @ + 1])
  <1> DEFINE more == [clones EXCEPT ![a] = @ + 1]
  <1>1. more \in [GwAddresses -> Nat] /\ more[a] = clones[a] + 1 /\ \A b \in GwAddresses : b # a => more[b] = clones[b]
    BY DEF GwCounts
  <1> HIDE DEF more
  <1>2. GwOf(new, a) = GwOf(users, a) \cup {u} /\ u \notin GwOf(users, a)
    BY DEF GwOf
  <1>3. \A b : b # a => GwOf(new, b) = GwOf(users, b)
    BY DEF GwOf
  <1>4. Cardinality(GwOf(new, a)) = Cardinality(GwOf(users, a)) + 1
    <2> DEFINE S == GwOf(users, a)
    <2>1. IsFiniteSet(S) /\ u \notin S
      BY <1>2, GwFinite
    <2> HIDE DEF S
    <2>2. Cardinality(S \cup {u}) = Cardinality(S) + 1
      BY <2>1, FS_AddElement
    <2> QED BY <1>2, <2>2 DEF S
  <1>5. clones[a] = Cardinality(GwOf(users, a)) /\ \A b \in GwAddresses : clones[b] = Cardinality(GwOf(users, b))
    BY DEF GwCounts
  <1>6. \A b \in GwAddresses : more[b] = Cardinality(GwOf(new, b))
    <2> TAKE b \in GwAddresses
    <2>1. CASE b = a
      BY <1>1, <1>4, <1>5, <2>1
    <2>2. CASE b # a
      BY <1>1, <1>3, <1>5, <2>2
    <2> QED BY <2>1, <2>2
  <1>7. GwCounts(new, more)
    BY <1>1, <1>6 DEF GwCounts
  <1> QED BY <1>7 DEF more

LEMMA GwCountsLess ==
    ASSUME NEW users, NEW clones, GwCounts(users, clones), NEW u \in GwUsers, users[u] # GwNobody,
           NEW a \in GwAddresses, a = users[u].ip,
           NEW new, new[u] = GwNobody, \A v \in GwUsers : v # u => new[v] = users[v]
    PROVE  /\ clones[a] > 0
           /\ GwCounts(new, [clones EXCEPT ![a] = @ - 1])
  <1> DEFINE less == [clones EXCEPT ![a] = @ - 1]
  <1>1. GwOf(new, a) = GwOf(users, a) \ {u} /\ u \in GwOf(users, a)
    BY DEF GwOf
  <1>2. \A b : b # a => GwOf(new, b) = GwOf(users, b)
    BY DEF GwOf
  <1>3. Cardinality(GwOf(new, a)) = Cardinality(GwOf(users, a)) - 1
    BY <1>1, GwFinite, FS_RemoveElement
  <1>4. Cardinality(GwOf(users, a)) \in Nat /\ Cardinality(GwOf(new, a)) \in Nat
    BY GwFinite
  <1>5. clones[a] \in Nat /\ clones[a] = Cardinality(GwOf(users, a))
    BY DEF GwCounts
  <1>6. clones[a] > 0 /\ clones[a] - 1 \in Nat /\ clones[a] - 1 = Cardinality(GwOf(new, a))
    BY <1>3, <1>4, <1>5
  <1>7. less \in [GwAddresses -> Nat] /\ less[a] = clones[a] - 1 /\ \A b \in GwAddresses : b # a => less[b] = clones[b]
    BY <1>6 DEF GwCounts
  <1> HIDE DEF less
  <1> QED BY <1>2, <1>6, <1>7 DEF GwCounts, less

\* RemoveCloneCounts before the address is overwritten, AddLocalClone after it.
LEMMA GwCountsMoved ==
    ASSUME GwCounts(gw_users, gw_clones), NEW u \in GwUsers, gw_users[u] # GwNobody,
           NEW from \in GwAddresses, from = gw_users[u].ip, NEW to \in GwAddresses,
           NEW new, new[u] # GwNobody, new[u].ip = to, \A v \in GwUsers : v # u => new[v] = gw_users[v]
    PROVE  GwCounts(new, GwRecount(from, to))
  <1> DEFINE off == [v \in GwUsers |-> IF v = u THEN GwNobody ELSE gw_users[v]]
             less == [gw_clones EXCEPT ![from] = @ - 1]
  <1>1. off[u] = GwNobody /\ \A v \in GwUsers : v # u => off[v] = gw_users[v] /\ new[v] = off[v]
    OBVIOUS
  <1>2. GwRecount(from, to) = [less EXCEPT ![to] = @ + 1]
    BY DEF GwRecount
  <1> HIDE DEF off
  <1>3. GwCounts(off, less)
    BY <1>1, GwCountsLess
  <1> HIDE DEF less
  <1> QED BY <1>1, <1>2, <1>3, GwCountsMore

-----------------------------------------------------------------------------
(* The clients *)

\* One client has changed, and what else has not is as sound as it was.
LEMMA GwOneChanged ==
    ASSUME GwTables, GwSound, NEW u \in GwUsers, NEW c \in GwClient, GwClientSound(gw_hosts, gw_lines, c),
           gw_users' = [gw_users EXCEPT ![u] = c],
           gw_users[u] # GwNobody /\ GwVouched(gw_hosts, gw_users[u]) => GwVouched(gw_hosts, c),
           gw_lookups' \subseteq GwLookup, \A l \in gw_lookups' : l \in gw_lookups \/ GwLookupSound(gw_users', gw_hosts, l),
           UNCHANGED <<gw_hosts, gw_command, gw_lists, gw_lines>>
    PROVE  GwTables' /\ GwSound'
  <1>1. c # GwNobody
    BY GatewayOK
  <1>2. gw_users'[u] = c /\ \A v \in GwUsers : v # u => gw_users'[v] = gw_users[v]
    BY DEF GwTables
  <1>3. gw_users' \in [GwUsers -> GwClient \cup {GwNobody}]
    BY DEF GwTables
  <1>4. GwTables'
    BY <1>3 DEF GwTables
  <1>5. \A v \in GwUsers : gw_users'[v] # GwNobody => GwClientSound(gw_hosts, gw_lines, gw_users'[v])
    BY <1>2 DEF GwSound
  <1>6. ASSUME NEW l \in gw_lookups' PROVE GwLookupSound(gw_users', gw_hosts, l)
    <2>1. CASE l \in gw_lookups
      <3>1. GwLookupSound(gw_users, gw_hosts, l) /\ l.who \in GwUsers
        BY <2>1 DEF GwSound, GwTables, GwLookup
      <3> QED BY <3>1, <1>1, <1>2 DEF GwLookupSound
    <2> QED BY <2>1, <1>6
  <1>7. gw_hosts' = gw_hosts /\ gw_lines' = gw_lines
    OBVIOUS
  <1> QED BY <1>4, <1>5, <1>6, <1>7 DEF GwSound

LEMMA GwCheckClassIs ==
    ASSUME NEW c \in GwClient, NEW clones
    PROVE  /\ GwCheckClass(c, clones) \in GwClient
           /\ GwCheckClass(c, clones).ip = c.ip /\ GwCheckClass(c, clones).from = c.from
           /\ GwCheckClass(c, clones).host = c.host /\ GwCheckClass(c, clones).webirc = c.webirc
           /\ GwCheckClass(c, clones).web = c.web /\ GwCheckClass(c, clones).moved = c.moved
           /\ GwCheckClass(c, clones).heir = c.heir /\ GwCheckClass(c, clones).reg = c.reg
           /\ c.gone => GwCheckClass(c, clones).gone
  <1> DEFINE over == clones[c.ip] + GwElsewhere[c.ip] > GwMaxClones
  <1>1. over \in BOOLEAN
    OBVIOUS
  <1>2. GwCheckClass(c, clones) = [c EXCEPT !.gone = @ \/ over]
    BY DEF GwCheckClass
  <1> HIDE DEF over
  <1> QED BY <1>1, <1>2 DEF GwClient

LEMMA GwConnectKeeps ==
    ASSUME GwKept, NEW u \in GwUsers, NEW a \in GwAddresses, NEW sent \in GwSent, GwConnect(u, a, sent)
    PROVE  GwKept'
  <1> USE DEF GwKept
  <1> DEFINE c == [from |-> a, ip |-> a, host |-> "plain", pass |-> sent[1], ident |-> sent[2], webirc |-> GwNone,
                 reg |-> "new", gone |-> <<"z", a>> \in gw_lines, web |-> FALSE, heir |-> FALSE, moved |-> FALSE]
             new == GwCheckClass(c, gw_clones')
  <1>1. gw_users[u] = GwNobody /\ gw_clones' = [gw_clones EXCEPT ![a] = @ + 1]
        /\ gw_users' = [gw_users EXCEPT ![u] = new] /\ UNCHANGED <<gw_hosts, gw_command, gw_lists, gw_lookups, gw_lines>>
    BY DEF GwConnect, GwHere
  <1>2. sent[1] \in GwOffers \cup {GwName} /\ sent[2] \in GwOffers
    BY GatewayOK DEF GwOffers
  <1>3. c \in GwClient
    BY <1>2 DEF GwClient, GwOffers
  <1>4. c.ip = a /\ c.from = a /\ c.host = "plain" /\ c.webirc = GwNone /\ c.reg = "new" /\ c.web = FALSE /\ c.gone = (<<"z", a>> \in gw_lines)
    OBVIOUS
  <1> HIDE DEF c
  <1>5. new \in GwClient /\ new.ip = a /\ new.from = a /\ new.host = "plain" /\ new.webirc = GwNone /\ new.reg = "new"
        /\ new.web = FALSE /\ (c.gone => new.gone)
    BY <1>3, <1>4, GwCheckClassIs
  <1> HIDE DEF new
  <1>9. GwClientSound(gw_hosts, gw_lines, new)
    BY <1>4, <1>5 DEF GwClientSound
  <1>6. GwTables' /\ GwSound'
    BY <1>1, <1>5, <1>9, GwOneChanged DEF GwTables
  <1>7. new # GwNobody /\ gw_users'[u] = new /\ \A v \in GwUsers : v # u => gw_users'[v] = gw_users[v]
    BY <1>1, <1>5, GatewayOK DEF GwTables
  <1>8. GwCounts(gw_users', gw_clones')
    <2>1. GwCounts(gw_users, gw_clones) /\ gw_users[u] = GwNobody
      BY <1>1
    <2>2. GwCounts(gw_users', [gw_clones EXCEPT ![a] = @ + 1])
      BY <2>1, <1>5, <1>7, GwCountsMore
    <2> QED BY <1>1, <2>2
  <1> QED BY <1>6, <1>8

LEMMA GwWebircKeeps ==
    ASSUME GwKept, NEW u \in GwUsers, NEW to \in GwAddresses, GwWebirc(u, to)
    PROVE  GwKept'
  <1> USE DEF GwKept
  <1> DEFINE c == gw_users[u]
             new == [c EXCEPT !.webirc = to]
  <1>1. c # GwNobody /\ gw_command[c.ip] = "webirc" /\ gw_users' = [gw_users EXCEPT ![u] = new]
        /\ UNCHANGED <<gw_hosts, gw_command, gw_lists, gw_lookups, gw_lines, gw_clones>>
    BY DEF GwWebirc, GwHere
  <1>2. c \in GwClient /\ GwClientSound(gw_hosts, gw_lines, c)
    BY <1>1 DEF GwTables, GwSound
  <1> HIDE DEF c
  <1>3. new \in GwClient /\ new.ip = c.ip /\ new.from = c.from /\ new.host = c.host /\ new.web = c.web /\ new.moved = c.moved
        /\ new.heir = c.heir /\ new.reg = c.reg /\ new.gone = c.gone
    BY <1>2 DEF GwClient, GwOffers
  <1> HIDE DEF new
  <1>4. c.ip \in GwAddresses /\ gw_command[c.ip] # GwNone
    BY <1>1, <1>2 DEF GwClient, GwNone
  <1>5. gw_hosts[c.ip] # GwNone
    BY <1>4 DEF GwTables
  <1>6. GwVouched(gw_hosts, c) /\ GwVouched(gw_hosts, new)
    BY <1>2, <1>3, <1>5 DEF GwClientSound, GwVouched
  <1>7. GwClientSound(gw_hosts, gw_lines, new)
    BY <1>2, <1>3, <1>6 DEF GwClientSound
  <1>8. GwTables' /\ GwSound'
    BY <1>1, <1>3, <1>6, <1>7, GwOneChanged DEF GwTables
  <1>9. gw_users'[u] = new /\ new # GwNobody /\ \A v \in GwUsers : v # u => gw_users'[v] = gw_users[v]
    BY <1>1, <1>3, GatewayOK DEF GwTables
  <1>10. GwCounts(gw_users', gw_clones)
    <2>1. \A v \in GwUsers : gw_users'[v] # GwNobody <=> gw_users[v] # GwNobody
      BY <1>9, <1>1 DEF c
    <2>2. \A v \in GwUsers : gw_users[v] # GwNobody => gw_users'[v].ip = gw_users[v].ip
      BY <1>9, <1>3 DEF c
    <2> QED BY <2>1, <2>2, GwCountsSame
  <1> QED BY <1>1, <1>8, <1>10

-----------------------------------------------------------------------------
(* Registering *)

\* What m_cgiirc believes comes with an entry for the address.
LEMMA GwBelievedIs ==
    ASSUME NEW c \in GwClient
    PROVE  /\ GwBelieved(c) \in {"pass", "ident", GwNone}
           /\ GwBelieved(c) # GwNone => gw_hosts[c.ip] # GwNone
           /\ GwBelieved(c) = "pass" => c.pass # GwNone
           /\ GwBelieved(c) = "ident" => c.ident # GwNone
  BY DEF GwBelieved, GwNone

LEMMA GwCheckPassIs ==
    ASSUME NEW c \in GwClient, c.pass # GwNone
    PROVE  LET new == GwCheckPass(c)
           IN /\ new \in GwClient /\ new.from = c.from /\ new.webirc = c.webirc /\ new.web = c.web
              /\ new.moved = c.moved /\ new.heir = c.heir /\ new.reg = c.reg /\ new.gone = c.gone
  <1> DEFINE to == IF c.pass = GwName THEN c.ip ELSE c.pass
  <1>1. to \in GwAddresses
    BY DEF GwClient, GwOffers
  <1>2. GwCheckPass(c) = [c EXCEPT !.host = "given", !.pass = GwNone, !.ip = to]
    BY DEF GwCheckPass
  <1> HIDE DEF to
  <1> QED BY <1>1, <1>2 DEF GwClient, GwOffers

LEMMA GwCheckIdentIs ==
    ASSUME NEW c \in GwClient, c.ident # GwNone
    PROVE  LET new == GwCheckIdent(c)
           IN /\ new \in GwClient /\ new.from = c.from /\ new.webirc = c.webirc /\ new.web = c.web
              /\ new.moved = c.moved /\ new.heir = c.heir /\ new.reg = c.reg /\ new.gone = c.gone
  BY DEF GwCheckIdent, GwClient, GwOffers

LEMMA GwRegisterKeeps ==
    ASSUME GwKept, NEW u \in GwUsers, GwRegister(u)
    PROVE  GwKept'
  <1> USE DEF GwKept
  <1> DEFINE old == gw_users[u]
             way == GwBelieved(old)
             told == CASE way = "pass" -> GwCheckPass(old) [] way = "ident" -> GwCheckIdent(old) [] OTHER -> old
             new == [told EXCEPT !.reg = "ready", !.moved = @ \/ told.ip # old.ip]
             names == IF way = "ident" \/ (way = "pass" /\ old.pass = GwName) THEN {"name"} ELSE {}
             last == IF way = GwNone THEN new ELSE GwCheckClass(new, gw_clones')
             asked == [kind : names \cup gw_lists, who : {u}, late : {FALSE}, of : {new.ip}, freed : {FALSE}]
  <1>1. old # GwNobody /\ old.reg # "all" /\ gw_clones' = GwRecount(old.ip, new.ip)
        /\ gw_users' = [gw_users EXCEPT ![u] = last] /\ gw_lookups' = gw_lookups \cup asked
        /\ UNCHANGED <<gw_hosts, gw_command, gw_lists, gw_lines>>
    BY DEF GwRegister, GwHere
  <1>2. old \in GwClient /\ GwClientSound(gw_hosts, gw_lines, old)
    BY <1>1 DEF GwTables, GwSound
  <1> HIDE DEF old
  <1>3. way \in {"pass", "ident", GwNone} /\ (way # GwNone => gw_hosts[old.ip] # GwNone)
        /\ (way = "pass" => old.pass # GwNone) /\ (way = "ident" => old.ident # GwNone)
    BY <1>2, GwBelievedIs
  <1> HIDE DEF way
  <1>4. told \in GwClient /\ told.from = old.from /\ told.webirc = old.webirc /\ told.web = old.web
        /\ told.moved = old.moved /\ told.heir = old.heir /\ told.reg = old.reg /\ told.gone = old.gone
        /\ (way = GwNone => told = old)
    <2>1. CASE way = "pass"
      BY <2>1, <1>2, <1>3, GwCheckPassIs DEF GwNone
    <2>2. CASE way = "ident"
      BY <2>2, <1>2, <1>3, GwCheckIdentIs DEF GwNone
    <2>3. CASE way = GwNone
      BY <2>3, <1>2 DEF GwNone
    <2> QED BY <1>3, <2>1, <2>2, <2>3
  <1> HIDE DEF told
  <1>5. new \in GwClient /\ new.from = old.from /\ new.webirc = old.webirc /\ new.web = old.web /\ new.ip = told.ip
        /\ new.moved = (old.moved \/ told.ip # old.ip) /\ new.heir = old.heir /\ new.reg = "ready" /\ new.gone = old.gone
        /\ new.host = told.host
    BY <1>4 DEF GwClient
  <1> HIDE DEF new
  <1>6. last \in GwClient /\ last.from = old.from /\ last.webirc = old.webirc /\ last.web = old.web /\ last.ip = new.ip
        /\ last.moved = new.moved /\ last.heir = old.heir /\ last.reg = "ready" /\ (old.gone => last.gone)
        /\ last.host = new.host
    BY <1>5, GwCheckClassIs
  <1> HIDE DEF last
  <1>7. GwVouched(gw_hosts, old) => GwVouched(gw_hosts, last)
    BY <1>6 DEF GwVouched
  <1>8. way # GwNone => GwVouched(gw_hosts, old)
    BY <1>2, <1>3 DEF GwVouched, GwClientSound
  <1>9. GwClientSound(gw_hosts, gw_lines, last)
    <2>1. old.web = FALSE
      BY <1>1, <1>2 DEF GwClientSound, GwClient
    <2>2. last.ip # last.from \/ last.host # "plain" \/ last.webirc # GwNone => GwVouched(gw_hosts, last)
      <3>1. CASE way = GwNone
        BY <3>1, <1>2, <1>4, <1>5, <1>6, <1>7 DEF GwClientSound
      <3> QED BY <3>1, <1>7, <1>8
    <2>3. ~last.gone /\ ~last.moved => <<"z", last.ip>> \notin gw_lines
      BY <1>2, <1>5, <1>6, <2>1 DEF GwClientSound
    <2> QED BY <2>1, <2>2, <2>3, <1>6 DEF GwClientSound
  <1>10. last # GwNobody /\ gw_users'[u] = last /\ \A v \in GwUsers : v # u => gw_users'[v] = gw_users[v]
    BY <1>1, <1>6, GatewayOK DEF GwTables
  <1>11. ASSUME NEW l \in asked PROVE l \in GwLookup /\ GwLookupSound(gw_users', gw_hosts, l)
    <2>1. l.kind \in names \cup gw_lists /\ l.who = u /\ l.late = FALSE /\ l.of = new.ip /\ l.freed = FALSE
      OBVIOUS
    <2>2. new.ip \in GwAddresses
      BY <1>5 DEF GwClient
    <2>3. l \in GwLookup
      BY <2>2 DEF GwLookup, GwTables
    <2>4. l.kind \in names => way # GwNone
      BY <1>3 DEF GwNone
    <2>5. CASE l.kind \in names
      BY <2>1, <2>3, <2>4, <2>5, <1>7, <1>8, <1>10 DEF GwLookupSound
    <2>6. CASE l.kind \notin names
      <3>1. CASE l.kind = "name"
        <4>1. "name" \in GwLists
          BY <2>1, <2>6, <3>1 DEF GwTables
        <4> QED BY <4>1, GwKindsApart
      <3> QED BY <3>1, <2>3 DEF GwLookupSound
    <2> QED BY <2>5, <2>6, <2>3
  <1> HIDE DEF asked
  <1>12. gw_lookups' \subseteq GwLookup /\ \A l \in gw_lookups' : l \in gw_lookups \/ GwLookupSound(gw_users', gw_hosts, l)
    BY <1>1, <1>11 DEF GwTables
  <1>13. GwTables' /\ GwSound'
    BY <1>1, <1>6, <1>7, <1>9, <1>12, GwOneChanged DEF old
  <1>14. old.ip \in GwAddresses /\ new.ip \in GwAddresses
    BY <1>2, <1>5 DEF GwClient
  <1>15. GwCounts(gw_users', gw_clones')
    BY <1>1, <1>6, <1>10, <1>14, GwCountsMoved DEF old
  <1> QED BY <1>13, <1>15

\* A WEBIRC address is taken only now, after G- and K-lines were asked about the one before.
LEMMA GwFullConnectKeeps ==
    ASSUME GwKept, NEW u \in GwUsers, GwFullConnect(u)
    PROVE  GwKept'
  <1> USE DEF GwKept
  <1> DEFINE was == gw_users[u]
             c == GwCheckClass(was, gw_clones)
             to == IF c.webirc = GwNone THEN c.ip ELSE c.webirc
             new == [c EXCEPT !.ip = to, !.reg = "all", !.web = c.webirc # GwNone,
                              !.host = IF c.webirc = GwNone THEN @ ELSE "given", !.webirc = GwNone]
             banned == {<<"g", c.ip>>, <<"k", c.ip>>} \cap gw_lines # {}
             last == IF banned THEN [c EXCEPT !.gone = TRUE] ELSE GwCheckClass(new, gw_clones')
  <1>1. was # GwNobody /\ c.reg = "ready" /\ gw_clones' = (IF banned THEN gw_clones ELSE GwRecount(c.ip, to))
        /\ gw_users' = [gw_users EXCEPT ![u] = last]
        /\ UNCHANGED <<gw_hosts, gw_command, gw_lists, gw_lookups, gw_lines>>
    BY DEF GwFullConnect, GwHere
  <1>2. was \in GwClient /\ GwClientSound(gw_hosts, gw_lines, was)
    BY <1>1 DEF GwTables, GwSound
  <1> HIDE DEF was
  <1>3. c \in GwClient /\ c.ip = was.ip /\ c.from = was.from /\ c.host = was.host /\ c.webirc = was.webirc
        /\ c.web = was.web /\ c.moved = was.moved /\ c.heir = was.heir /\ c.reg = was.reg /\ (was.gone => c.gone)
    BY <1>2, GwCheckClassIs
  <1> HIDE DEF c
  <1>4. GwClientSound(gw_hosts, gw_lines, c) /\ c.web = FALSE
    BY <1>1, <1>2, <1>3 DEF GwClientSound, GwVouched, GwClient
  <1>5. to \in GwAddresses
    BY <1>3 DEF GwClient, GwOffers
  <1>6. (c.webirc = GwNone => to = c.ip) /\ c.ip \in GwAddresses
    BY <1>3 DEF GwClient
  <1> HIDE DEF to
  <1>7. new \in GwClient /\ new.ip = to /\ new.from = c.from /\ new.web = (c.webirc # GwNone) /\ new.moved = c.moved
        /\ new.heir = c.heir /\ new.reg = "all" /\ new.gone = c.gone /\ new.webirc = GwNone
        /\ (c.webirc = GwNone => new.host = c.host)
    BY <1>3, <1>5 DEF GwClient, GwOffers
  <1> HIDE DEF new
  <1>8. banned <=> <<"g", c.ip>> \in gw_lines \/ <<"k", c.ip>> \in gw_lines
    OBVIOUS
  <1> HIDE DEF banned
  <1>9. last \in GwClient /\ last.from = c.from /\ last.heir = c.heir /\ last # GwNobody
        /\ last.ip = (IF banned THEN c.ip ELSE to) /\ GwClientSound(gw_hosts, gw_lines, last)
    <2>1. CASE banned
      <3>1. last = [c EXCEPT !.gone = TRUE]
        BY <2>1
      <3>2. last \in GwClient /\ last.from = c.from /\ last.heir = c.heir /\ last.ip = c.ip /\ last.gone = TRUE
            /\ last.host = c.host /\ last.webirc = c.webirc /\ last.web = c.web
        BY <3>1, <1>3 DEF GwClient
      <3> HIDE DEF last
      <3>3. GwClientSound(gw_hosts, gw_lines, last)
        BY <3>2, <1>4 DEF GwClientSound, GwVouched
      <3> QED BY <2>1, <3>2, <3>3, GatewayOK
    <2>2. CASE ~banned
      <3>1. last = GwCheckClass(new, gw_clones')
        BY <2>2
      <3> HIDE DEF last
      <3>2. last \in GwClient /\ last.from = c.from /\ last.heir = c.heir /\ last.ip = to /\ last.moved = c.moved
            /\ last.host = new.host /\ last.webirc = GwNone /\ last.web = (c.webirc # GwNone)
            /\ last.reg = "all" /\ (c.gone => last.gone)
        BY <3>1, <1>7, GwCheckClassIs
      <3>3. last.ip # last.from \/ last.host # "plain" => GwVouched(gw_hosts, last)
        BY <3>2, <1>4, <1>6, <1>7 DEF GwClientSound, GwVouched
      <3>4. ~last.gone /\ ~last.web /\ ~last.moved => <<"z", last.ip>> \notin gw_lines
        BY <3>2, <1>4, <1>6 DEF GwClientSound
      <3>5. ~last.web => <<"g", last.ip>> \notin gw_lines
        BY <3>2, <1>6, <1>8, <2>2
      <3>6. GwClientSound(gw_hosts, gw_lines, last)
        BY <3>2, <3>3, <3>4, <3>5 DEF GwClientSound
      <3> QED BY <2>2, <3>2, <3>6, GatewayOK
    <2> QED BY <2>1, <2>2
  <1> HIDE DEF last
  <1>10. GwVouched(gw_hosts, was) => GwVouched(gw_hosts, last)
    BY <1>3, <1>9 DEF GwVouched
  <1>11. GwTables' /\ GwSound'
    BY <1>1, <1>9, <1>10, GwOneChanged DEF GwTables, was
  <1>12. gw_users'[u] = last /\ \A v \in GwUsers : v # u => gw_users'[v] = gw_users[v]
    BY <1>1, <1>9 DEF GwTables
  <1>13. GwCounts(gw_users', gw_clones')
    <2>1. CASE banned
      <3>1. last.ip = was.ip /\ gw_clones' = gw_clones
        BY <2>1, <1>1, <1>3, <1>9
      <3>2. \A v \in GwUsers : gw_users'[v] # GwNobody <=> gw_users[v] # GwNobody
        BY <1>1, <1>9, <1>12 DEF was
      <3>3. \A v \in GwUsers : gw_users[v] # GwNobody => gw_users'[v].ip = gw_users[v].ip
        BY <3>1, <1>12 DEF was
      <3> QED BY <3>1, <3>2, <3>3, GwCountsSame
    <2>2. CASE ~banned
      <3>1. gw_clones' = GwRecount(c.ip, to) /\ last.ip = to /\ c.ip = was.ip
        BY <2>2, <1>1, <1>3, <1>9
      <3>2. GwCounts(gw_users, gw_clones) /\ gw_users[u] # GwNobody /\ c.ip = gw_users[u].ip
        BY <3>1, <1>1 DEF was
      <3>3. GwCounts(gw_users', GwRecount(c.ip, to))
        BY <3>1, <3>2, <1>5, <1>6, <1>9, <1>12, GwCountsMoved
      <3> QED BY <3>1, <3>3
    <2> QED BY <2>1, <2>2
  <1> QED BY <1>11, <1>13

-----------------------------------------------------------------------------
(* Answers, lines and culls *)

LEMMA GwNameFoundKeeps ==
    ASSUME GwKept, NEW l \in gw_lookups, GwNameFound(l)
    PROVE  GwKept'
  <1> USE DEF GwKept
  <1> DEFINE u == l.who
             c == gw_users[u]
             found == "found"
             new == [c EXCEPT !.host = found, !.heir = @ \/ l.late]
  <1>1. l.kind = "name" /\ gw_lookups' = gw_lookups \ {l} /\ UNCHANGED <<gw_hosts, gw_command, gw_lists, gw_lines, gw_clones>>
    BY DEF GwNameFound
  <1>2. u \in GwUsers /\ l.late \in BOOLEAN /\ GwLookupSound(gw_users, gw_hosts, l)
    BY DEF GwTables, GwSound, GwLookup
  <1>3. gw_lookups' \subseteq GwLookup /\ gw_lookups' \subseteq gw_lookups
    BY <1>1 DEF GwTables
  <1>4. CASE c = GwNobody
    <2>1. gw_users' = gw_users
      BY <1>4 DEF GwNameFound, GwHere
    <2>2. GwTables' /\ GwSound'
      BY <2>1, <1>1, <1>3 DEF GwTables, GwSound
    <2> QED BY <2>1, <2>2, <1>1
  <1>5. CASE c # GwNobody
    <2>1. gw_users' = [gw_users EXCEPT ![u].host = found, ![u].heir = @ \/ l.late]
      BY <1>5 DEF GwNameFound, GwHere
    <2>2. c \in GwClient /\ GwClientSound(gw_hosts, gw_lines, c)
      BY <1>2, <1>5 DEF GwTables, GwSound
    <2>3. gw_users' = [gw_users EXCEPT ![u] = new]
      BY <2>1, <1>2 DEF GwTables
    <2>4. c.from = gw_users[u].from /\ c.ip = gw_users[u].ip
      OBVIOUS
    <2> HIDE DEF c
    <2>5. found \in {"plain", "given", "found"}
      OBVIOUS
    <2> HIDE DEF found
    <2>6. new \in GwClient /\ new.ip = c.ip /\ new.from = c.from /\ new.webirc = c.webirc /\ new.web = c.web /\ new.moved = c.moved
          /\ new.heir = (c.heir \/ l.late) /\ new.reg = c.reg /\ new.gone = c.gone
      BY <2>2, <2>5, <1>2 DEF GwClient
    <2> HIDE DEF new
    <2>7. GwVouched(gw_hosts, new)
      <3>1. CASE l.late
        BY <3>1, <2>6 DEF GwVouched
      <3>2. CASE ~l.late
        <4>1. GwVouched(gw_hosts, c)
          BY <3>2, <1>1, <1>2 DEF GwLookupSound, c
        <4> QED BY <4>1, <2>6 DEF GwVouched
      <3> QED BY <3>1, <3>2
    <2>8. GwClientSound(gw_hosts, gw_lines, new)
      BY <2>2, <2>6, <2>7 DEF GwClientSound
    <2>9. GwTables' /\ GwSound'
      BY <1>1, <1>2, <1>3, <2>3, <2>6, <2>7, <2>8, GwOneChanged
    <2>10. gw_users'[u] = new /\ new # GwNobody /\ \A v \in GwUsers : v # u => gw_users'[v] = gw_users[v]
      BY <1>2, <2>3, <2>6, GatewayOK DEF GwTables
    <2>11. \A v \in GwUsers : gw_users'[v] # GwNobody <=> gw_users[v] # GwNobody
      BY <2>10, <1>5 DEF c
    <2>12. \A v \in GwUsers : gw_users[v] # GwNobody => gw_users'[v].ip = gw_users[v].ip
      BY <2>10, <2>6 DEF c
    <2>13. GwCounts(gw_users', gw_clones)
      BY <2>11, <2>12, GwCountsSame
    <2> QED BY <1>1, <2>9, <2>13
  <1> QED BY <1>4, <1>5

\* Clients are only dropped, and who stays is under no line that is new.
LEMMA GwDropped ==
    ASSUME GwTables, GwSound, GwCounts(gw_users, gw_clones),
           gw_users' = [v \in GwUsers |-> gw_users'[v]],
           \A v \in GwUsers : gw_users'[v] = gw_users[v] \/ (gw_users[v] # GwNobody /\ gw_users'[v] = [gw_users[v] EXCEPT !.gone = TRUE]),
           \A v \in GwUsers, type \in {"g", "z"} :
               gw_users'[v] # GwNobody /\ ~gw_users'[v].gone /\ <<type, gw_users'[v].ip>> \in gw_lines' => <<type, gw_users'[v].ip>> \in gw_lines,
           gw_lookups' \subseteq gw_lookups,
           UNCHANGED <<gw_hosts, gw_command, gw_lists, gw_clones>>
    PROVE  GwKept'
  <1>1. ASSUME NEW v \in GwUsers
        PROVE  /\ gw_users'[v] \in GwClient \cup {GwNobody} /\ (gw_users'[v] # GwNobody <=> gw_users[v] # GwNobody)
               /\ gw_users[v] # GwNobody =>
                    /\ gw_users'[v].ip = gw_users[v].ip
                    /\ GwVouched(gw_hosts, gw_users[v]) => GwVouched(gw_hosts, gw_users'[v])
                    /\ GwClientSound(gw_hosts, gw_lines', gw_users'[v])
    <2>1. CASE gw_users[v] = GwNobody
      BY <2>1
    <2>2. CASE gw_users[v] # GwNobody
      <3> DEFINE c == gw_users[v]
                 new == gw_users'[v]
      <3>1. c \in GwClient /\ GwClientSound(gw_hosts, gw_lines, c)
        BY <2>2 DEF GwTables, GwSound
      <3>2. new \in GwClient /\ new.ip = c.ip /\ new.from = c.from /\ new.host = c.host /\ new.webirc = c.webirc
            /\ new.web = c.web /\ new.moved = c.moved /\ new.heir = c.heir /\ new.reg = c.reg /\ (c.gone => new.gone)
        <4>1. CASE new = c
          BY <4>1, <3>1
        <4>2. CASE new = [c EXCEPT !.gone = TRUE]
          <5> HIDE DEF new, c
          <5> QED BY <4>2, <3>1 DEF GwClient
        <4> QED BY <4>1, <4>2
      <3>3. new # GwNobody
        BY <3>2, GatewayOK
      <3>4. ~new.gone => (<<"z", new.ip>> \in gw_lines' => <<"z", new.ip>> \in gw_lines)
                         /\ (<<"g", new.ip>> \in gw_lines' => <<"g", new.ip>> \in gw_lines)
        BY <3>3
      <3> HIDE DEF new
      <3>5. GwVouched(gw_hosts, c) => GwVouched(gw_hosts, new)
        BY <3>2 DEF GwVouched
      <3> HIDE DEF c
      <3>6. GwClientSound(gw_hosts, gw_lines', new)
        BY <3>1, <3>2, <3>4, <3>5 DEF GwClientSound
      <3> QED BY <2>2, <3>2, <3>3, <3>5, <3>6 DEF c, new
    <2> QED BY <2>1, <2>2
  <1>2. gw_users' \in [GwUsers -> GwClient \cup {GwNobody}]
    BY <1>1
  <1>3. GwTables'
    BY <1>2 DEF GwTables
  <1>4. \A v \in GwUsers : gw_users'[v] # GwNobody => GwClientSound(gw_hosts, gw_lines', gw_users'[v])
    BY <1>1
  <1>5. \A l \in gw_lookups' : GwLookupSound(gw_users', gw_hosts, l)
    <2> TAKE l \in gw_lookups'
    <2>1. l.who \in GwUsers /\ GwLookupSound(gw_users, gw_hosts, l)
      BY DEF GwTables, GwSound, GwLookup
    <2> QED BY <2>1, <1>1 DEF GwLookupSound
  <1>6. GwSound'
    BY <1>4, <1>5 DEF GwSound
  <1>7. GwCounts(gw_users', gw_clones)
    BY <1>1, GwCountsSame
  <1> QED BY <1>3, <1>6, <1>7 DEF GwKept

LEMMA GwListAnsweredKeeps ==
    ASSUME GwKept, NEW l \in gw_lookups, NEW action \in {"kill", "k", "g", "z", GwNone}, GwListAnswered(l, action)
    PROVE  GwKept'
  <1> USE DEF GwKept
  <1> DEFINE u == l.who
             line == <<action, gw_users[u].ip>>
  <1>1. gw_lookups' \subseteq gw_lookups /\ UNCHANGED <<gw_hosts, gw_command, gw_lists, gw_clones>>
    BY DEF GwListAnswered
  <1>2. u \in GwUsers
    BY DEF GwTables, GwLookup
  <1>3. gw_users = [v \in GwUsers |-> gw_users[v]]
    BY DEF GwTables
  <1>4. CASE UNCHANGED <<gw_users, gw_lines>>
    BY <1>1, <1>3, <1>4, GwDropped
  <1>5. CASE gw_users[u] # GwNobody /\ GwPunished(u, action)
    <2>1. CASE action = "kill"
      <3>1. gw_users' = [gw_users EXCEPT ![u].gone = TRUE] /\ gw_lines' = gw_lines
        BY <1>5, <2>1 DEF GwPunished
      <3>2. gw_users'[u] = [gw_users[u] EXCEPT !.gone = TRUE] /\ \A v \in GwUsers : v # u => gw_users'[v] = gw_users[v]
        BY <3>1, <1>2 DEF GwTables
      <3>3. gw_users' = [v \in GwUsers |-> gw_users'[v]]
        BY <3>1, <1>3
      <3> QED BY <1>1, <1>5, <3>1, <3>2, <3>3, GwDropped
    <2>2. CASE action \in {"g", "z"} /\ line \notin gw_lines
      <3>1. gw_users' = [v \in GwUsers |-> IF GwHere(v) /\ gw_users[v].ip = line[2]
                                       THEN [gw_users[v] EXCEPT !.gone = TRUE] ELSE gw_users[v]]
            /\ gw_lines' = gw_lines \cup {line}
        BY <1>5, <2>2 DEF GwPunished
      <3>2. ASSUME NEW v \in GwUsers
            PROVE  \/ gw_users'[v] = gw_users[v] /\ (gw_users[v] # GwNobody => gw_users[v].ip # gw_users[u].ip)
                   \/ gw_users[v] # GwNobody /\ gw_users'[v] = [gw_users[v] EXCEPT !.gone = TRUE]
        BY <3>1 DEF GwHere
      <3>3. ASSUME NEW v \in GwUsers, NEW type \in {"g", "z"}, gw_users'[v] # GwNobody, ~gw_users'[v].gone,
                   <<type, gw_users'[v].ip>> \in gw_lines'
            PROVE  <<type, gw_users'[v].ip>> \in gw_lines
        <4>1. CASE gw_users'[v] = gw_users[v] /\ (gw_users[v] # GwNobody => gw_users[v].ip # gw_users[u].ip)
          <5>1. gw_users'[v].ip # gw_users[u].ip
            BY <4>1, <3>3
          <5>2. <<type, gw_users'[v].ip>> # line
            BY <5>1
          <5> QED BY <5>2, <3>1, <3>3
        <4>2. CASE gw_users[v] # GwNobody /\ gw_users'[v] = [gw_users[v] EXCEPT !.gone = TRUE]
          <5>1. gw_users[v] \in GwClient
            BY <4>2 DEF GwTables
          <5>2. gw_users'[v].gone = TRUE
            BY <5>1, <4>2 DEF GwClient
          <5> QED BY <5>2, <3>3
        <4> QED BY <3>2, <4>1, <4>2
      <3>4. gw_users' = [v \in GwUsers |-> gw_users'[v]]
        BY <3>1
      <3>5. \A v \in GwUsers : gw_users'[v] = gw_users[v] \/ (gw_users[v] # GwNobody /\ gw_users'[v] = [gw_users[v] EXCEPT !.gone = TRUE])
        BY <3>2
      <3> QED BY <1>1, <3>3, <3>4, <3>5, GwDropped
    <2>3. CASE action # "kill" /\ ~(action \in {"g", "z"} /\ line \notin gw_lines)
      <3>1. gw_users' = gw_users /\ gw_lines' = gw_lines \cup {line}
        BY <1>5, <2>3 DEF GwPunished
      <3>2. \A type \in {"g", "z"} : \A a : <<type, a>> \in gw_lines' => <<type, a>> \in gw_lines
        BY <2>3, <3>1
      <3> QED BY <1>1, <1>3, <3>1, <3>2, GwDropped
    <2> QED BY <2>1, <2>2, <2>3
  <1> QED BY <1>4, <1>5 DEF GwListAnswered, GwHere

LEMMA GwFewerKeeps ==
    ASSUME GwKept, \/ \E l \in gw_lookups : GwLookupFails(l)
                   \/ \E line \in gw_lines : GwExpire(line)
                   \/ \E u \in GwUsers : GwQuit(u)
    PROVE  GwKept'
  <1> USE DEF GwKept
  <1>1. gw_users = [v \in GwUsers |-> gw_users[v]]
    BY DEF GwTables
  <1>2. ASSUME NEW l \in gw_lookups, GwLookupFails(l) PROVE GwKept'
    <2>1. gw_users' = gw_users /\ gw_lines' = gw_lines /\ gw_lookups' \subseteq gw_lookups
          /\ UNCHANGED <<gw_hosts, gw_command, gw_lists, gw_clones>>
      BY <1>2 DEF GwLookupFails
    <2> QED BY <2>1, <1>1, GwDropped
  <1>3. ASSUME NEW line \in gw_lines, GwExpire(line) PROVE GwKept'
    <2>1. gw_users' = gw_users /\ gw_lines' \subseteq gw_lines /\ gw_lookups' = gw_lookups
          /\ UNCHANGED <<gw_hosts, gw_command, gw_lists, gw_clones>>
      BY <1>3 DEF GwExpire
    <2>2. \A type \in {"g", "z"} : \A a : <<type, a>> \in gw_lines' => <<type, a>> \in gw_lines
      BY <2>1
    <2> QED BY <2>1, <2>2, <1>1, GwDropped
  <1>4. ASSUME NEW u \in GwUsers, GwQuit(u) PROVE GwKept'
    <2>1. gw_users[u] # GwNobody /\ gw_users' = [gw_users EXCEPT ![u].gone = TRUE] /\ gw_lines' = gw_lines
          /\ gw_lookups' = gw_lookups /\ UNCHANGED <<gw_hosts, gw_command, gw_lists, gw_clones>>
      BY <1>4 DEF GwQuit, GwHere
    <2>2. gw_users'[u] = [gw_users[u] EXCEPT !.gone = TRUE] /\ \A v \in GwUsers : v # u => gw_users'[v] = gw_users[v]
      BY <2>1 DEF GwTables
    <2>3. gw_users' = [v \in GwUsers |-> gw_users'[v]]
      BY <2>1, <1>1
    <2> QED BY <2>1, <2>2, <2>3, GwDropped
  <1> QED BY <1>2, <1>3, <1>4

\* m_cgiirc's table only grows: who was vouched for stays so.
LEMMA GwRehashKeeps ==
    ASSUME GwKept, NEW conf \in GwConfs, NEW lists \in SUBSET GwLists, GwRehash(conf, lists)
    PROVE  GwKept'
  <1> USE DEF GwKept
  <1> DEFINE types == GwTypes \cup {GwNone}
  <1>1. gw_hosts' = [a \in GwAddresses |-> IF gw_hosts[a] = GwNone THEN conf[a] ELSE gw_hosts[a]]
        /\ gw_lists' = lists /\ UNCHANGED <<gw_users, gw_command, gw_lines, gw_clones>>
    BY DEF GwRehash
  <1>2. conf \in [GwAddresses -> types]
    BY GatewayOK DEF GwTypes
  <1> HIDE DEF types
  <1>3. gw_hosts' \in [GwAddresses -> types]
    BY <1>1, <1>2 DEF GwTables, types
  <1>4. \A a \in GwAddresses : gw_hosts[a] # GwNone => gw_hosts'[a] # GwNone
    BY <1>1
  <1>5. gw_lookups' = {[l EXCEPT !.freed = l.kind # "name"] : l \in gw_lookups}
    BY DEF GwRehash
  <1>6. ASSUME NEW m \in gw_lookups'
        PROVE  m \in GwLookup /\ \E l \in gw_lookups : m.kind = l.kind /\ m.who = l.who /\ m.late = l.late
    <2>1. PICK l \in gw_lookups : m = [l EXCEPT !.freed = l.kind # "name"]
      BY <1>5
    <2>2. l \in GwLookup
      BY DEF GwTables
    <2> DEFINE freed == l.kind # "name"
    <2>3. freed \in BOOLEAN /\ m = [l EXCEPT !.freed = freed]
      BY <2>1
    <2> HIDE DEF freed
    <2>4. m \in GwLookup /\ m.kind = l.kind /\ m.who = l.who /\ m.late = l.late
      BY <2>2, <2>3 DEF GwLookup
    <2> QED BY <2>4
  <1>7. GwTables'
    <2>1. gw_lookups' \subseteq GwLookup
      BY <1>6
    <2>2. \A a \in GwAddresses : gw_command[a] # GwNone => gw_hosts'[a] # GwNone
      BY <1>4 DEF GwTables
    <2> QED BY <1>1, <1>3, <2>1, <2>2 DEF GwTables, types
  <1>8. ASSUME NEW u \in GwUsers, gw_users[u] # GwNobody
        PROVE  GwVouched(gw_hosts, gw_users[u]) => GwVouched(gw_hosts', gw_users[u])
    <2>1. gw_users[u] \in GwClient
      BY <1>8 DEF GwTables
    <2>2. gw_users[u].from \in GwAddresses
      BY <2>1 DEF GwClient
    <2> QED BY <2>2, <1>4 DEF GwVouched
  <1>9. \A u \in GwUsers : gw_users'[u] # GwNobody => GwClientSound(gw_hosts', gw_lines', gw_users'[u])
    <2> TAKE u \in GwUsers
    <2> HAVE gw_users'[u] # GwNobody
    <2>1. gw_users'[u] = gw_users[u] /\ gw_lines' = gw_lines
      BY <1>1
    <2>2. GwClientSound(gw_hosts, gw_lines, gw_users[u])
      BY <2>1 DEF GwSound
    <2> QED BY <2>1, <2>2, <1>8 DEF GwClientSound
  <1>10. \A m \in gw_lookups' : GwLookupSound(gw_users', gw_hosts', m)
    <2> TAKE m \in gw_lookups'
    <2>1. PICK l \in gw_lookups : m.kind = l.kind /\ m.who = l.who /\ m.late = l.late
      BY <1>6
    <2>2. GwLookupSound(gw_users, gw_hosts, l) /\ l.who \in GwUsers
      BY DEF GwSound, GwTables, GwLookup
    <2> QED BY <2>1, <2>2, <1>1, <1>8 DEF GwLookupSound
  <1>11. GwSound'
    BY <1>9, <1>10 DEF GwSound
  <1>12. GwCounts(gw_users', gw_clones')
    BY <1>1
  <1> QED BY <1>7, <1>11, <1>12

LEMMA GwApplyKeeps ==
    ASSUME GwKept, NEW u \in GwUsers, GwApply(u)
    PROVE  GwKept'
  <1> USE DEF GwKept
  <1> DEFINE a == gw_users[u].ip
  <1>1. gw_users[u] # GwNobody /\ gw_users' = [gw_users EXCEPT ![u] = GwNobody]
        /\ gw_clones' = [gw_clones EXCEPT ![a] = IF @ = 0 THEN 0 ELSE @ - 1]
        /\ UNCHANGED <<gw_hosts, gw_command, gw_lists, gw_lines>>
    BY DEF GwApply, GwHere
  <1>2. gw_lookups' = {[l EXCEPT !.late = @ \/ l.who = u] : l \in gw_lookups}
    BY DEF GwApply
  <1>3. a \in GwAddresses
    <2>1. gw_users[u] \in GwClient
      BY <1>1 DEF GwTables
    <2> QED BY <2>1 DEF GwClient
  <1>4. gw_users' \in [GwUsers -> GwClient \cup {GwNobody}] /\ gw_users'[u] = GwNobody
        /\ \A v \in GwUsers : v # u => gw_users'[v] = gw_users[v]
    BY <1>1 DEF GwTables
  <1>5. ASSUME NEW m \in gw_lookups'
        PROVE  m \in GwLookup /\ \E l \in gw_lookups : m.kind = l.kind /\ m.who = l.who /\ m.late = (l.late \/ l.who = u)
    <2>1. PICK l \in gw_lookups : m = [l EXCEPT !.late = @ \/ l.who = u]
      BY <1>2
    <2>2. l \in GwLookup
      BY DEF GwTables
    <2> DEFINE late == l.late \/ l.who = u
    <2>3. late \in BOOLEAN /\ m = [l EXCEPT !.late = late]
      BY <2>1
    <2> HIDE DEF late
    <2>4. m \in GwLookup /\ m.kind = l.kind /\ m.who = l.who /\ m.late = late
      BY <2>2, <2>3 DEF GwLookup
    <2> QED BY <2>4 DEF late
  <1>6. GwTables'
    <2>1. gw_lookups' \subseteq GwLookup
      BY <1>5
    <2> QED BY <1>1, <1>4, <2>1 DEF GwTables
  <1>7. \A v \in GwUsers : gw_users'[v] # GwNobody => GwClientSound(gw_hosts', gw_lines', gw_users'[v])
    <2>1. gw_hosts' = gw_hosts /\ gw_lines' = gw_lines
      BY <1>1
    <2> QED BY <2>1, <1>4 DEF GwSound
  <1>8. \A m \in gw_lookups' : GwLookupSound(gw_users', gw_hosts', m)
    <2> TAKE m \in gw_lookups'
    <2>1. PICK l \in gw_lookups : m.kind = l.kind /\ m.who = l.who /\ m.late = (l.late \/ l.who = u)
      BY <1>5
    <2>2. GwLookupSound(gw_users, gw_hosts, l) /\ l.who \in GwUsers
      BY DEF GwSound, GwTables, GwLookup
    <2>3. gw_hosts' = gw_hosts
      BY <1>1
    <2> QED BY <2>1, <2>2, <2>3, <1>4 DEF GwLookupSound
  <1>9. GwSound'
    BY <1>7, <1>8 DEF GwSound
  <1>10. gw_clones[a] > 0 /\ GwCounts(gw_users', [gw_clones EXCEPT ![a] = @ - 1])
    <2>1. GwCounts(gw_users, gw_clones) /\ gw_users[u] # GwNobody /\ a = gw_users[u].ip
      BY <1>1
    <2> HIDE DEF a
    <2> QED BY <2>1, <1>3, <1>4, GwCountsLess
  <1>11. gw_clones' = [gw_clones EXCEPT ![a] = @ - 1]
    <2> DEFINE left == IF gw_clones[a] = 0 THEN 0 ELSE gw_clones[a] - 1
    <2>1. gw_clones[a] \in Nat
      BY <1>3 DEF GwCounts
    <2>2. left = gw_clones[a] - 1
      BY <2>1, <1>10
    <2>3. gw_clones' = [gw_clones EXCEPT ![a] = left]
      BY <1>1
    <2> QED BY <2>2, <2>3
  <1> QED BY <1>6, <1>9, <1>10, <1>11

LEMMA GatewayStep == ASSUME GwKept, GatewayNext PROVE GwKept'
  <1>1. ASSUME NEW u \in GwUsers, NEW a \in GwAddresses, NEW sent \in GwSent, GwConnect(u, a, sent) PROVE GwKept'
    BY <1>1, GwConnectKeeps
  <1>2. ASSUME NEW u \in GwUsers, NEW to \in GwAddresses, GwWebirc(u, to) PROVE GwKept'
    BY <1>2, GwWebircKeeps
  <1>3. ASSUME NEW u \in GwUsers, GwRegister(u) PROVE GwKept'
    BY <1>3, GwRegisterKeeps
  <1>4. ASSUME NEW u \in GwUsers, GwFullConnect(u) PROVE GwKept'
    BY <1>4, GwFullConnectKeeps
  <1>5. ASSUME NEW u \in GwUsers, GwQuit(u) PROVE GwKept'
    BY <1>5, GwFewerKeeps
  <1>6. ASSUME NEW u \in GwUsers, GwApply(u) PROVE GwKept'
    BY <1>6, GwApplyKeeps
  <1>7. ASSUME NEW l \in gw_lookups, GwNameFound(l) PROVE GwKept'
    BY <1>7, GwNameFoundKeeps
  <1>8. ASSUME NEW l \in gw_lookups, GwLookupFails(l) PROVE GwKept'
    BY <1>8, GwFewerKeeps
  <1>9. ASSUME NEW l \in gw_lookups, NEW action \in {"kill", "k", "g", "z", GwNone}, GwListAnswered(l, action) PROVE GwKept'
    BY <1>9, GwListAnsweredKeeps
  <1>10. ASSUME NEW conf \in GwConfs, NEW lists \in SUBSET GwLists, GwRehash(conf, lists) PROVE GwKept'
    BY <1>10, GwRehashKeeps
  <1>11. ASSUME NEW line \in gw_lines, GwExpire(line) PROVE GwKept'
    BY <1>11, GwFewerKeeps
  <1> QED BY <1>1, <1>2, <1>3, <1>4, <1>5, <1>6, <1>7, <1>8, <1>9, <1>10, <1>11 DEF GatewayNext

LEMMA GatewayStarts == GatewayInit => GwKept
  <1> SUFFICES ASSUME GatewayInit PROVE GwKept
    OBVIOUS
  <1> DEFINE types == GwTypes \cup {GwNone}
  <1>1. gw_hosts \in GwConfs /\ gw_command = gw_hosts /\ gw_users = [u \in GwUsers |-> GwNobody]
        /\ gw_lists = GwLists /\ gw_lookups = {} /\ gw_clones = [a \in GwAddresses |-> 0]
    BY DEF GatewayInit
  <1>2. gw_hosts \in [GwAddresses -> types]
    BY <1>1, GatewayOK DEF GwTypes
  <1> HIDE DEF types
  <1>3. GwTables
    BY <1>1, <1>2 DEF GwTables, types
  <1>4. GwSound
    BY <1>1 DEF GwSound
  <1>5. GwCounts(gw_users, gw_clones)
    <2>1. \A a : GwOf(gw_users, a) = {}
      BY <1>1 DEF GwOf
    <2>2. \A a \in GwAddresses : gw_clones[a] = Cardinality(GwOf(gw_users, a))
      BY <1>1, <2>1, FS_EmptySet
    <2>3. gw_clones \in [GwAddresses -> Nat]
      BY <1>1
    <2> QED BY <2>2, <2>3 DEF GwCounts
  <1> QED BY <1>3, <1>4, <1>5 DEF GwKept

\* A ban by m_dnsbl is for an address on a list, or the answer was about another address.
LEMMA GwBansListed ==
    ASSUME GwTables, [GatewayNext]_gw_vars, NEW line \in gw_lines' \ gw_lines
    PROVE  \/ \E list \in GwLists : line[2] \in GwListed[list]
           \/ \E l \in gw_lookups \ gw_lookups' : l.of # line[2]
  <1>1. PICK l \in gw_lookups, action \in {"kill", "k", "g", "z", GwNone} : GwListAnswered(l, action)
    BY DEF GatewayNext, gw_vars, GwConnect, GwWebirc, GwRegister, GwFullConnect, GwQuit, GwApply, GwNameFound,
           GwLookupFails, GwRehash, GwExpire
  <1>2. l.kind # "name" /\ gw_lookups' = gw_lookups \ {l} /\ action \in GwActions(l)
    BY <1>1 DEF GwListAnswered
  <1>3. action # GwNone /\ GwPunished(l.who, action)
    BY <1>1 DEF GwListAnswered
  <1>4. line = <<action, gw_users[l.who].ip>>
    BY <1>3 DEF GwPunished
  <1>5. l.kind \in GwLists
    BY <1>2 DEF GwTables, GwLookup
  <1>6. l.of \in GwListed[l.kind]
    BY <1>2, <1>3 DEF GwActions
  <1>7. CASE l.of = line[2]
    BY <1>5, <1>6, <1>7
  <1>8. CASE l.of # line[2]
    BY <1>2, <1>8
  <1> QED BY <1>7, <1>8

\* A client who comes through a gateway is counted, banned and looked up under the address he has, and only gateways
\* that were named can give him one: however many clients, addresses, gateways and lists there are.
THEOREM AddressesAlwaysRight == GatewaySpec => GwRightAddress
  <1>1. GwKept /\ UNCHANGED gw_vars => GwKept'
    BY DEF GwKept, GwTables, GwSound, GwClientSound, GwVouched, GwLookupSound, GwCounts, GwOf, gw_vars
  <1>2. GwKept /\ [GatewayNext]_gw_vars => GwKept'
    BY <1>1, GatewayStep
  <1>3. GwKept => GwClonesCounted
    BY DEF GwKept, GwCounts, GwOf, GwClonesCounted, GwHere
  <1>4. GwKept => GwTrusted
    BY DEF GwKept, GwSound, GwClientSound, GwVouched, GwTrusted, GwHere
  <1>5. GwKept => GwBannedStaysOut
    BY DEF GwKept, GwSound, GwClientSound, GwBannedStaysOut, GwHere
  <1>6. ASSUME GwKept, [GatewayNext]_gw_vars
        PROVE  \A line \in gw_lines' \ gw_lines :
                   \/ \E list \in GwLists : line[2] \in GwListed[list]
                   \/ \E l \in gw_lookups \ gw_lookups' : l.of # line[2]
    BY <1>6, GwBansListed DEF GwKept
  <1> QED BY <1>2, <1>3, <1>4, <1>5, <1>6, GatewayStarts, PTL DEF GatewaySpec, GwRightAddress, GwListedOnly
=============================================================================

------------------------------ MODULE Sockets ------------------------------
(***************************************************************************)
(* Descriptors and their handlers (SocketEngine with epoll, InspSocket,    *)
(* ListenSocket, m_ident).  The engine's table ref maps a number to its    *)
(* handler; the operating system hands out the lowest free number again as *)
(* soon as it is closed, while the handler that closed it still has that   *)
(* number, and is deleted only at the end of the iteration.  An ident      *)
(* lookup is a socket that also points to the client it is about.          *)
(***************************************************************************)
EXTENDS Naturals, FiniteSets

CONSTANTS
    SoUsers,        \* addresses of client records
    SoLinks,        \* addresses of server connections
    SoIdents,       \* addresses of ident lookups
    SoMaxFd,        \* the descriptors the process may have
    SoOverlap,      \* a client may repeat NICK or USER while an earlier lookup about him is under way
    SoNone

SoSockets == SoLinks \cup SoIdents
SoFds == 1 .. SoMaxFd
SoHandlers == SoUsers \cup SoSockets

ASSUME SocketsOK ==
    /\ SoMaxFd \in Nat /\ SoOverlap \in BOOLEAN /\ SoNone \notin SoHandlers
    /\ SoUsers \cap SoSockets = {} /\ SoLinks \cap SoIdents = {}

VARIABLES
    so_phase,       \* where in DoOneIteration the server is
    so_os,          \* whose descriptor each number really is
    so_watched,     \* the numbers in the epoll set
    so_ref,         \* SocketEngine::ref
    so_state,       \* handler -> "free", "connecting", "connected" or "error"
    so_fd,          \* handler -> its fd, 0 for none
    so_timers,      \* the sockets with a SocketTimeout
    so_quits,       \* GlobalCulls
    so_culls,       \* SocketCull
    so_ident,       \* client -> its ident_data
    so_about,       \* ident lookup -> [u, ufd, gen]: u, ufd and which client u was
    so_gen          \* client address -> alternates with the clients a lookup could mix up

SoNobody == [u |-> SoNone, ufd |-> 0, gen |-> 0]

so_tables == <<so_os, so_watched, so_ref>>
so_vars == <<so_phase, so_tables, so_state, so_fd, so_timers, so_quits, so_culls, so_ident, so_about,
             so_gen>>

SocketsTypeOK ==
    /\ so_phase \in {"timers", "events", "users", "sockets"}
    /\ so_os \in [SoFds -> SoHandlers \cup {SoNone}]
    /\ so_watched \subseteq SoFds
    /\ so_ref \in [SoFds -> SoHandlers \cup {SoNone}]
    /\ so_state \in [SoHandlers -> {"free", "connecting", "connected", "error"}]
    /\ so_fd \in [SoHandlers -> 0 .. SoMaxFd]
    /\ so_timers \subseteq SoSockets /\ so_quits \subseteq SoUsers /\ so_culls \subseteq SoSockets
    /\ so_ident \in [SoUsers -> SoIdents \cup {SoNone}]
    /\ so_about \in [SoIdents -> [u : SoUsers \cup {SoNone}, ufd : 0 .. SoMaxFd, gen : {0, 1}]]
    /\ so_gen \in [SoUsers -> {0, 1}]

SocketsInit ==
    /\ so_phase = "events"
    /\ so_os = [f \in SoFds |-> SoNone] /\ so_watched = {}
    /\ so_ref = [f \in SoFds |-> SoNone]
    /\ so_state = [h \in SoHandlers |-> "free"] /\ so_fd = [h \in SoHandlers |-> 0]
    /\ so_timers = {} /\ so_quits = {} /\ so_culls = {}
    /\ so_ident = [u \in SoUsers |-> SoNone]
    /\ so_about = [i \in SoIdents |-> SoNobody]
    /\ so_gen = [u \in SoUsers |-> 0]

-----------------------------------------------------------------------------
(* The engine, on a record t of the three tables *)

SoTables == [os |-> so_os, watched |-> so_watched, ref |-> so_ref]
SoSetTables(t) == so_os' = t.os /\ so_watched' = t.watched /\ so_ref' = t.ref

\* The number the next socket() or accept() returns.
SoFree == {f \in SoFds : so_os[f] = SoNone}
SoNextFd == CHOOSE f \in SoFree : \A g \in SoFree : f <= g

\* EPollEngine::AddFd; a number with a handler is refused.
SoAddFd(t, h, f) ==
    IF t.ref[f] # SoNone THEN t
    ELSE [t EXCEPT !.ref = [@ EXCEPT ![f] = h], !.watched = @ \cup {f}]

\* EPollEngine::DelFd: whoever the handler of the number is; fails when it is not watched.
SoDelFd(t, f) ==
    IF f \notin t.watched THEN t
    ELSE [t EXCEPT !.ref = [@ EXCEPT ![f] = SoNone], !.watched = @ \ {f}]

\* close(): the number is free, and out of the epoll set.
SoOsClose(t, f) ==
    IF f = 0 THEN t ELSE [t EXCEPT !.os = [@ EXCEPT ![f] = SoNone], !.watched = @ \ {f}]

SoIsRef(h) == so_fd[h] # 0 /\ so_ref[so_fd[h]] = h

\* DispatchEvents reaches a handler through ref, for a watched number.
SoDispatched(h) == so_phase = "events" /\ SoIsRef(h) /\ so_fd[h] \in so_watched

-----------------------------------------------------------------------------
(* Ident lookups *)

\* The check every callback of RFC1413 makes before it touches its client.
SoAboutHolds(i, ref) ==
    LET a == so_about[i] IN a.u # SoNone /\ a.ufd # 0 /\ ref[a.ufd] = a.u

\* OnClose, OnError and OnTimeout: the client no longer waits.
SoLetGo(s, ref) ==
    IF s \in SoIdents /\ SoAboutHolds(s, ref)
    THEN [so_ident EXCEPT ![so_about[s].u] = SoNone] ELSE so_ident

SoFreed(s) == [i \in SoIdents |-> IF i = s THEN SoNobody ELSE so_about[i]]

-----------------------------------------------------------------------------
(* Events *)

\* ListenSocket::HandleEvent and AddClient; a client the engine refuses is quit.
SoAccept(u) ==
    /\ so_phase = "events" /\ so_state[u] = "free" /\ SoFree # {}
    /\ LET f == SoNextFd
           t == SoAddFd([SoTables EXCEPT !.os = [@ EXCEPT ![f] = u]], u, f) IN
       /\ SoSetTables(t)
       /\ so_fd' = [so_fd EXCEPT ![u] = f]
       /\ so_quits' = IF t.ref[f] = u THEN so_quits ELSE so_quits \cup {u}
    /\ so_state' = [so_state EXCEPT ![u] = "connected"]
    /\ so_gen' = [so_gen EXCEPT ![u] = IF \E i \in SoIdents : so_about[i].u = u THEN 1 - @ ELSE 0]
    /\ UNCHANGED <<so_phase, so_timers, so_culls, so_ident, so_about>>

\* TreeSocket for an accepted descriptor; what AddFd returns is not looked at.
SoAcceptLink(l) ==
    /\ so_phase = "events" /\ so_state[l] = "free" /\ SoFree # {}
    /\ LET f == SoNextFd IN
       /\ SoSetTables(SoAddFd([SoTables EXCEPT !.os = [@ EXCEPT ![f] = l]], l, f))
       /\ so_fd' = [so_fd EXCEPT ![l] = f]
    /\ so_state' = [so_state EXCEPT ![l] = "connected"]
    /\ UNCHANGED <<so_phase, so_timers, so_quits, so_culls, so_ident, so_about, so_gen>>

\* ModuleIdent::OnUserRegister, at each NICK or USER of a client who waits: DoConnect with a timeout. Extend does
\* nothing when the client has an ident_data.
SoLookup(u, i) ==
    /\ SoDispatched(u) /\ u \notin so_quits
    /\ SoOverlap \/ (so_ident[u] = SoNone /\ \A j \in SoIdents : so_about[j].u # u)
    /\ so_state[i] = "free" /\ SoFree # {}
    /\ LET f == SoNextFd
           t == SoAddFd([SoTables EXCEPT !.os = [@ EXCEPT ![f] = i]], i, f) IN
       /\ t.ref[f] = i
       /\ SoSetTables(t)
       /\ so_fd' = [so_fd EXCEPT ![i] = f]
    /\ so_state' = [so_state EXCEPT ![i] = "connecting"]
    /\ so_timers' = so_timers \cup {i}
    /\ so_ident' = [so_ident EXCEPT ![u] = IF @ = SoNone THEN i ELSE @]
    /\ so_about' = [so_about EXCEPT ![i] = [u |-> u, ufd |-> so_fd[u], gen |-> so_gen[u]]]
    /\ UNCHANGED <<so_phase, so_quits, so_culls, so_gen>>

\* InspSocket::Poll in I_CONNECTING: out of the engine and in again, to read.
SoConnected(i) ==
    /\ SoDispatched(i) /\ so_state[i] = "connecting" /\ i \notin so_culls
    /\ SoSetTables(SoAddFd(SoDelFd(SoTables, so_fd[i]), i, so_fd[i]))
    /\ so_state' = [so_state EXCEPT ![i] = "connected"]
    /\ UNCHANGED <<so_phase, so_fd, so_timers, so_quits, so_culls, so_ident, so_about, so_gen>>

\* RFC1413::OnDataReady, a read that fails, and EVENT_ERROR: the socket is culled.
SoReadEnds(s) ==
    /\ SoDispatched(s) /\ s \in SoSockets
    /\ so_culls' = so_culls \cup {s}
    /\ so_ident' \in {so_ident, SoLetGo(s, so_ref)}
    /\ UNCHANGED <<so_phase, so_tables, so_state, so_fd, so_timers, so_quits, so_about, so_gen>>

\* FlushWriteBuffer fails, in whatever handler wrote: DelFd and Close at once.
SoWriteError(s) ==
    /\ so_phase = "events" /\ so_state[s] = "connected"
    /\ so_state' = [so_state EXCEPT ![s] = "error"]
    /\ LET t == SoDelFd(SoTables, so_fd[s]) IN
       /\ so_ident' = SoLetGo(s, so_ref)
       /\ SoSetTables(SoOsClose(t, so_fd[s]))
    /\ so_culls' = so_culls \cup {s}
    /\ UNCHANGED <<so_phase, so_fd, so_timers, so_quits, so_about, so_gen>>

\* A client's own event raises his write error, or a handler or a check quits him.
SoQuit(u) ==
    /\ so_phase \in {"timers", "events"} /\ so_state[u] = "connected" /\ u \notin so_quits
    /\ so_quits' = so_quits \cup {u}
    /\ UNCHANGED <<so_phase, so_tables, so_state, so_fd, so_timers, so_culls, so_ident, so_about, so_gen>>

\* SocketTimeout::Tick.
SoTick(s) ==
    /\ so_phase = "timers" /\ s \in so_timers
    /\ so_timers' = so_timers \ {s}
    /\ IF SoIsRef(s) /\ so_state[s] = "connecting"
       THEN /\ so_ident' = SoLetGo(s, so_ref)
            /\ so_state' = [so_state EXCEPT ![s] = "error"]
            /\ so_culls' = so_culls \cup {s}
       ELSE UNCHANGED <<so_ident, so_state, so_culls>>
    /\ UNCHANGED <<so_phase, so_tables, so_fd, so_quits, so_about, so_gen>>

-----------------------------------------------------------------------------
(* The end of the iteration *)

\* ModuleIdent::OnUserDisconnect and OnCleanup: the lookup forgets the client and is
\* taken out of the engine; it is neither closed nor deleted.
SoForget_nothing(u, t) == [tables |-> t, about |-> so_about]  \* mutant: no hook at all
SoForget(u, t) ==
    LET i == so_ident[u] IN
    IF i = SoNone THEN [tables |-> t, about |-> so_about]
    ELSE [tables |-> SoDelFd(t, so_fd[i]), about |-> [so_about EXCEPT ![i].u = SoNone]]

\* CullList::Apply for one client.
SoApply(u) ==
    /\ so_phase = "users" /\ u \in so_quits
    /\ LET forgot == SoForget(u, SoTables) IN
       /\ so_about' = forgot.about
       /\ SoSetTables(SoOsClose(SoDelFd(forgot.tables, so_fd[u]), so_fd[u]))
    /\ so_state' = [so_state EXCEPT ![u] = "free"]
    /\ so_fd' = [so_fd EXCEPT ![u] = 0]
    /\ so_ident' = [so_ident EXCEPT ![u] = SoNone]
    /\ so_quits' = so_quits \ {u}
    /\ so_gen' = [so_gen EXCEPT ![u] = IF \E i \in SoIdents : so_about'[i].u = u THEN @ ELSE 0]
    /\ UNCHANGED <<so_phase, so_timers, so_culls>>

\* InspSocketCull for one socket: DelFd and Close, whoever has the number by now.
SoCull(s) ==
    /\ so_phase = "sockets" /\ s \in so_culls
    /\ LET t == SoDelFd(SoTables, so_fd[s]) IN
       /\ so_ident' = SoLetGo(s, t.ref)
       /\ SoSetTables(SoOsClose(t, so_fd[s]))
    /\ so_state' = [so_state EXCEPT ![s] = "free"]
    /\ so_fd' = [so_fd EXCEPT ![s] = 0]
    /\ so_timers' = so_timers \ {s} /\ so_culls' = so_culls \ {s}
    /\ so_about' = SoFreed(s)
    /\ UNCHANGED <<so_phase, so_quits, so_gen>>

\* DoOneIteration: timers, events, quits, sockets.
SoNextPhase ==
    /\ so_phase = "users" => so_quits = {}
    /\ so_phase = "sockets" => so_culls = {}
    /\ so_phase' = CASE so_phase = "timers" -> "events" [] so_phase = "events" -> "users"
                     [] so_phase = "users" -> "sockets" [] OTHER -> "timers"
    /\ UNCHANGED <<so_tables, so_state, so_fd, so_timers, so_quits, so_culls, so_ident, so_about, so_gen>>

SocketsNext ==
    \/ \E u \in SoUsers : SoAccept(u) \/ SoQuit(u) \/ SoApply(u) \/ \E i \in SoIdents : SoLookup(u, i)
    \/ \E l \in SoLinks : SoAcceptLink(l)
    \/ \E s \in SoSockets : SoReadEnds(s) \/ SoWriteError(s) \/ SoTick(s) \/ SoCull(s)
    \/ \E i \in SoIdents : SoConnected(i)
    \/ SoNextPhase

SocketsSpec == SocketsInit /\ [][SocketsNext]_so_vars

-----------------------------------------------------------------------------
(* Properties *)

\* The engine never calls a handler that was deleted, nor one through the number of
\* another: every entry of ref (socketengine.h:186) is a live handler with that number.
SoRefsLive ==
    \A f \in SoFds : so_ref[f] # SoNone =>
        so_state[so_ref[f]] # "free" /\ so_fd[so_ref[f]] = f

\* An ident lookup that passes its check (m_ident.cpp:103) touches the client it was
\* started for, not a later one at the same address with the same descriptor.
SoAboutOwnClient ==
    \A i \in SoIdents :
        so_state[i] # "free" /\ SoAboutHolds(i, so_ref) => so_gen[so_about[i].u] = so_about[i].gen

\* A descriptor the engine knows leads to the one live object that has it, and an answer that comes by it is about
\* its own client.
SoDescriptorsLive == SoRefsLive /\ SoAboutOwnClient
=============================================================================

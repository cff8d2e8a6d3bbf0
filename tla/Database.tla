------------------------------ MODULE Database ------------------------------
(***************************************************************************)
(* Asynchronous SQL queries: the providers m_pgsql (a state machine on the *)
(* socket engine), m_mysql (a dispatcher thread) and m_sqlite3 (answers    *)
(* delayed by a loopback connection), the QueryQueue of m_sqlv2.h, the     *)
(* association of queries with users of m_sqlutils, and m_sqlauth, which   *)
(* asks whether a connecting client may register, and asks again at each   *)
(* further NICK until he has. Its allowpattern is left empty.              *)
(***************************************************************************)
EXTENDS Naturals, Sequences, FiniteSets, SequencesExt

CONSTANTS
    DbUsers,        \* userrec records: a record serves one client after another
    DbNobody,
    DbProviders,    \* providers to choose from: "pgsql", "mysql", "sqlite"
    DbQueries,      \* queries ever sent
    DbLosses        \* times the database goes away

ASSUME DatabaseOK ==
    /\ DbNobody \notin DbUsers /\ DbProviders \subseteq {"pgsql", "mysql", "sqlite"}
    /\ DbQueries \in Nat /\ DbLosses \in Nat

VARIABLES
    db_provider,
    db_link,        \* of m_pgsql: "connecting", "up", "stuck" or "gone"; of m_mysql: "up" or "gone"
    db_pri, db_nor, \* the two queues
    db_which,       \* the queue whose front is being executed
    db_run,         \* the query being executed, 0 when there is none
    db_pc,          \* where the dispatcher thread of m_mysql is
    db_results,     \* <<query, found a row>> waiting to be sent
    db_bytes,       \* bytes, or connections of m_sqlite3, waiting for the main thread
    db_id,          \* currid
    db_iduser,      \* m_sqlutils: the user of each query
    db_list,        \* m_sqlutils: the queries attached to each user
    db_state,       \* of each record: "free", "waiting", "authed", "registered" or "quitting"
    db_mine,        \* the queries sent for its client
    db_rows,        \* queries answered with a row
    db_lost,        \* queries that will never be answered
    db_losses       \* times the database went away

db_vars == <<db_provider, db_link, db_pri, db_nor, db_which, db_run, db_pc, db_results, db_bytes,
             db_id, db_iduser, db_list, db_state, db_mine, db_rows, db_lost, db_losses>>
db_queue == <<db_pri, db_nor, db_which>>
db_assoc == <<db_iduser, db_list, db_state, db_mine, db_rows>>

DbIds == 1 .. DbQueries

DatabaseTypeOK ==
    /\ db_provider \in DbProviders /\ db_link \in {"connecting", "up", "stuck", "gone"}
    /\ db_which \in {"pri", "nor", "non"} /\ db_pc \in {"look", "take", "query", "notify", "pop"}
    /\ db_run \in 0 .. DbQueries /\ db_id \in 0 .. DbQueries
    /\ db_iduser \in [DbIds -> DbUsers \cup {DbNobody}]
    /\ db_list \in [DbUsers -> SUBSET DbIds]
    /\ db_state \in [DbUsers -> {"free", "waiting", "authed", "registered", "quitting"}]
    /\ db_mine \in [DbUsers -> SUBSET DbIds]

DatabaseInit ==
    /\ db_provider \in DbProviders
    /\ db_link = (IF db_provider = "pgsql" THEN "connecting" ELSE "up")
    /\ db_pri = <<>> /\ db_nor = <<>> /\ db_which = "non" /\ db_run = 0 /\ db_pc = "look"
    /\ db_results = <<>> /\ db_bytes = 0 /\ db_id = 0
    /\ db_iduser = [i \in DbIds |-> DbNobody] /\ db_list = [u \in DbUsers |-> {}]
    /\ db_state = [u \in DbUsers |-> "free"] /\ db_mine = [u \in DbUsers |-> {}]
    /\ db_rows = {} /\ db_lost = {} /\ db_losses = 0

-----------------------------------------------------------------------------
(* QueryQueue: the front stays the same query until pop, whatever is pushed meanwhile. *)

DbEmpty(q) == q.pri = <<>> /\ q.nor = <<>>
DbQueue == [pri |-> db_pri, nor |-> db_nor, which |-> db_which]
DbPush(q, i, pri) == IF pri THEN [q EXCEPT !.pri = Append(@, i)] ELSE [q EXCEPT !.nor = Append(@, i)]
DbWhich(q) == IF q.which # "non" THEN q.which ELSE IF q.pri # <<>> THEN "pri" ELSE "nor"
DbFront(q) == IF DbWhich(q) = "pri" THEN Head(q.pri) ELSE Head(q.nor)
DbMarked(q) == [q EXCEPT !.which = DbWhich(q)]
DbPopped(q) ==
    [pri |-> IF q.which = "pri" THEN Tail(q.pri) ELSE q.pri,
     nor |-> IF q.which = "nor" THEN Tail(q.nor) ELSE q.nor, which |-> "non"]
DbSetQueue(q) == db_pri' = q.pri /\ db_nor' = q.nor /\ db_which' = q.which

\* SQLConn::DoConnectedPoll, DoQuery: the front is given to the server, which may refuse it.
DbDispatched(q) ==
    IF DbEmpty(q) THEN {[queue |-> q, run |-> 0]}
    ELSE {[queue |-> DbMarked(q), run |-> r] : r \in {0, DbFront(q)}}

(* m_sqlutils and m_sqlauth *)

\* AssociateUser: map::insert keeps the entry the query number has already.
DbAssociate(iduser, i, u) == IF iduser[i] = DbNobody THEN [iduser EXCEPT ![i] = u] ELSE iduser

DbClients == [list |-> db_list, state |-> db_state, rows |-> db_rows]

\* ModuleSQLAuth::OnRequest: GetAssocUser, then UnAssociate, which takes the query off the
\* user's list and leaves the map as it is. A row authenticates the client; without one he is
\* quit, unless the row of another query, for a nickname he had before, has done so.
DbReply(s, i, row) ==
    LET u == db_iduser[i]
        told == [s.state EXCEPT ![u] = IF @ \in {"free", "waiting"} THEN (IF row THEN "authed" ELSE "quitting")
                                       ELSE @]
        rows == IF row THEN s.rows \cup {i} ELSE s.rows
    IN IF u = DbNobody THEN [s EXCEPT !.rows = rows]
       ELSE [list |-> [s.list EXCEPT ![u] = @ \ {i}], state |-> told, rows |-> rows]
DbSetClients(s) == db_list' = s.list /\ db_state' = s.state /\ db_rows' = s.rows

-----------------------------------------------------------------------------
(* Actions *)

\* ModuleSQLAuth::OnUserRegister, once Send() has said whether the query was accepted.
DbAsked(u, i, accepted) ==
    /\ db_mine' = IF accepted THEN [db_mine EXCEPT ![u] = @ \cup {i}] ELSE db_mine
    /\ db_state' = [db_state EXCEPT ![u] = IF ~accepted THEN "quitting"
                                           ELSE IF @ = "free" THEN "waiting" ELSE @]
    /\ db_iduser' = IF accepted THEN DbAssociate(db_iduser, i, u) ELSE db_iduser
    /\ db_list' = IF accepted THEN [db_list EXCEPT ![u] = @ \cup {i}] ELSE db_list
    /\ UNCHANGED db_rows

\* OnUserRegister is called by NICK and USER, when the second of them comes, and by every NICK
\* that changes the nickname from then on, until the client is registered: also while the answer
\* to an earlier query is on its way, or has come. On the cull list he is muted.
DbMayAsk(u) == db_state[u] \in {"free", "waiting", "authed"} /\ db_id < DbQueries
DbNewId == db_id' = db_id + 1

\* ModulePgSQL::OnRequest, SQLConn::Query: the query is queued even when it is refused.
DbAskPgsql(u, pri) ==
    /\ DbMayAsk(u) /\ db_provider = "pgsql" /\ db_link # "gone" /\ DbNewId
    /\ LET q == DbPush(DbQueue, db_id + 1, pri) IN
       IF db_run # 0 THEN DbSetQueue(q) /\ UNCHANGED db_run /\ DbAsked(u, db_id + 1, TRUE)
       ELSE IF db_link # "up" THEN DbSetQueue(DbMarked(q)) /\ UNCHANGED db_run /\ DbAsked(u, db_id + 1, FALSE)
       ELSE \E d \in DbDispatched(q) :
               /\ DbSetQueue(d.queue) /\ db_run' = d.run /\ DbAsked(u, db_id + 1, d.run # 0)
    /\ UNCHANGED <<db_provider, db_link, db_pc, db_results, db_bytes, db_lost, db_losses>>

\* There is no connection of that name (BAD_DBID).
DbAskGone(u) ==
    /\ DbMayAsk(u) /\ db_provider = "pgsql" /\ db_link = "gone"
    /\ DbAsked(u, db_id + 1, FALSE)
    /\ UNCHANGED <<db_queue, db_provider, db_link, db_run, db_pc, db_results, db_bytes, db_id,
                   db_lost, db_losses>>
\* ModuleSQL::OnRequest of m_mysql, under queue_mutex.
DbAskMysql(u, pri) ==
    /\ DbMayAsk(u) /\ db_provider = "mysql" /\ DbNewId
    /\ DbSetQueue(DbPush(DbQueue, db_id + 1, pri)) /\ DbAsked(u, db_id + 1, TRUE)
    /\ UNCHANGED <<db_provider, db_link, db_run, db_pc, db_results, db_bytes, db_lost, db_losses>>

\* ModuleSQLite3::OnRequest: executed at once; a query that fails is accepted all the same.
DbAskSqlite(u) ==
    /\ DbMayAsk(u) /\ db_provider = "sqlite" /\ DbNewId /\ DbAsked(u, db_id + 1, TRUE)
    /\ \/ /\ \E row \in BOOLEAN : db_results' = Append(db_results, <<db_id + 1, row>>)
          /\ db_bytes' = db_bytes + 1 /\ UNCHANGED db_lost
       \/ /\ db_lost' = db_lost \cup {db_id + 1}
          /\ UNCHANGED <<db_results, db_bytes>>
    /\ UNCHANGED <<db_queue, db_provider, db_link, db_run, db_pc, db_losses>>

\* SQLConn::DoPoll until the connection is made; when it fails nothing is done about it.
DbConnect ==
    /\ db_provider = "pgsql" /\ db_link = "connecting"
    /\ \/ /\ db_link' = "up"
          /\ \E d \in DbDispatched(DbQueue) : DbSetQueue(d.queue) /\ db_run' = d.run
       \/ db_link' = "stuck" /\ UNCHANGED <<db_queue, db_run>>
    /\ UNCHANGED <<db_assoc, db_provider, db_pc, db_results, db_bytes, db_id, db_lost, db_losses>>

\* SQLConn::DoConnectedPoll, with the result of the query in progress or without one.
DbAnswer ==
    /\ db_provider = "pgsql" /\ db_link = "up" /\ db_run # 0
    /\ \E row \in BOOLEAN : DbSetClients(DbReply(DbClients, DbFront(DbQueue), row))
    /\ \E d \in DbDispatched(DbPopped(DbQueue)) : DbSetQueue(d.queue) /\ db_run' = d.run
    /\ UNCHANGED <<db_provider, db_link, db_pc, db_results, db_bytes, db_id, db_iduser, db_mine,
                   db_lost, db_losses>>
DbPoll ==
    /\ db_provider = "pgsql" /\ db_link = "up" /\ db_run = 0 /\ ~DbEmpty(DbQueue)
    /\ \E d \in DbDispatched(DbQueue) : DbSetQueue(d.queue) /\ db_run' = d.run
    /\ UNCHANGED <<db_assoc, db_provider, db_link, db_pc, db_results, db_bytes, db_id, db_lost,
                   db_losses>>

\* PQconsumeInput fails or EVENT_ERROR: DelayReconnect deletes the connection, with what
\* is queued on it. The connection of m_mysql is only found lost by the next query.
DbQueued(q) == ToSet(q.pri) \cup ToSet(q.nor)
DbLose ==
    /\ db_provider # "sqlite" /\ db_link = "up" /\ db_losses < DbLosses
    /\ db_link' = "gone" /\ db_losses' = db_losses + 1
    /\ IF db_provider = "pgsql"
       THEN /\ DbSetQueue([pri |-> <<>>, nor |-> <<>>, which |-> "non"]) /\ db_run' = 0
            /\ db_lost' = db_lost \cup DbQueued(DbQueue)
       ELSE UNCHANGED <<db_queue, db_run, db_lost>>
    /\ UNCHANGED <<db_assoc, db_provider, db_pc, db_results, db_bytes, db_id>>

\* ReconnectTimer::Tick, ReadConf, AddConn; SQLConnection::CheckConnection of m_mysql.
DbReconnect ==
    /\ db_link = "gone"
    /\ db_link' = (IF db_provider = "pgsql" THEN "connecting" ELSE "up")
    /\ UNCHANGED <<db_assoc, db_queue, db_provider, db_run, db_pc, db_results, db_bytes, db_id,
                   db_lost, db_losses>>

\* DispatcherThread: it looks for a connection with something queued.
DbLook ==
    /\ db_provider = "mysql" /\ db_pc = "look" /\ ~DbEmpty(DbQueue)
    /\ db_pc' = "take"
    /\ UNCHANGED <<db_assoc, db_queue, db_provider, db_link, db_run, db_results, db_bytes, db_id,
                   db_lost, db_losses>>

\* DoLeadingQuery returns without touching the queue when there is no connection, and
\* pop() then takes nothing off it.
DbTake ==
    /\ db_provider = "mysql" /\ db_pc = "take"
    /\ IF db_link = "up"
       THEN DbSetQueue(DbMarked(DbQueue)) /\ db_run' = DbFront(DbQueue) /\ db_pc' = "query"
       ELSE db_pc' = "pop" /\ UNCHANGED <<db_queue, db_run>>
    /\ UNCHANGED <<db_assoc, db_provider, db_link, db_results, db_bytes, db_id, db_lost, db_losses>>

\* mysql_real_query, the result queued under results_mutex, and the byte for the main thread.
DbExecute ==
    /\ db_provider = "mysql" /\ db_pc = "query"
    /\ \E row \in BOOLEAN : db_results' = Append(db_results, <<db_run, row>>)
    /\ db_pc' = "notify"
    /\ UNCHANGED <<db_assoc, db_queue, db_provider, db_link, db_run, db_bytes, db_id, db_lost,
                   db_losses>>
DbNotify ==
    /\ db_provider = "mysql" /\ db_pc = "notify"
    /\ db_bytes' = db_bytes + 1 /\ db_pc' = "pop"
    /\ UNCHANGED <<db_assoc, db_queue, db_provider, db_link, db_run, db_results, db_id, db_lost,
                   db_losses>>
DbPop ==
    /\ db_provider = "mysql" /\ db_pc = "pop"
    /\ DbSetQueue(DbPopped(DbQueue)) /\ db_run' = 0 /\ db_pc' = "look"
    /\ UNCHANGED <<db_assoc, db_provider, db_link, db_results, db_bytes, db_id, db_lost, db_losses>>

\* Notifier::OnDataReady: one byte, one result. ResultNotifier::Dispatch: all of them.
DbDeliver ==
    /\ db_bytes > 0 /\ db_bytes' = db_bytes - 1
    /\ LET n == IF db_provider = "mysql" THEN 1 ELSE Len(db_results)
           reply(s, r) == DbReply(s, r[1], r[2])
       IN /\ DbSetClients(FoldLeft(reply, DbClients, SubSeq(db_results, 1, n)))
          /\ db_results' = SubSeq(db_results, n + 1, Len(db_results))
    /\ UNCHANGED <<db_queue, db_provider, db_link, db_run, db_pc, db_id, db_iduser, db_mine,
                   db_lost, db_losses>>

\* userrec::FullConnect, once OnCheckReady lets the client pass.
DbRegister(u) ==
    /\ db_state[u] = "authed"
    /\ db_state' = [db_state EXCEPT ![u] = "registered"]
    /\ UNCHANGED <<db_queue, db_provider, db_link, db_run, db_pc, db_results, db_bytes, db_id,
                   db_iduser, db_list, db_mine, db_rows, db_lost, db_losses>>
\* A client quits; the record is freed, and its queries leave the map (OnUserDisconnect).
DbQuit(u) ==
    /\ db_state[u] \in {"waiting", "authed", "registered"}
    /\ db_state' = [db_state EXCEPT ![u] = "quitting"]
    /\ UNCHANGED <<db_queue, db_provider, db_link, db_run, db_pc, db_results, db_bytes, db_id,
                   db_iduser, db_list, db_mine, db_rows, db_lost, db_losses>>
DbForget_kept(u) == db_iduser  \* mutant: the map keeps the queries of a client that is gone
DbForget(u) == [i \in DbIds |-> IF i \in db_list[u] THEN DbNobody ELSE db_iduser[i]]
DbDisconnect(u) ==
    /\ db_state[u] = "quitting"
    /\ db_iduser' = DbForget(u)
    /\ db_list' = [db_list EXCEPT ![u] = {}] /\ db_state' = [db_state EXCEPT ![u] = "free"]
    /\ db_mine' = [db_mine EXCEPT ![u] = {}]
    /\ UNCHANGED <<db_queue, db_provider, db_link, db_run, db_pc, db_results, db_bytes, db_id,
                   db_rows, db_lost, db_losses>>

DatabaseNext ==
    \/ \E u \in DbUsers, pri \in BOOLEAN : DbAskPgsql(u, pri) \/ DbAskMysql(u, pri)
    \/ \E u \in DbUsers : DbAskSqlite(u) \/ DbAskGone(u) \/ DbRegister(u) \/ DbQuit(u) \/ DbDisconnect(u)
    \/ DbConnect \/ DbAnswer \/ DbPoll \/ DbLose \/ DbReconnect
    \/ DbLook \/ DbTake \/ DbExecute \/ DbNotify \/ DbPop
    \/ DbDeliver

\* The main loop handles what is ready, the thread runs, a database that is away comes
\* back, and one that is connected answers.
DatabaseFairness ==
    /\ WF_db_vars(DbDeliver) /\ WF_db_vars(DbAnswer) /\ WF_db_vars(DbReconnect)
    /\ WF_db_vars(DbLook) /\ WF_db_vars(DbTake) /\ WF_db_vars(DbExecute)
    /\ WF_db_vars(DbNotify) /\ WF_db_vars(DbPop)
DatabaseSpec == DatabaseInit /\ [][DatabaseNext]_db_vars
DatabaseFairSpec == DatabaseSpec /\ DatabaseFairness

-----------------------------------------------------------------------------
(* Properties *)

\* The query at the front is the one the server is working on, from the moment it is sent
\* until it is popped, although a query with priority may be pushed in between: the answer
\* is sent with the number and the destination of the right request.
DbFrontIsRunning == db_run # 0 => ~DbEmpty(DbQueue) /\ DbFront(DbQueue) = db_run

\* Each byte on the pipe of m_mysql stands for a result that is queued already: the main
\* thread never reads one and finds the result queue empty.
DbByteMeansResult ==
    db_provider = "mysql" =>
        Len(db_results) = db_bytes + IF db_pc = "notify" THEN 1 ELSE 0

\* A client is authenticated by a row found for himself, although perhaps for a nickname he had
\* before: never by the late answer to a query of an earlier client whose record he was given.
DbOwnAnswer ==
    \A u \in DbUsers : db_state[u] \in {"authed", "registered"} => db_mine[u] \cap db_rows # {}

\* Whoever waits for an answer gets one, unless the database m_pgsql uses could not be
\* connected or was lost with all his queries, refused to take one again, or m_sqlite3 could not
\* execute them.
DbSettled(u) ==
    \/ db_state[u] # "waiting" \/ db_mine[u] \subseteq db_lost
    \/ db_provider = "pgsql" /\ db_run = 0
DbAnswered == \A u \in DbUsers : db_state[u] = "waiting" ~> DbSettled(u)

\* A query's answer reaches the client it was sent for, and only him, in the order thread and main loop agreed on,
\* whether he asks once or, changing his nickname, several times.
DbAnswersArrive == [](DbFrontIsRunning /\ DbByteMeansResult /\ DbOwnAnswer) /\ DbAnswered
=============================================================================

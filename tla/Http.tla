-------------------------------- MODULE Http --------------------------------
(***************************************************************************)
(* The HTTP server (m_httpd).  A request arrives in pieces of any size; it *)
(* is answered when the blank line is there and, for a POST, as much data  *)
(* as was declared.  Every connection has a timer that closes it, which    *)
(* each answer replaces by a new one; the timer points to the connection.  *)
(***************************************************************************)
EXTENDS Naturals, Sequences, FiniteSets

CONSTANTS
    HtConns,        \* addresses of HttpServerSockets
    HtRequests,     \* what clients send
    HtSays,         \* the number in a word "Content-Length: n" in the data of a POST
    HtTimers        \* names of timers; a connection uses three at most, the others bound how many are left behind

\* length is what the header Content-Length declares, 0 if there is none; body is what follows the blank line, in
\* words of one unit, "len" for one that reads like that header.
HtRequest == [method : {"GET", "POST"}, known : BOOLEAN, uri : {"/", "page", "other"}, length : Nat,
              body : Seq({"x", "len"})]
ASSUME HttpOK == HtRequests \subseteq HtRequest /\ HtSays \in Nat /\ IsFiniteSet(HtTimers)

VARIABLES
    ht_conns,       \* address -> the connection, or HtFree
    ht_timers,      \* timers that will tick: <<address, name>>
    ht_left         \* history: of them, those an answer 400 has left behind
ht_vars == <<ht_conns, ht_timers, ht_left>>

HtFree == [state |-> "free"]
HtHere(c) == ht_conns[c] # HtFree
HttpInit == ht_conns = [c \in HtConns |-> HtFree] /\ ht_timers = {} /\ ht_left = {}

HttpTypeOK ==
    /\ \A c \in HtConns : HtHere(c) =>
          /\ ht_conns[c].state \in {"wait", "post", "sent"} /\ ht_conns[c].closed \in BOOLEAN
          /\ ht_conns[c].request \in HtRequests /\ ht_conns[c].timer \in HtTimers
          /\ ht_conns[c].read \in 0 .. 2 + Len(ht_conns[c].request.body)
          /\ ht_conns[c].size \in Nat /\ ht_conns[c].data \in Nat /\ ht_conns[c].answers \in Seq({"400", "404", "505", "index", "page"})
    /\ ht_timers \subseteq HtConns \X HtTimers /\ ht_left \subseteq ht_timers

-----------------------------------------------------------------------------
HtFresh(c) == CHOOSE t \in HtTimers : <<c, t>> \notin ht_timers /\ (HtHere(c) => ht_conns[c].timer # t)

\* OnIncomingConnection
HtAccept(c, request) ==
    /\ ~HtHere(c) /\ Cardinality({t \in HtTimers : <<c, t>> \in ht_timers}) + 3 <= Cardinality(HtTimers)
    /\ LET t == HtFresh(c) IN
        /\ ht_conns' = [ht_conns EXCEPT ![c] = [state |-> "wait", request |-> request, read |-> 0, size |-> 0,
                        data |-> 0, answers |-> <<>>, given |-> {}, timer |-> t, closed |-> FALSE]]
        /\ ht_timers' = ht_timers \cup {<<c, t>>}
    /\ UNCHANGED ht_left

\* ServeData: the page of the root, or the event httpd_url, which a module may claim.
HtAnswer(s) ==
    IF ~s.request.known THEN "505"
    ELSE IF s.request.method = "GET" /\ s.request.uri = "/" THEN "index"
    ELSE IF s.request.uri = "page" THEN "page" ELSE "404"
HtServed(s, t) ==
    [s EXCEPT !.state = "sent", !.answers = Append(@, HtAnswer(s)), !.timer = t,
              !.given = IF HtAnswer(s) \in {"page", "404"} THEN @ \cup {s.data} ELSE @]
HtServe_keeps(c, s) ==  \* mutant: the timer is not deleted
    LET t == HtFresh(c) IN
        /\ ht_conns' = [ht_conns EXCEPT ![c] = HtServed(s, t)]
        /\ ht_timers' = ht_timers \cup {<<c, t>>} /\ UNCHANGED ht_left
HtServe(c, s) ==
    LET t == HtFresh(c) IN
        /\ ht_conns' = [ht_conns EXCEPT ![c] = HtServed(s, t)]
        /\ ht_timers' = (ht_timers \ {<<c, s.timer>>}) \cup {<<c, t>>} /\ UNCHANGED ht_left

\* A POST without a length: Timeout is overwritten, and nobody knows the old timer any more.
HtRefuse(c, s) ==
    LET t == HtFresh(c) IN
        /\ ht_conns' = [ht_conns EXCEPT ![c] = [s EXCEPT !.state = "sent", !.answers = Append(@, "400"), !.timer = t]]
        /\ ht_timers' = ht_timers \cup {<<c, t>>} /\ ht_left' = ht_left \cup {<<c, s.timer>>}

\* The words after the first three are all looked at for Content-Length, those of the data that is there too.
HtLength(s) == IF \E i \in 1 .. s.read - 2 : s.request.body[i] = "len" THEN HtSays ELSE s.request.length
HtEnough(s) == s.data >= s.size

\* OnDataReady, with n more units.
HtRead(c, n) ==
    /\ HtHere(c) /\ ~ht_conns[c].closed /\ ht_conns[c].read + n <= 2 + Len(ht_conns[c].request.body)
    /\ LET s == [ht_conns[c] EXCEPT !.read = @ + n]
           begins == s.state = "wait" /\ s.request.method = "POST"
           post == IF begins THEN [s EXCEPT !.state = "post", !.size = HtLength(s), !.data = s.read - 2]
                   ELSE [s EXCEPT !.data = @ + n]
           keep(r) == ht_conns' = [ht_conns EXCEPT ![c] = r] /\ UNCHANGED <<ht_timers, ht_left>>
       IN \/ s.read < 2 /\ keep(s)
          \/ s.read >= 2 /\ begins /\ HtLength(s) = 0 /\ HtRefuse(c, s)
          \/ /\ s.read >= 2 /\ ((begins /\ HtLength(s) > 0) \/ s.state = "post")
             /\ IF HtEnough(post) THEN HtServe(c, post) ELSE keep(post)
          \/ s.read >= 2 /\ ~begins /\ s.state # "post" /\ HtServe(c, s)

\* The peer closes, or an error: the connection is for the cull.
HtClose(c) ==
    /\ HtHere(c) /\ ~ht_conns[c].closed
    /\ ht_conns' = [ht_conns EXCEPT ![c].closed = TRUE] /\ UNCHANGED <<ht_timers, ht_left>>
\* InspSocketCull and ~HttpServerSocket. Where the timer itself closed the connection it has been freed by then, and the
\* destructor reads its GetTimer() all the same; what that gives is not modelled, the timer is no longer queued either way.
HtDelete(c) ==
    /\ HtHere(c) /\ ht_conns[c].closed
    /\ ht_conns' = [ht_conns EXCEPT ![c] = HtFree]
    /\ ht_timers' = ht_timers \ {<<c, ht_conns[c].timer>>} /\ UNCHANGED ht_left
\* HttpServerTimeout::Tick, before any event of the iteration, when the culls of the last are done: whatever connection
\* has the address now is closed.
HtTick(timer) ==
    /\ timer \in ht_timers /\ \A c \in HtConns : HtHere(c) => ~ht_conns[c].closed
    /\ ht_timers' = ht_timers \ {timer} /\ ht_left' = ht_left \ {timer}
    /\ ht_conns' = IF HtHere(timer[1]) THEN [ht_conns EXCEPT ![timer[1]].closed = TRUE] ELSE ht_conns

HttpNext ==
    \/ \E c \in HtConns, request \in HtRequests : HtAccept(c, request)
    \/ \E c \in HtConns, n \in 1 .. 4 : HtRead(c, n)
    \/ \E c \in HtConns : HtClose(c) \/ HtDelete(c)
    \/ \E timer \in ht_timers : HtTick(timer)
HttpSpec == HttpInit /\ [][HttpNext]_ht_vars

-----------------------------------------------------------------------------
\* A request whose data does not itself talk of Content-Length.
HtPlain(s) == \A i \in DOMAIN s.request.body : s.request.body[i] # "len"
\* The modules that serve pages are given all the data a POST has declared (m_httpd gathers it over several reads).
HtWholePost ==
    \A c \in HtConns : HtHere(c) /\ ht_conns[c].request.method = "POST" /\ HtPlain(ht_conns[c]) =>
        \A n \in ht_conns[c].given : n >= ht_conns[c].request.length
\* A request is answered once, in whatever pieces it comes, until the client sends more than it has declared.
HtOneAnswer ==
    \A c \in HtConns : HtHere(c) /\ HtPlain(ht_conns[c]) /\ ht_conns[c].read <= 2 + ht_conns[c].request.length =>
        Len(ht_conns[c].answers) <= 1
\* No connection is open without a timer that closes it.
HtTimed == \A c \in HtConns : HtHere(c) /\ ~ht_conns[c].closed => <<c, ht_conns[c].timer>> \in ht_timers
\* No timer points to a connection that is gone, or whose timer it is not, but those left behind by an answer 400.
HtTimersLive ==
    \A timer \in ht_timers \ ht_left : HtHere(timer[1]) /\ ht_conns[timer[1]].timer = timer[2]

\* However a request is cut into pieces, it is answered once and when all of it is there, and the timer that closes
\* its connection is there as long as the connection.
HtAnswered == HtWholePost /\ HtOneAnswer /\ HtTimed /\ HtTimersLive
=============================================================================

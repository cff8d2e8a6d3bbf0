--------------------------- MODULE TransportHooks ---------------------------
(***************************************************************************)
(* The I/O hooks m_ssl_openssl, m_ssl_gnutls and m_ziplink: each keeps an  *)
(* array of sessions indexed by descriptor, fed by OnRawSocketAccept,      *)
(* Read, Write and Close. The module follows one slot of that array while  *)
(* its descriptor serves one connection after another. What the TLS        *)
(* library or the kernel answers to a call is any of its documented        *)
(* results.                                                                *)
(***************************************************************************)
EXTENDS Naturals, Sequences, SequencesExt

CONSTANTS
    SlModules,      \* modules the port may be hooked by, of "openssl", "gnutls" and "zip"
    SlConns,        \* connections the descriptor serves
    SlWrites,       \* texts written on one connection
    SlReads,        \* pieces of text the other end sends on one connection
    SlDropsBusy     \* a REHASH ssl may take a port away that has connections on it

ASSUME TransportHooksOK ==
    /\ SlModules \subseteq {"openssl", "gnutls", "zip"}
    /\ SlConns \in Nat /\ SlWrites \in Nat /\ SlReads \in Nat /\ SlDropsBusy \in BOOLEAN

VARIABLES
    sl_module,      \* the module behind the port
    sl_hooked,      \* GetIOHook(port) finds it
    sl_conn,        \* the connection on the descriptor, 0 when it is closed
    sl_last,        \* connections accepted so far
    sl_ses,         \* sessions[fd]
    sl_bufs,        \* receive buffers allocated and not deleted
    sl_wrote, sl_sent,      \* texts given to OnRawSocketWrite, texts the library has taken
    sl_got, sl_handed,      \* pieces the library decoded, pieces returned to the reader
    sl_broken,      \* the connection is reset: every later call on it fails
    sl_link,        \* the connection is a TreeSocket's, not a client's
    sl_greeted      \* its HandshakeTimer has sent the capabilities

sl_vars == <<sl_module, sl_hooked, sl_conn, sl_last, sl_ses, sl_bufs, sl_wrote, sl_sent,
             sl_got, sl_handed, sl_broken, sl_link, sl_greeted>>

SlTexts == (1 .. SlConns) \X (1 .. SlWrites)
SlSession ==
    [live : BOOLEAN, status : {"none", "handshake", "want_write", "open", "closing"},
     rstat : {"read", "write"}, wstat : {"read", "write"}, in : 0 .. SlReads,
     out : UNION {[1 .. n -> SlTexts] : n \in 0 .. SlWrites * SlConns}]

TransportHooksTypeOK ==
    /\ sl_module \in SlModules /\ sl_hooked \in BOOLEAN /\ sl_broken \in BOOLEAN
    /\ sl_link \in BOOLEAN /\ sl_greeted \in BOOLEAN
    /\ sl_conn \in 0 .. SlConns /\ sl_last \in 0 .. SlConns /\ sl_ses \in SlSession
    /\ sl_bufs \in 0 .. SlConns /\ sl_wrote \in 0 .. SlWrites
    /\ sl_got \in 0 .. SlReads /\ sl_handed \in 0 .. SlReads

TransportHooksInit ==
    /\ sl_module \in SlModules /\ sl_hooked = TRUE /\ sl_conn = 0 /\ sl_last = 0
    /\ sl_ses = [live |-> FALSE, status |-> "none", rstat |-> "read", wstat |-> "write",
                 in |-> 0, out |-> <<>>]
    /\ sl_bufs = 0 /\ sl_wrote = 0 /\ sl_sent = <<>> /\ sl_got = 0 /\ sl_handed = 0
    /\ sl_broken = FALSE /\ sl_link = FALSE /\ sl_greeted = FALSE

-----------------------------------------------------------------------------
(* A call works on s, a record of the slot and of what the call changes with it. *)

SlState == [ses |-> sl_ses, bufs |-> sl_bufs, sent |-> sl_sent, got |-> sl_got,
            handed |-> sl_handed, eof |-> FALSE]

SlCloseSession(s) ==
    [s EXCEPT !.ses = [s.ses EXCEPT !.live = FALSE, !.status = "none", !.out = <<>>],
              !.bufs = IF s.ses.live THEN @ - 1 ELSE @]

\* DoWrite, gnutls_record_send, write(): the library takes a part of outbuf, asks to be
\* called again (openssl also for a read first), or fails.
SlTake_again(s, n) ==  \* mutant: what was taken stays queued when the rest has to wait
    [s EXCEPT !.sent = @ \o SubSeq(s.ses.out, 1, n)]
SlTake(s, n) ==
    [s EXCEPT !.ses = [s.ses EXCEPT !.out = SubSeq(@, n + 1, Len(@))],
              !.sent = @ \o SubSeq(s.ses.out, 1, n)]
SlRefused(s) ==
    IF sl_module = "zip" THEN [s EXCEPT !.ses = [s.ses EXCEPT !.out = <<>>]]
    ELSE SlCloseSession(s)
SlDoWrite(s) ==
    IF s.ses.out = <<>> THEN {s}
    ELSE IF sl_broken THEN {SlRefused(s)}
    ELSE {SlTake(s, n) : n \in 1 .. Len(s.ses.out)} \cup {s}
         \cup (IF sl_module # "openssl" THEN {}
               ELSE {SlCloseSession(s)}
                    \cup {[s EXCEPT !.ses = [s.ses EXCEPT !.wstat = w]] : w \in {"read", "write"}})
         \cup (IF sl_module = "gnutls" THEN {SlCloseSession(s)} ELSE {})

\* DoRead: the library decodes a piece into inbuf, has nothing, or fails.
SlDoRead(s) ==
    (IF s.got < SlReads /\ ~sl_broken
     THEN {[s EXCEPT !.got = @ + 1, !.ses = [s.ses EXCEPT !.in = @ + 1]]} ELSE {})
    \cup {[s EXCEPT !.ses = [s.ses EXCEPT !.rstat = r]] :
               r \in IF sl_module = "openssl" THEN {"read", "write"} ELSE {"read"}}
    \cup {SlCloseSession(s)}

\* OnRawSocketWrite of openssl on an open session: a read that wanted to write, then DoWrite.
SlPollWrite(s) ==
    IF sl_module # "openssl" \/ s.ses.status # "open" THEN {s}
    ELSE LET read == IF s.ses.rstat = "write" THEN SlDoRead(s) ELSE {s}
         IN UNION {IF r.ses.live /\ r.ses.wstat = "write" THEN SlDoWrite(r) ELSE {r} : r \in read}

\* Handshake: openssl repeats a handshake that wants to write at once, through
\* MakePollWrite, until it is over or has to read.
SlOpensslHandshake(s) ==
    SlPollWrite([s EXCEPT !.ses = [s.ses EXCEPT !.status = "open"]])
    \cup {[s EXCEPT !.ses = [s.ses EXCEPT !.status = "handshake", !.rstat = "read", !.wstat = w]] :
              w \in {s.ses.wstat, "write"}}

\* gnutls leaves it to the next write, as its MakePollWrite writes nothing.
SlGnutlsHandshake(s) ==
    {[s EXCEPT !.ses = [s.ses EXCEPT !.status = st]] : st \in {"open", "handshake", "want_write"}}

SlHandshake(s) ==
    LET failed == [SlCloseSession(s) EXCEPT !.ses.status =
                       IF sl_module = "gnutls" THEN "closing" ELSE "none"]
    IN {failed} \cup (IF sl_broken THEN {}
                      ELSE IF sl_module = "gnutls" THEN SlGnutlsHandshake(s)
                      ELSE SlOpensslHandshake(s))

\* What the caller of OnRawSocketRead gets: everything in inbuf.
SlHand(s) == [s EXCEPT !.handed = @ + s.ses.in, !.ses = [s.ses EXCEPT !.in = 0]]
SlEof(s) == [s EXCEPT !.eof = TRUE]

\* The part of OnRawSocketRead after the handshake.
SlDecoded(s, r) == IF ~r.ses.live THEN SlEof(r) ELSE IF r.got > s.got THEN SlHand(r) ELSE r
SlOpensslReadOpen(s) ==
    UNION {IF ~w.ses.live THEN {SlEof(w)}
           ELSE IF w.ses.rstat = "read" THEN {SlDecoded(w, r) : r \in SlDoRead(w)}
           ELSE {w} : w \in IF s.ses.wstat = "read" THEN SlDoWrite(s) ELSE {s}}
\* The frames of zip are decoded into the caller's buffer, those that are complete.
SlReadOpen(s) ==
    IF sl_module = "openssl" THEN SlOpensslReadOpen(s)
    ELSE {SlDecoded(s, r) : r \in SlDoRead(s)}

SlSet(s) ==
    /\ sl_ses' = s.ses /\ sl_bufs' = s.bufs /\ sl_sent' = s.sent
    /\ sl_got' = s.got /\ sl_handed' = s.handed

-----------------------------------------------------------------------------
(* Actions *)

\* OnRawSocketAccept, OnRawSocketConnect: a new session in the slot; rstat and wstat are
\* those of the connection before.
SlAccept ==
    /\ sl_conn = 0 /\ sl_last < SlConns /\ sl_hooked
    /\ sl_conn' = sl_last + 1 /\ sl_last' = sl_last + 1 /\ sl_wrote' = 0 /\ UNCHANGED sl_broken
    /\ sl_link' \in IF sl_module = "zip" THEN {TRUE} ELSE BOOLEAN
    /\ sl_greeted' = FALSE
    /\ LET s == [ses |-> [sl_ses EXCEPT !.live = TRUE, !.in = 0,
                              !.status = IF sl_module = "zip" THEN "open" ELSE "none"],
                 bufs |-> sl_bufs + 1, sent |-> <<>>, got |-> 0, handed |-> 0, eof |-> FALSE]
       IN \E r \in IF sl_module = "zip" THEN {s} ELSE SlHandshake(s) : SlSet(r)
    /\ UNCHANGED <<sl_module, sl_hooked>>

\* OnRawSocketWrite of a text. A plain connection's text does not come here.
SlResumable ==
    \/ sl_module = "gnutls" /\ sl_ses.status = "want_write"
    \/ sl_module = "openssl" /\ sl_ses.status = "handshake" /\ "write" \in {sl_ses.rstat, sl_ses.wstat}
SlWriteOpen(s) ==
    IF sl_module = "openssl" THEN SlPollWrite(s)
    ELSE IF s.ses.status = "open" THEN SlDoWrite(s) ELSE {s}
SlWrite ==
    /\ sl_conn # 0 /\ sl_hooked /\ sl_wrote < SlWrites
    /\ sl_link => sl_greeted \/ sl_ses.status = "open"
    /\ sl_wrote' = sl_wrote + 1
    /\ LET s == [SlState EXCEPT !.ses = [sl_ses EXCEPT !.out = Append(@, <<sl_conn, sl_wrote + 1>>)]]
           resumed == IF SlResumable THEN SlHandshake(s) ELSE {s}
           results == IF ~sl_ses.live THEN {SlCloseSession(SlState)}
                      ELSE IF SlResumable /\ sl_module = "gnutls" THEN resumed
                      ELSE UNION {SlWriteOpen(r) : r \in resumed}
       IN \E r \in results : SlSet(r)
    /\ UNCHANGED <<sl_module, sl_hooked, sl_conn, sl_last, sl_broken, sl_link, sl_greeted>>

\* OnRawSocketRead on a read event; the reader closes the connection at an end of file,
\* which a session that is gone reports at the next event.
SlRead ==
    /\ sl_conn # 0 /\ sl_hooked
    /\ LET s == SlState
           resumes == sl_ses.status = "handshake"
                      /\ (sl_module = "openssl" => "read" \in {sl_ses.rstat, sl_ses.wstat})
           open == IF resumes THEN SlHandshake(s) ELSE {s}
           results == IF ~sl_ses.live THEN {SlEof(SlCloseSession(s))}
                      ELSE UNION {IF r.ses.status = "open" THEN SlReadOpen(r) ELSE {r} : r \in open}
       IN \E r \in results :
             IF r.eof THEN SlSet(SlCloseSession(r)) /\ sl_conn' = 0 /\ sl_broken' = FALSE
             ELSE SlSet(r) /\ UNCHANGED <<sl_conn, sl_broken>>
    /\ UNCHANGED <<sl_module, sl_hooked, sl_last, sl_wrote, sl_link, sl_greeted>>

\* HandshakeTimer::Tick: IS_HSDONE is anything but a handshake under way; then the
\* capabilities may be sent. Otherwise the timer tries again in a second.
SlHsDone == sl_ses.status \notin {"handshake", "want_write"}
SlHandshakeTimer ==
    /\ sl_conn # 0 /\ sl_hooked /\ sl_link /\ ~sl_greeted /\ SlHsDone
    /\ sl_greeted' = TRUE
    /\ UNCHANGED <<sl_module, sl_hooked, sl_conn, sl_last, sl_ses, sl_bufs, sl_wrote, sl_sent,
                   sl_got, sl_handed, sl_broken, sl_link>>

\* CullList::Apply and InspSocket::Close call OnRawSocketClose only while the port is
\* still hooked.
SlClose ==
    /\ sl_conn # 0
    /\ sl_conn' = 0 /\ sl_broken' = FALSE
    /\ SlSet(IF sl_hooked THEN SlCloseSession(SlState) ELSE SlState)
    /\ UNCHANGED <<sl_module, sl_hooked, sl_last, sl_wrote, sl_link, sl_greeted>>

\* The other end resets the connection.
SlReset ==
    /\ sl_conn # 0 /\ ~sl_broken
    /\ sl_broken' = TRUE
    /\ UNCHANGED <<sl_module, sl_hooked, sl_conn, sl_last, sl_ses, sl_bufs, sl_wrote, sl_sent,
                   sl_got, sl_handed, sl_link, sl_greeted>>

\* OnRehash("ssl"): DelIOHook for every port, and AddIOHook for those the file still names.
SlRehash ==
    /\ sl_module # "zip" /\ (sl_conn # 0 => SlDropsBusy)
    /\ sl_hooked' = ~sl_hooked
    /\ UNCHANGED <<sl_module, sl_conn, sl_last, sl_ses, sl_bufs, sl_wrote, sl_sent, sl_got,
                   sl_handed, sl_broken, sl_link, sl_greeted>>

TransportHooksNext ==
    \/ SlAccept \/ SlWrite \/ SlRead \/ SlClose \/ SlReset \/ SlRehash
    \/ SlHandshakeTimer

TransportHooksSpec == TransportHooksInit /\ [][TransportHooksNext]_sl_vars

-----------------------------------------------------------------------------
(* Properties *)

\* While a session lives and its connection works, what the library has taken, followed
\* by what waits in outbuf, is exactly what was written on this connection, in order:
\* nothing of the connection that had the descriptor before, nothing twice, nothing lost
\* over a handshake or a write that has to be repeated.
SlStreamIsOwn ==
    sl_conn # 0 /\ sl_hooked /\ sl_ses.live /\ ~sl_broken =>
        sl_sent \o sl_ses.out = [k \in 1 .. sl_wrote |-> <<sl_conn, k>>]

\* There is one receive buffer for a live session and none otherwise, however the
\* connections before have ended.
SlBufferPerSession == sl_bufs = IF sl_ses.live THEN 1 ELSE 0

\* Every piece the library decoded has been handed to the reader once, or waits in inbuf.
SlInputOnce == sl_ses.live => sl_got = sl_handed + sl_ses.in

\* No line of a server link is queued behind a handshake, where gnutls would leave it
\* until the next line comes: the capabilities wait for the handshake.
SlLinkWaits ==
    sl_link /\ sl_conn # 0 /\ sl_wrote > 0 => sl_ses.status \notin {"handshake", "want_write"}

\* Whatever the library answers, what goes through a session is its connection's own text, once and in order, with
\* nothing left by the connection that had the descriptor before.
SlSessionsOwn == SlStreamIsOwn /\ SlBufferPerSession /\ SlInputOnce /\ SlLinkWaits
=============================================================================

------------------------------ MODULE ImapPool ------------------------------
(***************************************************************************)
(* Read requests and the IMAP connection pool of overfwd: `ImapPool` of    *)
(* src/pool.rs and its callers acquire / release / search[_pooled] /       *)
(* get[_pooled] of src/imap.rs.                                            *)
(*                                                                         *)
(* A request is one call of search or get (through the pool when it is in  *)
(* Pooled, with a fresh login and a logout otherwise) and runs once.  It   *)
(* opens at most one connection, so a connection is named by the request   *)
(* that opened it.  A request is interleaved with the others between any   *)
(* two awaits, and between reading the clock and taking the pool's lock;   *)
(* what runs under the lock is one step.  The peer of a connection may     *)
(* vanish or fall silent at any time, and the future of a request may be   *)
(* dropped at any await.                                                   *)
(*                                                                         *)
(* A definition introduced by "Slip" is no part of the model: it is a      *)
(* plausible fault of the definition after it, which a run must detect.    *)
(***************************************************************************)
EXTENDS Reservoir

CONSTANTS
    Request,    \* the requests
    Pooled,     \* the requests that go through the pool
    CredOf,     \* CredOf[r]: the credential [imap, smtp, username, password] r presents
    MailboxOf,  \* MailboxOf[r]: the mailbox r reads
    OpOf,       \* OpOf[r]: "search" or "get"
    Digest,     \* the SHA-256 of each password
    MaxIdle,    \* PoolConfig::max_idle
    TTL,        \* PoolConfig::idle_ttl, in ticks
    Fragile,    \* bound: the connections whose peer may fail
    MaxTime,    \* bound: the last tick of the clock
    Null        \* no connection, no login, no mailbox

VARIABLES
    now,        \* the clock that Instant::now() reads
    entries,    \* Reservoir::entries
    pushes,     \* how many entries were ever pushed: the slot of the newest
    pc,         \* where each request is
    clock,      \* the `now` a request read before it takes the lock, 0 after
    session,    \* the connection a request works on
    closing,    \* the connections a request has still to close in close_all
    result,     \* how the operation of each request ended
    open,       \* the connections that are logged in and not dropped
    login,      \* what each connection was logged in as
    selected,   \* the mailbox selected on each connection
    unread,     \* commands sent on a connection whose response was not read
    peer,       \* the state of the server's end of each connection
    disturbed   \* history: the requests whose connection failed in their hands

gateway == <<entries, pushes, pc, clock, session, closing, result>>
server  == <<open, login, selected, unread>>
vars    == <<now, gateway, server, peer, disturbed>>

-----------------------------------------------------------------------------
(* Keys and error mapping *)

\* What the server authenticates when the credential c logs in.
Login(c) == <<c.imap, c.username, c.password>>

\* Slip: the key leaves the password out.
PoolKeyWithoutPassword(c) == <<c.imap, c.username>>

\* PoolKey::from_cred: the IMAP endpoint (never the SMTP one), the user name
\* and a digest standing for the password.
PoolKey(c) == <<c.imap, c.username, Digest[c.password]>>

\* Slip: an unexpected reply to SELECT is passed on unmapped.
SelectErrorUnmapped(reply) == IF reply = "NO" THEN "answered" ELSE reply

\* map_login_err, map_select_err and map_command_err, as far as requests are
\* told apart by them: "transport" is host_unreachable or tls_failure, and
\* "answered" an application error (auth_failure, not_found, bad_request), or
\* success.  LOST stands for ImapError::Io and ConnectionLost.
LoginError(reply)   == IF reply = "LOST" THEN "transport" ELSE "answered"
SelectError(reply)  == IF reply = "NO" THEN "answered" ELSE "transport"
CommandError(reply) == IF reply = "LOST" THEN "transport" ELSE "answered"

\* is_transport_error
IsTransportError(res) == res = "transport"

\* The replies to a command on connection c that fail it.
ErrorReplies(c) ==
    IF peer[c] = "alive" THEN {"NO", "BAD"}
    ELSE IF peer[c] = "gone" THEN {"LOST"} ELSE {}

-----------------------------------------------------------------------------
(* State *)

Conn == Request

Phase == {"new", "take", "sweep", "noop", "login", "select", "search", "fetch",
          "release", "put", "evict", "logout", "done"}

\* The phases in which a request is suspended at an await.
Awaiting == {"sweep", "noop", "login", "select", "search", "fetch", "evict", "logout"}

Result == {"none", "answered", "transport"}

Logins == {Login(CredOf[r]) : r \in Request}
Keys   == {PoolKey(CredOf[r]) : r \in Request}

Idle    == {e.conn : e \in entries}
Held(r) == closing[r] \cup ({session[r]} \ {Null})

ASSUME ConstantsOK ==
    /\ Pooled \subseteq Request /\ Fragile \subseteq Request
    /\ IsFiniteSet(Request)
    /\ Null \notin Request
    /\ \A r \in Request : OpOf[r] \in {"search", "get"} /\ MailboxOf[r] # Null
    /\ MaxIdle \in Nat /\ TTL \in Nat /\ MaxTime \in Nat

\* The digests of two passwords in use differ when the passwords do.
ASSUME DigestInjective ==
    \A r, q \in Request :
        Digest[CredOf[r].password] = Digest[CredOf[q].password]
            => CredOf[r].password = CredOf[q].password

Init ==
    /\ now = 0
    /\ entries = {}
    /\ pushes = 0
    /\ pc = [r \in Request |-> "new"]
    /\ clock = [r \in Request |-> 0]
    /\ session = [r \in Request |-> Null]
    /\ closing = [r \in Request |-> {}]
    /\ result = [r \in Request |-> "none"]
    /\ open = {}
    /\ login = [c \in Conn |-> Null]
    /\ selected = [c \in Conn |-> Null]
    /\ unread = [c \in Conn |-> 0]
    /\ peer = [c \in Conn |-> "alive"]
    /\ disturbed = {}

Goto(r, from, to) ==
    /\ pc[r] = from
    /\ pc' = [pc EXCEPT ![r] = to]

\* The connections cs are dropped, and nothing more is known of them.
Drop(cs) ==
    /\ open' = open \ cs
    /\ selected' = [c \in Conn |-> IF c \in cs THEN Null ELSE selected[c]]
    /\ unread' = [c \in Conn |-> IF c \in cs THEN 0 ELSE unread[c]]
    /\ peer' = [c \in Conn |-> IF c \in cs THEN "gone" ELSE peer[c]]

\* A command is written on c; a response, or a refusal to send, is read from it.
Send(c)    == unread' = [unread EXCEPT ![c] = @ + 1]
Receive(c) == unread' = [unread EXCEPT ![c] = @ - 1]

-----------------------------------------------------------------------------
(* acquire: take_warm, else connect_and_login *)

\* search / get, and acquire with the head of take_warm: a request outside the
\* pool, or with the pool disabled, logs in; otherwise it reads the clock,
\* before it asks for the lock.
Start(r) ==
    /\ \/ /\ r \in Pooled /\ MaxIdle > 0
          /\ Goto(r, "new", "take")
          /\ clock' = [clock EXCEPT ![r] = now]
       \/ /\ r \notin Pooled \/ MaxIdle = 0
          /\ Goto(r, "new", "login")
          /\ UNCHANGED clock
    /\ UNCHANGED <<now, entries, pushes, session, closing, result, server, peer, disturbed>>

\* Reservoir::take under the lock.
Take(r) ==
    LET key == PoolKey(CredOf[r])
        hit == TakeHit(entries, key, clock[r], TTL)
    IN  /\ Goto(r, "take", "sweep")
        /\ entries' = TakeRest(entries, key, clock[r], TTL)
        /\ closing' = [closing EXCEPT ![r] =
                           {e.conn : e \in Expired(entries, clock[r], TTL)}]
        /\ \/ hit = {} /\ UNCHANGED session
           \/ \E e \in hit : session' = [session EXCEPT ![r] = e.conn]
        /\ clock' = [clock EXCEPT ![r] = 0]
        /\ UNCHANGED <<now, pushes, result, server, peer, disturbed>>

\* Slip: LOGOUT is awaited without a timeout.
CloseOneUnbounded(r) ==
    /\ pc[r] \in {"sweep", "evict"}
    /\ \E c \in closing[r] :
          /\ peer[c] # "hung"
          /\ closing' = [closing EXCEPT ![r] = @ \ {c}]
          /\ Drop({c})
    /\ UNCHANGED <<now, entries, pushes, pc, clock, session, result, login, disturbed>>

\* One close of close_all, or the close of a session that failed its NOOP:
\* LOGOUT answered, failed or timed out, the connection is dropped.
CloseOne(r) ==
    /\ pc[r] \in {"sweep", "evict"}
    /\ \E c \in closing[r] :
          /\ closing' = [closing EXCEPT ![r] = @ \ {c}]
          /\ Drop({c})
    /\ UNCHANGED <<now, entries, pushes, pc, clock, session, result, login, disturbed>>

\* Slip: the candidate is used without a NOOP.
SweptUnvalidated(r) ==
    /\ closing[r] = {}
    /\ \/ /\ session[r] # Null
          /\ Goto(r, "sweep", "select")
          /\ Send(session[r])
       \/ /\ session[r] = Null
          /\ Goto(r, "sweep", "login")
          /\ UNCHANGED unread
    /\ UNCHANGED <<now, entries, pushes, clock, session, closing, result,
                   open, login, selected, peer, disturbed>>

\* Everything is closed: validate the candidate, or log in when there is none.
Swept(r) ==
    /\ closing[r] = {}
    /\ \/ /\ session[r] # Null
          /\ Goto(r, "sweep", "noop")
          /\ Send(session[r])
       \/ /\ session[r] = Null
          /\ Goto(r, "sweep", "login")
          /\ UNCHANGED unread
    /\ UNCHANGED <<now, entries, pushes, clock, session, closing, result,
                   open, login, selected, peer, disturbed>>

\* NOOP answered OK: the session is warm, and SELECT is sent on it.
NoopOk(r) ==
    /\ Goto(r, "noop", "select")
    /\ peer[session[r]] = "alive"
    /\ UNCHANGED <<now, entries, pushes, clock, session, closing, result, server, peer, disturbed>>

\* Slip: a NOOP that timed out counts as a hit.
NoopTimeoutReused(r) ==
    /\ Goto(r, "noop", "select")
    /\ Send(session[r])
    /\ UNCHANGED <<now, entries, pushes, clock, session, closing, result,
                   open, login, selected, peer, disturbed>>

\* NOOP failed, or IO_TIMEOUT passed (a slow peer is as good as a dead one):
\* close the candidate, then log in.  The NOOP stays unread.
NoopFail(r) ==
    /\ Goto(r, "noop", "sweep")
    /\ closing' = [closing EXCEPT ![r] = {session[r]}]
    /\ session' = [session EXCEPT ![r] = Null]
    /\ UNCHANGED <<now, entries, pushes, clock, result, server, peer, disturbed>>

\* connect_and_login succeeded, and SELECT is sent.
LoginOk(r) ==
    /\ Goto(r, "login", "select")
    /\ peer[r] = "alive"
    /\ session' = [session EXCEPT ![r] = r]
    /\ open' = open \cup {r}
    /\ login' = [login EXCEPT ![r] = Login(CredOf[r])]
    /\ Send(r)
    /\ UNCHANGED <<now, entries, pushes, clock, closing, result,
                   selected, peer, disturbed>>

\* connect_and_login failed: the request ends, the client is dropped.
LoginFail(r) ==
    /\ Goto(r, "login", "done")
    /\ \E reply \in ErrorReplies(r) :
          result' = [result EXCEPT ![r] = LoginError(reply)]
    /\ UNCHANGED <<now, entries, pushes, clock, session, closing, server, peer, disturbed>>

-----------------------------------------------------------------------------
(* search_on and get_on *)

\* The operation is over with res, and its last response was read.
Settle(r, res) ==
    /\ result' = [result EXCEPT ![r] = res]
    /\ Receive(session[r])

\* Slip: SELECT is skipped on a session that has a mailbox selected.
SelectOkKept(r) ==
    /\ Goto(r, "select", IF OpOf[r] = "search" THEN "search" ELSE "fetch")
    /\ peer[session[r]] = "alive"
    /\ selected' = [selected EXCEPT ![session[r]] = IF @ = Null THEN MailboxOf[r] ELSE @]
    /\ UNCHANGED <<now, entries, pushes, clock, session, closing, result,
                   open, login, unread, peer, disturbed>>

\* SELECT accepted; SEARCH (search_on) or FETCH (get_on) is sent.
SelectOk(r) ==
    /\ Goto(r, "select", IF OpOf[r] = "search" THEN "search" ELSE "fetch")
    /\ peer[session[r]] = "alive"
    /\ selected' = [selected EXCEPT ![session[r]] = MailboxOf[r]]
    /\ UNCHANGED <<now, entries, pushes, clock, session, closing, result,
                   open, login, unread, peer, disturbed>>

\* SELECT refused: no mailbox is selected any more.  A reply other than NO
\* counts as a transport failure.
SelectFail(r) ==
    /\ Goto(r, "select", "release")
    /\ \E reply \in ErrorReplies(session[r]) :
          /\ Settle(r, SelectError(reply))
          /\ disturbed' = IF reply = "BAD" THEN disturbed \cup {r} ELSE disturbed
    /\ selected' = [selected EXCEPT ![session[r]] = Null]
    /\ UNCHANGED <<now, entries, pushes, clock, session, closing, open, login, peer>>

\* SEARCH accepted: FETCH the newest hits, or stop when there is none.
SearchOk(r) ==
    /\ \/ Goto(r, "search", "fetch") /\ UNCHANGED <<result, unread>>
       \/ Goto(r, "search", "release") /\ Settle(r, "answered")
    /\ peer[session[r]] = "alive"
    /\ UNCHANGED <<now, entries, pushes, clock, session, closing,
                   open, login, selected, peer, disturbed>>

\* FETCH accepted: summaries for search; for get, the message or not_found.
FetchOk(r) ==
    /\ Goto(r, "fetch", "release")
    /\ peer[session[r]] = "alive"
    /\ Settle(r, "answered")
    /\ UNCHANGED <<now, entries, pushes, clock, session, closing,
                   open, login, selected, peer, disturbed>>

\* SEARCH or FETCH refused, or the connection lost.
CommandFail(r) ==
    /\ \E phase \in {"search", "fetch"} : Goto(r, phase, "release")
    /\ \E reply \in ErrorReplies(session[r]) : Settle(r, CommandError(reply))
    /\ UNCHANGED <<now, entries, pushes, clock, session, closing,
                   open, login, selected, peer, disturbed>>

-----------------------------------------------------------------------------
(* release, give_back and logout *)

\* Slip: a disabled pool forgets the session instead of closing it.
ReleaseForgets(r) ==
    /\ \/ /\ r \notin Pooled \/ IsTransportError(result[r])
          /\ Goto(r, "release", "logout")
          /\ Send(session[r])
          /\ UNCHANGED <<clock, session>>
       \/ /\ r \in Pooled /\ ~IsTransportError(result[r]) /\ MaxIdle = 0
          /\ Goto(r, "release", "evict")
          /\ session' = [session EXCEPT ![r] = Null]
          /\ UNCHANGED <<clock, unread>>
       \/ /\ r \in Pooled /\ ~IsTransportError(result[r]) /\ MaxIdle > 0
          /\ Goto(r, "release", "put")
          /\ clock' = [clock EXCEPT ![r] = now]
          /\ UNCHANGED <<session, unread>>
    /\ UNCHANGED <<now, entries, pushes, closing, result, open, login, selected, peer, disturbed>>

\* release and the head of give_back: LOGOUT after a transport error or
\* outside the pool, close when the pool is disabled, else read the clock.
Release(r) ==
    /\ \/ /\ r \notin Pooled \/ IsTransportError(result[r])
          /\ Goto(r, "release", "logout")
          /\ Send(session[r])
          /\ UNCHANGED <<clock, session, closing>>
       \/ /\ r \in Pooled /\ ~IsTransportError(result[r]) /\ MaxIdle = 0
          /\ Goto(r, "release", "evict")
          /\ closing' = [closing EXCEPT ![r] = {session[r]}]
          /\ session' = [session EXCEPT ![r] = Null]
          /\ UNCHANGED <<clock, unread>>
       \/ /\ r \in Pooled /\ ~IsTransportError(result[r]) /\ MaxIdle > 0
          /\ Goto(r, "release", "put")
          /\ clock' = [clock EXCEPT ![r] = now]
          /\ UNCHANGED <<session, closing, unread>>
    /\ UNCHANGED <<now, entries, pushes, result, open, login, selected, peer, disturbed>>

\* Reservoir::put under the lock.
Put(r) ==
    LET e == Entry(PoolKey(CredOf[r]), session[r], clock[r], pushes + 1)
    IN  /\ Goto(r, "put", "evict")
        /\ entries' = PutRest(entries, e, clock[r], TTL, MaxIdle)
        /\ closing' = [closing EXCEPT ![r] =
                          {f.conn : f \in PutDead(entries, e, clock[r], TTL, MaxIdle)}]
        /\ pushes' = pushes + 1
        /\ session' = [session EXCEPT ![r] = Null]
        /\ clock' = [clock EXCEPT ![r] = 0]
        /\ UNCHANGED <<now, result, open, login, selected, unread, peer, disturbed>>

\* give_back returns, and with it the request.
Evicted(r) ==
    /\ closing[r] = {}
    /\ Goto(r, "evict", "done")
    /\ UNCHANGED <<now, entries, pushes, clock, session, closing, result, server, peer, disturbed>>

\* imap::logout: no timeout, so it returns only once the peer answers or is
\* known to be gone; the connection is dropped and the request returns.
Logout(r) ==
    /\ Goto(r, "logout", "done")
    /\ peer[session[r]] # "hung"
    /\ Drop({session[r]})
    /\ session' = [session EXCEPT ![r] = Null]
    /\ UNCHANGED <<now, entries, pushes, clock, closing, result, login, disturbed>>

-----------------------------------------------------------------------------
(* Environment *)

\* The future of the request is dropped at an await, with all it owns.
Cancel(r) ==
    /\ pc[r] \in Awaiting
    /\ pc' = [pc EXCEPT ![r] = "done"]
    /\ Drop(Held(r))
    /\ session' = [session EXCEPT ![r] = Null]
    /\ closing' = [closing EXCEPT ![r] = {}]
    /\ UNCHANGED <<now, entries, pushes, clock, result, login, disturbed>>

\* The server's end of c, or the path to it, disappears or stops answering.
PeerFails(c) ==
    /\ c \in Fragile
    /\ c \in open \/ pc[c] = "login"
    /\ \E to \in {"hung", "gone"} :
          /\ peer[c] # "gone" /\ peer[c] # to
          /\ peer' = [peer EXCEPT ![c] = to]
    /\ disturbed' = disturbed \cup
          {r \in Request : session[r] = c \/ (r = c /\ pc[r] = "login")}
    /\ UNCHANGED <<now, gateway, server>>

Tick ==
    /\ now < MaxTime
    /\ now' = now + 1
    /\ UNCHANGED <<gateway, server, peer, disturbed>>

-----------------------------------------------------------------------------
Acquire(r) == Start(r) \/ Take(r) \/ Swept(r) \/ NoopOk(r) \/ NoopFail(r)
                \/ LoginOk(r) \/ LoginFail(r)
Operate(r) == SelectOk(r) \/ SelectFail(r) \/ SearchOk(r) \/ FetchOk(r) \/ CommandFail(r)
Return(r)  == Release(r) \/ Put(r) \/ Evicted(r) \/ Logout(r)

Next ==
    \/ \E r \in Request : Acquire(r) \/ Operate(r) \/ Return(r) \/ CloseOne(r) \/ Cancel(r)
    \/ \E c \in Conn : PeerFails(c)
    \/ Tick

Spec == Init /\ [][Next]_vars

\* The runtime keeps polling a future that can make progress, and time passes.
\* Nothing makes a client start a request, and nothing makes a peer answer:
\* Progress is not enabled while the peer it waits for is hung, unless the
\* code has a timeout there.
Progress(r) == (Acquire(r) /\ pc[r] # "new") \/ Operate(r) \/ Return(r) \/ CloseOne(r)

FairSpec == Spec /\ (\A r \in Request : WF_vars(Progress(r))) /\ WF_vars(Tick)
-----------------------------------------------------------------------------
(* Properties *)

TypeOK ==
    /\ now \in Nat /\ pushes \in Nat
    /\ entries \subseteq [key : Keys, conn : Conn, stored_at : Nat, slot : Nat]
    /\ pc \in [Request -> Phase]
    /\ clock \in [Request -> Nat]
    /\ session \in [Request -> Conn \cup {Null}]
    /\ closing \in [Request -> SUBSET Conn]
    /\ result \in [Request -> Result]
    /\ open \subseteq Conn
    /\ login \in [Conn -> Logins \cup {Null}]
    /\ unread \in [Conn -> Int]
    /\ peer \in [Conn -> {"alive", "hung", "gone"}]
    /\ disturbed \subseteq Request

\* Every logged-in connection belongs to exactly one place: one entry of the
\* pool, or one request, which either works on it or is about to close it.
\* None is shared by two requests, none is both idle and in use, and none is
\* lost without being dropped, whatever takes, puts, evictions and
\* cancellations interleave.
SingleOwner ==
    /\ open = Idle \cup UNION {Held(r) : r \in Request}
    /\ \A e, f \in entries : e.conn = f.conn => e = f
    /\ \A r \in Request : Held(r) \cap Idle = {} /\ session[r] \notin closing[r]
    /\ \A r, q \in Request : r # q => Held(r) \cap Held(q) = {}

\* A request only ever works on a connection that was logged in with the
\* user name and password it presents, at the IMAP endpoint it names.
OwnLogin ==
    \A r \in Request : session[r] # Null => login[session[r]] = Login(CredOf[r])

\* The pool never holds more than max_idle connections, at no moment and
\* whatever puts race; a disabled pool holds none.
Bounded == Cardinality(entries) <= MaxIdle

\* No connection is kept while a response is outstanding on it: what one
\* request left unread can never be taken for an answer to the next.
IdleInSync == \A c \in Idle : unread[c] = 0

\* A request that runs SEARCH or FETCH on a warm session does so in the
\* mailbox it asked for, never in the one an earlier request left selected.
ReadsOwnMailbox ==
    \A r \in Request :
        pc[r] \in {"search", "fetch"} => selected[session[r]] = MailboxOf[r]

\* A connection that died while it was idle costs a login, not an error: a
\* request fails with a transport error only if the connection it used failed,
\* or its SELECT was refused as malformed, while the request held it.
NoSpuriousFailure ==
    \A r \in Request : result[r] = "transport" => r \in disturbed

\* What the pool promises, as a specification of its own.
Store == INSTANCE SessionStore WITH
    Session  <- Conn,
    Borrower <- Request,
    LoginOf  <- [r \in Request |-> Login(CredOf[r])],
    idle     <- Idle,
    lent     <- session,
    doomed   <- UNION {closing[r] : r \in Request}

ImplementsStore == Store!Spec

\* The housekeeping of the pool holds no request up for ever, not even when
\* the peers it tidies away or validates never answer.
Housekeeping == {"take", "sweep", "noop", "put", "evict"}

HousekeepingEnds ==
    \A r \in Request : pc[r] \in Housekeeping ~> pc[r] \notin Housekeeping

\* Only the server of the connection a request works on, or is opening, can
\* keep it from being answered: silent peers of other sessions cannot.
OwnPeerHung(r) ==
    \/ session[r] # Null /\ peer[session[r]] = "hung"
    \/ pc[r] = "login" /\ peer[r] = "hung"

AnsweredUnlessPeerHung ==
    \A r \in Request : pc[r] # "new" ~> pc[r] = "done" \/ OwnPeerHung(r)

-----------------------------------------------------------------------------
(* What the documentation says and the code does not do *)

\* src/imap.rs, logout: "a failed logout must not mask the operation's real
\* result".
LogoutReturns ==
    \A r \in Request : pc[r] = "logout" ~> pc[r] = "done"
=============================================================================

-------------------------- MODULE ImapSessionProofs --------------------------
(***************************************************************************)
(* What happens on the connections of ImapPool, for any number of requests *)
(* and any failures of the servers: responses are read by the request that *)
(* asked for them, in the mailbox it asked for, and a request fails only   *)
(* with the connection it holds.                                           *)
(***************************************************************************)
EXTENDS ImapPoolProofs

\* No response is outstanding on a connection that nobody works on.
Rested == \A c \in Conn : c \notin open \/ c \in Idle => unread[c] = 0

\* How many responses are outstanding in which phase, which mailbox is
\* selected, and that a server that has failed has done so in the hands of
\* the request; a connection that is not opened yet cannot have failed.
Calm(r) ==
    /\ pc[r] \in {"noop", "select", "search", "fetch"} => unread[session[r]] = 1
    /\ pc[r] \in {"sweep", "release", "put"} /\ session[r] # Null => unread[session[r]] = 0
    /\ pc[r] \in {"search", "fetch"} => selected[session[r]] = MailboxOf[r]
    /\ pc[r] \in {"select", "search", "fetch"} => peer[session[r]] = "alive" \/ r \in disturbed
    /\ pc[r] \in {"new", "take", "sweep", "noop"} => peer[r] = "alive"
    /\ pc[r] = "login" => peer[r] = "alive" \/ r \in disturbed
    /\ result[r] = "transport" => r \in disturbed

\* Every connection has a mailbox selected, or none.
SelectedOK == selected \in [Conn -> {MailboxOf[r] : r \in Request} \cup {Null}]

SInv == SelectedOK /\ Rested /\ \A r \in Request : Calm(r)

USE DEF Conn, Phase, Working, Emptied, Unopened

LEMMA InitSInv == Init => SInv
BY ConstantsOK DEF Init, SInv, SelectedOK, Rested, Calm, Idle

-----------------------------------------------------------------------------
(* Who is affected by a step *)

\* The connection a request works on is its own.
LEMMA OwnSession ==
    ASSUME IInv, NEW r \in Request, session[r] # Null
    PROVE  /\ session[r] \in Conn /\ session[r] \in open /\ session[r] \notin Idle
           /\ session[r] \in Held(r)
           /\ \A q \in Request : q # r => session[q] # session[r] /\ session[r] \notin Held(q)
<1>1. session[r] \in Conn /\ session[r] \in Held(r)
  BY DEF IInv, TypeOK, Held
<1>2. \A q \in Request : q # r => session[r] \notin Held(q)
  BY <1>1 DEF IInv, Owned
<1>3. \A q \in Request : q # r => session[q] # session[r]
  BY <1>2 DEF Held
<1>4. QED
  BY <1>1, <1>2, <1>3 DEF IInv, Owned

\* A request that neither moves nor has anything changed on its connection
\* keeps what it knows.
LEMMA Bystander ==
    ASSUME IInv, NEW q \in Request, Calm(q),
           pc'[q] = pc[q], session'[q] = session[q], result'[q] = result[q],
           disturbed \subseteq disturbed',
           session[q] # Null => /\ unread'[session[q]] = unread[session[q]]
                                /\ selected'[session[q]] = selected[session[q]]
                                /\ peer'[session[q]] = peer[session[q]],
           pc[q] \in Unopened => peer'[q] = peer[q]
    PROVE  Calm(q)'
<1>1. pc[q] \in {"noop", "select", "search", "fetch"} => session[q] # Null
  BY DEF IInv, Shape
<1>2. QED
  BY <1>1 DEF Calm

\* The others, when a request moves and the connections keep their state but
\* for what is unread and selected on its own.
LEMMA OthersCalm ==
    ASSUME IInv, SInv, NEW r \in Request,
           NEW c \in {session[r], Null},
           \A q \in Request : q # r => pc'[q] = pc[q] /\ session'[q] = session[q] /\ result'[q] = result[q],
           disturbed \subseteq disturbed',
           UNCHANGED peer,
           \A d \in Conn : d # c => unread'[d] = unread[d] /\ selected'[d] = selected[d]
    PROVE  \A q \in Request : q # r => Calm(q)'
<1> SUFFICES ASSUME NEW q \in Request, q # r PROVE Calm(q)'
  OBVIOUS
<1>1. session[q] # Null => session[q] \in Conn /\ session[q] # c
  BY OwnSession DEF IInv, TypeOK
<1>2. session[q] # Null => /\ unread'[session[q]] = unread[session[q]]
                           /\ selected'[session[q]] = selected[session[q]]
                           /\ peer'[session[q]] = peer[session[q]]
  BY <1>1
<1>3. QED
  BY <1>2, Bystander DEF SInv

\* What rests goes on to rest, when nothing becomes idle and what is unread
\* changes only on the connection of a request.
LEMMA StillRested ==
    ASSUME IInv, SInv, NEW r \in Request, NEW c \in {session[r], Null},
           UNCHANGED <<entries, open>>,
           \A d \in Conn : d # c => unread'[d] = unread[d]
    PROVE  Rested'
<1>1. Idle' = Idle
  BY DEF Idle
<1>2. c # Null => c \in open /\ c \notin Idle
  BY OwnSession
<1>3. QED
  BY <1>1, <1>2, ConstantsOK DEF SInv, Rested

\* What a request that goes on does to the others and to what rests, by one
\* step on its own connection.
LEMMA OwnStep ==
    ASSUME IInv, SInv, NEW r \in Request, NEW from, NEW to \in Phase, Goto(r, from, to),
           NEW c \in {session[r], Null},
           UNCHANGED <<entries, open, peer>>,
           \A q \in Request : q # r => session'[q] = session[q] /\ result'[q] = result[q],
           disturbed \subseteq disturbed',
           \A d \in Conn : d # c => unread'[d] = unread[d] /\ selected'[d] = selected[d],
           SelectedOK', Calm(r)'
    PROVE  SInv'
<1>1. \A q \in Request : q # r => pc'[q] = pc[q]
  BY GotoType DEF IInv
<1>2. Rested'
  BY StillRested
<1>3. \A q \in Request : q # r => Calm(q)'
  BY <1>1, OthersCalm
<1>4. QED
  BY <1>2, <1>3 DEF SInv

-----------------------------------------------------------------------------
(* The steps on a request's own connection, or on none *)

\* A step that changes nothing on any connection.
LEMMA QuietStep ==
    ASSUME IInv, SInv, NEW r \in Request, NEW from, NEW to \in Phase, Goto(r, from, to),
           UNCHANGED <<entries, open, peer, unread, selected, disturbed>>,
           \A q \in Request : q # r => session'[q] = session[q] /\ result'[q] = result[q],
           Calm(r)'
    PROVE  SInv'
<1>1. PICK c \in {session[r], Null} : c = Null
  OBVIOUS
<1>2. SelectedOK'
  BY DEF SInv, SelectedOK
<1>3. QED
  BY <1>1, <1>2, OwnStep

LEMMA StartCalm == ASSUME IInv, SInv, NEW r \in Request, Start(r) PROVE SInv'
<1>1. PICK to \in {"take", "login"} : Goto(r, "new", to)
  BY DEF Start
<1>2. UNCHANGED <<entries, session, result, open, peer, unread, selected, disturbed>>
  BY DEF Start, server
<1>3. Calm(r)'
  BY <1>1, <1>2, GotoType DEF IInv, SInv, Calm
<1>4. QED
  BY <1>1, <1>2, <1>3, QuietStep

LEMMA NoopOkCalm == ASSUME IInv, SInv, NEW r \in Request, NoopOk(r) PROVE SInv'
<1>1. Goto(r, "noop", "select")
  BY DEF NoopOk
<1>2. UNCHANGED <<entries, session, result, open, peer, unread, selected, disturbed>>
  BY DEF NoopOk, server
<1>3. Calm(r)'
  BY <1>1, <1>2, GotoType DEF IInv, SInv, Calm, NoopOk
<1>4. QED
  BY <1>1, <1>2, <1>3, QuietStep

LEMMA NoopFailCalm == ASSUME IInv, SInv, NEW r \in Request, NoopFail(r) PROVE SInv'
<1>1. Goto(r, "noop", "sweep")
  BY DEF NoopFail
<1>2. /\ UNCHANGED <<entries, result, open, peer, unread, selected, disturbed>>
      /\ session'[r] = Null
      /\ \A q \in Request : q # r => session'[q] = session[q]
  BY DEF NoopFail, server, IInv, TypeOK
<1>3. Calm(r)'
  BY <1>1, <1>2, GotoType DEF IInv, SInv, Calm
<1>4. QED
  BY <1>1, <1>2, <1>3, QuietStep

LEMMA LoginFailCalm == ASSUME IInv, SInv, NEW r \in Request, LoginFail(r) PROVE SInv'
<1>1. Goto(r, "login", "done") /\ pc[r] = "login"
  BY DEF LoginFail, Goto
<1>2. UNCHANGED <<entries, session, open, peer, unread, selected, disturbed>>
  BY DEF LoginFail, server
<1>3. PICK reply \in ErrorReplies(r) : result' = [result EXCEPT ![r] = LoginError(reply)]
  BY DEF LoginFail
<1>4. /\ result'[r] = LoginError(reply)
      /\ \A q \in Request : q # r => result'[q] = result[q]
  BY <1>3 DEF IInv, TypeOK
<1>5. result'[r] = "transport" => r \in disturbed
  BY <1>1, <1>4 DEF LoginError, ErrorReplies, SInv, Calm
<1>6. pc'[r] = "done"
  BY <1>1, GotoType DEF IInv
<1>7. Calm(r)'
  BY <1>2, <1>5, <1>6 DEF Calm
<1>8. QED
  BY <1>1, <1>2, <1>4, <1>7, QuietStep

LEMMA EvictedCalm == ASSUME IInv, SInv, NEW r \in Request, Evicted(r) PROVE SInv'
<1>1. Goto(r, "evict", "done")
  BY DEF Evicted
<1>2. UNCHANGED <<entries, session, result, open, peer, unread, selected, disturbed>>
  BY DEF Evicted, server
<1>3. Calm(r)'
  BY <1>1, <1>2, GotoType DEF IInv, SInv, Calm
<1>4. QED
  BY <1>1, <1>2, <1>3, QuietStep

\* A step that sends on, reads from or selects on the connection r works on,
\* and goes on working on it.
LEMMA WorkingStep ==
    ASSUME IInv, SInv, NEW r \in Request, NEW from, NEW to \in Phase, Goto(r, from, to),
           session[r] # Null,
           UNCHANGED <<entries, session, open, peer>>,
           \A q \in Request : q # r => result'[q] = result[q],
           disturbed \subseteq disturbed',
           \A d \in Conn : d # session[r] => unread'[d] = unread[d] /\ selected'[d] = selected[d],
           SelectedOK', Calm(r)'
    PROVE  SInv'
<1>1. PICK c \in {session[r], Null} : c = session[r]
  OBVIOUS
<1>2. QED
  BY <1>1, OwnStep

LEMMA SweptCalm == ASSUME IInv, SInv, NEW r \in Request, Swept(r) PROVE SInv'
<1>1. UNCHANGED <<entries, session, result, open, peer, selected, disturbed>>
  BY DEF Swept
<1>2. SelectedOK'
  BY <1>1 DEF SInv, SelectedOK
<1>3. CASE session[r] # Null
  <2>1. Goto(r, "sweep", "noop") /\ Send(session[r])
    BY <1>3 DEF Swept
  <2>2. /\ unread'[session[r]] = unread[session[r]] + 1
        /\ \A d \in Conn : d # session[r] => unread'[d] = unread[d]
    BY <1>3, <2>1 DEF Send, IInv, TypeOK
  <2>3. unread[session[r]] = 0 /\ pc[r] = "sweep" /\ pc'[r] = "noop"
    BY <1>3, <2>1, GotoType DEF Goto, IInv, SInv, Calm
  <2>4. Calm(r)'
    BY <1>1, <2>2, <2>3 DEF SInv, Calm
  <2>5. QED
    BY <1>1, <1>2, <1>3, <2>1, <2>2, <2>4, WorkingStep
<1>4. CASE session[r] = Null
  <2>1. Goto(r, "sweep", "login") /\ unread' = unread
    BY <1>4 DEF Swept
  <2>2. Calm(r)'
    BY <1>1, <2>1, GotoType DEF IInv, SInv, Calm
  <2>3. QED
    BY <1>1, <2>1, <2>2, QuietStep
<1>5. QED
  BY <1>3, <1>4

LEMMA SelectOkCalm == ASSUME IInv, SInv, NEW r \in Request, SelectOk(r) PROVE SInv'
<1>1. PICK to \in {"search", "fetch"} : Goto(r, "select", to)
  BY DEF SelectOk
<1>2. UNCHANGED <<entries, session, result, open, peer, unread, disturbed>>
  BY DEF SelectOk
<1>3. pc[r] = "select" /\ pc'[r] = to /\ session[r] # Null /\ session[r] \in Conn
  <2>1. pc[r] = "select" /\ pc'[r] = to
    BY <1>1, GotoType DEF IInv
  <2>2. QED
    BY <2>1 DEF IInv, TypeOK, Shape
<1>4. /\ SelectedOK'
      /\ selected'[session[r]] = MailboxOf[r]
      /\ \A d \in Conn : d # session[r] => selected'[d] = selected[d]
  BY <1>3 DEF SelectOk, SInv, SelectedOK
<1>5. Calm(r)'
  BY <1>2, <1>3, <1>4 DEF SInv, Calm
<1>6. QED
  BY <1>1, <1>2, <1>3, <1>4, <1>5, WorkingStep

\* The operation of r is over: its response was read, and r is disturbed when
\* it failed with the connection.
LEMMA SettleStep ==
    ASSUME IInv, SInv, NEW r \in Request,
           NEW from \in {"select", "search", "fetch"}, Goto(r, from, "release"),
           NEW res, Settle(r, res), res = "transport" => r \in disturbed',
           UNCHANGED <<entries, session, open, peer>>,
           disturbed \subseteq disturbed',
           \A d \in Conn : d # session[r] => selected'[d] = selected[d],
           SelectedOK'
    PROVE  SInv'
<1>1. pc[r] = from /\ pc'[r] = "release" /\ session[r] # Null /\ session[r] \in Conn
  BY GotoType DEF IInv, TypeOK, Shape
<1>2. unread[session[r]] = 1
  BY <1>1 DEF SInv, Calm
<1>3. /\ unread'[session[r]] = 0
      /\ \A d \in Conn : d # session[r] => unread'[d] = unread[d]
  BY <1>1, <1>2 DEF Settle, Receive, IInv, TypeOK
<1>4. result'[r] = res /\ \A q \in Request : q # r => result'[q] = result[q]
  BY DEF Settle, IInv, TypeOK
<1>5. Calm(r)'
  BY <1>1, <1>3, <1>4 DEF Calm
<1>6. QED
  BY <1>1, <1>3, <1>4, <1>5, WorkingStep

LEMMA SelectFailCalm == ASSUME IInv, SInv, NEW r \in Request, SelectFail(r) PROVE SInv'
<1>1. Goto(r, "select", "release") /\ UNCHANGED <<entries, session, open, peer>>
  BY DEF SelectFail
<1>2. PICK reply \in ErrorReplies(session[r]) :
         /\ Settle(r, SelectError(reply))
         /\ disturbed' = IF reply = "BAD" THEN disturbed \cup {r} ELSE disturbed
  BY DEF SelectFail
<1>3. pc[r] = "select" /\ session[r] \in Conn
  BY <1>1 DEF Goto, IInv, TypeOK, Shape
<1>4. SelectedOK' /\ \A d \in Conn : d # session[r] => selected'[d] = selected[d]
  BY <1>3 DEF SelectFail, SInv, SelectedOK
<1>5. SelectError(reply) = "transport" => r \in disturbed'
  BY <1>2, <1>3 DEF SelectError, ErrorReplies, SInv, Calm
<1>6. disturbed \subseteq disturbed'
  BY <1>2
<1>7. QED
  BY <1>1, <1>2, <1>4, <1>5, <1>6, SettleStep

LEMMA CommandFailCalm == ASSUME IInv, SInv, NEW r \in Request, CommandFail(r) PROVE SInv'
<1>1. PICK from \in {"search", "fetch"} : Goto(r, from, "release")
  BY DEF CommandFail
<1>2. UNCHANGED <<entries, session, open, peer, selected, disturbed>>
  BY DEF CommandFail
<1>3. PICK reply \in ErrorReplies(session[r]) : Settle(r, CommandError(reply))
  BY DEF CommandFail
<1>4. CommandError(reply) = "transport" => r \in disturbed
  BY <1>1, <1>3 DEF CommandError, ErrorReplies, Goto, SInv, Calm
<1>5. SelectedOK'
  BY <1>2 DEF SInv, SelectedOK
<1>6. QED
  BY <1>1, <1>2, <1>3, <1>4, <1>5, SettleStep

LEMMA FetchOkCalm == ASSUME IInv, SInv, NEW r \in Request, FetchOk(r) PROVE SInv'
<1>1. Goto(r, "fetch", "release") /\ Settle(r, "answered")
  BY DEF FetchOk
<1>2. UNCHANGED <<entries, session, open, peer, selected, disturbed>>
  BY DEF FetchOk
<1>3. SelectedOK'
  BY <1>2 DEF SInv, SelectedOK
<1>4. PICK res : res = "answered"
  OBVIOUS
<1>5. QED
  BY <1>1, <1>2, <1>3, <1>4, SettleStep

LEMMA SearchOkCalm == ASSUME IInv, SInv, NEW r \in Request, SearchOk(r) PROVE SInv'
<1>1. UNCHANGED <<entries, session, open, peer, selected, disturbed>>
  BY DEF SearchOk
<1>2. SelectedOK'
  BY <1>1 DEF SInv, SelectedOK
<1>3. CASE Goto(r, "search", "fetch") /\ UNCHANGED <<result, unread>>
  <2>1. pc[r] = "search" /\ pc'[r] = "fetch"
    BY <1>3, GotoType DEF IInv
  <2>2. Calm(r)'
    BY <1>1, <1>3, <2>1 DEF SInv, Calm
  <2>3. QED
    BY <1>1, <1>3, <2>2, QuietStep
<1>4. CASE Goto(r, "search", "release") /\ Settle(r, "answered")
  <2>1. PICK res : res = "answered"
    OBVIOUS
  <2>2. QED
    BY <1>1, <1>2, <1>4, <2>1, SettleStep
<1>5. QED
  BY <1>3, <1>4 DEF SearchOk

LEMMA ReleaseCalm == ASSUME IInv, SInv, NEW r \in Request, Release(r) PROVE SInv'
<1>1. UNCHANGED <<entries, result, open, selected, peer, disturbed>>
  BY DEF Release
<1>2. pc[r] = "release" /\ session[r] # Null /\ session[r] \in Conn
  BY DEF Release, Goto, IInv, TypeOK, Shape
<1>3. SelectedOK'
  BY <1>1 DEF SInv, SelectedOK
<1>4. CASE Goto(r, "release", "logout") /\ Send(session[r]) /\ session' = session
  <2>1. pc'[r] = "logout"
    BY <1>4, GotoType DEF IInv
  <2>2. \A d \in Conn : d # session[r] => unread'[d] = unread[d]
    BY <1>2, <1>4 DEF Send, IInv, TypeOK
  <2>3. Calm(r)'
    BY <1>1, <2>1 DEF SInv, Calm
  <2>4. QED
    BY <1>1, <1>2, <1>3, <1>4, <2>2, <2>3, WorkingStep
<1>5. CASE /\ Goto(r, "release", "evict") /\ unread' = unread
           /\ session' = [session EXCEPT ![r] = Null]
  <2>1. pc'[r] = "evict"
    BY <1>5, GotoType DEF IInv
  <2>2. session'[r] = Null /\ \A q \in Request : q # r => session'[q] = session[q]
    BY <1>5 DEF IInv, TypeOK
  <2>3. Calm(r)'
    BY <1>1, <2>1, <2>2 DEF SInv, Calm
  <2>4. QED
    BY <1>1, <1>5, <2>2, <2>3, QuietStep
<1>6. CASE Goto(r, "release", "put") /\ UNCHANGED <<session, unread>>
  <2>1. pc'[r] = "put"
    BY <1>6, GotoType DEF IInv
  <2>2. Calm(r)'
    BY <1>1, <1>2, <1>6, <2>1 DEF SInv, Calm
  <2>3. QED
    BY <1>1, <1>6, <2>2, QuietStep
<1>7. QED
  BY <1>4, <1>5, <1>6 DEF Release

-----------------------------------------------------------------------------
(* The steps that open, drop, lend and take back connections *)

LEMMA LoginOkCalm == ASSUME IInv, SInv, NEW r \in Request, LoginOk(r) PROVE SInv'
<1>1. Goto(r, "login", "select")
  BY DEF LoginOk
<1>2. pc[r] = "login" /\ pc'[r] = "select" /\ \A q \in Request : q # r => pc'[q] = pc[q]
  BY <1>1, GotoType DEF IInv
<1>3. r \notin open /\ unread[r] = 0 /\ \A q \in Request : r \notin Held(q)
  BY <1>2 DEF IInv, SInv, Fresh, Owned, Rested
<1>4. UNCHANGED <<entries, result, selected, peer, disturbed>> /\ open' = open \cup {r}
        /\ peer[r] = "alive"
  BY DEF LoginOk
<1>5. session'[r] = r /\ \A q \in Request : q # r => session'[q] = session[q]
  BY DEF LoginOk, IInv, TypeOK
<1>6. unread'[r] = 1 /\ \A d \in Conn : d # r => unread'[d] = unread[d]
  BY <1>3 DEF LoginOk, Send, IInv, TypeOK
<1>7. SelectedOK' /\ Rested'
  <2>1. Idle' = Idle /\ r \notin Idle
    BY <1>3, <1>4 DEF Idle, IInv, Owned
  <2>2. QED
    BY <1>4, <1>6, <2>1 DEF SInv, SelectedOK, Rested
<1>8. ASSUME NEW q \in Request, q # r PROVE Calm(q)'
  <2>1. session[q] # Null => session[q] \in Conn /\ session[q] # r
    BY <1>3 DEF Held, IInv, TypeOK
  <2>2. session[q] # Null => /\ unread'[session[q]] = unread[session[q]]
                             /\ selected'[session[q]] = selected[session[q]]
                             /\ peer'[session[q]] = peer[session[q]]
    BY <1>4, <1>6, <2>1
  <2>3. QED
    BY <1>2, <1>4, <1>5, <1>8, <2>2, Bystander DEF SInv
<1>9. Calm(r)'
  BY <1>2, <1>4, <1>5, <1>6 DEF SInv, Calm
<1>10. QED
  BY <1>7, <1>8, <1>9 DEF SInv

\* What dropping connections that r holds does to the rest.
LEMMA DropCalm ==
    ASSUME IInv, SInv, NEW r \in Request, NEW cs \in SUBSET Held(r), Drop(cs),
           UNCHANGED <<entries, result, disturbed>>,
           \A q \in Request : q # r => pc'[q] = pc[q] /\ session'[q] = session[q],
           Calm(r)'
    PROVE  SInv'
<1>1. cs \subseteq Conn /\ cs \subseteq open
  BY DEF IInv, TypeOK, Held, Owned
<1>2. \A c \in Conn : c \notin cs => /\ unread'[c] = unread[c]
                                     /\ selected'[c] = selected[c]
                                     /\ peer'[c] = peer[c]
  BY DEF Drop
<1>3. SelectedOK'
  BY DEF Drop, SInv, SelectedOK
<1>4. Rested'
  <2>1. Idle' = Idle
    BY DEF Idle
  <2>2. QED
    BY <2>1 DEF Drop, SInv, Rested
<1>5. ASSUME NEW q \in Request, q # r PROVE Calm(q)'
  <2>1. session[q] # Null => session[q] \in Conn /\ session[q] \notin cs
    BY <1>5 DEF IInv, TypeOK, Owned, Held
  <2>2. pc[q] \in Unopened => q \notin cs
    BY <1>1 DEF IInv, Fresh
  <2>3. QED
    BY <1>2, <1>5, <2>1, <2>2, Bystander DEF SInv
<1>6. QED
  BY <1>3, <1>4, <1>5 DEF SInv

LEMMA CloseOneCalm == ASSUME IInv, SInv, NEW r \in Request, CloseOne(r) PROVE SInv'
<1>1. PICK c \in closing[r] : Drop({c})
  BY DEF CloseOne
<1>2. UNCHANGED <<entries, pc, session, result, disturbed>>
  BY DEF CloseOne
<1>3. PICK cs \in SUBSET Held(r) : cs = {c}
  BY DEF Held
<1>4. c \in open /\ session[r] # c
  BY DEF IInv, Owned, Held, TypeOK
<1>5. session[r] # Null => /\ unread'[session[r]] = unread[session[r]]
                           /\ selected'[session[r]] = selected[session[r]]
                           /\ peer'[session[r]] = peer[session[r]]
  BY <1>1, <1>4 DEF Drop, IInv, TypeOK
<1>6. pc[r] \in Unopened => peer'[r] = peer[r]
  BY <1>1, <1>4 DEF Drop, IInv, Fresh
<1>7. Calm(r)'
  BY <1>2, <1>5, <1>6, Bystander DEF SInv
<1>8. QED
  BY <1>1, <1>2, <1>3, <1>7, DropCalm

LEMMA EndCalm ==
    ASSUME IInv, SInv, NEW r \in Request, NEW cs \in SUBSET Held(r), Drop(cs),
           pc' = [pc EXCEPT ![r] = "done"], session' = [session EXCEPT ![r] = Null],
           UNCHANGED <<entries, result, disturbed>>
    PROVE  SInv'
<1>1. /\ pc'[r] = "done" /\ session'[r] = Null
      /\ \A q \in Request : q # r => pc'[q] = pc[q] /\ session'[q] = session[q]
  BY DEF IInv, TypeOK
<1>2. Calm(r)'
  BY <1>1 DEF SInv, Calm
<1>3. QED
  BY <1>1, <1>2, DropCalm

LEMMA CancelCalm == ASSUME IInv, SInv, NEW r \in Request, Cancel(r) PROVE SInv'
<1>1. PICK cs \in SUBSET Held(r) : cs = Held(r)
  OBVIOUS
<1>2. QED
  BY <1>1, EndCalm DEF Cancel

LEMMA LogoutCalm == ASSUME IInv, SInv, NEW r \in Request, Logout(r) PROVE SInv'
<1>1. session[r] # Null
  BY DEF Logout, Goto, IInv, Shape
<1>2. PICK cs \in SUBSET Held(r) : cs = {session[r]}
  BY <1>1 DEF Held
<1>3. QED
  BY <1>2, EndCalm DEF Logout, Goto

LEMMA TakeCalm == ASSUME IInv, SInv, NEW r \in Request, Take(r) PROVE SInv'
<1> DEFINE hit  == TakeHit(entries, PoolKey(CredOf[r]), clock[r], TTL)
           rest == TakeRest(entries, PoolKey(CredOf[r]), clock[r], TTL)
<1>1. Goto(r, "take", "sweep") /\ entries' = rest
        /\ (session' = session \/ \E e \in hit : session' = [session EXCEPT ![r] = e.conn])
        /\ UNCHANGED <<result, open, unread, selected, peer, disturbed>>
  BY DEF Take, server
<1>2. hit \subseteq entries /\ rest \subseteq entries
  BY TakeSplits
<1> HIDE DEF hit, rest
<1>3. pc[r] = "take" /\ pc'[r] = "sweep" /\ \A q \in Request : q # r => pc'[q] = pc[q]
  BY <1>1, GotoType DEF IInv
<1>4. session[r] = Null
  BY <1>3 DEF IInv, Shape
<1>5. session'[r] \in Idle \cup {Null} /\ \A q \in Request : q # r => session'[q] = session[q]
  BY <1>1, <1>2, <1>4 DEF Idle, IInv, TypeOK
<1>6. Idle' \subseteq Idle /\ Idle \subseteq Conn
  BY <1>1, <1>2 DEF Idle, IInv, TypeOK
<1>7. SelectedOK' /\ Rested'
  BY <1>1, <1>6 DEF SInv, SelectedOK, Rested
<1>8. Calm(r)'
  <2>1. session'[r] # Null => unread'[session'[r]] = 0
    BY <1>1, <1>5, <1>6 DEF SInv, Rested
  <2>2. QED
    BY <1>1, <1>3, <2>1 DEF SInv, Calm
<1>9. \A q \in Request : q # r => Calm(q)'
  BY <1>1, <1>3, <1>5, Bystander DEF SInv
<1>10. QED
  BY <1>7, <1>8, <1>9 DEF SInv

LEMMA PutCalm == ASSUME IInv, SInv, NEW r \in Request, Put(r) PROVE SInv'
<1> DEFINE e    == Entry(PoolKey(CredOf[r]), session[r], clock[r], pushes + 1)
           rest == PutRest(entries, e, clock[r], TTL, MaxIdle)
<1>1. Goto(r, "put", "evict") /\ entries' = rest /\ session' = [session EXCEPT ![r] = Null]
        /\ UNCHANGED <<result, open, unread, selected, peer, disturbed>>
  BY DEF Put
<1>2. rest \subseteq entries \cup {e} /\ e.conn = session[r]
  BY PutSplits DEF Entry
<1> HIDE DEF e, rest
<1>3. pc[r] = "put" /\ pc'[r] = "evict" /\ \A q \in Request : q # r => pc'[q] = pc[q]
  BY <1>1, GotoType DEF IInv
<1>4. session[r] # Null /\ unread[session[r]] = 0
  BY <1>3 DEF IInv, SInv, Shape, Calm
<1>5. session'[r] = Null /\ \A q \in Request : q # r => session'[q] = session[q]
  BY <1>1 DEF IInv, TypeOK
<1>6. Idle' \subseteq Idle \cup {session[r]}
  BY <1>1, <1>2 DEF Idle
<1>7. SelectedOK' /\ Rested'
  BY <1>1, <1>4, <1>6 DEF SInv, SelectedOK, Rested
<1>8. Calm(r)'
  BY <1>1, <1>3, <1>5 DEF SInv, Calm
<1>9. \A q \in Request : q # r => Calm(q)'
  BY <1>1, <1>3, <1>5, Bystander DEF SInv
<1>10. QED
  BY <1>7, <1>8, <1>9 DEF SInv

\* A server that fails fails in the hands of whoever works on its connection;
\* a connection that is not opened yet has none to fail.
LEMMA PeerFailsCalm == ASSUME IInv, SInv, NEW c \in Conn, PeerFails(c) PROVE SInv'
<1>1. UNCHANGED <<entries, pc, session, result, open, unread, selected>>
  BY DEF PeerFails, gateway, server
<1>2. /\ c \in open \/ pc[c] = "login"
      /\ \A d \in Conn : d # c => peer'[d] = peer[d]
      /\ disturbed' = disturbed \cup {r \in Request : session[r] = c \/ (r = c /\ pc[r] = "login")}
  BY DEF PeerFails, IInv, TypeOK
<1>3. SelectedOK' /\ Rested'
  BY <1>1 DEF SInv, SelectedOK, Rested, Idle
<1>4. ASSUME NEW q \in Request PROVE Calm(q)'
  <2>1. session[q] \in Conn \cup {Null} /\ Calm(q)
    BY DEF SInv, IInv, TypeOK
  <2>2. pc[q] \in {"select", "search", "fetch"} => session[q] # Null
    BY DEF IInv, Shape
  <2>3. pc[q] \in {"select", "search", "fetch"} => peer'[session[q]] = "alive" \/ q \in disturbed'
    BY <1>2, <2>1, <2>2 DEF Calm
  <2>4. pc[q] \in {"new", "take", "sweep", "noop"} => q # c
    BY <1>2 DEF IInv, Fresh
  <2>5. pc[q] = "login" => peer'[q] = "alive" \/ q \in disturbed'
    BY <1>2, <2>1 DEF Calm
  <2>6. disturbed \subseteq disturbed'
    BY <1>2
  <2>7. QED
    BY <1>1, <1>2, <2>1, <2>3, <2>4, <2>5, <2>6 DEF Calm
<1>5. QED
  BY <1>3, <1>4 DEF SInv

LEMMA IdleCalm ==
    ASSUME SInv, UNCHANGED <<gateway, server, peer, disturbed>>
    PROVE  SInv'
BY DEF SInv, SelectedOK, Rested, Calm, Idle, gateway, server

-----------------------------------------------------------------------------
(* The invariant and what follows from it *)

LEMMA NextSInv == IInv /\ SInv /\ [Next]_vars => SInv'
<1> SUFFICES ASSUME IInv, SInv, [Next]_vars PROVE SInv'
  OBVIOUS
<1>1. CASE UNCHANGED <<gateway, server, peer, disturbed>>
  BY <1>1, IdleCalm
<1>2. CASE \E c \in Conn : PeerFails(c)
  BY <1>2, PeerFailsCalm
<1>3. ASSUME NEW r \in Request, Acquire(r) PROVE SInv'
  BY <1>3, StartCalm, TakeCalm, SweptCalm, NoopOkCalm, NoopFailCalm, LoginOkCalm,
     LoginFailCalm DEF Acquire
<1>4. ASSUME NEW r \in Request, Operate(r) PROVE SInv'
  BY <1>4, SelectOkCalm, SelectFailCalm, SearchOkCalm, FetchOkCalm, CommandFailCalm DEF Operate
<1>5. ASSUME NEW r \in Request, Return(r) PROVE SInv'
  BY <1>5, ReleaseCalm, PutCalm, EvictedCalm, LogoutCalm DEF Return
<1>6. ASSUME NEW r \in Request, CloseOne(r) \/ Cancel(r) PROVE SInv'
  BY <1>6, CloseOneCalm, CancelCalm
<1>7. QED
  BY <1>1, <1>2, <1>3, <1>4, <1>5, <1>6 DEF Next, Tick, vars

\* Whatever requests, failures and cancellations interleave, what is known of
\* the ownership of the connections and of their state is kept.
THEOREM SessionInvariant == Spec => [](IInv /\ SInv)
<1>1. Init => SInv
  BY InitSInv
<1>2. QED
  BY <1>1, NextSInv, Invariance, PTL DEF Spec

\* No connection is kept with a response outstanding on it, so that what one
\* request left unread is never taken for an answer to the next.
THEOREM KeptInSync == Spec => []IdleInSync
<1>1. IInv /\ SInv => IdleInSync
  BY DEF IInv, TypeOK, Idle, SInv, Rested, IdleInSync
<1>2. QED
  BY <1>1, SessionInvariant, PTL

\* SEARCH and FETCH run in the mailbox that the request asked for, also on a
\* connection that an earlier request left in another one.
THEOREM OwnMailbox == Spec => []ReadsOwnMailbox
<1>1. IInv /\ SInv => ReadsOwnMailbox
  BY DEF SInv, Calm, ReadsOwnMailbox
<1>2. QED
  BY <1>1, SessionInvariant, PTL

\* A request fails with a transport error only when its connection failed, or
\* its SELECT was refused as malformed, while the request held it: a
\* connection that died in the pool costs a login and no error.
THEOREM FailsOnlyWithItsConnection == Spec => []NoSpuriousFailure
<1>1. IInv /\ SInv => NoSpuriousFailure
  BY DEF SInv, Calm, NoSpuriousFailure
<1>2. QED
  BY <1>1, SessionInvariant, PTL

=============================================================================

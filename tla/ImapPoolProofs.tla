--------------------------- MODULE ImapPoolProofs ---------------------------
(***************************************************************************)
(* The safety of ImapPool for any number of requests, any cap and any TTL. *)
(***************************************************************************)
EXTENDS ImapPool, ReservoirProofs

\* The phases before a request has opened its own connection, and those in
\* which it has a connection to work on or has none.
Unopened  == {"new", "take", "sweep", "noop", "login"}
Working   == {"noop", "select", "search", "fetch", "release", "put", "logout"}
Emptied   == {"new", "take", "login", "evict", "done"}

\* A request works on a connection in the phases that need one, and has some
\* to close only in close_all.
Shape ==
    \A r \in Request :
        /\ pc[r] \in Working => session[r] # Null
        /\ pc[r] \in Emptied => session[r] = Null
        /\ pc[r] \notin {"sweep", "evict"} => closing[r] = {}

\* The connection of a request that has not logged in is nowhere.
Fresh ==
    \A r \in Request : pc[r] \in Unopened => r \notin open /\ login[r] = Null

\* SingleOwner, connection by connection.
Owned ==
    /\ \A c \in Conn : c \in open <=> c \in Idle \/ \E r \in Request : c \in Held(r)
    /\ \A e, f \in entries : e.conn = f.conn => e = f
    /\ \A r \in Request : Held(r) \cap Idle = {} /\ session[r] \notin closing[r]
    /\ \A r, q \in Request : r # q => Held(r) \cap Held(q) = {}

\* An entry is filed under the key of the login its connection was opened with.
KeysMatch ==
    \A e \in entries : \E q \in Request :
        e.key = PoolKey(CredOf[q]) /\ login[e.conn] = Login(CredOf[q])

\* The slots of the entries are distinct, and none is ahead of the counter.
SlotsOK == Slotted(entries) /\ \A e \in entries : e.slot <= pushes

IInv == TypeOK /\ Shape /\ Fresh /\ Owned /\ KeysMatch /\ OwnLogin /\ SlotsOK

-----------------------------------------------------------------------------
(* Facts used throughout *)

USE DEF Conn

LEMMA InitIInv == Init => IInv
<1> SUFFICES ASSUME Init PROVE IInv
  OBVIOUS
<1> USE DEF Init
<1>1. TypeOK
  BY DEF TypeOK, Phase, Result
<1>2. Shape /\ Fresh
  BY DEF Shape, Fresh, Working, Emptied, Unopened
<1>3. Owned
  BY ConstantsOK DEF Owned, Idle, Held
<1>4. KeysMatch /\ OwnLogin /\ SlotsOK
  BY DEF KeysMatch, OwnLogin, SlotsOK, Slotted
<1>5. QED
  BY <1>1, <1>2, <1>3, <1>4 DEF IInv

\* What a step that neither moves, opens nor drops a connection preserves.
LEMMA OwnershipUnchanged ==
    ASSUME IInv, UNCHANGED <<entries, pushes, session, closing, open, login>>
    PROVE  Owned' /\ KeysMatch' /\ OwnLogin' /\ SlotsOK'
<1>1. Owned'
  BY DEF IInv, Owned, Idle, Held
<1>2. KeysMatch' /\ OwnLogin' /\ SlotsOK'
  BY DEF IInv, KeysMatch, OwnLogin, SlotsOK
<1>3. QED
  BY <1>1, <1>2

\* A request that sits at the given phase and goes on to another.
LEMMA GotoType ==
    ASSUME NEW r \in Request, NEW from, NEW to \in Phase, TypeOK, Goto(r, from, to)
    PROVE  pc' \in [Request -> Phase] /\ pc[r] = from /\ pc'[r] = to
           /\ \A q \in Request : q # r => pc'[q] = pc[q]
BY DEF Goto, TypeOK

\* What a step that moves a request from one phase to another preserves, when
\* it touches no connection and the new phase fits what the request holds.
LEMMA PlainStep ==
    ASSUME IInv, NEW r \in Request, NEW from, NEW to \in Phase, Goto(r, from, to),
           UNCHANGED <<entries, pushes, session, closing, open, login>>,
           to \in Working => session[r] # Null,
           to \in Emptied => session[r] = Null,
           to \notin {"sweep", "evict"} => closing[r] = {},
           to \in Unopened => from \in Unopened
    PROVE  Shape' /\ Fresh' /\ Owned' /\ KeysMatch' /\ OwnLogin' /\ SlotsOK'
<1>1. pc' \in [Request -> Phase] /\ pc[r] = from /\ pc'[r] = to
        /\ \A q \in Request : q # r => pc'[q] = pc[q]
  BY GotoType DEF IInv
<1>2. Shape'
  BY <1>1 DEF IInv, Shape
<1>3. Fresh'
  BY <1>1 DEF IInv, Fresh
<1>4. QED
  BY <1>2, <1>3, OwnershipUnchanged

USE DEF Phase, Working, Emptied, Unopened

-----------------------------------------------------------------------------
(* The steps that touch no connection, one by one *)

LEMMA StartStep == ASSUME IInv, NEW r \in Request, Start(r) PROVE IInv'
<1>1. PICK to \in {"take", "login"} : Goto(r, "new", to)
  BY DEF Start
<1>2. UNCHANGED <<entries, pushes, session, closing, open, login>>
  BY DEF Start, server
<1>3. TypeOK'
  BY GotoType DEF Start, server, IInv, TypeOK, Goto
<1>4. pc[r] = "new" /\ session[r] = Null /\ closing[r] = {}
  BY <1>1 DEF Goto, IInv, Shape
<1>5. QED
  BY <1>1, <1>2, <1>3, <1>4, PlainStep DEF IInv

LEMMA SweptStep == ASSUME IInv, NEW r \in Request, Swept(r) PROVE IInv'
<1>1. PICK to \in {"noop", "login"} :
         Goto(r, "sweep", to) /\ (to = "noop" <=> session[r] # Null)
  BY DEF Swept
<1>2. UNCHANGED <<entries, pushes, session, closing, open, login>> /\ closing[r] = {}
  BY DEF Swept
<1>3. TypeOK'
  BY DEF Swept, Send, IInv, TypeOK, Goto
<1>4. QED
  BY <1>1, <1>2, <1>3, PlainStep DEF IInv

LEMMA NoopOkStep == ASSUME IInv, NEW r \in Request, NoopOk(r) PROVE IInv'
<1>1. Goto(r, "noop", "select") /\ pc[r] = "noop"
  BY DEF NoopOk, Goto
<1>2. UNCHANGED <<entries, pushes, session, closing, open, login>>
  BY DEF NoopOk, server
<1>3. session[r] # Null /\ closing[r] = {}
  BY <1>1 DEF IInv, Shape
<1>4. TypeOK'
  BY DEF NoopOk, server, IInv, TypeOK, Goto
<1>5. QED
  BY <1>1, <1>2, <1>3, <1>4, PlainStep DEF IInv

LEMMA LoginFailStep == ASSUME IInv, NEW r \in Request, LoginFail(r) PROVE IInv'
<1>1. Goto(r, "login", "done") /\ pc[r] = "login"
  BY DEF LoginFail, Goto
<1>2. UNCHANGED <<entries, pushes, session, closing, open, login>>
  BY DEF LoginFail, server
<1>3. session[r] = Null /\ closing[r] = {}
  BY <1>1 DEF IInv, Shape
<1>4. TypeOK'
  BY DEF LoginFail, LoginError, Result, server, IInv, TypeOK, Goto
<1>5. QED
  BY <1>1, <1>2, <1>3, <1>4, PlainStep DEF IInv

\* SELECT, SEARCH and FETCH, answered or not: the request goes on working on
\* its connection, and whatever the operation does to `selected`, `unread`,
\* `result` and `disturbed` keeps their types.
LEMMA OperateStep == ASSUME IInv, NEW r \in Request, Operate(r) PROVE IInv'
<1>1. PICK from \in {"select", "search", "fetch"}, to \in {"search", "fetch", "release"} :
         Goto(r, from, to)
  BY DEF Operate, SelectOk, SelectFail, SearchOk, FetchOk, CommandFail
<1>2. UNCHANGED <<now, entries, pushes, clock, session, closing, open, login, peer>>
  BY DEF Operate, SelectOk, SelectFail, SearchOk, FetchOk, CommandFail
<1>3. session[r] # Null /\ closing[r] = {}
  BY <1>1 DEF IInv, Shape, Goto
<1>4. unread' \in [Conn -> Int] /\ result' \in [Request -> Result] /\ disturbed' \subseteq Request
  BY DEF Operate, SelectOk, SelectFail, SearchOk, FetchOk, CommandFail, Settle, Receive,
         SelectError, CommandError, Result, IInv, TypeOK
<1>5. TypeOK'
  BY <1>1, <1>2, <1>4 DEF IInv, TypeOK, Goto
<1>6. QED
  BY <1>1, <1>2, <1>3, <1>5, PlainStep DEF IInv

LEMMA EvictedStep == ASSUME IInv, NEW r \in Request, Evicted(r) PROVE IInv'
<1>1. Goto(r, "evict", "done") /\ pc[r] = "evict" /\ closing[r] = {}
  BY DEF Evicted, Goto
<1>2. UNCHANGED <<entries, pushes, session, closing, open, login>>
  BY DEF Evicted, server
<1>3. session[r] = Null
  BY <1>1 DEF IInv, Shape
<1>4. TypeOK'
  BY DEF Evicted, server, IInv, TypeOK, Goto
<1>5. QED
  BY <1>1, <1>2, <1>3, <1>4, PlainStep DEF IInv

LEMMA EnvironmentStep ==
    ASSUME IInv, Tick \/ \E c \in Conn : PeerFails(c)
    PROVE  IInv'
<1>1. UNCHANGED <<entries, pushes, pc, session, closing, open, login>>
  BY DEF Tick, PeerFails, gateway, server
<1>2. TypeOK'
  BY DEF Tick, PeerFails, gateway, server, IInv, TypeOK
<1>3. Shape' /\ Fresh'
  BY <1>1 DEF IInv, Shape, Fresh
<1>4. QED
  BY <1>1, <1>2, <1>3, OwnershipUnchanged DEF IInv

-----------------------------------------------------------------------------
(* The steps that move, open or drop connections *)

\* The session of a request becomes the one connection it has to close.
LEMMA CondemnStep ==
    ASSUME IInv, NEW r \in Request, session[r] # Null, closing[r] = {},
           session' = [session EXCEPT ![r] = Null],
           closing' = [closing EXCEPT ![r] = {session[r]}],
           UNCHANGED <<entries, pushes, open, login>>
    PROVE  Owned' /\ KeysMatch' /\ OwnLogin' /\ SlotsOK'
<1>1. session \in [Request -> Conn \cup {Null}] /\ closing \in [Request -> SUBSET Conn]
  BY DEF IInv, TypeOK
<1>2. Null \notin Conn
  BY ConstantsOK
<1>3. \A q \in Request : Held(q)' = Held(q)
  BY <1>1, <1>2 DEF Held
<1>4. Idle' = Idle
  BY DEF Idle
<1>5. Owned'
  BY <1>1, <1>2, <1>3, <1>4 DEF IInv, Owned
<1>6. KeysMatch' /\ OwnLogin' /\ SlotsOK'
  BY <1>1 DEF IInv, KeysMatch, OwnLogin, SlotsOK
<1>7. QED
  BY <1>5, <1>6

LEMMA NoopFailStep == ASSUME IInv, NEW r \in Request, NoopFail(r) PROVE IInv'
<1>1. Goto(r, "noop", "sweep") /\ pc[r] = "noop"
  BY DEF NoopFail, Goto
<1>2. session[r] # Null /\ closing[r] = {}
  BY <1>1 DEF IInv, Shape
<1>3. TypeOK'
  BY <1>2 DEF NoopFail, server, IInv, TypeOK, Goto
<1>4. Shape' /\ Fresh'
  BY <1>1 DEF NoopFail, server, IInv, TypeOK, Shape, Fresh, Goto
<1>5. Owned' /\ KeysMatch' /\ OwnLogin' /\ SlotsOK'
  BY <1>2, CondemnStep DEF NoopFail, server
<1>6. QED
  BY <1>3, <1>4, <1>5 DEF IInv

LEMMA ReleaseStep == ASSUME IInv, NEW r \in Request, Release(r) PROVE IInv'
<1>1. PICK to \in {"logout", "evict", "put"} : Goto(r, "release", to) /\ pc[r] = "release"
  BY DEF Release, Goto
<1>2. session[r] # Null /\ closing[r] = {}
  BY <1>1 DEF IInv, Shape
<1>3. TypeOK'
  BY <1>2 DEF Release, Send, IInv, TypeOK, Goto
<1>4. CASE UNCHANGED <<session, closing>> /\ to # "evict"
  <2>1. UNCHANGED <<entries, pushes, session, closing, open, login>>
    BY <1>4 DEF Release
  <2>2. QED
    BY <1>1, <1>2, <1>3, <1>4, <2>1, PlainStep DEF IInv
<1>5. CASE /\ closing' = [closing EXCEPT ![r] = {session[r]}]
           /\ session' = [session EXCEPT ![r] = Null]
           /\ to = "evict"
  <2>1. UNCHANGED <<entries, pushes, open, login>>
    BY DEF Release
  <2>2. Shape' /\ Fresh'
    BY <1>1, <1>5, <2>1 DEF IInv, TypeOK, Shape, Fresh, Goto
  <2>3. QED
    BY <1>2, <1>3, <1>5, <2>1, <2>2, CondemnStep DEF IInv
<1>6. QED
  BY <1>1, <1>4, <1>5 DEF Release, Goto, IInv, TypeOK

LEMMA LoginOkStep == ASSUME IInv, NEW r \in Request, LoginOk(r) PROVE IInv'
<1>1. Goto(r, "login", "select") /\ pc[r] = "login"
  BY DEF LoginOk, Goto
<1>2. session[r] = Null /\ closing[r] = {} /\ r \notin open /\ login[r] = Null
  BY <1>1 DEF IInv, Shape, Fresh
<1>3. /\ session' = [session EXCEPT ![r] = r]
      /\ open' = open \cup {r}
      /\ login' = [login EXCEPT ![r] = Login(CredOf[r])]
      /\ UNCHANGED <<entries, pushes, closing>>
  BY DEF LoginOk
<1>4. TypeOK'
  <2>1. Login(CredOf[r]) \in Logins
    BY DEF Logins
  <2>2. QED
    BY <2>1 DEF LoginOk, Send, IInv, TypeOK, Goto
<1>5. /\ session \in [Request -> Conn \cup {Null}] /\ closing \in [Request -> SUBSET Conn]
      /\ login \in [Conn -> Logins \cup {Null}] /\ open \subseteq Conn
  BY DEF IInv, TypeOK
<1>6. Null \notin Conn
  BY ConstantsOK
<1>7. r \notin Idle /\ \A q \in Request : r \notin Held(q)
  BY <1>2 DEF IInv, Owned
<1>8. Idle' = Idle /\ Held(r) = {} /\ Held(r)' = {r}
        /\ \A q \in Request : q # r => Held(q)' = Held(q)
  BY <1>2, <1>3, <1>5, <1>6 DEF Idle, Held
<1>9. Owned'
  <2>1. \A c \in Conn : c \in open' <=> c \in Idle' \/ \E q \in Request : c \in Held(q)'
    BY <1>3, <1>7, <1>8 DEF IInv, Owned
  <2>2. \A e, f \in entries' : e.conn = f.conn => e = f
    BY <1>3 DEF IInv, Owned
  <2>3. \A q \in Request : Held(q)' \cap Idle' = {} /\ session'[q] \notin closing'[q]
    BY <1>2, <1>3, <1>5, <1>7, <1>8 DEF IInv, Owned
  <2>4. \A p, q \in Request : p # q => Held(p)' \cap Held(q)' = {}
    BY <1>7, <1>8 DEF IInv, Owned
  <2>5. QED
    BY <2>1, <2>2, <2>3, <2>4 DEF Owned
<1>10. Shape' /\ Fresh'
  BY <1>1, <1>2, <1>3, <1>5, <1>6 DEF IInv, TypeOK, Shape, Fresh, Goto
<1>11. KeysMatch'
  <2>1. \A e \in entries : e.conn # r /\ e.conn \in Conn
    BY <1>7 DEF Idle, IInv, TypeOK
  <2>2. QED
    BY <1>3, <1>5, <2>1 DEF IInv, KeysMatch
<1>12. OwnLogin'
  <2>1. \A q \in Request : q # r => session[q] # r
    BY <1>6, <1>7 DEF Held
  <2>2. QED
    BY <1>3, <1>5, <2>1 DEF IInv, OwnLogin
<1>13. QED
  BY <1>3, <1>4, <1>9, <1>10, <1>11, <1>12 DEF IInv, SlotsOK

\* A request drops some of the connections it holds.
LEMMA DropStep ==
    ASSUME IInv, NEW r \in Request, NEW cs \in SUBSET Held(r), Drop(cs),
           session' \in [Request -> Conn \cup {Null}],
           closing' \in [Request -> SUBSET Conn],
           \A q \in Request : q # r => session'[q] = session[q] /\ closing'[q] = closing[q],
           session'[r] \in {session[r], Null}, closing'[r] \subseteq closing[r],
           Held(r)' = Held(r) \ cs,
           UNCHANGED <<entries, pushes, login>>
    PROVE  Owned' /\ KeysMatch' /\ OwnLogin' /\ SlotsOK'
<1>1. open' = open \ cs /\ Null \notin Conn
  BY ConstantsOK DEF Drop
<1>2. Idle' = Idle /\ \A q \in Request : q # r => Held(q)' = Held(q)
  BY DEF Idle, Held
<1>3. Owned'
  <2>1. \A c \in Conn : c \in open' <=> c \in Idle' \/ \E q \in Request : c \in Held(q)'
    BY <1>1, <1>2 DEF IInv, Owned
  <2>2. \A e, f \in entries' : e.conn = f.conn => e = f
    BY DEF IInv, Owned
  <2>3. \A q \in Request : Held(q)' \cap Idle' = {} /\ session'[q] \notin closing'[q]
    BY <1>1, <1>2 DEF IInv, Owned
  <2>4. \A p, q \in Request : p # q => Held(p)' \cap Held(q)' = {}
    BY <1>2 DEF IInv, Owned
  <2>5. QED
    BY <2>1, <2>2, <2>3, <2>4 DEF Owned
<1>4. KeysMatch' /\ OwnLogin' /\ SlotsOK'
  BY DEF IInv, KeysMatch, OwnLogin, SlotsOK
<1>5. QED
  BY <1>3, <1>4

\* What Drop does to the types.
LEMMA DropType ==
    ASSUME TypeOK, NEW cs, Drop(cs)
    PROVE  /\ open' \subseteq Conn /\ open' \subseteq open
           /\ unread' \in [Conn -> Int]
           /\ peer' \in [Conn -> {"alive", "hung", "gone"}]
BY DEF Drop, TypeOK

LEMMA CloseOneStep == ASSUME IInv, NEW r \in Request, CloseOne(r) PROVE IInv'
<1>1. PICK c \in closing[r] : closing' = [closing EXCEPT ![r] = @ \ {c}] /\ Drop({c})
  BY DEF CloseOne
<1>2. UNCHANGED <<now, entries, pushes, pc, clock, session, result, login, disturbed>>
  BY DEF CloseOne
<1>3. TypeOK'
  <2>1. closing' \in [Request -> SUBSET Conn]
    BY <1>1 DEF IInv, TypeOK
  <2>2. QED
    BY <1>1, <1>2, <2>1, DropType DEF IInv, TypeOK
<1>4. c \in Held(r) /\ c # session[r]
  BY <1>1 DEF Held, IInv, Owned
<1>5. Held(r)' = Held(r) \ {c}
  BY <1>1, <1>2, <1>4 DEF Held, IInv, TypeOK
<1>6. closing'[r] \subseteq closing[r] /\ \A q \in Request : q # r => closing'[q] = closing[q]
  BY <1>1 DEF IInv, TypeOK
<1>7. Owned' /\ KeysMatch' /\ OwnLogin' /\ SlotsOK'
  <2>1. {c} \in SUBSET Held(r)
    BY <1>4
  <2>2. session' \in [Request -> Conn \cup {Null}] /\ closing' \in [Request -> SUBSET Conn]
    BY <1>3 DEF TypeOK
  <2>3. QED
    BY <1>1, <1>2, <1>5, <1>6, <2>1, <2>2, DropStep
<1>8. Shape'
  BY <1>1, <1>2, <1>6 DEF IInv, Shape
<1>9. Fresh'
  BY <1>1, <1>2, DropType DEF IInv, Fresh
<1>10. QED
  BY <1>3, <1>7, <1>8, <1>9 DEF IInv

\* Logout and Cancel end a request that drops all it holds.
LEMMA EndStep ==
    ASSUME IInv, NEW r \in Request, Drop(Held(r)),
           pc' = [pc EXCEPT ![r] = "done"],
           session' = [session EXCEPT ![r] = Null],
           closing' = [closing EXCEPT ![r] = {}],
           UNCHANGED <<now, entries, pushes, clock, result, login, disturbed>>
    PROVE  IInv'
<1>1. TypeOK'
  <2>1. /\ session' \in [Request -> Conn \cup {Null}]
        /\ closing' \in [Request -> SUBSET Conn]
        /\ pc' \in [Request -> Phase]
    BY DEF IInv, TypeOK
  <2>2. QED
    BY <2>1, DropType DEF IInv, TypeOK
<1>2. Held(r)' = {}
  BY DEF Held, IInv, TypeOK
<1>3. Owned' /\ KeysMatch' /\ OwnLogin' /\ SlotsOK'
  <2>1. session' \in [Request -> Conn \cup {Null}] /\ closing' \in [Request -> SUBSET Conn]
    BY <1>1 DEF TypeOK
  <2>2. /\ session'[r] = Null /\ closing'[r] = {}
        /\ \A q \in Request : q # r => session'[q] = session[q] /\ closing'[q] = closing[q]
    BY DEF IInv, TypeOK
  <2>3. Held(r) \in SUBSET Held(r) /\ Held(r)' = Held(r) \ Held(r)
    BY <1>2
  <2>4. QED
    BY <2>1, <2>2, <2>3, DropStep
<1>4. Shape'
  BY DEF IInv, TypeOK, Shape
<1>5. Fresh'
  BY DropType DEF IInv, TypeOK, Fresh
<1>6. QED
  BY <1>1, <1>3, <1>4, <1>5 DEF IInv

LEMMA CancelStep == ASSUME IInv, NEW r \in Request, Cancel(r) PROVE IInv'
BY EndStep DEF Cancel

LEMMA LogoutStep == ASSUME IInv, NEW r \in Request, Logout(r) PROVE IInv'
<1>1. pc[r] = "logout" /\ pc' = [pc EXCEPT ![r] = "done"]
  BY DEF Logout, Goto
<1>2. session[r] # Null /\ closing[r] = {}
  BY <1>1 DEF IInv, Shape
<1>3. Held(r) = {session[r]} /\ closing' = [closing EXCEPT ![r] = {}]
  BY <1>2 DEF Held, Logout, IInv, TypeOK
<1>4. QED
  BY <1>1, <1>3, EndStep DEF Logout

\* Connections move from the pool to a request that held none: those of one
\* part of the entries are to be closed, those of another are worked on.
LEMMA TakeStep == ASSUME IInv, NEW r \in Request, Take(r) PROVE IInv'
<1> DEFINE key  == PoolKey(CredOf[r])
           hit  == TakeHit(entries, key, clock[r], TTL)
           rest == TakeRest(entries, key, clock[r], TTL)
           dead == Expired(entries, clock[r], TTL)
<1>1. /\ Goto(r, "take", "sweep") /\ pc[r] = "take"
      /\ entries' = rest
      /\ closing' = [closing EXCEPT ![r] = {e.conn : e \in dead}]
      /\ \/ hit = {} /\ session' = session
         \/ \E e \in hit : session' = [session EXCEPT ![r] = e.conn]
      /\ clock' = [clock EXCEPT ![r] = 0]
      /\ UNCHANGED <<now, pushes, result, open, login, selected, unread, peer, disturbed>>
  BY DEF Take, Goto, server
<1>2. /\ hit \subseteq entries /\ rest \subseteq entries /\ dead \subseteq entries
      /\ entries = hit \cup rest \cup dead
      /\ hit \cap rest = {} /\ hit \cap dead = {} /\ rest \cap dead = {}
      /\ \A e \in hit : e.key = key
  BY TakeSplits
<1>3. \A e, f \in hit : e = f
  BY TakeOne DEF IInv, SlotsOK
<1> HIDE DEF hit, rest, dead
<1>4. session[r] = Null /\ closing[r] = {} /\ Held(r) = {}
  BY <1>1 DEF IInv, Shape, Held
<1>5. /\ session \in [Request -> Conn \cup {Null}] /\ closing \in [Request -> SUBSET Conn]
      /\ Null \notin Conn
      /\ \A e \in entries : e.conn \in Conn
      /\ \A e, f \in entries : e.conn = f.conn => e = f
  BY ConstantsOK DEF IInv, TypeOK, Owned
<1>6. session'[r] = Null \/ \E e \in hit : session'[r] = e.conn
  BY <1>1, <1>4, <1>5
<1>7. /\ session' \in [Request -> Conn \cup {Null}]
      /\ closing' \in [Request -> SUBSET Conn]
      /\ closing'[r] = {e.conn : e \in dead}
      /\ \A q \in Request : q # r => session'[q] = session[q] /\ closing'[q] = closing[q]
  BY <1>1, <1>2, <1>5
<1>8. TypeOK'
  BY <1>1, <1>2, <1>7 DEF IInv, TypeOK, Goto
<1>9. Held(r)' = {e.conn : e \in hit \cup dead}
  <2>1. CASE hit = {}
    BY <1>1, <1>4, <1>7, <2>1 DEF Held
  <2>2. ASSUME NEW e \in hit, session' = [session EXCEPT ![r] = e.conn]
        PROVE  Held(r)' = {f.conn : f \in hit \cup dead}
    <3>1. session'[r] = e.conn /\ e.conn # Null
      BY <1>2, <1>5, <2>2
    <3>2. hit = {e}
      BY <1>3
    <3>3. QED
      BY <1>7, <3>1, <3>2 DEF Held
  <2>3. QED
    BY <1>1, <2>1, <2>2
<1>10. Idle' = {e.conn : e \in rest} /\ Idle = {e.conn : e \in hit \cup rest \cup dead}
  BY <1>1, <1>2 DEF Idle
<1>11. Held(r)' \cap Idle' = {} /\ Held(r)' \cup Idle' = Idle
  BY <1>2, <1>5, <1>9, <1>10
<1>12. \A q \in Request : q # r => Held(q)' = Held(q)
  BY <1>7 DEF Held
<1>13. Owned'
  <2>1. \A c \in Conn : c \in open' <=> c \in Idle' \/ \E q \in Request : c \in Held(q)'
    BY <1>1, <1>4, <1>11, <1>12 DEF IInv, Owned
  <2>2. \A e, f \in entries' : e.conn = f.conn => e = f
    BY <1>1, <1>2, <1>5
  <2>3. session'[r] \notin closing'[r]
    BY <1>2, <1>5, <1>6, <1>7
  <2>4. \A q \in Request : Held(q)' \cap Idle' = {} /\ session'[q] \notin closing'[q]
    BY <1>7, <1>11, <1>12, <2>3 DEF IInv, Owned
  <2>5. \A p, q \in Request : p # q => Held(p)' \cap Held(q)' = {}
    BY <1>11, <1>12 DEF IInv, Owned
  <2>6. QED
    BY <2>1, <2>2, <2>4, <2>5 DEF Owned
<1>14. OwnLogin'
  <2>1. ASSUME NEW e \in hit, session'[r] = e.conn
        PROVE  login[e.conn] = Login(CredOf[r])
    <3>1. PICK q \in Request : e.key = PoolKey(CredOf[q]) /\ login[e.conn] = Login(CredOf[q])
      BY <1>2 DEF IInv, KeysMatch
    <3>2. PoolKey(CredOf[q]) = PoolKey(CredOf[r])
      BY <1>2, <3>1
    <3>3. Login(CredOf[q]) = Login(CredOf[r])
      BY <3>2, DigestInjective DEF PoolKey, Login
    <3>4. QED
      BY <3>1, <3>3
  <2>2. session'[r] # Null => login'[session'[r]] = Login(CredOf[r])
    BY <1>1, <1>6, <2>1
  <2>3. QED
    BY <1>1, <1>7, <2>2 DEF IInv, OwnLogin
<1>15. KeysMatch' /\ SlotsOK'
  BY <1>1, <1>2 DEF IInv, KeysMatch, SlotsOK, Slotted
<1>16. Shape' /\ Fresh'
  BY <1>1, <1>4, <1>7 DEF IInv, TypeOK, Shape, Fresh, Goto
<1>17. QED
  BY <1>8, <1>13, <1>14, <1>15, <1>16 DEF IInv

\* The connection of the request joins those of the pool, and some of them
\* become connections the request has to close.
LEMMA PutStep == ASSUME IInv, NEW r \in Request, Put(r) PROVE IInv'
<1> DEFINE e    == Entry(PoolKey(CredOf[r]), session[r], clock[r], pushes + 1)
           rest == PutRest(entries, e, clock[r], TTL, MaxIdle)
           dead == PutDead(entries, e, clock[r], TTL, MaxIdle)
<1>1. /\ Goto(r, "put", "evict") /\ pc[r] = "put"
      /\ entries' = rest
      /\ closing' = [closing EXCEPT ![r] = {f.conn : f \in dead}]
      /\ pushes' = pushes + 1
      /\ session' = [session EXCEPT ![r] = Null]
      /\ clock' = [clock EXCEPT ![r] = 0]
      /\ UNCHANGED <<now, result, open, login, selected, unread, peer, disturbed>>
  BY DEF Put, Goto
<1>2. rest \cup dead = entries \cup {e} /\ rest \cap dead = {}
  BY PutSplits
<1>3. /\ e.key = PoolKey(CredOf[r]) /\ e.conn = session[r]
      /\ e.stored_at = clock[r] /\ e.slot = pushes + 1
  BY DEF Entry
<1>4. e \in [key : Keys, conn : Conn, stored_at : Nat, slot : Nat]
  BY <1>1 DEF Entry, Keys, IInv, TypeOK, Shape
<1> HIDE DEF e, rest, dead
<1>5. session[r] # Null /\ closing[r] = {} /\ Held(r) = {session[r]}
  BY <1>1 DEF IInv, Shape, Held
<1>6. /\ session \in [Request -> Conn \cup {Null}] /\ closing \in [Request -> SUBSET Conn]
      /\ \A f, g \in entries \cup {e} : f.conn = g.conn => f = g
      /\ \A f \in entries \cup {e} : f.conn \in Conn
  <2>1. \A f \in entries : f.conn # session[r]
    BY <1>5 DEF IInv, Owned, Idle
  <2>2. QED
    BY <1>3, <1>5, <2>1 DEF IInv, TypeOK, Owned
<1>7. /\ session' \in [Request -> Conn \cup {Null}] /\ closing' \in [Request -> SUBSET Conn]
      /\ session'[r] = Null /\ closing'[r] = {f.conn : f \in dead}
      /\ \A q \in Request : q # r => session'[q] = session[q] /\ closing'[q] = closing[q]
  BY <1>1, <1>2, <1>6
<1>8. TypeOK'
  <2>1. entries' \subseteq [key : Keys, conn : Conn, stored_at : Nat, slot : Nat]
    BY <1>1, <1>2, <1>4 DEF IInv, TypeOK
  <2>2. clock' \in [Request -> Nat] /\ pushes' \in Nat
    BY <1>1, <1>3, <1>6 DEF IInv, TypeOK
  <2>3. QED
    BY <1>1, <1>7, <2>1, <2>2 DEF IInv, TypeOK, Goto
<1>9. /\ Held(r)' = {f.conn : f \in dead} /\ Idle' = {f.conn : f \in rest}
      /\ Idle \cup {session[r]} = {f.conn : f \in rest \cup dead}
  <2>1. Held(r)' = {f.conn : f \in dead}
    <3>1. Null \notin closing'[r]
      BY <1>7, ConstantsOK
    <3>2. QED
      BY <1>7, <3>1 DEF Held
  <2>2. Idle \cup {session[r]} = {f.conn : f \in entries \cup {e}}
    BY <1>3 DEF Idle
  <2>3. QED
    BY <1>1, <1>2, <2>1, <2>2 DEF Idle
<1>10. Held(r)' \cap Idle' = {} /\ Held(r)' \cup Idle' = Idle \cup {session[r]}
  BY <1>2, <1>6, <1>9
<1>11. \A q \in Request : q # r => Held(q)' = Held(q)
  BY <1>7 DEF Held
<1>12. Owned'
  <2>1. \A c \in Conn : c \in open' <=> c \in Idle' \/ \E q \in Request : c \in Held(q)'
    BY <1>1, <1>5, <1>10, <1>11 DEF IInv, Owned
  <2>2. \A f, g \in entries' : f.conn = g.conn => f = g
    BY <1>1, <1>2, <1>6
  <2>3. session'[r] \notin closing'[r]
    BY <1>7, ConstantsOK
  <2>4. \A q \in Request : Held(q)' \cap Idle' = {} /\ session'[q] \notin closing'[q]
    <3>1. ASSUME NEW q \in Request, q # r PROVE Held(q)' \cap Idle' = {}
      BY <1>5, <1>10, <1>11, <3>1 DEF IInv, Owned
    <3>2. QED
      BY <1>7, <1>10, <2>3, <3>1 DEF IInv, Owned
  <2>5. \A p, q \in Request : p # q => Held(p)' \cap Held(q)' = {}
    <3>1. ASSUME NEW q \in Request, q # r PROVE Held(q)' \cap Held(r)' = {}
      BY <1>5, <1>10, <1>11, <3>1 DEF IInv, Owned
    <3>2. QED
      BY <1>11, <3>1 DEF IInv, Owned
  <2>6. QED
    BY <2>1, <2>2, <2>4, <2>5 DEF Owned
<1>13. KeysMatch'
  <2>1. login[e.conn] = Login(CredOf[r])
    BY <1>3, <1>5 DEF IInv, OwnLogin
  <2>2. QED
    BY <1>1, <1>2, <1>3, <2>1 DEF IInv, KeysMatch
<1>14. OwnLogin'
  BY <1>1, <1>7 DEF IInv, OwnLogin
<1>15. SlotsOK'
  <2>1. Slotted(entries \cup {e}) /\ \A f \in entries \cup {e} : f.slot <= pushes + 1
    BY <1>3 DEF IInv, SlotsOK, Slotted, TypeOK
  <2>2. entries' \subseteq entries \cup {e}
    BY <1>1, <1>2
  <2>3. QED
    BY <1>1, <2>1, <2>2 DEF SlotsOK, Slotted
<1>16. Shape' /\ Fresh'
  BY <1>1, <1>5, <1>7 DEF IInv, TypeOK, Shape, Fresh, Goto
<1>17. QED
  BY <1>8, <1>12, <1>13, <1>14, <1>15, <1>16 DEF IInv

-----------------------------------------------------------------------------
LEMMA NextIInv == IInv /\ [Next]_vars => IInv'
<1> SUFFICES ASSUME IInv, [Next]_vars PROVE IInv'
  OBVIOUS
<1>1. CASE UNCHANGED vars
  <2>1. UNCHANGED <<now, entries, pushes, pc, clock, session, closing, result, open, login,
                    selected, unread, peer, disturbed>>
    BY <1>1 DEF vars, gateway, server
  <2>2. TypeOK' /\ Shape' /\ Fresh'
    BY <2>1 DEF IInv, TypeOK, Shape, Fresh
  <2>3. QED
    BY <2>1, <2>2, OwnershipUnchanged DEF IInv
<1>2. ASSUME NEW r \in Request, Acquire(r) PROVE IInv'
  BY <1>2, StartStep, TakeStep, SweptStep, NoopOkStep, NoopFailStep, LoginOkStep, LoginFailStep
     DEF Acquire
<1>3. ASSUME NEW r \in Request, Operate(r) PROVE IInv'
  BY <1>3, OperateStep
<1>4. ASSUME NEW r \in Request, Return(r) PROVE IInv'
  BY <1>4, ReleaseStep, PutStep, EvictedStep, LogoutStep DEF Return
<1>5. ASSUME NEW r \in Request, CloseOne(r) \/ Cancel(r) PROVE IInv'
  BY <1>5, CloseOneStep, CancelStep
<1>6. QED
  BY <1>1, <1>2, <1>3, <1>4, <1>5, EnvironmentStep DEF Next

\* Every behaviour keeps the inductive invariant.
THEOREM Invariance == Spec => []IInv
BY InitIInv, NextIInv, PTL DEF Spec

\* The variables keep their types.
THEOREM TypeCorrect == Spec => []TypeOK
<1>1. IInv => TypeOK
  BY DEF IInv
<1>2. QED
  BY <1>1, Invariance, PTL

\* Every open connection is owned exactly once, whatever takes, puts,
\* evictions and cancellations interleave.
THEOREM SingleOwnership == Spec => []SingleOwner
<1>1. IInv => SingleOwner
  <2>1. ASSUME IInv PROVE open = Idle \cup UNION {Held(r) : r \in Request}
    <3>1. Idle \subseteq Conn /\ \A r \in Request : Held(r) \subseteq Conn
      BY <2>1 DEF IInv, TypeOK, Idle, Held
    <3>2. open \subseteq Conn
      BY <2>1 DEF IInv, TypeOK
    <3>3. \A c \in Conn : c \in open <=> c \in Idle \/ \E r \in Request : c \in Held(r)
      BY <2>1 DEF IInv, Owned
    <3>4. QED
      BY <3>1, <3>2, <3>3
  <2>2. QED
    BY <2>1 DEF IInv, Owned, SingleOwner
<1>2. QED
  BY <1>1, Invariance, PTL

\* No request is ever served by a connection logged in with another login.
THEOREM LoginIsolation == Spec => []OwnLogin
<1>1. IInv => OwnLogin
  BY DEF IInv
<1>2. QED
  BY <1>1, Invariance, PTL

-----------------------------------------------------------------------------
(* The cap *)

CapInv == IsFiniteSet(entries) /\ Cardinality(entries) <= MaxIdle

LEMMA TakeCap == ASSUME CapInv, NEW r \in Request, Take(r) PROVE CapInv'
<1>1. entries' \subseteq entries
  BY TakeSplits DEF Take
<1>2. IsFiniteSet(entries') /\ Cardinality(entries') <= Cardinality(entries)
  BY <1>1, FS_Subset DEF CapInv
<1>3. Cardinality(entries') \in Nat /\ Cardinality(entries) \in Nat /\ MaxIdle \in Nat
  BY <1>2, FS_CardinalityType, ConstantsOK DEF CapInv
<1>4. QED
  BY <1>2, <1>3 DEF CapInv

LEMMA PutCap == ASSUME IInv, CapInv, NEW r \in Request, Put(r) PROVE CapInv'
<1> DEFINE e == Entry(PoolKey(CredOf[r]), session[r], clock[r], pushes + 1)
<1>1. entries' = PutRest(entries, e, clock[r], TTL, MaxIdle)
  BY DEF Put
<1>2. Slotted(entries \cup {e})
  BY DEF IInv, TypeOK, SlotsOK, Slotted, Entry
<1> HIDE DEF e
<1>3. QED
  BY <1>1, <1>2, PutBound, ConstantsOK DEF CapInv

LEMMA NextCap == IInv /\ CapInv /\ [Next]_vars => CapInv'
<1> SUFFICES ASSUME IInv, CapInv, [Next]_vars PROVE CapInv'
  OBVIOUS
<1>1. CASE entries' = entries
  BY <1>1 DEF CapInv
<1>2. CASE \E r \in Request : Take(r) \/ Put(r)
  BY <1>2, TakeCap, PutCap
<1>3. (\E r \in Request : Take(r) \/ Put(r)) \/ entries' = entries
  BY DEF Next, Acquire, Operate, Return, Start, Swept, NoopOk, NoopFail, LoginOk, LoginFail,
         SelectOk, SelectFail, SearchOk, FetchOk, CommandFail, Release, Evicted, Logout,
         CloseOne, Cancel, PeerFails, Tick, vars, gateway
<1>4. QED
  BY <1>1, <1>2, <1>3

\* The pool holds at most max_idle connections at all times.
THEOREM CapHolds == Spec => []Bounded
<1>1. Init => CapInv
  BY FS_EmptySet, ConstantsOK DEF Init, CapInv
<1>2. CapInv => Bounded
  BY DEF CapInv, Bounded
<1>3. QED
  BY <1>1, <1>2, NextCap, Invariance, PTL DEF Spec

-----------------------------------------------------------------------------
(* The abstract store *)

\* A step that leaves the pool, the sessions, the connections to close and the
\* logins alone is a stutter of the store.
LEMMA StoreStutter ==
    ASSUME UNCHANGED <<entries, session, closing, login>>
    PROVE  UNCHANGED Store!storeVars
BY DEF Store!storeVars, Idle

LEMMA StoreInit == Init => Store!Init
<1> SUFFICES ASSUME Init PROVE Store!Init
  OBVIOUS
<1>1. UNION {closing[r] : r \in Request} = {}
  BY DEF Init
<1>2. QED
  BY <1>1 DEF Init, Store!Init, Idle

\* `doomed` when a request that had nothing to close has X to close ...
LEMMA DoomedGrows ==
    ASSUME IInv, NEW r \in Request, NEW X, closing[r] = {},
           closing' = [closing EXCEPT ![r] = X]
    PROVE  UNION {closing'[q] : q \in Request} = (UNION {closing[q] : q \in Request}) \cup X
<1>1. closing'[r] = X /\ \A q \in Request : q # r => closing'[q] = closing[q]
  BY DEF IInv, TypeOK
<1>2. QED
  BY <1>1

\* ... and when it has closed X, which no other request had to close.
LEMMA DoomedShrinks ==
    ASSUME IInv, NEW r \in Request, NEW X \in SUBSET closing[r],
           closing' = [closing EXCEPT ![r] = @ \ X]
    PROVE  UNION {closing'[q] : q \in Request} = (UNION {closing[q] : q \in Request}) \ X
<1>1. closing'[r] = closing[r] \ X /\ \A q \in Request : q # r => closing'[q] = closing[q]
  BY DEF IInv, TypeOK
<1>2. \A q \in Request : q # r => closing[q] \cap X = {}
  BY DEF IInv, Owned, Held
<1>3. QED
  BY <1>1, <1>2

\* The steps of the store are steps of its next-state relation.
LEMMA LendStep ==
    ASSUME NEW b \in Request, NEW s \in Conn \cup {Null}, NEW X \in SUBSET Conn,
           Store!Lend(b, s, X)
    PROVE  Store!Next
BY DEF Store!Next

LEMMA OpenStep ==
    ASSUME NEW b \in Request, NEW s \in Conn, Store!Open(b, s)
    PROVE  Store!Next
BY DEF Store!Next

LEMMA StoreSteps ==
    ASSUME NEW b \in Request, NEW X \in SUBSET Conn
    PROVE  /\ Store!Restore(b, X) => Store!Next
           /\ Store!Condemn(b) => Store!Next
           /\ Store!Drop(b, X) => Store!Next
           /\ Store!Close(X) => Store!Next
BY DEF Store!Next

LEMMA TakeLends == ASSUME IInv, NEW r \in Request, Take(r) PROVE Store!Next
<1> DEFINE key  == PoolKey(CredOf[r])
           hit  == TakeHit(entries, key, clock[r], TTL)
           rest == TakeRest(entries, key, clock[r], TTL)
           dead == Expired(entries, clock[r], TTL)
           D    == {e.conn : e \in dead}
<1>1. /\ pc[r] = "take"
      /\ entries' = rest
      /\ closing' = [closing EXCEPT ![r] = D]
      /\ \/ hit = {} /\ session' = session
         \/ \E e \in hit : session' = [session EXCEPT ![r] = e.conn]
      /\ login' = login
  BY DEF Take, Goto, server
<1>2. /\ hit \subseteq entries /\ rest \subseteq entries /\ dead \subseteq entries
      /\ entries = hit \cup rest \cup dead
      /\ hit \cap rest = {} /\ hit \cap dead = {} /\ rest \cap dead = {}
  BY TakeSplits
<1>3. \A e, f \in hit : e = f
  BY TakeOne DEF IInv, SlotsOK
<1>4. OwnLogin'
  BY TakeStep DEF IInv
<1> HIDE DEF hit, rest, dead
<1>5. session[r] = Null /\ closing[r] = {} /\ session \in [Request -> Conn \cup {Null}]
  BY <1>1 DEF IInv, TypeOK, Shape
<1>6. /\ \A e \in entries : e.conn \in Conn /\ e.conn # Null
      /\ \A e, f \in entries : e.conn = f.conn => e = f
  BY ConstantsOK DEF IInv, TypeOK, Owned
<1>7. D \subseteq Idle /\ Idle \subseteq Conn /\ D \in SUBSET Conn
  BY <1>2, <1>6 DEF Idle
<1>8. UNION {closing'[q] : q \in Request} = (UNION {closing[q] : q \in Request}) \cup D
  BY <1>1, <1>5, DoomedGrows
<1>0. PICK X \in SUBSET Conn : X = D
  BY <1>7
<1>9. CASE hit = {}
  <2>1. Idle' = Idle \ (D \cup {Null})
    BY <1>1, <1>2, <1>6, <1>9 DEF Idle
  <2>2. session' = [session EXCEPT ![r] = Null]
    BY <1>1, <1>5, <1>9
  <2>3. Store!Lend(r, Null, X)
    BY <1>0, <1>1, <1>5, <1>7, <1>8, <2>1, <2>2 DEF Store!Lend
  <2>4. QED
    BY <2>3, LendStep
<1>10. ASSUME NEW e \in hit, session' = [session EXCEPT ![r] = e.conn]
       PROVE  Store!Next
  <2>1. hit = {e} /\ e \in entries /\ e \notin dead
    BY <1>2, <1>3
  <2>2. Idle' = Idle \ (D \cup {e.conn})
    BY <1>1, <1>2, <1>6, <2>1 DEF Idle
  <2>3. e.conn \in Idle \ D
    BY <1>2, <1>6, <2>1 DEF Idle
  <2>4. login[e.conn] = Login(CredOf[r])
    BY <1>1, <1>4, <1>5, <1>6, <1>10, <2>1 DEF OwnLogin
  <2>5. Store!Lend(r, e.conn, X)
    BY <1>0, <1>1, <1>5, <1>7, <1>8, <1>10, <2>2, <2>3, <2>4 DEF Store!Lend
  <2>6. e.conn \in Conn
    BY <1>6, <2>1
  <2>7. QED
    BY <2>5, <2>6, LendStep
<1>11. QED
  BY <1>1, <1>9, <1>10

\* The connections of a deque are no more than its entries.
LEMMA ConnCap ==
    ASSUME NEW E, IsFiniteSet(E), Cardinality(E) <= MaxIdle
    PROVE  Cardinality({e.conn : e \in E}) <= MaxIdle
<1> DEFINE C == {e.conn : e \in E}
           f == [e \in E |-> e.conn]
<1>1. f \in Surjection(E, C)
  BY DEF Surjection
<1> HIDE DEF C, f
<1>2. IsFiniteSet(C) /\ Cardinality(C) <= Cardinality(E)
  BY <1>1, FS_Surjection
<1>3. Cardinality(C) \in Nat /\ Cardinality(E) \in Nat /\ MaxIdle \in Nat
  BY <1>2, FS_CardinalityType, ConstantsOK
<1>4. Cardinality(C) <= MaxIdle
  BY <1>2, <1>3
<1>5. QED
  BY <1>4 DEF C

LEMMA PutRestores ==
    ASSUME IInv, CapInv', NEW r \in Request, Put(r)
    PROVE  Store!Next
<1> DEFINE e    == Entry(PoolKey(CredOf[r]), session[r], clock[r], pushes + 1)
           rest == PutRest(entries, e, clock[r], TTL, MaxIdle)
           dead == PutDead(entries, e, clock[r], TTL, MaxIdle)
           D    == {f.conn : f \in dead}
<1>1. /\ pc[r] = "put"
      /\ entries' = rest
      /\ closing' = [closing EXCEPT ![r] = D]
      /\ session' = [session EXCEPT ![r] = Null]
      /\ login' = login
  BY DEF Put, Goto
<1>2. rest \cup dead = entries \cup {e} /\ rest \cap dead = {} /\ e.conn = session[r]
  BY PutSplits DEF Entry
<1> HIDE DEF e, rest, dead
<1>3. session[r] # Null /\ closing[r] = {} /\ session[r] \in Conn
  BY <1>1 DEF IInv, TypeOK, Shape
<1>4. /\ \A f \in entries : f.conn \in Conn /\ f.conn # session[r]
      /\ \A f, g \in entries \cup {e} : f.conn = g.conn => f = g
  <2>1. session[r] \notin Idle
    BY <1>3 DEF IInv, Owned, Held
  <2>2. QED
    BY <1>2, <2>1 DEF IInv, TypeOK, Owned, Idle
<1>5. Idle \cup {session[r]} = {f.conn : f \in rest \cup dead}
  <2>1. Idle \cup {session[r]} = {f.conn : f \in entries \cup {e}}
    BY <1>2 DEF Idle
  <2>2. QED
    BY <1>2, <2>1
<1>6. Idle' = (Idle \cup {session[r]}) \ D /\ D \subseteq Idle \cup {session[r]}
  BY <1>1, <1>2, <1>4, <1>5 DEF Idle
<1>7. UNION {closing'[q] : q \in Request} = (UNION {closing[q] : q \in Request}) \cup D
  BY <1>1, <1>3, DoomedGrows
<1>8. Store!Cardinality(Idle') <= MaxIdle
  <2>1. Cardinality(Idle') <= MaxIdle
    BY ConnCap DEF CapInv, Idle
  <2>2. \A S : Store!Cardinality(S) = Cardinality(S)
    BY DEF Store!Cardinality, Cardinality
  <2>3. QED
    BY <2>1, <2>2
<1>9. D \in SUBSET Conn
  BY <1>3, <1>4, <1>6 DEF Idle
<1>10. PICK X \in SUBSET Conn : X = D
  BY <1>9
<1>11. Store!Restore(r, X)
  BY <1>1, <1>3, <1>6, <1>7, <1>8, <1>10 DEF Store!Restore
<1>12. QED
  BY <1>11, StoreSteps

\* A request that has closed nothing yet condemns the session it works on.
LEMMA CondemnsOwn ==
    ASSUME IInv, NEW r \in Request, session[r] # Null, closing[r] = {},
           closing' = [closing EXCEPT ![r] = {session[r]}],
           session' = [session EXCEPT ![r] = Null],
           UNCHANGED <<entries, login>>
    PROVE  Store!Next
<1>1. UNION {closing'[q] : q \in Request} = (UNION {closing[q] : q \in Request}) \cup {session[r]}
  BY DoomedGrows
<1>2. Store!Condemn(r)
  BY <1>1 DEF Store!Condemn, Idle
<1>3. QED
  BY <1>2, StoreSteps

LEMMA LoginOpens == ASSUME IInv, NEW r \in Request, LoginOk(r) PROVE Store!Next
<1>1. pc[r] = "login" /\ session[r] = Null /\ login[r] = Null
  BY DEF LoginOk, Goto, IInv, Shape, Fresh
<1>2. Store!Open(r, r)
  BY <1>1 DEF LoginOk, Store!Open, Idle
<1>3. QED
  BY <1>2, OpenStep

LEMMA CloseCloses == ASSUME IInv, NEW r \in Request, CloseOne(r) PROVE Store!Next
<1>1. PICK c \in closing[r] : closing' = [closing EXCEPT ![r] = @ \ {c}]
  BY DEF CloseOne
<1>2. {c} \in SUBSET Conn /\ {c} \subseteq UNION {closing[q] : q \in Request}
  BY DEF IInv, TypeOK
<1>3. UNION {closing'[q] : q \in Request} = (UNION {closing[q] : q \in Request}) \ {c}
  <2>1. PICK X \in SUBSET closing[r] : X = {c}
    OBVIOUS
  <2>2. closing' = [closing EXCEPT ![r] = @ \ X]
    BY <1>1, <2>1
  <2>3. QED
    BY <2>1, <2>2, DoomedShrinks
<1>4. Store!Close({c})
  BY <1>2, <1>3 DEF Store!Close, CloseOne, Idle
<1>5. QED
  BY <1>2, <1>4, StoreSteps

\* A request that ends here drops its session and what it had to close.
LEMMA EndDrops ==
    ASSUME IInv, NEW r \in Request,
           closing' = [closing EXCEPT ![r] = {}],
           session' = [session EXCEPT ![r] = Null],
           UNCHANGED <<entries, login>>
    PROVE  Store!Next
<1>1. PICK X \in SUBSET Conn : X = closing[r]
  BY DEF IInv, TypeOK
<1>2. closing' = [closing EXCEPT ![r] = @ \ X]
  BY <1>1 DEF IInv, TypeOK
<1>3. UNION {closing'[q] : q \in Request} = (UNION {closing[q] : q \in Request}) \ X
  BY <1>1, <1>2, DoomedShrinks
<1>4. X \subseteq UNION {closing[q] : q \in Request}
  BY <1>1
<1>5. Store!Drop(r, X)
  BY <1>3, <1>4 DEF Store!Drop, Idle
<1>6. QED
  BY <1>5, StoreSteps

LEMMA LogoutDrops == ASSUME IInv, NEW r \in Request, Logout(r) PROVE Store!Next
<1>1. closing[r] = {} /\ closing' = closing
  BY DEF Logout, Goto, IInv, Shape
<1>2. closing' = [closing EXCEPT ![r] = {}]
  BY <1>1 DEF IInv, TypeOK
<1>3. QED
  BY <1>2, EndDrops DEF Logout

LEMMA ReleaseMaps ==
    ASSUME IInv, NEW r \in Request, Release(r)
    PROVE  Store!Next \/ UNCHANGED Store!storeVars
<1>1. pc[r] = "release" /\ session[r] # Null /\ closing[r] = {}
  BY DEF Release, Goto, IInv, Shape
<1>2. UNCHANGED <<entries, login>>
  BY DEF Release
<1>3. \/ UNCHANGED <<session, closing>>
      \/ /\ closing' = [closing EXCEPT ![r] = {session[r]}]
         /\ session' = [session EXCEPT ![r] = Null]
  BY DEF Release
<1>4. QED
  BY <1>1, <1>2, <1>3, CondemnsOwn, StoreStutter

LEMMA NoopFailMaps == ASSUME IInv, NEW r \in Request, NoopFail(r) PROVE Store!Next
<1>1. session[r] # Null /\ closing[r] = {}
  BY DEF NoopFail, Goto, IInv, Shape
<1>2. QED
  BY <1>1, CondemnsOwn DEF NoopFail, server

LEMMA StepMaps ==
    ASSUME IInv, CapInv', [Next]_vars
    PROVE  [Store!Next]_Store!storeVars
<1>1. CASE \E r \in Request : Take(r) \/ Put(r) \/ LoginOk(r) \/ NoopFail(r) \/ Release(r)
  BY <1>1, TakeLends, PutRestores, LoginOpens, NoopFailMaps, ReleaseMaps
<1>2. CASE \E r \in Request : CloseOne(r) \/ Logout(r) \/ Cancel(r)
  BY <1>2, CloseCloses, LogoutDrops, EndDrops DEF Cancel
<1>3. CASE UNCHANGED <<entries, session, closing, login>>
  BY <1>3, StoreStutter
<1>4. \/ \E r \in Request : Take(r) \/ Put(r) \/ LoginOk(r) \/ NoopFail(r) \/ Release(r)
      \/ \E r \in Request : CloseOne(r) \/ Logout(r) \/ Cancel(r)
      \/ UNCHANGED <<entries, session, closing, login>>
  BY DEF Next, Acquire, Operate, Return, Start, Swept, NoopOk, LoginFail,
         SelectOk, SelectFail, SearchOk, FetchOk, CommandFail, Evicted,
         PeerFails, Tick, vars, gateway, server
<1>5. QED
  BY <1>1, <1>2, <1>3, <1>4

\* The pool and the requests that share it implement the abstract store.
THEOREM Refinement == Spec => ImplementsStore
<1>1. Init => CapInv
  BY FS_EmptySet, ConstantsOK DEF Init, CapInv
<1>2. IInv /\ CapInv' /\ [Next]_vars => [Store!Next]_Store!storeVars
  BY StepMaps
<1>3. QED
  BY <1>1, <1>2, NextCap, StoreInit, Invariance, PTL DEF Spec, ImplementsStore, Store!Spec
=============================================================================

---------------------------- MODULE SessionStore ----------------------------
(***************************************************************************)
(* What the connection pool of overfwd promises, whatever its eviction and *)
(* expiry policy: a session is the property of one borrower at a time, is  *)
(* lent only to a borrower presenting the login it was opened with, and is *)
(* never used again once it is to be closed; and at most MaxIdle sessions  *)
(* are kept idle.  (Module documentation and PoolKey of src/pool.rs.)      *)
(***************************************************************************)
EXTENDS Integers, FiniteSets

CONSTANTS
    Session,    \* the sessions that may ever be opened
    Borrower,   \* the requests
    LoginOf,    \* LoginOf[b]: the login borrower b presents
    MaxIdle,    \* the most sessions kept idle
    Null        \* no session, no login

VARIABLES
    idle,       \* the sessions kept for reuse
    lent,       \* lent[b]: the session b works on
    doomed,     \* the sessions that are only to be closed
    login       \* login[s]: what s was opened with, Null before

storeVars == <<idle, lent, doomed, login>>

Init ==
    /\ idle = {}
    /\ lent = [b \in Borrower |-> Null]
    /\ doomed = {}
    /\ login = [s \in Session |-> Null]

\* A borrower opens a session of its own.
Open(b, s) ==
    /\ lent[b] = Null
    /\ login[s] = Null
    /\ lent' = [lent EXCEPT ![b] = s]
    /\ login' = [login EXCEPT ![s] = LoginOf[b]]
    /\ UNCHANGED <<idle, doomed>>

\* A borrower is lent an idle session with its own login, or none; idle
\* sessions D are condemned on the way.
Lend(b, s, D) ==
    /\ lent[b] = Null
    /\ \/ s \in idle \ D /\ login[s] = LoginOf[b]
       \/ s = Null
    /\ D \subseteq idle
    /\ lent' = [lent EXCEPT ![b] = s]
    /\ idle' = idle \ (D \cup {s})
    /\ doomed' = doomed \cup D
    /\ UNCHANGED login

\* A borrower gives its session back; sessions D, this one perhaps among
\* them, are condemned so that at most MaxIdle stay.
Restore(b, D) ==
    /\ lent[b] # Null
    /\ D \subseteq idle \cup {lent[b]}
    /\ idle' = (idle \cup {lent[b]}) \ D
    /\ Cardinality(idle') <= MaxIdle
    /\ doomed' = doomed \cup D
    /\ lent' = [lent EXCEPT ![b] = Null]
    /\ UNCHANGED login

\* A borrower condemns the session it works on.
Condemn(b) ==
    /\ lent[b] # Null
    /\ doomed' = doomed \cup {lent[b]}
    /\ lent' = [lent EXCEPT ![b] = Null]
    /\ UNCHANGED <<idle, login>>

\* A borrower drops its session, and some condemned ones are closed.
Drop(b, D) ==
    /\ D \subseteq doomed
    /\ doomed' = doomed \ D
    /\ lent' = [lent EXCEPT ![b] = Null]
    /\ UNCHANGED <<idle, login>>

\* Condemned sessions are closed.
Close(D) ==
    /\ D \subseteq doomed
    /\ doomed' = doomed \ D
    /\ UNCHANGED <<idle, lent, login>>

Next ==
    \/ \E b \in Borrower, s \in Session : Open(b, s)
    \/ \E b \in Borrower, s \in Session \cup {Null}, D \in SUBSET Session : Lend(b, s, D)
    \/ \E b \in Borrower, D \in SUBSET Session : Restore(b, D) \/ Drop(b, D)
    \/ \E b \in Borrower : Condemn(b)
    \/ \E D \in SUBSET Session : Close(D)

Spec == Init /\ [][Next]_storeVars
=============================================================================

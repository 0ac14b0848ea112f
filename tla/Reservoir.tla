----------------------------- MODULE Reservoir -----------------------------
(***************************************************************************)
(* The storage policy of the IMAP connection pool: `Reservoir<T>` of       *)
(* src/pool.rs, a deque of idle connections with a TTL and a global cap.   *)
(*                                                                         *)
(* The deque is the SET of its entries; an entry's `slot` is the number of *)
(* the push that appended it, so that "towards the back" is "a greater     *)
(* slot": pushing to the back uses a slot above every other one, popping   *)
(* the front removes the least one, and removing from the middle keeps the *)
(* order of the rest.  ReservoirDeque has the index loops of the code, and *)
(* a run compares the two.                                                 *)
(***************************************************************************)
EXTENDS Integers, FiniteSets

\* An entry: the key, the connection, when it was stored, its place in the deque.
Entry(key, conn, stored_at, slot) ==
    [key |-> key, conn |-> conn, stored_at |-> stored_at, slot |-> slot]

\* Instant::saturating_duration_since: a time before `earlier` is no time at all.
SaturatingSince(now, earlier) == IF now >= earlier THEN now - earlier ELSE 0

\* drain_expired: what it returns ...
Expired(entries, now, ttl) ==
    {e \in entries : SaturatingSince(now, e.stored_at) >= ttl}

\* ... and what it leaves behind.
Unexpired(entries, now, ttl) == entries \ Expired(entries, now, ttl)

\* The entries between e and the back of the deque.
Newer(entries, e) == {f \in entries : f.slot > e.slot}

\* rposition: the match nearest the back, as a set of at most one entry.
LastOf(entries) == {e \in entries : Newer(entries, e) = {}}

\* Slip: the search runs before the sweep.
TakeHitUnswept(entries, key, now, ttl) == LastOf({e \in entries : e.key = key})

\* take: the entry handed out, if any, once the expired ones are swept out.
TakeHit(entries, key, now, ttl) ==
    LastOf({e \in Unexpired(entries, now, ttl) : e.key = key})

\* Slip: the hit is read from the deque and not removed.
TakeRestKeepingHit(entries, key, now, ttl) == Unexpired(entries, now, ttl)

TakeRest(entries, key, now, ttl) ==
    Unexpired(entries, now, ttl) \ TakeHit(entries, key, now, ttl)

\* Slip: `while len > max_idle + 1`.
KeepOneTooMany(entries, max_idle) ==
    {e \in entries : Cardinality(Newer(entries, e)) <= max_idle}

\* `while len > max_idle { pop_front }`: an entry survives when fewer than
\* max_idle entries are nearer the back than it is.
KeepNewest(entries, max_idle) ==
    {e \in entries : Cardinality(Newer(entries, e)) < max_idle}

\* put: the deque after sweeping, pushing e to the back and enforcing the cap.
PutRest(entries, e, now, ttl, max_idle) ==
    KeepNewest(Unexpired(entries, now, ttl) \cup {e}, max_idle)

\* put: the entries whose connections the caller must close.
PutDead(entries, e, now, ttl, max_idle) ==
    (entries \cup {e}) \ PutRest(entries, e, now, ttl, max_idle)
=============================================================================

--------------------------- MODULE ReservoirDeque ---------------------------
(***************************************************************************)
(* The loops of `Reservoir<T>` (src/pool.rs) on the VecDeque itself, one   *)
(* iteration a step, against the set-valued operators of Reservoir that    *)
(* the pool's model and proofs use.                                        *)
(*                                                                         *)
(* The methods run one after the other under the pool's mutex, in any      *)
(* order and with any clock reading: a clock is read before the lock is    *)
(* taken, so that the readings of successive calls need not increase.      *)
(***************************************************************************)
EXTENDS Reservoir, Sequences

CONSTANTS
    Key,        \* the pool keys
    Times,      \* the clock readings
    TTLs,       \* the arguments `ttl`
    Caps,       \* the arguments `max_idle`
    MaxPushes   \* bound: how many entries are pushed

ASSUME DequeAssumption ==
    Times \subseteq Int /\ TTLs \subseteq Nat /\ Caps \subseteq Nat

VARIABLES
    pc,         \* the loop the method is in: idle, drain, find, evict
    call,       \* the arguments of the present or else the last call
    deque,      \* Reservoir::entries, front first
    i,          \* the index of the loop
    dead,       \* what is returned for closing
    hit,        \* what take returns besides, a sequence of at most one entry
    pushes,     \* how many entries were pushed
    before      \* history: the deque when the method was called

vars == <<pc, call, deque, i, dead, hit, pushes, before>>

TakeCall == [op : {"take"}, key : Key, now : Times, ttl : TTLs]
PutCall  == [op : {"put"}, key : Key, now : Times, ttl : TTLs, max_idle : Caps]

\* VecDeque::remove(k)
RemoveAt(d, k) == SubSeq(d, 1, k - 1) \o SubSeq(d, k + 1, Len(d))

EntriesOf(d) == {d[k] : k \in DOMAIN d}

IsExpired(e) == SaturatingSince(call.now, e.stored_at) >= call.ttl

Init ==
    /\ pc = "idle" /\ call = [op |-> "none"] /\ deque = <<>> /\ i = 1
    /\ dead = <<>> /\ hit = <<>> /\ pushes = 0 /\ before = <<>>

\* take and put begin with drain_expired.
Call(args) ==
    /\ pc = "idle"
    /\ args.op = "put" => pushes < MaxPushes
    /\ pc' = "drain" /\ call' = args /\ i' = 1 /\ dead' = <<>> /\ hit' = <<>> /\ before' = deque
    /\ UNCHANGED <<deque, pushes>>

\* Slip: `i` advances past the element that a removal moved into its place.
DrainSkipping ==
    /\ pc = "drain" /\ i <= Len(deque)
    /\ IF IsExpired(deque[i])
       THEN /\ deque' = RemoveAt(deque, i) /\ dead' = Append(dead, deque[i])
       ELSE UNCHANGED <<deque, dead>>
    /\ i' = i + 1
    /\ UNCHANGED <<pc, call, hit, pushes, before>>

\* An iteration of drain_expired
Drain ==
    /\ pc = "drain" /\ i <= Len(deque)
    /\ IF IsExpired(deque[i])
       THEN /\ deque' = RemoveAt(deque, i) /\ dead' = Append(dead, deque[i])
            /\ UNCHANGED i
       ELSE i' = i + 1 /\ UNCHANGED <<deque, dead>>
    /\ UNCHANGED <<pc, call, hit, pushes, before>>

\* The end of drain_expired in take: rposition starts at the back.
Search ==
    /\ pc = "drain" /\ i > Len(deque) /\ call.op = "take"
    /\ pc' = "find" /\ i' = Len(deque)
    /\ UNCHANGED <<call, deque, dead, hit, pushes, before>>

\* An iteration of rposition, with what take does with its result.
Find ==
    /\ pc = "find"
    /\ \/ i > 0 /\ deque[i].key # call.key
          /\ i' = i - 1 /\ UNCHANGED <<pc, deque, hit>>
       \/ i > 0 /\ deque[i].key = call.key
          /\ hit' = <<deque[i]>> /\ deque' = RemoveAt(deque, i) /\ pc' = "idle" /\ UNCHANGED i
       \/ i = 0
          /\ pc' = "idle" /\ UNCHANGED <<deque, hit, i>>
    /\ UNCHANGED <<call, dead, pushes, before>>

\* The end of drain_expired in put: push_back.  The connection is named by its
\* slot.
Push ==
    /\ pc = "drain" /\ i > Len(deque) /\ call.op = "put"
    /\ pushes' = pushes + 1
    /\ deque' = Append(deque, Entry(call.key, pushes', call.now, pushes'))
    /\ pc' = "evict"
    /\ UNCHANGED <<call, i, dead, hit, before>>

\* Slip: the newest entry is evicted first.
EvictBack ==
    /\ pc = "evict"
    /\ IF Len(deque) > call.max_idle
       THEN /\ deque' = SubSeq(deque, 1, Len(deque) - 1)
            /\ dead' = Append(dead, deque[Len(deque)])
            /\ UNCHANGED pc
       ELSE pc' = "idle" /\ UNCHANGED <<deque, dead>>
    /\ UNCHANGED <<call, i, hit, pushes, before>>

\* An iteration of the loop in put: pop_front.
Evict ==
    /\ pc = "evict"
    /\ IF Len(deque) > call.max_idle
       THEN /\ deque' = Tail(deque) /\ dead' = Append(dead, Head(deque))
            /\ UNCHANGED pc
       ELSE pc' = "idle" /\ UNCHANGED <<deque, dead>>
    /\ UNCHANGED <<call, i, hit, pushes, before>>

Next ==
    \/ \E args \in TakeCall \cup PutCall : Call(args)
    \/ Drain \/ Search \/ Find \/ Push \/ Evict

Spec == Init /\ [][Next]_vars

-----------------------------------------------------------------------------
(* Properties *)

\* A greater slot is nearer the back, which the set-valued operators take for
\* granted.
Ordered(d) == \A j, k \in DOMAIN d : j < k => d[j].slot < d[k].slot

\* take has handed out, kept and closed the entries that TakeHit, TakeRest and
\* Expired say, each once, for every clock reading and every TTL, and has kept
\* them in the order in which they were pushed.
TakeAgrees ==
    pc = "idle" /\ call.op = "take" =>
        LET entries == EntriesOf(before)
        IN  /\ EntriesOf(hit)   = TakeHit(entries, call.key, call.now, call.ttl)
            /\ EntriesOf(deque) = TakeRest(entries, call.key, call.now, call.ttl)
            /\ EntriesOf(dead)  = Expired(entries, call.now, call.ttl)
            /\ Ordered(deque)
            /\ Len(hit) + Len(deque) + Len(dead) = Len(before)

\* put has kept and closed the entries that PutRest and PutDead say, each once,
\* for every clock reading, every TTL and every cap, zero included, in order and
\* with the entry that is put at the back.
PutAgrees ==
    pc = "idle" /\ call.op = "put" =>
        LET entries == EntriesOf(before)
            e       == Entry(call.key, pushes, call.now, pushes)
        IN  /\ EntriesOf(deque) = PutRest(entries, e, call.now, call.ttl, call.max_idle)
            /\ EntriesOf(dead)  = PutDead(entries, e, call.now, call.ttl, call.max_idle)
            /\ Ordered(deque)
            /\ Len(deque) + Len(dead) = Len(before) + 1
=============================================================================

------------------------- MODULE ReservoirDequeProofs -------------------------
(***************************************************************************)
(* The loops of src/pool.rs compute the set-valued operators of Reservoir, *)
(* for every deque, clock reading, TTL and cap.                            *)
(***************************************************************************)
EXTENDS ReservoirDeque, FiniteSetTheorems, SequenceTheorems, TLAPS

EntrySet == [key : Key, conn : Nat, stored_at : Int, slot : Nat]

-----------------------------------------------------------------------------
(* Deques *)

\* VecDeque::remove closes the gap, and takes out one entry.
LEMMA Removal ==
    ASSUME NEW d \in Seq(EntrySet), Ordered(d), NEW k \in 1 .. Len(d)
    PROVE  /\ RemoveAt(d, k) \in Seq(EntrySet)
           /\ Len(RemoveAt(d, k)) = Len(d) - 1
           /\ \A j \in 1 .. Len(d) - 1 : RemoveAt(d, k)[j] = IF j < k THEN d[j] ELSE d[j + 1]
           /\ Ordered(RemoveAt(d, k))
           /\ EntriesOf(RemoveAt(d, k)) = EntriesOf(d) \ {d[k]}
           /\ d[k] \in EntriesOf(d)
<1> DEFINE front == SubSeq(d, 1, k - 1)
           back  == SubSeq(d, k + 1, Len(d))
           r     == RemoveAt(d, k)
<1>1. Len(d) \in Nat /\ k \in Nat /\ \A j \in 1 .. Len(d) : d[j] \in EntrySet
  OBVIOUS
<1>2. front \in Seq(EntrySet) /\ Len(front) = k - 1 /\ \A j \in 1 .. k - 1 : front[j] = d[j]
  BY <1>1, SubSeqProperties
<1>3. back \in Seq(EntrySet) /\ Len(back) = Len(d) - k /\ \A j \in 1 .. Len(d) - k : back[j] = d[k + j]
  BY <1>1, SubSeqProperties
<1>4. r = front \o back
  BY DEF RemoveAt
<1> HIDE DEF front, back, r
<1>c. /\ front \o back \in Seq(EntrySet)
      /\ Len(front \o back) = Len(front) + Len(back)
      /\ \A m \in 1 .. Len(front) + Len(back) :
           (front \o back)[m] = IF m <= Len(front) THEN front[m] ELSE back[m - Len(front)]
  <2>1. front \in Seq(EntrySet) /\ back \in Seq(EntrySet)
    BY <1>2, <1>3
  <2> QED  BY ONLY <2>1, ConcatProperties
<1>5. r \in Seq(EntrySet) /\ Len(r) = Len(d) - 1
  BY <1>1, <1>2, <1>3, <1>4, <1>c
<1>6. \A j \in 1 .. Len(d) - 1 : r[j] = IF j < k THEN d[j] ELSE d[j + 1]
  <2> SUFFICES ASSUME NEW j \in 1 .. Len(d) - 1
               PROVE  r[j] = IF j < k THEN d[j] ELSE d[j + 1]
    OBVIOUS
  <2>1. \A m \in 1 .. Len(front) + Len(back) :
             r[m] = IF m <= Len(front) THEN front[m] ELSE back[m - Len(front)]
    BY <1>4, <1>c
  <2>2. CASE j < k
    <3>1. j \in 1 .. k - 1 /\ j \in 1 .. Len(front) + Len(back) /\ j <= Len(front)
      BY <1>1, <1>2, <1>3, <2>2
    <3>2. r[j] = front[j] /\ front[j] = d[j]
      BY <1>2, <2>1, <3>1
    <3> QED  BY <2>2, <3>2
  <2>3. CASE ~(j < k)
    <3>1. /\ j \in 1 .. Len(front) + Len(back) /\ ~(j <= Len(front))
          /\ j - Len(front) \in 1 .. Len(d) - k /\ k + (j - Len(front)) = j + 1
      BY <1>1, <1>2, <1>3, <2>3
    <3>2. r[j] = back[j - Len(front)] /\ back[j - Len(front)] = d[k + (j - Len(front))]
      BY <1>3, <2>1, <3>1
    <3> QED  BY <2>3, <3>1, <3>2
  <2> QED  BY <2>2, <2>3
<1>7. DOMAIN r = 1 .. Len(d) - 1 /\ DOMAIN d = 1 .. Len(d)
  BY <1>5
<1>o. \A m, n \in 1 .. Len(d) : m < n => d[m].slot < d[n].slot
  BY <1>7 DEF Ordered
<1>s. \A m \in 1 .. Len(d) : d[m].slot \in Nat
  BY <1>1 DEF EntrySet
<1>8. Ordered(r)
  <2> SUFFICES ASSUME NEW m \in 1 .. Len(d) - 1, NEW n \in 1 .. Len(d) - 1, m < n
               PROVE  r[m].slot < r[n].slot
    BY <1>7 DEF Ordered
  <2>1. /\ m \in 1 .. Len(d) /\ m + 1 \in 1 .. Len(d) /\ n \in 1 .. Len(d) /\ n + 1 \in 1 .. Len(d)
        /\ m < n /\ m < n + 1 /\ m + 1 < n + 1
    BY <1>1
  <2>2. CASE n < k
    BY <1>1, <1>6, <1>o, <2>1, <2>2
  <2>3. CASE m < k /\ n >= k
    BY <1>1, <1>6, <1>o, <2>1, <2>3
  <2>4. CASE m >= k
    <3>1. r[m] = d[m + 1] /\ r[n] = d[n + 1]
      BY <1>1, <1>6, <2>4
    <3> QED  BY <1>o, <2>1, <3>1
  <2> QED  BY <1>1, <2>2, <2>3, <2>4
<1>9. EntriesOf(r) = EntriesOf(d) \ {d[k]}
  <2>1. ASSUME NEW j \in 1 .. Len(d) - 1 PROVE r[j] \in EntriesOf(d) \ {d[k]}
    <3>1. CASE j < k
      <4>1. r[j] = d[j] /\ j \in 1 .. Len(d)
        BY <1>1, <1>6, <3>1
      <4>2. d[j].slot < d[k].slot
        BY <1>o, <3>1, <4>1
      <4>3. d[j] # d[k]
        BY <1>s, <4>1, <4>2
      <4> QED  BY <1>7, <4>1, <4>3 DEF EntriesOf
    <3>2. CASE j >= k
      <4>1. r[j] = d[j + 1] /\ j + 1 \in 1 .. Len(d) /\ k < j + 1
        BY <1>1, <1>6, <3>2
      <4>2. d[k].slot < d[j + 1].slot
        BY <1>o, <4>1
      <4>3. d[j + 1] # d[k]
        BY <1>s, <4>1, <4>2
      <4> QED  BY <1>7, <4>1, <4>3 DEF EntriesOf
    <3> QED  BY <1>1, <3>1, <3>2
  <2>2. ASSUME NEW j \in 1 .. Len(d), d[j] # d[k] PROVE d[j] \in EntriesOf(r)
    <3>1. CASE j < k
      BY <1>1, <1>6, <1>7, <3>1 DEF EntriesOf
    <3>2. CASE j > k
      <4>1. j - 1 \in 1 .. Len(d) - 1 /\ r[j - 1] = d[j]
        BY <1>1, <1>6, <3>2
      <4> QED  BY <1>7, <4>1 DEF EntriesOf
    <3> QED  BY <1>1, <2>2, <3>1, <3>2
  <2> QED  BY <1>7, <2>1, <2>2 DEF EntriesOf
<1>10. d[k] \in EntriesOf(d)
  BY <1>7 DEF EntriesOf
<1> QED  BY <1>5, <1>6, <1>8, <1>9, <1>10 DEF r

\* VecDeque::pop_front is a removal at the front.
LEMMA Popping ==
    ASSUME NEW d \in Seq(EntrySet), d # <<>>
    PROVE  Tail(d) = RemoveAt(d, 1) /\ Head(d) = d[1]
<1>1. Tail(d) = SubSeq(d, 2, Len(d))
  BY TailIsSubSeq
<1>2. SubSeq(d, 1, 0) = <<>>
  BY SubSeqEmpty
<1>3. SubSeq(d, 2, Len(d)) \in Seq(EntrySet)
  BY <1>1, HeadTailProperties
<1> QED  BY <1>1, <1>2, <1>3, ConcatEmptySeq DEF RemoveAt

LEMMA Appending ==
    ASSUME NEW d \in Seq(EntrySet), NEW e \in EntrySet
    PROVE  /\ Append(d, e) \in Seq(EntrySet)
           /\ Len(Append(d, e)) = Len(d) + 1
           /\ EntriesOf(Append(d, e)) = EntriesOf(d) \cup {e}
<1>1. /\ Append(d, e) \in Seq(EntrySet) /\ Len(Append(d, e)) = Len(d) + 1
      /\ \A j \in 1 .. Len(d) : Append(d, e)[j] = d[j]
      /\ Append(d, e)[Len(d) + 1] = e
  BY AppendProperties
<1>2. DOMAIN Append(d, e) = 1 .. Len(d) + 1 /\ DOMAIN d = 1 .. Len(d) /\ Len(d) \in Nat
  BY <1>1
<1> QED  BY <1>1, <1>2 DEF EntriesOf

\* VecDeque::push_back keeps the order, when the slot is a new one.
LEMMA Pushing ==
    ASSUME NEW d \in Seq(EntrySet), Ordered(d), NEW e \in EntrySet,
           \A f \in EntriesOf(d) : f.slot < e.slot
    PROVE  Ordered(Append(d, e))
<1>1. /\ \A j \in 1 .. Len(d) : Append(d, e)[j] = d[j]
      /\ Append(d, e)[Len(d) + 1] = e /\ Len(Append(d, e)) = Len(d) + 1 /\ Append(d, e) \in Seq(EntrySet)
  BY AppendProperties
<1>2. DOMAIN Append(d, e) = 1 .. Len(d) + 1 /\ DOMAIN d = 1 .. Len(d) /\ Len(d) \in Nat
  BY <1>1
<1>3. \A j \in 1 .. Len(d) : d[j].slot < e.slot
  BY <1>2 DEF EntriesOf
<1> QED  BY <1>1, <1>2, <1>3 DEF Ordered

LEMMA Finite ==
    ASSUME NEW d \in Seq(EntrySet)
    PROVE  IsFiniteSet(EntriesOf(d))
<1>1. Len(d) \in Nat /\ DOMAIN d = 1 .. Len(d)
  OBVIOUS
<1>2. IsFiniteSet(1 .. Len(d))
  BY <1>1, FS_Interval
<1>3. d \in [1 .. Len(d) -> EntriesOf(d)]
  BY <1>1 DEF EntriesOf
<1>4. d \in Surjection(1 .. Len(d), EntriesOf(d))
  BY <1>1, <1>3 DEF Surjection, EntriesOf
<1> QED  BY <1>2, <1>4, FS_Surjection

\* The entries of a deque are as many as it has places.
LEMMA Counting ==
    ASSUME NEW d \in Seq(EntrySet), Ordered(d)
    PROVE  IsFiniteSet(EntriesOf(d)) /\ Cardinality(EntriesOf(d)) = Len(d)
<1>1. Len(d) \in Nat /\ DOMAIN d = 1 .. Len(d) /\ \A j \in 1 .. Len(d) : d[j] \in EntrySet
  OBVIOUS
<1>2. IsFiniteSet(1 .. Len(d)) /\ Cardinality(1 .. Len(d)) = Len(d)
  <2>1. IsFiniteSet(1 .. Len(d))
    BY <1>1, FS_Interval
  <2>2. Cardinality(1 .. Len(d)) = IF 1 > Len(d) THEN 0 ELSE Len(d) - 1 + 1
    BY <1>1, FS_Interval
  <2> QED  BY <1>1, <2>1, <2>2
<1>3. d \in Bijection(1 .. Len(d), EntriesOf(d))
  <2>1. d \in [1 .. Len(d) -> EntriesOf(d)]
    <3>1. d \in [1 .. Len(d) -> EntrySet]
      BY <1>1
    <3>2. \A j \in 1 .. Len(d) : d[j] \in EntriesOf(d)
      BY <1>1 DEF EntriesOf
    <3> QED  BY <3>1, <3>2
  <2>2. ASSUME NEW j \in 1 .. Len(d), NEW k \in 1 .. Len(d), d[j] = d[k]
        PROVE  j = k
    <3>1. d[j].slot \in Nat /\ d[j].slot = d[k].slot
      BY <1>1, <2>2 DEF EntrySet
    <3>2. (j < k => d[j].slot < d[k].slot) /\ (k < j => d[k].slot < d[j].slot)
      BY <1>1 DEF Ordered
    <3> QED  BY <1>1, <3>1, <3>2
  <2>3. \A e \in EntriesOf(d) : \E j \in 1 .. Len(d) : d[j] = e
    BY <1>1 DEF EntriesOf
  <2>4. d \in Injection(1 .. Len(d), EntriesOf(d))
    BY <2>1, <2>2 DEF Injection, IsInjective
  <2>5. d \in Surjection(1 .. Len(d), EntriesOf(d))
    BY <2>1, <2>3 DEF Surjection
  <2> QED  BY <2>4, <2>5 DEF Bijection
<1>4. ExistsBijection(1 .. Len(d), EntriesOf(d))
  BY <1>3 DEF ExistsBijection
<1> QED  BY <1>2, <1>4, FS_Bijection

-----------------------------------------------------------------------------
(* The inductive invariant *)

Was   == EntriesOf(before)
Old   == Expired(Was, call.now, call.ttl)
Young == Unexpired(Was, call.now, call.ttl)

\* What put pushes, and what the cap is about.
Pushed == Entry(call.key, pushes, call.now, pushes)
Capped == Young \cup {Pushed}

Typed ==
    /\ pc \in {"idle", "drain", "find", "evict"}
    /\ call \in {[op |-> "none"]} \cup TakeCall \cup PutCall
    /\ deque \in Seq(EntrySet) /\ dead \in Seq(EntrySet)
    /\ hit \in Seq(EntrySet) /\ before \in Seq(EntrySet)
    /\ i \in Nat /\ pushes \in Nat
    /\ pc # "idle" => call \in TakeCall \cup PutCall
    /\ pc = "find" => call.op = "take"
    /\ pc = "evict" => call.op = "put"

\* The deque is in the order of the pushes, at every step of every loop.
InOrder == Ordered(deque) /\ \A e \in EntriesOf(deque) : e.slot <= pushes

\* In drain_expired: what was is here or closed, never both, and the entries
\* before the index are fresh.
Draining ==
    pc = "drain" =>
        /\ hit = <<>> /\ i \in 1 .. Len(deque) + 1
        /\ EntriesOf(deque) \cup EntriesOf(dead) = Was
        /\ EntriesOf(deque) \cap EntriesOf(dead) = {}
        /\ Len(deque) + Len(dead) = Len(before)
        /\ EntriesOf(dead) \subseteq Old
        /\ \A j \in 1 .. i - 1 : ~IsExpired(deque[j])
        /\ \A e \in Was : e.slot <= pushes

\* In rposition: the deque is swept, and no entry behind the index has the key.
Finding ==
    pc = "find" =>
        /\ hit = <<>> /\ i \in 0 .. Len(deque)
        /\ EntriesOf(deque) = Young /\ EntriesOf(dead) = Old
        /\ Len(deque) + Len(dead) = Len(before)
        /\ \A j \in i + 1 .. Len(deque) : deque[j].key # call.key

\* In the loop that enforces the cap: what is left is the back of what there
\* was, and whatever left the deque has max_idle entries behind it.
Evicting ==
    pc = "evict" =>
        /\ \A e \in Was : e.slot < pushes
        /\ EntriesOf(deque) \subseteq Capped
        /\ EntriesOf(deque) \cup EntriesOf(dead) = Was \cup {Pushed}
        /\ EntriesOf(deque) \cap EntriesOf(dead) = {}
        /\ Len(deque) + Len(dead) = Len(before) + 1
        /\ \A g \in EntriesOf(deque) : Newer(Capped, g) \subseteq EntriesOf(deque)
        /\ \A f \in Capped \ EntriesOf(deque) :
              Cardinality(Newer(Capped, f)) >= call.max_idle

IInv == Typed /\ InOrder /\ Draining /\ Finding /\ Evicting /\ TakeAgrees /\ PutAgrees

-----------------------------------------------------------------------------
(* The steps preserve it *)

\* An entry that is removed from the deque and closed: nothing is lost, nothing
\* is there twice.
LEMMA Moving ==
    ASSUME NEW d \in Seq(EntrySet), Ordered(d), NEW a \in Seq(EntrySet), NEW k \in 1 .. Len(d),
           EntriesOf(d) \cap EntriesOf(a) = {}
    PROVE  LET r == RemoveAt(d, k)
               b == Append(a, d[k])
           IN  /\ r \in Seq(EntrySet) /\ b \in Seq(EntrySet)
               /\ Len(r) + Len(b) = Len(d) + Len(a)
               /\ EntriesOf(r) \cup EntriesOf(b) = EntriesOf(d) \cup EntriesOf(a)
               /\ EntriesOf(r) \cap EntriesOf(b) = {}
               /\ EntriesOf(b) = EntriesOf(a) \cup {d[k]}
<1>1. d[k] \in EntrySet /\ Len(d) \in Nat /\ Len(a) \in Nat
  OBVIOUS
<1>2. /\ RemoveAt(d, k) \in Seq(EntrySet) /\ Len(RemoveAt(d, k)) = Len(d) - 1
      /\ EntriesOf(RemoveAt(d, k)) = EntriesOf(d) \ {d[k]} /\ d[k] \in EntriesOf(d)
  BY Removal
<1>3. /\ Append(a, d[k]) \in Seq(EntrySet) /\ Len(Append(a, d[k])) = Len(a) + 1
      /\ EntriesOf(Append(a, d[k])) = EntriesOf(a) \cup {d[k]}
  BY <1>1, Appending
<1> QED  BY <1>1, <1>2, <1>3

LEMMA InitInv == Init => IInv
<1> SUFFICES ASSUME Init PROVE IInv
  OBVIOUS
<1>1. <<>> \in Seq(EntrySet) /\ EntriesOf(<<>>) = {} /\ Ordered(<<>>)
  BY DEF EntriesOf, Ordered
<1> QED
  BY <1>1 DEF Init, IInv, Typed, InOrder, Draining, Finding, Evicting, TakeAgrees, PutAgrees

LEMMA CallStep ==
    ASSUME IInv, NEW args \in TakeCall \cup PutCall, Call(args)
    PROVE  IInv'
<1> USE DEF IInv
<1>1. EntriesOf(<<>>) = {} /\ <<>> \in Seq(EntrySet) /\ Len(<<>>) = 0
  BY DEF EntriesOf
<1>2. Typed'
  BY <1>1 DEF Typed, Call
<1>3. InOrder'
  BY DEF InOrder, Call
<1>4. Draining'
  <2>1. Len(deque) \in Nat
    BY DEF Typed
  <2>2. \A e \in EntriesOf(deque) : e.slot <= pushes
    BY DEF InOrder
  <2>3. Was' = EntriesOf(deque)
    BY DEF Was, Call
  <2> QED  BY <1>1, <2>1, <2>2, <2>3 DEF Draining, Call
<1>5. Finding' /\ Evicting' /\ TakeAgrees' /\ PutAgrees'
  BY DEF Finding, Evicting, TakeAgrees, PutAgrees, Call
<1> QED  BY <1>2, <1>3, <1>4, <1>5

\* The sweep: a removal leaves the index where the next entry has moved to, so
\* that none is skipped.
LEMMA DrainStep ==
    ASSUME IInv, Drain
    PROVE  IInv'
<1> USE DEF IInv
<1>1. /\ pc = "drain" /\ pc' = "drain" /\ call' = call /\ hit' = hit /\ pushes' = pushes
      /\ before' = before /\ i <= Len(deque) /\ i \in 1 .. Len(deque) /\ i \in Nat
      /\ deque \in Seq(EntrySet) /\ dead \in Seq(EntrySet) /\ Len(deque) \in Nat /\ Len(dead) \in Nat
      /\ Ordered(deque) /\ \A e \in EntriesOf(deque) : e.slot <= pushes
  BY DEF Drain, Draining, Typed, InOrder
<1>2. /\ hit = <<>>
      /\ EntriesOf(deque) \cup EntriesOf(dead) = Was
      /\ EntriesOf(deque) \cap EntriesOf(dead) = {}
      /\ Len(deque) + Len(dead) = Len(before)
      /\ EntriesOf(dead) \subseteq Old
      /\ \A j \in 1 .. i - 1 : ~IsExpired(deque[j])
  BY <1>1 DEF Draining
<1>3. Was' = Was /\ Old' = Old /\ (\A e : IsExpired(e)' <=> IsExpired(e))
      /\ \A e \in Was : e.slot <= pushes
  BY <1>1 DEF Was, Old, IsExpired, Draining
<1>4. Finding' /\ Evicting' /\ TakeAgrees' /\ PutAgrees'
  BY <1>1 DEF Finding, Evicting, TakeAgrees, PutAgrees
<1>5. CASE ~IsExpired(deque[i])
  <2>1. i' = i + 1 /\ deque' = deque /\ dead' = dead
    BY <1>5 DEF Drain
  <2>2. Typed' /\ InOrder'
    BY <1>1, <2>1 DEF Typed, InOrder
  <2>3. Draining'
    BY <1>1, <1>2, <1>3, <1>5, <2>1 DEF Draining
  <2> QED  BY <1>4, <2>2, <2>3
<1>6. CASE IsExpired(deque[i])
  <2>1. i' = i /\ deque' = RemoveAt(deque, i) /\ dead' = Append(dead, deque[i])
    BY <1>6 DEF Drain
  <2>2. /\ deque' \in Seq(EntrySet) /\ dead' \in Seq(EntrySet)
        /\ Len(deque') + Len(dead') = Len(deque) + Len(dead)
        /\ EntriesOf(deque') \cup EntriesOf(dead') = Was
        /\ EntriesOf(deque') \cap EntriesOf(dead') = {}
        /\ EntriesOf(dead') = EntriesOf(dead) \cup {deque[i]}
    <3> DEFINE r == RemoveAt(deque, i)
               b == Append(dead, deque[i])
    <3>1. /\ r \in Seq(EntrySet) /\ b \in Seq(EntrySet)
          /\ Len(r) + Len(b) = Len(deque) + Len(dead)
          /\ EntriesOf(r) \cup EntriesOf(b) = EntriesOf(deque) \cup EntriesOf(dead)
          /\ EntriesOf(r) \cap EntriesOf(b) = {}
          /\ EntriesOf(b) = EntriesOf(dead) \cup {deque[i]}
      BY <1>1, <1>2, Moving
    <3>2. deque' = r /\ dead' = b
      BY <2>1
    <3> HIDE DEF r, b
    <3> QED  BY <1>2, <3>1, <3>2
  <2>3. /\ Len(deque') = Len(deque) - 1
        /\ \A j \in 1 .. Len(deque) - 1 : deque'[j] = IF j < i THEN deque[j] ELSE deque[j + 1]
        /\ Ordered(deque') /\ EntriesOf(deque') \subseteq EntriesOf(deque)
        /\ deque[i] \in EntriesOf(deque)
    <3> DEFINE r == RemoveAt(deque, i)
    <3>1. /\ Len(r) = Len(deque) - 1
          /\ \A j \in 1 .. Len(deque) - 1 : r[j] = IF j < i THEN deque[j] ELSE deque[j + 1]
          /\ Ordered(r) /\ EntriesOf(r) = EntriesOf(deque) \ {deque[i]}
          /\ deque[i] \in EntriesOf(deque)
      BY <1>1, Removal
    <3>2. deque' = r
      BY <2>1
    <3> HIDE DEF r
    <3> QED  BY <3>1, <3>2
  <2>4. Typed'
    BY <1>1, <2>1, <2>2 DEF Typed
  <2>5. InOrder'
    BY <1>1, <2>3 DEF InOrder
  <2>6. deque[i] \in Old
    BY <1>2, <1>6, <2>3 DEF Old, Expired, IsExpired
  <2>7. i' \in 1 .. Len(deque') + 1
    BY <1>1, <2>1, <2>3
  <2>8. ASSUME NEW j \in 1 .. i' - 1 PROVE ~IsExpired(deque'[j])
    BY <1>1, <1>2, <2>1, <2>3
  <2>9. Draining'
    BY <1>1, <1>2, <1>3, <2>2, <2>6, <2>7, <2>8 DEF Draining
  <2> QED  BY <1>4, <2>4, <2>5, <2>9
<1> QED  BY <1>5, <1>6

LEMMA SearchStep ==
    ASSUME IInv, Search
    PROVE  IInv'
<1> USE DEF IInv
<1>1. /\ pc = "drain" /\ pc' = "find" /\ call' = call /\ hit' = hit /\ pushes' = pushes
      /\ before' = before /\ deque' = deque /\ dead' = dead
      /\ i > Len(deque) /\ i' = Len(deque) /\ call.op = "take"
      /\ deque \in Seq(EntrySet) /\ Len(deque) \in Nat
  BY DEF Search, Typed
<1>2. /\ hit = <<>> /\ i \in 1 .. Len(deque) + 1
      /\ EntriesOf(deque) \cup EntriesOf(dead) = Was
      /\ EntriesOf(deque) \cap EntriesOf(dead) = {}
      /\ Len(deque) + Len(dead) = Len(before)
      /\ EntriesOf(dead) \subseteq Old
      /\ \A j \in 1 .. i - 1 : ~IsExpired(deque[j])
  BY <1>1 DEF Draining
<1>3. EntriesOf(deque) = Young /\ EntriesOf(dead) = Old
  <2>1. \A e \in EntriesOf(deque) : ~IsExpired(e)
    <3>1. DOMAIN deque = 1 .. Len(deque)
      BY <1>1
    <3>2. \A j \in 1 .. Len(deque) : j \in 1 .. i - 1
      BY <1>1, <1>2
    <3>3. \A j \in DOMAIN deque : ~IsExpired(deque[j])
      BY <1>2, <3>1, <3>2
    <3> QED  BY <3>3 DEF EntriesOf
  <2>2. Old = {e \in Was : IsExpired(e)} /\ Young = Was \ Old
    BY DEF Old, Young, Expired, Unexpired, IsExpired
  <2> QED  BY <1>2, <2>1, <2>2
<1>4. Was' = Was /\ Old' = Old /\ Young' = Young
  BY <1>1 DEF Was, Old, Young
<1>5. Typed' /\ InOrder'
  BY <1>1 DEF Typed, InOrder
<1>6. Finding'
  BY <1>1, <1>2, <1>3, <1>4 DEF Finding
<1>7. Draining' /\ Evicting' /\ TakeAgrees' /\ PutAgrees'
  BY <1>1 DEF Draining, Evicting, TakeAgrees, PutAgrees
<1> QED  BY <1>5, <1>6, <1>7

\* The search ends at the match nearest the back, and there is no other.
LEMMA LastMatch ==
    ASSUME NEW d \in Seq(EntrySet), Ordered(d), NEW key, NEW k \in 1 .. Len(d), d[k].key = key,
           \A j \in k + 1 .. Len(d) : d[j].key # key
    PROVE  LastOf({e \in EntriesOf(d) : e.key = key}) = {d[k]}
<1> DEFINE M == {e \in EntriesOf(d) : e.key = key}
<1>1. DOMAIN d = 1 .. Len(d) /\ Len(d) \in Nat /\ \A j \in 1 .. Len(d) : d[j].slot \in Nat
  <2>1. Len(d) \in Nat /\ DOMAIN d = 1 .. Len(d) /\ d \in [1 .. Len(d) -> EntrySet]
    <3> HIDE DEF M
    <3> QED  BY d \in Seq(EntrySet)
  <2>2. \A j \in 1 .. Len(d) : d[j] \in EntrySet
    BY <2>1
  <2>3. \A e \in EntrySet : e.slot \in Nat
    BY DEF EntrySet
  <2> QED  BY <2>1, <2>2, <2>3
<1>2. d[k] \in M
  BY <1>1 DEF EntriesOf
<1>3. ASSUME NEW e \in M PROVE e = d[k] \/ e.slot < d[k].slot
  <2>1. PICK j \in 1 .. Len(d) : e = d[j]
    BY <1>1 DEF EntriesOf
  <2>2. j = k \/ j < k
    BY <1>1, <2>1
  <2> QED  BY <1>1, <2>1, <2>2 DEF Ordered
<1>4. \A e \in M : e.slot \in Nat
  BY <1>1 DEF EntriesOf
<1> HIDE DEF M
<1>5. d[k] \in LastOf(M)
  BY <1>2, <1>3, <1>4 DEF LastOf, Newer
<1>6. \A e \in LastOf(M) : e = d[k]
  BY <1>2, <1>3, <1>4 DEF LastOf, Newer
<1>7. LastOf(M) = {d[k]}
  BY <1>5, <1>6
<1> QED  BY <1>7 DEF M

LEMMA FindStep ==
    ASSUME IInv, Find
    PROVE  IInv'
<1> USE DEF IInv
<1>1. /\ pc = "find" /\ call' = call /\ pushes' = pushes /\ before' = before /\ dead' = dead
      /\ call.op = "take" /\ deque \in Seq(EntrySet) /\ Len(deque) \in Nat /\ Len(dead) \in Nat
      /\ Ordered(deque) /\ \A e \in EntriesOf(deque) : e.slot <= pushes
  BY DEF Find, Typed, InOrder
<1>2. /\ hit = <<>> /\ i \in 0 .. Len(deque)
      /\ EntriesOf(deque) = Young /\ EntriesOf(dead) = Old
      /\ Len(deque) + Len(dead) = Len(before)
      /\ \A j \in i + 1 .. Len(deque) : deque[j].key # call.key
  BY <1>1 DEF Finding
<1>3. Was' = Was /\ Old' = Old /\ Young' = Young
  BY <1>1 DEF Was, Old, Young
<1> DEFINE Match == {e \in EntriesOf(deque) : e.key = call.key}
<1>4. /\ TakeHit(Was, call.key, call.now, call.ttl) = LastOf(Match)
      /\ TakeRest(Was, call.key, call.now, call.ttl) = EntriesOf(deque) \ LastOf(Match)
      /\ Expired(Was, call.now, call.ttl) = EntriesOf(dead)
  <2>1. Match = {e \in Young : e.key = call.key}
    BY <1>2
  <2>2. TakeHit(Was, call.key, call.now, call.ttl) = LastOf(Match)
    BY <2>1 DEF TakeHit, Young
  <2>3. TakeRest(Was, call.key, call.now, call.ttl) = Young \ LastOf(Match)
    BY <2>2 DEF TakeRest, Young
  <2> QED  BY <1>2, <2>2, <2>3 DEF Old
<1>e. Len(<<>>) = 0 /\ EntriesOf(<<>>) = {}
  BY DEF EntriesOf
\* What is left to show when the search ends.
<1>f. ASSUME NEW h, EntriesOf(hit') = h, h = LastOf(Match), EntriesOf(deque') = EntriesOf(deque) \ h,
             Ordered(deque'), Len(hit') + Len(deque') = Len(deque)
      PROVE  TakeAgrees'
  <2> HIDE DEF Match
  <2>1. EntriesOf(hit') = TakeHit(Was', call'.key, call'.now, call'.ttl)
    BY <1>1, <1>3, <1>4, <1>f
  <2>2. EntriesOf(deque') = TakeRest(Was', call'.key, call'.now, call'.ttl)
    BY <1>1, <1>3, <1>4, <1>f
  <2>3. EntriesOf(dead') = Expired(Was', call'.now, call'.ttl)
    BY <1>1, <1>3, <1>4
  <2>4. Len(hit') + Len(deque') + Len(dead') = Len(before')
    BY <1>1, <1>2, <1>f
  <2> QED  BY <2>1, <2>2, <2>3, <2>4, <1>f DEF TakeAgrees, Was
<1>5. CASE i > 0 /\ deque[i].key # call.key
  <2>1. i' = i - 1 /\ pc' = pc /\ deque' = deque /\ hit' = hit
    BY <1>2, <1>5 DEF Find
  <2>2. Typed' /\ InOrder'
    BY <1>1, <1>2, <1>5, <2>1 DEF Typed, InOrder
  <2>3. i' \in 0 .. Len(deque') /\ \A j \in i' + 1 .. Len(deque') : deque'[j].key # call.key
    BY <1>1, <1>2, <1>5, <2>1
  <2>4. Finding'
    BY <1>1, <1>2, <1>3, <2>1, <2>3 DEF Finding
  <2> QED  BY <1>1, <2>1, <2>2, <2>4 DEF Draining, Evicting, TakeAgrees, PutAgrees
<1>6. CASE i > 0 /\ deque[i].key = call.key
  <2> DEFINE r == RemoveAt(deque, i)
             h == deque[i]
  <2>1. i' = i /\ pc' = "idle" /\ deque' = r /\ hit' = <<h>>
    BY <1>2, <1>6 DEF Find
  <2>2. /\ r \in Seq(EntrySet) /\ Len(r) = Len(deque) - 1 /\ Ordered(r)
        /\ EntriesOf(r) = EntriesOf(deque) \ {h} /\ h \in EntriesOf(deque)
    BY <1>1, <1>2, <1>6, Removal
  <2>3. h \in EntrySet /\ <<h>> \in Seq(EntrySet) /\ Len(<<h>>) = 1 /\ EntriesOf(<<h>>) = {h}
    BY <1>1, <1>2, <1>6 DEF EntriesOf
  <2>4. LastOf(Match) = {h}
    BY <1>1, <1>2, <1>6, LastMatch
  <2> HIDE DEF r, h, Match
  <2>5. Typed' /\ InOrder'
    BY <1>1, <2>1, <2>2, <2>3 DEF Typed, InOrder
  <2>6. TakeAgrees'
    BY <1>1, <1>f, <2>1, <2>2, <2>3, <2>4
  <2> QED  BY <1>1, <2>1, <2>5, <2>6 DEF Draining, Finding, Evicting, PutAgrees
<1>7. CASE i = 0
  <2>1. i' = i /\ pc' = "idle" /\ deque' = deque /\ hit' = hit
    BY <1>2, <1>7 DEF Find
  <2>2. Typed' /\ InOrder'
    BY <1>1, <2>1 DEF Typed, InOrder
  <2>3. LastOf(Match) = {}
    <3>1. DOMAIN deque = 1 .. Len(deque)
      BY <1>1
    <3>2. Match = {}
      BY <1>1, <1>2, <1>7, <3>1 DEF EntriesOf
    <3> QED  BY <3>2 DEF LastOf
  <2> HIDE DEF Match
  <2>4. TakeAgrees'
    BY <1>1, <1>2, <1>e, <1>f, <2>1, <2>3
  <2> QED  BY <1>1, <2>1, <2>2, <2>4 DEF Draining, Finding, Evicting, PutAgrees
<1> QED  BY <1>1, <1>2, <1>5, <1>6, <1>7

LEMMA PushStep ==
    ASSUME IInv, Push
    PROVE  IInv'
<1> USE DEF IInv
<1>1. /\ pc = "drain" /\ pc' = "evict" /\ call' = call /\ hit' = hit /\ pushes' = pushes + 1
      /\ before' = before /\ dead' = dead /\ i' = i
      /\ i > Len(deque) /\ call.op = "put" /\ call \in PutCall
      /\ deque' = Append(deque, Pushed')
      /\ deque \in Seq(EntrySet) /\ Len(deque) \in Nat /\ Len(dead) \in Nat /\ dead \in Seq(EntrySet)
      /\ pushes \in Nat
      /\ Ordered(deque) /\ \A e \in EntriesOf(deque) : e.slot <= pushes
  BY DEF Push, Typed, TakeCall, PutCall, InOrder, Pushed
<1>2. /\ hit = <<>> /\ i \in 1 .. Len(deque) + 1
      /\ EntriesOf(deque) \cup EntriesOf(dead) = Was
      /\ EntriesOf(deque) \cap EntriesOf(dead) = {}
      /\ Len(deque) + Len(dead) = Len(before)
      /\ EntriesOf(dead) \subseteq Old
      /\ \A j \in 1 .. i - 1 : ~IsExpired(deque[j])
  BY <1>1 DEF Draining
<1>3. Was' = Was /\ Old' = Old /\ Young' = Young /\ \A e \in Was : e.slot <= pushes
  BY <1>1 DEF Was, Old, Young, Draining
<1>4. EntriesOf(deque) = Young /\ EntriesOf(dead) = Old
  <2>1. \A e \in EntriesOf(deque) : ~IsExpired(e)
    <3>1. DOMAIN deque = 1 .. Len(deque)
      BY <1>1
    <3>2. \A j \in 1 .. Len(deque) : j \in 1 .. i - 1
      BY <1>1, <1>2
    <3>3. \A j \in DOMAIN deque : ~IsExpired(deque[j])
      BY <1>2, <3>1, <3>2
    <3> QED  BY <3>3 DEF EntriesOf
  <2>2. Old = {e \in Was : IsExpired(e)} /\ Young = Was \ Old
    BY DEF Old, Young, Expired, Unexpired, IsExpired
  <2> QED  BY <1>2, <2>1, <2>2
<1>5. Pushed' \in EntrySet /\ Pushed'.slot = pushes + 1
  <2>1. call.key \in Key /\ call.now \in Int
    BY <1>1, DequeAssumption DEF PutCall
  <2>2. Pushed' = Entry(call.key, pushes + 1, call.now, pushes + 1)
    BY <1>1 DEF Pushed
  <2> QED  BY <1>1, <2>1, <2>2 DEF Entry, EntrySet
<1> DEFINE new == Pushed'
<1>6. /\ Append(deque, new) \in Seq(EntrySet) /\ Len(Append(deque, new)) = Len(deque) + 1
      /\ EntriesOf(Append(deque, new)) = EntriesOf(deque) \cup {new}
  <2> HIDE DEF new
  <2> QED  BY <1>1, <1>5, Appending DEF new
<1>7. Ordered(Append(deque, new))
  <2>1. pushes \in Nat /\ \A f \in EntriesOf(deque) : f.slot \in Nat
    <3>1. \A j \in DOMAIN deque : deque[j] \in EntrySet
      BY <1>1
    <3> QED  BY <1>1, <3>1 DEF EntriesOf, EntrySet
  <2>2. \A f \in EntriesOf(deque) : f.slot < new.slot
    BY <1>1, <1>5, <2>1
  <2> HIDE DEF new
  <2> QED  BY <1>1, <1>5, <2>2, Pushing DEF new
<1>8. Typed'
  BY <1>1, <1>6 DEF Typed
<1>9. \A e \in Was' : e.slot \in Nat /\ e.slot < pushes'
  <2>1. \A e \in Was : e.slot \in Nat
    <3>1. \A j \in DOMAIN before : before[j] \in EntrySet
      BY DEF Typed
    <3> QED  BY <3>1 DEF Was, EntriesOf, EntrySet
  <2> QED  BY <1>1, <1>3, <2>1
<1>10. InOrder'
  BY <1>1, <1>2, <1>3, <1>5, <1>6, <1>7, <1>9 DEF InOrder
<1>11. Evicting'
  <2>1. Capped' = Young \cup {new}
    BY <1>3 DEF Capped
  <2>2. EntriesOf(deque') = Capped'
    BY <1>1, <1>4, <1>6, <2>1
  <2>3. new \notin Was
    BY <1>1, <1>3, <1>5, <1>9
  <2>4. \A g \in Capped' : Newer(Capped', g) \subseteq Capped'
    BY DEF Newer
  <2>5. EntriesOf(deque') \cup EntriesOf(dead') = Was' \cup {new}
    BY <1>1, <1>2, <1>3, <1>6
  <2>6. EntriesOf(deque') \cap EntriesOf(dead') = {}
    BY <1>1, <1>2, <1>6, <2>3
  <2>7. Len(deque') + Len(dead') = Len(before') + 1
    <3>1. deque' = Append(deque, new)
      BY <1>1
    <3>2. Len(deque') = Len(deque) + 1
      BY <1>6, <3>1
    <3>3. dead' = dead /\ before' = before /\ Len(deque) \in Nat /\ Len(dead) \in Nat
      BY <1>1
    <3> HIDE DEF new
    <3> QED  BY <1>2, <3>2, <3>3
  <2> QED  BY <1>9, <2>2, <2>4, <2>5, <2>6, <2>7 DEF Evicting
<1> QED  BY <1>1, <1>8, <1>10, <1>11 DEF Draining, Finding, TakeAgrees, PutAgrees

\* A pop takes the entry that all the others are newer than: as many as the cap.
\* At the end no more than the cap are left.
LEMMA EvictStep ==
    ASSUME IInv, Evict
    PROVE  IInv'
<1> USE DEF IInv
<1>1. /\ pc = "evict" /\ call' = call /\ hit' = hit /\ pushes' = pushes
      /\ before' = before /\ i' = i /\ call.op = "put" /\ call \in PutCall
      /\ deque \in Seq(EntrySet) /\ Len(deque) \in Nat /\ Len(dead) \in Nat /\ dead \in Seq(EntrySet)
      /\ Ordered(deque) /\ \A e \in EntriesOf(deque) : e.slot <= pushes
  BY DEF Evict, Typed, TakeCall, PutCall, InOrder
<1>2. /\ \A e \in Was : e.slot < pushes
      /\ EntriesOf(deque) \subseteq Capped
      /\ EntriesOf(deque) \cup EntriesOf(dead) = Was \cup {Pushed}
      /\ EntriesOf(deque) \cap EntriesOf(dead) = {}
      /\ Len(deque) + Len(dead) = Len(before) + 1
      /\ \A g \in EntriesOf(deque) : Newer(Capped, g) \subseteq EntriesOf(deque)
      /\ \A f \in Capped \ EntriesOf(deque) : Cardinality(Newer(Capped, f)) >= call.max_idle
  BY <1>1 DEF Evicting
<1>3. Was' = Was /\ Capped' = Capped /\ Pushed' = Pushed
  BY <1>1 DEF Was, Capped, Young, Pushed
<1>4. call.max_idle \in Nat
  BY <1>1, DequeAssumption DEF PutCall
<1>5. DOMAIN deque = 1 .. Len(deque) /\ \A j \in 1 .. Len(deque) : deque[j] \in EntrySet
  BY <1>1
<1>6. \A e \in EntriesOf(deque) : e.slot \in Nat
  BY <1>5 DEF EntriesOf, EntrySet
<1>7. CASE Len(deque) > call.max_idle
  <2> DEFINE h == deque[1]
             r == RemoveAt(deque, 1)
             b == Append(dead, h)
  <2>1. 1 \in 1 .. Len(deque) /\ deque # <<>>
    BY <1>1, <1>4, <1>7
  <2>2. pc' = pc /\ deque' = r /\ dead' = b
    BY <1>1, <1>7, <2>1, Popping DEF Evict
  <2>3. /\ r \in Seq(EntrySet) /\ Len(r) = Len(deque) - 1 /\ Ordered(r)
        /\ EntriesOf(r) = EntriesOf(deque) \ {h} /\ h \in EntriesOf(deque)
    BY <1>1, <2>1, Removal
  <2>4. /\ b \in Seq(EntrySet)
        /\ Len(r) + Len(b) = Len(deque) + Len(dead)
        /\ EntriesOf(r) \cup EntriesOf(b) = EntriesOf(deque) \cup EntriesOf(dead)
        /\ EntriesOf(r) \cap EntriesOf(b) = {}
    BY <1>1, <1>2, <2>1, Moving
  <2>5. \A g \in EntriesOf(deque) : g = h \/ g.slot > h.slot
    <3> SUFFICES ASSUME NEW j \in 1 .. Len(deque) PROVE deque[j] = h \/ deque[j].slot > h.slot
      BY <1>5 DEF EntriesOf
    <3>1. j = 1 \/ 1 < j
      OBVIOUS
    <3>2. h.slot \in Nat /\ deque[j].slot \in Nat
      BY <1>5, <2>1 DEF EntrySet
    <3> QED  BY <1>1, <1>5, <2>1, <3>1, <3>2 DEF Ordered
  <2> HIDE DEF h, r, b
  <2>6. Newer(Capped, h) = EntriesOf(r)
    BY <1>2, <1>6, <2>3, <2>5 DEF Newer
  <2>7. Cardinality(Newer(Capped, h)) >= call.max_idle
    <3>1. Cardinality(EntriesOf(r)) = Len(r)
      BY <2>3, Counting
    <3> QED  BY <1>1, <1>4, <1>7, <2>3, <2>6, <3>1
  <2>8. ASSUME NEW g \in EntriesOf(r) PROVE Newer(Capped, g) \subseteq EntriesOf(r)
    BY <1>2, <1>6, <2>3, <2>5, <2>8 DEF Newer
  <2>9. ASSUME NEW f \in Capped \ EntriesOf(r) PROVE Cardinality(Newer(Capped, f)) >= call.max_idle
    BY <1>2, <2>3, <2>7
  <2>10. Evicting'
    BY <1>1, <1>2, <1>3, <2>2, <2>3, <2>4, <2>8, <2>9 DEF Evicting
  <2>11. Typed' /\ InOrder'
    BY <1>1, <2>2, <2>3, <2>4 DEF Typed, InOrder
  <2> QED  BY <1>1, <2>2, <2>10, <2>11 DEF Draining, Finding, TakeAgrees, PutAgrees
<1>8. CASE Len(deque) <= call.max_idle
  <2>1. pc' = "idle" /\ deque' = deque /\ dead' = dead
    BY <1>1, <1>4, <1>8 DEF Evict
  <2>2. Typed' /\ InOrder'
    BY <1>1, <2>1 DEF Typed, InOrder
  <2>3. ASSUME NEW g \in EntriesOf(deque) PROVE Cardinality(Newer(Capped, g)) < call.max_idle
    <3>1. IsFiniteSet(EntriesOf(deque)) /\ Cardinality(EntriesOf(deque)) = Len(deque)
      BY <1>1, Counting
    <3>2. Newer(Capped, g) \subseteq EntriesOf(deque) \ {g}
      BY <1>2, <1>6 DEF Newer
    <3>3. IsFiniteSet(EntriesOf(deque) \ {g}) /\ Cardinality(EntriesOf(deque) \ {g}) = Len(deque) - 1
      BY <3>1, FS_RemoveElement
    <3>4. Cardinality(Newer(Capped, g)) <= Len(deque) - 1 /\ Cardinality(Newer(Capped, g)) \in Nat
      BY <3>2, <3>3, FS_Subset, FS_CardinalityType
    <3> QED  BY <1>1, <1>4, <1>8, <3>4
  <2>4. EntriesOf(deque) = KeepNewest(Capped, call.max_idle)
    <3>1. ASSUME NEW f \in Capped \ EntriesOf(deque)
          PROVE  ~(Cardinality(Newer(Capped, f)) < call.max_idle)
      <4>1. Cardinality(Newer(Capped, f)) >= call.max_idle
        BY <1>2
      <4>2. IsFiniteSet(Was) /\ Newer(Capped, f) \subseteq Was \cup {Pushed}
        BY Finite DEF Typed, Was, Newer, Capped, Young, Unexpired
      <4>3. Cardinality(Newer(Capped, f)) \in Nat
        BY <4>2, FS_AddElement, FS_Subset, FS_CardinalityType
      <4> QED  BY <1>4, <4>1, <4>3
    <3> QED  BY <1>2, <2>3, <3>1 DEF KeepNewest
  <2>5. EntriesOf(deque) = PutRest(Was, Pushed, call.now, call.ttl, call.max_idle)
    BY <2>4 DEF PutRest, Capped, Young
  <2>6. EntriesOf(dead) = PutDead(Was, Pushed, call.now, call.ttl, call.max_idle)
    BY <1>2, <2>5 DEF PutDead
  <2>7. PutAgrees'
    BY <1>1, <1>2, <2>1, <2>5, <2>6 DEF PutAgrees, Was, Pushed
  <2> QED  BY <1>1, <2>1, <2>2, <2>7 DEF Draining, Finding, Evicting, TakeAgrees
<1> QED  BY <1>1, <1>4, <1>7, <1>8

-----------------------------------------------------------------------------
(* Theorems *)

LEMMA NextInv == IInv /\ [Next]_vars => IInv'
<1> SUFFICES ASSUME IInv, [Next]_vars PROVE IInv'
  OBVIOUS
<1>1. CASE \E args \in TakeCall \cup PutCall : Call(args)
  BY <1>1, CallStep
<1>2. CASE Drain
  BY <1>2, DrainStep
<1>3. CASE Search
  BY <1>3, SearchStep
<1>4. CASE Find
  BY <1>4, FindStep
<1>5. CASE Push
  BY <1>5, PushStep
<1>6. CASE Evict
  BY <1>6, EvictStep
<1>7. CASE UNCHANGED vars
  <2>1. IInv
    OBVIOUS
  <2> QED  BY <1>7, <2>1 DEF vars, IInv, Typed, InOrder, Draining, Finding, Evicting, TakeAgrees, PutAgrees,
        Was, Old, Young, Capped, Pushed, IsExpired
<1> QED  BY <1>1, <1>2, <1>3, <1>4, <1>5, <1>6, <1>7 DEF Next

\* The sweep, the search and the eviction keep the invariant.
LEMMA Invariance == Spec => []IInv
BY InitInv, NextInv, PTL DEF Spec

\* Reservoir::take, loops and all, hands out, keeps and closes what TakeHit,
\* TakeRest and Expired say, each entry once and in the order of the pushes:
\* for every set of keys, every clock readings, in any order, every TTL and any
\* number of calls.
THEOREM TakeComputesThePolicy == Spec => []TakeAgrees
<1>1. IInv => TakeAgrees
  BY DEF IInv
<1> QED  BY <1>1, Invariance, PTL

\* Reservoir::put, loops and all, keeps and closes what PutRest and PutDead say,
\* for every cap, zero included: the entry that is put is closed then.
THEOREM PutComputesThePolicy == Spec => []PutAgrees
<1>1. IInv => PutAgrees
  BY DEF IInv
<1> QED  BY <1>1, Invariance, PTL
=============================================================================

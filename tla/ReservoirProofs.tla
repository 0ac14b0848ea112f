--------------------------- MODULE ReservoirProofs ---------------------------
(***************************************************************************)
(* What the operators of Reservoir return and bound, for entries whose     *)
(* slots are distinct.                                                     *)
(***************************************************************************)
EXTENDS Reservoir, FiniteSetTheorems, WellFoundedInduction, TLAPS

\* The slots of a deque are distinct integers.
Slotted(entries) ==
    /\ \A e \in entries : e.slot \in Nat
    /\ \A e, f \in entries : e.slot = f.slot => e = f

\* Reservoir::take: at most one entry is handed out.
LEMMA LastOfUnique ==
    ASSUME NEW S, Slotted(S), NEW e \in LastOf(S), NEW f \in LastOf(S)
    PROVE  e = f
BY DEF LastOf, Newer, Slotted

\* Reservoir::take: what is handed out, what stays and what expired are three
\* parts of what there was, and what is handed out has the key asked for.
LEMMA TakeSplits ==
    ASSUME NEW entries, NEW key, NEW now, NEW ttl
    PROVE  LET hit  == TakeHit(entries, key, now, ttl)
               rest == TakeRest(entries, key, now, ttl)
               dead == Expired(entries, now, ttl)
           IN  /\ hit \subseteq entries /\ rest \subseteq entries /\ dead \subseteq entries
               /\ entries = hit \cup rest \cup dead
               /\ hit \cap rest = {} /\ hit \cap dead = {} /\ rest \cap dead = {}
               /\ \A e \in hit : e.key = key
BY DEF TakeHit, TakeRest, Expired, Unexpired, LastOf, Newer

\* Reservoir::take: two entries handed out are one.
LEMMA TakeOne ==
    ASSUME NEW entries, Slotted(entries), NEW key, NEW now, NEW ttl,
           NEW e \in TakeHit(entries, key, now, ttl),
           NEW f \in TakeHit(entries, key, now, ttl)
    PROVE  e = f
<1> DEFINE S == {g \in Unexpired(entries, now, ttl) : g.key = key}
<1>1. Slotted(S)
  BY DEF Slotted, Unexpired, Expired
<1>2. e \in LastOf(S) /\ f \in LastOf(S)
  BY DEF TakeHit
<1> HIDE DEF S
<1>3. QED
  BY <1>1, <1>2, LastOfUnique

\* Reservoir::put: what stays and what is to be closed are the two parts of
\* what there was and the new entry.
LEMMA PutSplits ==
    ASSUME NEW entries, NEW e, NEW now, NEW ttl, NEW max_idle
    PROVE  LET rest == PutRest(entries, e, now, ttl, max_idle)
               dead == PutDead(entries, e, now, ttl, max_idle)
           IN  /\ rest \cup dead = entries \cup {e}
               /\ rest \cap dead = {}
BY DEF PutRest, PutDead, KeepNewest, Unexpired, Expired

\* A deque that is not empty has a front: the entry below which the fewest
\* others are.
LEMMA Front ==
    ASSUME NEW S, IsFiniteSet(S), Slotted(S), S # {}
    PROVE  \E e \in S : \A f \in S : e.slot <= f.slot
<1> DEFINE Below(e) == {f \in S : f.slot < e.slot}
           T == {B \in SUBSET S : \E e \in S : B = Below(e)}
<1>1. T \subseteq FiniteSubsetsOf(S)
  <2>1. \A B \in SUBSET S : IsFiniteSet(B)
    BY FS_Subset
  <2>2. QED
    BY <2>1 DEF FiniteSubsetsOf
<1>2. T # {}
  <2>1. PICK e \in S : TRUE
    OBVIOUS
  <2>2. Below(e) \in SUBSET S
    OBVIOUS
  <2>3. Below(e) \in T
    BY <2>2
  <2>4. QED
    BY <2>3
<1>3. PICK B \in T : \A C \in T : ~ (<<C, B>> \in StrictSubsetOrdering(S))
  <2> HIDE DEF T
  <2>1. QED
    BY <1>1, <1>2, FS_StrictSubsetOrderingWellFounded, WFMin
<1>4. PICK e \in S : B = Below(e)
  BY <1>3
<1>5. ASSUME NEW f \in S, f.slot < e.slot PROVE FALSE
  <2>1. f \in Below(e) /\ f \notin Below(f)
    BY <1>5 DEF Slotted
  <2>2. \A g \in Below(f) : g \in Below(e)
    BY <1>5 DEF Slotted
  <2>3. Below(f) \in SUBSET S /\ Below(f) \in T
    OBVIOUS
  <2> HIDE DEF Below, T
  <2>4. <<Below(f), B>> \in StrictSubsetOrdering(S)
    BY <1>4, <2>1, <2>2, <2>3 DEF StrictSubsetOrdering, T
  <2>5. QED
    BY <1>3, <2>3, <2>4
<1>6. QED
  BY <1>5 DEF Slotted

\* The while loop of Reservoir::put: however many entries there were, at most
\* max_idle survive it.
LEMMA KeepNewestBound ==
    ASSUME NEW S, IsFiniteSet(S), Slotted(S), NEW max_idle \in Nat
    PROVE  /\ IsFiniteSet(KeepNewest(S, max_idle))
           /\ Cardinality(KeepNewest(S, max_idle)) <= max_idle
<1> DEFINE K == KeepNewest(S, max_idle)
<1>1. K \subseteq S /\ IsFiniteSet(K)
  BY FS_Subset DEF KeepNewest
<1>2. CASE K = {}
  BY <1>2, FS_EmptySet
<1>3. CASE K # {}
  <2>1. PICK e \in K : \A f \in K : e.slot <= f.slot
    <3>1. Slotted(K)
      BY <1>1 DEF Slotted
    <3> HIDE DEF K
    <3>2. QED
      BY <1>1, <1>3, <3>1, Front
  <2>3. K \ {e} \subseteq Newer(S, e)
    <3>1. ASSUME NEW f \in K, f # e PROVE f \in Newer(S, e)
      <4>1. f \in S /\ e \in S /\ f.slot \in Nat /\ e.slot \in Nat /\ f.slot # e.slot
        BY <1>1, <3>1 DEF Slotted
      <4>2. e.slot <= f.slot
        BY <2>1
      <4>3. QED
        BY <4>1, <4>2 DEF Newer
    <3>2. QED
      BY <3>1
  <2>4. IsFiniteSet(Newer(S, e)) /\ Cardinality(Newer(S, e)) \in Nat
    BY FS_Subset, FS_CardinalityType DEF Newer
  <2>5. Cardinality(K \ {e}) <= Cardinality(Newer(S, e))
    BY <2>3, <2>4, FS_Subset
  <2>6. Cardinality(Newer(S, e)) < max_idle
    BY DEF KeepNewest
  <2>7. Cardinality(K \ {e}) = Cardinality(K) - 1 /\ Cardinality(K) \in Nat
    BY <1>1, FS_RemoveElement, FS_CardinalityType
  <2>8. QED
    BY <1>1, <2>4, <2>5, <2>6, <2>7
<1>4. QED
  BY <1>2, <1>3

\* Reservoir::put leaves at most max_idle entries.
LEMMA PutBound ==
    ASSUME NEW entries, IsFiniteSet(entries), NEW e, Slotted(entries \cup {e}),
           NEW now, NEW ttl, NEW max_idle \in Nat
    PROVE  /\ IsFiniteSet(PutRest(entries, e, now, ttl, max_idle))
           /\ Cardinality(PutRest(entries, e, now, ttl, max_idle)) <= max_idle
<1> DEFINE S == Unexpired(entries, now, ttl) \cup {e}
<1>1. IsFiniteSet(S)
  BY FS_Subset, FS_AddElement DEF Unexpired
<1>2. Slotted(S)
  BY DEF Slotted, Unexpired
<1>3. QED
  BY <1>1, <1>2, KeepNewestBound DEF PutRest
=============================================================================

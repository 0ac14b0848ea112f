-------------------------- MODULE SearchPageProofs --------------------------
(***************************************************************************)
(* Theorems about SearchPage: its types, that an answer which is not       *)
(* truncated is everything that matched, and that paging misses nothing.   *)
(***************************************************************************)
EXTENDS SearchPage, FiniteSetTheorems, TLAPS

-----------------------------------------------------------------------------
(* Lemmas about pages *)

LEMMA UidFinite ==
    ASSUME NEW S \in SUBSET Uid
    PROVE  IsFiniteSet(S) /\ Cardinality(S) \in Nat /\ Cardinality(S) <= MaxUid
<1>1. IsFiniteSet(Uid) /\ Cardinality(Uid) = MaxUid
  BY FS_Interval, ConstantsOK DEF Uid
<1>2. IsFiniteSet(S) /\ Cardinality(S) <= MaxUid
  BY <1>1, FS_Subset
<1>3. QED
  BY <1>2, FS_CardinalityType

\* What select_newest leaves has no holes: with a UID it has every match that
\* is newer.
LEMMA NewestHasNoHoles ==
    ASSUME NEW found \in SUBSET Uid, NEW n \in Nat,
           NEW u \in SelectNewest(found, n), NEW v \in found, v > u
    PROVE  v \in SelectNewest(found, n)
<1> DEFINE above(w) == {x \in found : x > w}
<1>1. u \in found /\ u \in Nat /\ v \in Nat /\ Cardinality(above(u)) < n
  BY DEF SelectNewest, Uid
<1>2. above(v) \subseteq above(u)
  <2>1. \A x \in found : x \in Int
    BY DEF Uid
  <2>2. \A x \in found : x > v => x > u
    BY <1>1, <2>1
  <2>3. QED
    BY <2>2
<1>3. /\ IsFiniteSet(above(u)) /\ Cardinality(above(u)) \in Nat
      /\ Cardinality(above(v)) \in Nat
  <2>1. above(u) \in SUBSET Uid /\ above(v) \in SUBSET Uid
    OBVIOUS
  <2>2. QED
    BY <2>1, UidFinite
<1>4. Cardinality(above(v)) <= Cardinality(above(u))
  BY <1>2, <1>3, FS_Subset
<1>5. QED
  BY <1>1, <1>3, <1>4 DEF SelectNewest

\* A page that is not truncated is everything that matched.
LEMMA UncutPage ==
    ASSUME NEW found \in SUBSET Uid, NEW rows \in SUBSET found,
           ~ FromResults(Cardinality(found), rows).truncated
    PROVE  rows = found
<1>1. /\ IsFiniteSet(found) /\ Cardinality(found) \in Nat
      /\ Cardinality(rows) \in Nat
  BY UidFinite
<1>2. Cardinality(rows) <= Cardinality(found)
  BY <1>1, FS_Subset
<1>3. ~(Cardinality(found) > Cardinality(rows))
  BY DEF FromResults
<1>4. Cardinality(rows) = Cardinality(found)
  BY <1>1, <1>2, <1>3
<1>5. QED
  BY <1>1, <1>4, FS_Subset

-----------------------------------------------------------------------------
(* The inductive invariant *)

\* The page that is being fetched is the newest part of what matched, and no
\* page is there before the request is over.
Fetching ==
    /\ pc = "fetch" => total = Cardinality(matched) /\ uids = SelectNewest(matched, limit)
    /\ pc # "idle" => response.status # "ok"

\* A delivery overwrites nothing and brings nothing back.
Numbered ==
    /\ \A u \in Uid : u >= uidnext => box[u] = None
    /\ fresh \cap Contents = {}

\* As long as the mailbox is not rebuilt, what the client is owed is in the
\* mailbox, and either below the cursor, where the page that is being fetched
\* will find it, or listed.
Owing ==
    /\ owed \subseteq wanted \cap Contents
    /\ \A u \in Uid : box[u] \in owed => u < cursor \/ <<u, box[u]>> \in listed
    /\ pc = "fetch" => \A u \in Uid : box[u] \in owed /\ u < cursor => u \in matched
    /\ finished => \A u \in Uid : box[u] \in owed => <<u, box[u]>> \in listed

IInv ==
    /\ TypeOK /\ UncutIsAll /\ Fetching
    /\ wanted = {} => cursor = MaxUid + 1 /\ matched = {}
    /\ rebuilds = 0 => Numbered /\ Owing

LEMMA NoPageType ==
    ASSUME NEW st \in {"none", "message", "bad_request", "failed", "not_found"},
           NEW found \in SUBSET Uid
    PROVE  /\ NoPage \in [status : {"none"}, results : SUBSET Uid, total : Nat, truncated : BOOLEAN]
           /\ [NoPage EXCEPT !.status = st]
                  \in [status : {st}, results : SUBSET Uid, total : Nat, truncated : BOOLEAN]
           /\ [NoPage EXCEPT !.status = st, !.results = found]
                  \in [status : {st}, results : SUBSET Uid, total : Nat, truncated : BOOLEAN]
           /\ NoPage.status = "none" /\ [NoPage EXCEPT !.status = st].status = st
  BY DEF NoPage

LEMMA InitIInv == Init => IInv
<1> SUFFICES ASSUME Init PROVE IInv
  OBVIOUS
<1>1. TypeOK
  <2>1. box \in [Uid -> Message \cup {None}] /\ fresh \subseteq Message
    BY DEF Init
  <2>2. uidnext \in 1 .. MaxUid + 1 /\ cursor \in 1 .. MaxUid + 1 /\ limit \in 0 .. MaxLimit
    BY ConstantsOK DEF Init
  <2>3. response \in [status : {"none", "ok", "message", "bad_request", "failed", "not_found"},
                      results : SUBSET Uid, total : Nat, truncated : BOOLEAN]
    BY NoPageType DEF Init
  <2>4. QED
    BY <2>1, <2>2, <2>3 DEF Init, TypeOK
<1>2. UncutIsAll /\ Fetching
  BY DEF Init, UncutIsAll, Fetching, NoPage
<1>3. Contents = {}
  BY DEF Init, Contents, Present
<1>4. Numbered /\ Owing
  BY <1>3 DEF Init, Numbered, Owing
<1>5. QED
  BY <1>1, <1>2, <1>4 DEF IInv, Init

\* The end of a search, with what matched and what the page has of it.
LEMMA AnswerStep ==
    ASSUME IInv, NEW found \in SUBSET Uid, NEW rows,
           rows = SelectNewest(found, limit) \cap Present,
           Answer(Cardinality(found), rows),
           matched' = found,
           wanted = {} => found = {},
           uids' \in SUBSET Uid, total' \in Nat,
           rebuilds = 0 => \A u \in Uid : box[u] \in owed /\ u < cursor => u \in found
    PROVE  IInv'
<1> DEFINE page == FromResults(Cardinality(found), rows)
<1>1. limit \in Nat /\ rows \subseteq found /\ rows \subseteq Uid /\ rows \subseteq Present
  BY ConstantsOK DEF IInv, TypeOK, SelectNewest
<1>2. /\ page \in [status : {"ok"}, results : SUBSET Uid, total : Nat, truncated : BOOLEAN]
      /\ page.results = rows /\ page.status = "ok"
  BY <1>1, UidFinite DEF FromResults
<1>3. ~page.truncated => rows = found
  BY <1>1, UncutPage
<1> HIDE DEF page
<1>4. /\ pc' = "idle" /\ response' = page
      /\ listed' = listed \cup {<<u, box[u]>> : u \in rows}
      /\ cursor' \in IF rows = {} THEN {cursor}
                     ELSE {u \in rows : \A v \in rows : u <= v}
      /\ finished' = (~page.truncated \/ cursor' = 1)
      /\ UNCHANGED <<mailbox, limit, wanted, owed>>
  BY DEF Answer, page
<1>5. cursor' \in 1 .. MaxUid + 1
  <2>1. CASE rows = {}
    BY <1>4, <2>1 DEF IInv, TypeOK
  <2>2. CASE rows # {}
    BY <1>1, <1>4, <2>2, ConstantsOK DEF Uid
  <2>3. QED
    BY <2>1, <2>2
<1>6. TypeOK'
  <2>1. listed' \subseteq Uid \X Message
    BY <1>1, <1>4 DEF IInv, TypeOK, Present
  <2>2. response' \in [status : {"none", "ok", "message", "bad_request", "failed", "not_found"},
                       results : SUBSET Uid, total : Nat, truncated : BOOLEAN]
    BY <1>2, <1>4
  <2>3. QED
    BY <1>4, <1>5, <2>1, <2>2 DEF IInv, TypeOK, mailbox
<1>7. UncutIsAll' /\ Fetching'
  BY <1>2, <1>3, <1>4 DEF UncutIsAll, Fetching
<1>8. wanted' = {} => cursor' = MaxUid + 1 /\ matched' = {}
  <2>1. CASE rows = {}
    BY <1>4, <2>1 DEF IInv
  <2>2. CASE rows # {}
    <3>1. PICK r \in rows : TRUE
      BY <2>2
    <3>2. r \in found
      BY <1>1, <3>1
    <3>3. QED
      BY <1>4, <3>2
  <2>3. QED
    BY <2>1, <2>2
<1>9. ASSUME rebuilds' = 0 PROVE Numbered' /\ Owing'
  <2>1. rebuilds = 0 /\ Numbered /\ Owing
    BY <1>4, <1>9 DEF IInv, mailbox
  <2>2. Present' = Present /\ Contents' = Contents
    BY <1>4 DEF Present, Contents, mailbox
  <2>3. \A u \in Uid : box[u] \in owed /\ u \in found /\ u < cursor
            => u < cursor' \/ <<u, box[u]>> \in listed'
    <3> SUFFICES ASSUME NEW u \in Uid, box[u] \in owed, u \in found, u < cursor, ~(u < cursor')
                 PROVE  <<u, box[u]>> \in listed'
      OBVIOUS
    <3>1. cursor' \in rows
      BY <1>4
    <3>2. u \in Present
      BY ConstantsOK DEF IInv, TypeOK, Present
    <3>3. u = cursor' \/ u > cursor'
      BY <1>1, <1>5, ConstantsOK DEF Uid
    <3>4. u \in rows
      <4>1. CASE u = cursor'
        BY <3>1, <4>1
      <4>2. CASE u > cursor'
        <5>1. PICK low : low = cursor'
          OBVIOUS
        <5>2. low \in SelectNewest(found, limit) /\ u > low
          BY <3>1, <4>2, <5>1
        <5>3. u \in SelectNewest(found, limit)
          BY <1>1, <5>2, NewestHasNoHoles
        <5>4. QED
          BY <3>2, <5>3
      <4>3. QED
        BY <3>3, <4>1, <4>2
    <3>5. QED
      BY <1>4, <3>4
  <2>4. \A u \in Uid : box[u] \in owed => u < cursor' \/ <<u, box[u]>> \in listed'
    BY <1>4, <2>1, <2>3 DEF Owing
  <2>5. ASSUME finished', NEW u \in Uid, box[u] \in owed PROVE <<u, box[u]>> \in listed'
    <3>1. CASE cursor' = 1
      BY <2>4, <2>5, <3>1, ConstantsOK DEF Uid
    <3>2. CASE ~page.truncated
      BY <1>3, <1>4, <2>1, <2>5, <3>2 DEF Owing
    <3>3. QED
      BY <1>4, <2>5, <3>1, <3>2
  <2>6. Owing'
    BY <1>4, <2>1, <2>2, <2>4, <2>5 DEF Owing, mailbox
  <2>7. Numbered'
    BY <1>4, <2>1, <2>2 DEF Numbered, mailbox
  <2>8. QED
    BY <2>6, <2>7
<1>10. QED
  BY <1>6, <1>7, <1>8, <1>9 DEF IInv

-----------------------------------------------------------------------------
(* The steps *)

\* A step that neither starts nor ends a search.
LEMMA QuietStep ==
    ASSUME IInv, UNCHANGED <<mailbox, limit, total, client, matched, owed>>,
           pc' \in {"idle", "get"}, uids' \in SUBSET Uid,
           NEW st \in {"none", "message", "bad_request", "failed", "not_found"},
           NEW found \in SUBSET Uid,
           response' \in {NoPage, [NoPage EXCEPT !.status = st],
                          [NoPage EXCEPT !.status = st, !.results = found]}
    PROVE  IInv'
<1>1. response' \in [status : {"none", "message", "bad_request", "failed", "not_found"},
                     results : SUBSET Uid, total : Nat, truncated : BOOLEAN]
      /\ response'.status # "ok"
  <2> DEFINE a == [NoPage EXCEPT !.status = st]
             b == [NoPage EXCEPT !.status = st, !.results = found]
  <2>1. /\ NoPage \in [status : {"none"}, results : SUBSET Uid, total : Nat, truncated : BOOLEAN]
        /\ a \in [status : {st}, results : SUBSET Uid, total : Nat, truncated : BOOLEAN]
        /\ b \in [status : {st}, results : SUBSET Uid, total : Nat, truncated : BOOLEAN]
    BY NoPageType
  <2>2. response' \in {NoPage, a, b}
    OBVIOUS
  <2> HIDE DEF a, b
  <2>3. CASE response' = NoPage
    BY <2>1, <2>3
  <2>4. CASE response' = a
    BY <2>1, <2>4
  <2>5. CASE response' = b
    BY <2>1, <2>5
  <2> QED
    BY <2>2, <2>3, <2>4, <2>5
<1>2. TypeOK'
  <2>1. /\ box' \in [Uid -> Message \cup {None}] /\ uidnext' \in 1 .. MaxUid + 1 /\ rebuilds' \in Nat
        /\ fresh' \subseteq Message
    BY DEF IInv, TypeOK, mailbox
  <2>2. limit' \in 0 .. MaxLimit /\ total' \in Nat /\ matched' \subseteq Uid /\ owed' \subseteq Message
    BY DEF IInv, TypeOK
  <2>3. /\ wanted' \subseteq Message /\ cursor' \in 1 .. MaxUid + 1 /\ finished' \in BOOLEAN
        /\ listed' \subseteq Uid \X Message
    BY DEF IInv, TypeOK, client
  <2>4. /\ pc' \in {"idle", "search", "fetch", "get"} /\ uids' \subseteq Uid
        /\ response' \in [status : {"none", "ok", "message", "bad_request", "failed", "not_found"},
                           results : SUBSET Uid, total : Nat, truncated : BOOLEAN]
    BY <1>1
  <2>5. QED
    BY <2>1, <2>2, <2>3, <2>4 DEF TypeOK
<1>3. UncutIsAll' /\ Fetching'
  BY <1>1 DEF UncutIsAll, Fetching
<1>4. rebuilds' = 0 => Numbered' /\ Owing'
  BY DEF IInv, Numbered, Owing, Contents, Present, mailbox, client
<1>5. QED
  BY <1>2, <1>3, <1>4 DEF IInv, client

LEMMA SearchStep == IInv /\ Search => IInv'
<1> SUFFICES ASSUME IInv, Search PROVE IInv'
  OBVIOUS
<1>1. PICK structured \in Filled, query \in Filled, asked \in Limit :
          LET key == SearchKey(structured, query)
          IN  IF key = {}
              THEN /\ response' = [NoPage EXCEPT !.status = "bad_request"]
                   /\ UNCHANGED <<pc, request, wanted, owed>>
              ELSE /\ pc' = "search"
                   /\ limit' = EffectiveLimit(asked)
                   /\ response' = NoPage
                   /\ wanted' = IF wanted = {} THEN key ELSE wanted
                   /\ owed' = IF wanted = {} THEN key \cap Contents ELSE owed
                   /\ UNCHANGED <<uids, total>>
  BY DEF Search
<1> DEFINE key == SearchKey(structured, query)
<1>2. key \subseteq Message
  BY ConstantsOK DEF SearchKey
<1> HIDE DEF key
<1>3. matched' = {} /\ UNCHANGED <<mailbox, cursor, finished, listed>> /\ pc = "idle" /\ ~finished
  BY DEF Search
<1>4. response' \in [status : {"none", "bad_request"},
                     results : SUBSET Uid, total : Nat, truncated : BOOLEAN]
      /\ response'.status # "ok"
  BY <1>1, NoPageType
<1>5. UncutIsAll' /\ Fetching'
  BY <1>1, <1>3, <1>4 DEF UncutIsAll, Fetching
<1>6. rebuilds' = 0 => Numbered'
  BY <1>3 DEF IInv, Numbered, Contents, Present, mailbox
<1>7. CASE key = {}
  <2>1. UNCHANGED <<pc, request, wanted, owed>>
    BY <1>1, <1>7 DEF key
  <2>2. TypeOK'
    BY <1>3, <1>4, <2>1 DEF IInv, TypeOK, mailbox, request
  <2>3. rebuilds' = 0 => Owing'
    BY <1>3, <2>1 DEF IInv, Owing, Contents, Present, mailbox
  <2>4. QED
    BY <1>3, <1>5, <1>6, <2>1, <2>2, <2>3 DEF IInv
<1>8. CASE key # {}
  <2>1. /\ pc' = "search" /\ limit' = EffectiveLimit(asked) /\ UNCHANGED <<uids, total>>
        /\ wanted' = IF wanted = {} THEN key ELSE wanted
        /\ owed' = IF wanted = {} THEN key \cap Contents ELSE owed
    BY <1>1, <1>8 DEF key
  <2>2. EffectiveLimit(asked) \in 0 .. MaxLimit
    BY ConstantsOK DEF EffectiveLimit
  <2>3. TypeOK'
    BY <1>2, <1>3, <1>4, <2>1, <2>2 DEF IInv, TypeOK, mailbox
  <2>4. ASSUME rebuilds' = 0 PROVE Owing'
    <3>1. CASE wanted = {}
      <4>1. cursor' = MaxUid + 1 /\ \A u \in Uid : u < cursor'
        BY <1>3, <3>1, ConstantsOK DEF IInv, Uid
      <4>2. owed' \subseteq wanted' \cap Contents'
        BY <1>3, <2>1, <3>1 DEF Contents, Present, mailbox
      <4>3. QED
        BY <1>3, <2>1, <4>1, <4>2 DEF Owing
    <3>2. CASE wanted # {}
      BY <1>3, <2>1, <2>4, <3>2 DEF IInv, Owing, Contents, Present, mailbox
    <3>3. QED
      BY <3>1, <3>2
  <2>5. wanted' # {}
    BY <1>8, <2>1
  <2>6. QED
    BY <1>5, <1>6, <2>3, <2>4, <2>5 DEF IInv
<1>9. QED
  BY <1>7, <1>8

LEMMA SearchAnswerStep == IInv /\ SearchAnswer => IInv'
<1> SUFFICES ASSUME IInv, SearchAnswer PROVE IInv'
  OBVIOUS
<1>1. PICK found : found = {u \in Present : box[u] \in wanted /\ u < cursor}
  OBVIOUS
<1>2. found \in SUBSET Uid /\ matched' = found
  BY <1>1 DEF SearchAnswer, Present
<1>3. total' = Cardinality(found) /\ uids' = SelectNewest(found, limit) /\ limit \in Nat
  BY <1>1, <1>2, ConstantsOK DEF SearchAnswer, Count, IInv, TypeOK
<1>4. /\ total' \in Nat /\ uids' \in SUBSET Uid
      /\ wanted = {} => found = {}
  BY <1>1, <1>2, <1>3, UidFinite DEF SelectNewest
<1>5. rebuilds = 0 => \A u \in Uid : box[u] \in owed /\ u < cursor => u \in found
  BY <1>1, ConstantsOK DEF IInv, TypeOK, Owing, Present
<1>6. CASE uids' = {}
  <2>1. PICK rows : rows = SelectNewest(found, limit) \cap Present
    OBVIOUS
  <2>2. Answer(Cardinality(found), rows)
    BY <1>3, <1>6, <2>1 DEF SearchAnswer
  <2>3. QED
    BY <1>2, <1>4, <1>5, <2>1, <2>2, AnswerStep
<1>7. CASE uids' # {}
  <2>1. pc' = "fetch" /\ UNCHANGED <<mailbox, limit, response, client, owed>>
    BY <1>7 DEF SearchAnswer
  <2>2. TypeOK'
    BY <1>2, <1>4, <2>1 DEF IInv, TypeOK, mailbox, client
  <2>3. Fetching'
    BY <1>2, <1>3, <2>1 DEF IInv, Fetching, SearchAnswer
  <2>4. UncutIsAll'
    BY <2>1 DEF IInv, Fetching, UncutIsAll, SearchAnswer
  <2>5. rebuilds' = 0 => Numbered' /\ Owing'
    BY <1>2, <1>5, <2>1 DEF IInv, Numbered, Owing, Contents, Present, mailbox, client
  <2>6. QED
    BY <1>2, <1>4, <2>1, <2>2, <2>3, <2>4, <2>5 DEF IInv, client
<1>8. QED
  BY <1>6, <1>7

LEMMA FetchAnswerStep == IInv /\ FetchAnswer => IInv'
<1> SUFFICES ASSUME IInv, FetchAnswer PROVE IInv'
  OBVIOUS
<1>1. PICK found : found = matched
  OBVIOUS
<1>2. PICK rows : rows = uids \cap Present
  OBVIOUS
<1>3. pc = "fetch" /\ total = Cardinality(found) /\ uids = SelectNewest(found, limit)
  BY <1>1 DEF FetchAnswer, IInv, Fetching
<1>4. found \in SUBSET Uid /\ matched' = found /\ total' = total /\ uids' = uids
  BY <1>1 DEF FetchAnswer, IInv, TypeOK
<1>5. total' \in Nat /\ uids' \in SUBSET Uid /\ (wanted = {} => found = {})
  BY <1>1, <1>4 DEF IInv, TypeOK
<1>6. rebuilds = 0 => \A u \in Uid : box[u] \in owed /\ u < cursor => u \in found
  BY <1>1, <1>3 DEF IInv, Owing
<1>7. Answer(Cardinality(found), rows) /\ rows = SelectNewest(found, limit) \cap Present
  BY <1>2, <1>3 DEF FetchAnswer
<1>8. QED
  BY <1>4, <1>5, <1>6, <1>7, AnswerStep

LEMMA GetStep == IInv /\ Get => IInv'
<1> SUFFICES ASSUME IInv, Get PROVE IInv'
  OBVIOUS
<1>1. PICK entry \in listed : uids' = {entry[1]}
  BY DEF Get
<1>2. uids' \in SUBSET Uid
  BY <1>1 DEF IInv, TypeOK
<1>3. /\ UNCHANGED <<mailbox, limit, total, client, matched, owed>>
      /\ pc' \in {"idle", "get"} /\ response' = NoPage
  BY DEF Get
<1>4. QED
  BY <1>2, <1>3, QuietStep

LEMMA GetAnswerStep == IInv /\ GetAnswer => IInv'
<1> SUFFICES ASSUME IInv, GetAnswer PROVE IInv'
  OBVIOUS
<1>1. PICK found \in SUBSET Uid : found = uids \cap Present
  BY DEF Present
<1>2. PICK st \in {"message", "not_found"} :
         response' = [NoPage EXCEPT !.status = st, !.results = found]
  BY <1>1 DEF GetAnswer
<1>3. /\ UNCHANGED <<mailbox, limit, total, client, matched, owed>>
      /\ pc' \in {"idle", "get"} /\ uids' \in SUBSET Uid
  BY DEF GetAnswer, IInv, TypeOK, request
<1>4. QED
  BY <1>2, <1>3, QuietStep

LEMMA FailStep == IInv /\ Fail => IInv'
<1> SUFFICES ASSUME IInv, Fail PROVE IInv'
  OBVIOUS
<1>1. PICK st \in {"failed"} : response' = [NoPage EXCEPT !.status = st]
  BY DEF Fail
<1>2. /\ UNCHANGED <<mailbox, limit, total, client, matched, owed>>
      /\ pc' \in {"idle", "get"} /\ uids' \in SUBSET Uid
  BY DEF Fail, IInv, TypeOK, request
<1>3. QED
  BY <1>1, <1>2, QuietStep

LEMMA DeliverStep == IInv /\ Deliver => IInv'
<1> SUFFICES ASSUME IInv, Deliver PROVE IInv'
  OBVIOUS
<1>1. PICK m \in fresh : box' = [box EXCEPT ![uidnext] = m] /\ fresh' = fresh \ {m}
  BY DEF Deliver
<1>2. /\ uidnext <= MaxUid /\ uidnext' = uidnext + 1
      /\ UNCHANGED <<rebuilds, pc, request, response, client, matched, owed>>
  BY DEF Deliver
<1>3. uidnext \in Uid /\ uidnext' \in 1 .. MaxUid + 1 /\ m \in Message /\ m # None
  BY <1>1, <1>2, ConstantsOK DEF IInv, TypeOK, Uid
<1>4. TypeOK'
  BY <1>1, <1>2, <1>3 DEF IInv, TypeOK, request, client
<1>5. UncutIsAll' /\ Fetching'
  BY <1>2 DEF IInv, UncutIsAll, Fetching, request
<1>6. ASSUME rebuilds' = 0 PROVE Numbered' /\ Owing'
  <2>1. rebuilds = 0 /\ Numbered /\ Owing
    BY <1>2, <1>6 DEF IInv
  <2>2. /\ box[uidnext] = None /\ box'[uidnext] = m
        /\ \A u \in Uid : u # uidnext => box'[u] = box[u]
    BY <1>1, <1>3, <2>1, ConstantsOK DEF IInv, TypeOK, Numbered, Uid
  <2>3. Contents' = Contents \cup {m}
    BY <1>3, <2>2 DEF Contents, Present
  <2>4. m \notin Contents /\ m \notin owed
    BY <1>1, <2>1 DEF Numbered, Owing
  <2>5. \A u \in Uid : u >= uidnext' => u >= uidnext /\ u # uidnext
    BY <1>2, <1>3, ConstantsOK DEF Uid
  <2>6. Numbered'
    BY <1>1, <2>1, <2>2, <2>3, <2>5 DEF Numbered
  <2>7. \A u \in Uid : box'[u] \in owed => box[u] \in owed /\ box'[u] = box[u]
    BY <2>2, <2>4
  <2>8. Owing'
    BY <1>2, <2>1, <2>3, <2>7 DEF Owing, client
  <2>9. QED
    BY <2>6, <2>8
<1>7. QED
  BY <1>2, <1>4, <1>5, <1>6 DEF IInv, client

LEMMA ExpungeStep == IInv /\ Expunge => IInv'
<1> SUFFICES ASSUME IInv, Expunge PROVE IInv'
  OBVIOUS
<1>1. PICK v \in Present : box' = [box EXCEPT ![v] = None] /\ owed' = owed \ {box[v]}
  BY DEF Expunge
<1>2. UNCHANGED <<uidnext, rebuilds, fresh, pc, request, response, client, matched>>
  BY DEF Expunge
<1>3. /\ v \in Uid /\ box'[v] = None /\ box' \in [Uid -> Message \cup {None}]
      /\ \A u \in Uid : u # v => box'[u] = box[u]
  BY <1>1 DEF IInv, TypeOK, Present
<1>4. TypeOK'
  BY <1>1, <1>2, <1>3 DEF IInv, TypeOK, request, client
<1>5. UncutIsAll' /\ Fetching'
  BY <1>2 DEF IInv, UncutIsAll, Fetching, request
<1>6. ASSUME rebuilds' = 0 PROVE Numbered' /\ Owing'
  <2>1. rebuilds = 0 /\ Numbered /\ Owing
    BY <1>2, <1>6 DEF IInv
  <2>2. Contents \ {box[v]} \subseteq Contents' /\ Contents' \subseteq Contents
    BY <1>3 DEF Contents, Present
  <2>3. Numbered'
    BY <1>2, <1>3, <2>1, <2>2 DEF Numbered
  <2>4. \A u \in Uid : box'[u] \in owed' => box[u] \in owed /\ box'[u] = box[u]
    BY <1>1, <1>3, ConstantsOK DEF IInv, TypeOK
  <2>5. owed' \subseteq wanted' \cap Contents'
    BY <1>1, <1>2, <2>1, <2>2 DEF Owing, client
  <2>6. Owing'
    BY <1>2, <2>1, <2>4, <2>5 DEF Owing, client
  <2>7. QED
    BY <2>3, <2>6
<1>7. QED
  BY <1>2, <1>4, <1>5, <1>6 DEF IInv, client

LEMMA RebuildStep == IInv /\ Rebuild => IInv'
<1> SUFFICES ASSUME IInv, Rebuild PROVE IInv'
  OBVIOUS
<1>1. PICK n : n = Cardinality(Present)
  OBVIOUS
<1>2. n \in Nat /\ n <= MaxUid
  BY <1>1, UidFinite DEF Present
<1>3. /\ pc = "idle" /\ box' \in [Uid -> Contents \cup {None}] /\ uidnext' = n + 1
      /\ rebuilds' = rebuilds + 1
      /\ UNCHANGED <<fresh, pc, request, response, client, matched, owed>>
  BY <1>1 DEF Rebuild
<1>4. Contents \subseteq Message
  BY DEF IInv, TypeOK, Contents, Present
<1>5. TypeOK'
  BY <1>2, <1>3, <1>4, ConstantsOK DEF IInv, TypeOK, request, client
<1>6. rebuilds' # 0
  BY <1>3 DEF IInv, TypeOK
<1>7. UncutIsAll' /\ Fetching'
  BY <1>3 DEF IInv, UncutIsAll, Fetching, request
<1>8. QED
  BY <1>3, <1>5, <1>6, <1>7 DEF IInv, client

LEMMA NextIInv == IInv /\ [Next]_vars => IInv'
<1> SUFFICES ASSUME IInv, [Next]_vars PROVE IInv'
  OBVIOUS
<1>1. CASE UNCHANGED vars
  BY <1>1 DEF vars, IInv, TypeOK, UncutIsAll, Fetching, Numbered, Owing, Contents, Present,
              mailbox, request, client
<1>2. CASE Next
  BY <1>2, SearchStep, SearchAnswerStep, FetchAnswerStep, GetStep, GetAnswerStep, FailStep,
     DeliverStep, ExpungeStep, RebuildStep DEF Next
<1>3. QED
  BY <1>1, <1>2

-----------------------------------------------------------------------------
(* The theorems *)

THEOREM SearchInvariant == Spec => []IInv
<1>1. QED
  BY InitIInv, NextIInv, PTL DEF Spec

\* The variables keep their types: `limit` never exceeds MAX_SEARCH_LIMIT,
\* whatever limit a request asks for.
THEOREM SearchTypes == Spec => []TypeOK
<1>1. IInv => TypeOK
  BY DEF IInv
<1>2. QED
  BY <1>1, SearchInvariant, PTL

\* from_results: a client that is not told of a truncation holds everything
\* that matched.
THEOREM UncutPagesAreComplete == Spec => []UncutIsAll
<1>1. IInv => UncutIsAll
  BY DEF IInv
<1>2. QED
  BY <1>1, SearchInvariant, PTL

\* select_newest and `truncated` together: however many messages there are and
\* whatever limits are asked for, a client that pages to the end has been given
\* every match that was there all the time.
THEOREM PagingMissesNothing == Spec => []PagingComplete
<1>1. IInv => PagingComplete
  <2> SUFFICES ASSUME IInv, finished, rebuilds = 0, NEW m \in owed
               PROVE  \E u \in Uid : <<u, m>> \in listed
    BY DEF PagingComplete
  <2>1. PICK u \in Uid : box[u] = m
    BY DEF IInv, Owing, Contents, Present
  <2>2. <<u, box[u]>> \in listed
    BY <2>1 DEF IInv, Owing
  <2>3. QED
    BY <2>1, <2>2
<1>2. QED
  BY <1>1, SearchInvariant, PTL

-----------------------------------------------------------------------------
(* What is listed keeps its meaning *)

\* As long as the mailbox is not rebuilt, no UID that was found or listed is
\* given to another message, and a get is for a UID that was listed.
Steady ==
    rebuilds = 0 =>
        /\ \A u \in matched : u < uidnext
        /\ NoHoles
        /\ \A entry \in listed : entry[1] < uidnext /\ box[entry[1]] \in {None, entry[2]}
        /\ pc = "get" => \E entry \in listed : uids = {entry[1]}

LEMMA InitSteady == Init => Steady
BY DEF Init, Steady, NoHoles, NoPage

\* A page is listed: of what matched, it has the newest that are still there.
LEMMA AnswerSteady ==
    ASSUME IInv, Steady, NEW found \in SUBSET Uid, NEW rows,
           rows = SelectNewest(found, limit) \cap Present,
           Answer(Cardinality(found), rows), matched' = found,
           rebuilds = 0 => \A u \in found : u < uidnext
    PROVE  Steady'
<1> SUFFICES ASSUME rebuilds = 0 PROVE Steady'
  BY DEF Answer, mailbox, Steady
<1>1. /\ pc' = "idle" /\ UNCHANGED <<mailbox, limit>>
      /\ response'.results = rows
      /\ listed' = listed \cup {<<u, box[u]>> : u \in rows}
  BY DEF Answer, FromResults
<1>2. limit \in Nat /\ rows \subseteq found
  BY ConstantsOK DEF IInv, TypeOK, SelectNewest
<1>3. NoHoles'
  <2> SUFFICES ASSUME NEW row \in rows, NEW u \in found, u > row, u \in Present
               PROVE  u \in rows
    BY <1>1 DEF NoHoles, Present, mailbox
  <2>1. u \in SelectNewest(found, limit)
    BY <1>2, NewestHasNoHoles
  <2>2. QED
    BY <2>1
<1>4. \A entry \in listed' : entry[1] < uidnext' /\ box'[entry[1]] \in {None, entry[2]}
  BY <1>1, <1>2 DEF Steady, mailbox
<1>5. QED
  BY <1>1, <1>3, <1>4 DEF Steady, mailbox

\* A step that leaves the mailbox alone and ends no search.
LEMMA QuietSteady ==
    ASSUME Steady, UNCHANGED <<mailbox, listed>>, response'.status # "ok",
           matched' \in {matched, {}},
           pc' = "get" => \E entry \in listed : uids' = {entry[1]}
    PROVE  Steady'
BY DEF Steady, NoHoles, mailbox

LEMMA SearchAnswerSteady == IInv /\ Steady /\ SearchAnswer => Steady'
<1> SUFFICES ASSUME IInv, Steady, SearchAnswer PROVE Steady'
  OBVIOUS
<1>1. PICK found : found = {u \in Present : box[u] \in wanted /\ u < cursor}
  OBVIOUS
<1>2. /\ found \in SUBSET Uid /\ matched' = found
      /\ Count(found, limit) = Cardinality(found)
      /\ uids' = SelectNewest(found, limit)
  BY <1>1 DEF SearchAnswer, Present, Count
<1>3. rebuilds = 0 => \A u \in found : u < uidnext
  BY <1>1 DEF IInv, TypeOK, Numbered, Present, Uid
<1>4. CASE uids' = {}
  <2>1. PICK rows : rows = SelectNewest(found, limit) \cap Present
    OBVIOUS
  <2>2. Answer(Cardinality(found), rows)
    BY <1>2, <1>4, <2>1 DEF SearchAnswer
  <2>3. QED
    BY <1>2, <1>3, <2>1, <2>2, AnswerSteady
<1>5. CASE uids' # {}
  <2>1. /\ pc' = "fetch" /\ UNCHANGED <<mailbox, listed>>
        /\ response'.status # "ok"
    BY <1>5 DEF SearchAnswer, client, IInv, Fetching
  <2>2. QED
    BY <1>2, <1>3, <2>1 DEF Steady, NoHoles, mailbox
<1>6. QED
  BY <1>4, <1>5

LEMMA FetchAnswerSteady == IInv /\ Steady /\ FetchAnswer => Steady'
<1> SUFFICES ASSUME IInv, Steady, FetchAnswer PROVE Steady'
  OBVIOUS
<1>1. PICK found : found = matched
  OBVIOUS
<1>2. PICK rows : rows = uids \cap Present
  OBVIOUS
<1>3. /\ found \in SUBSET Uid /\ matched' = found
      /\ Answer(Cardinality(found), rows) /\ rows = SelectNewest(found, limit) \cap Present
  BY <1>1, <1>2 DEF FetchAnswer, IInv, Fetching, TypeOK
<1>4. QED
  BY <1>1, <1>3, AnswerSteady DEF Steady

LEMMA DeliverSteady == IInv /\ Steady /\ Deliver => Steady'
<1> SUFFICES ASSUME IInv, Steady, Deliver, rebuilds = 0 PROVE Steady'
  BY DEF Deliver, Steady
<1>1. PICK m \in fresh : box' = [box EXCEPT ![uidnext] = m]
  BY DEF Deliver
<1>2. /\ uidnext' = uidnext + 1 /\ uidnext \in Nat
      /\ matched \subseteq Uid /\ listed \subseteq Uid \X Message
      /\ UNCHANGED <<rebuilds, pc, uids, response, listed, matched>>
  BY ConstantsOK DEF Deliver, IInv, TypeOK, request, client
<1>3. \A u \in Uid : u # uidnext => box'[u] = box[u]
  BY <1>1 DEF IInv, TypeOK
<1>4. \A u \in Uid : u < uidnext => u # uidnext /\ u < uidnext'
  BY <1>2 DEF Uid
<1>5. NoHoles'
  BY <1>2, <1>3, <1>4 DEF Steady, NoHoles, Present
<1>6. \A entry \in listed : entry[1] \in Uid
  BY <1>2
<1>7. QED
  BY <1>2, <1>3, <1>4, <1>5, <1>6 DEF Steady

LEMMA ExpungeSteady == IInv /\ Steady /\ Expunge => Steady'
<1> SUFFICES ASSUME IInv, Steady, Expunge, rebuilds = 0 PROVE Steady'
  BY DEF Expunge, Steady
<1>1. PICK v \in Present : box' = [box EXCEPT ![v] = None]
  BY DEF Expunge
<1>2. /\ matched \subseteq Uid /\ listed \subseteq Uid \X Message
      /\ UNCHANGED <<uidnext, rebuilds, pc, uids, response, listed, matched>>
  BY DEF Expunge, IInv, TypeOK, request, client
<1>3. \A u \in Uid : box'[u] \in {None, box[u]}
  BY <1>1 DEF IInv, TypeOK
<1>4. NoHoles'
  BY <1>2, <1>3 DEF Steady, NoHoles, Present
<1>5. \A entry \in listed : entry[1] \in Uid
  BY <1>2
<1>6. QED
  BY <1>2, <1>3, <1>4, <1>5 DEF Steady

LEMMA NextSteady == IInv /\ Steady /\ [Next]_vars => Steady'
<1> SUFFICES ASSUME IInv, Steady, [Next]_vars PROVE Steady'
  OBVIOUS
<1>1. CASE Search
  <2>1. UNCHANGED <<mailbox, listed>> /\ matched' = {} /\ pc' # "get"
    BY <1>1 DEF Search
  <2>2. response'.status # "ok"
    BY <1>1, NoPageType DEF Search
  <2>3. QED
    BY <2>1, <2>2, QuietSteady
<1>2. CASE Get
  BY <1>2, NoPageType, QuietSteady DEF Get, client
<1>3. CASE GetAnswer \/ Fail
  <2>1. UNCHANGED <<mailbox, listed, matched>> /\ pc' = "idle"
    BY <1>3 DEF GetAnswer, Fail, client
  <2>2. response'.status # "ok"
    BY <1>3 DEF GetAnswer, Fail, NoPage
  <2>3. QED
    BY <2>1, <2>2, QuietSteady
<1>4. CASE Rebuild
  BY <1>4 DEF Rebuild, Steady, IInv, TypeOK
<1>5. CASE UNCHANGED vars
  BY <1>5 DEF vars, Steady, NoHoles, Present, mailbox, request, client
<1>6. QED
  BY <1>1, <1>2, <1>3, <1>4, <1>5, SearchAnswerSteady, FetchAnswerSteady, DeliverSteady,
     ExpungeSteady DEF Next

THEOREM SteadyInvariant == Spec => [](IInv /\ Steady)
<1>1. QED
  BY InitIInv, InitSteady, NextIInv, NextSteady, PTL DEF Spec

\* select_newest: until the mailbox is rebuilt, a page has every match between
\* its rows that is still there.
THEOREM PagesHaveNoHoles == Spec => []NoHoles
<1>1. Steady => NoHoles
  BY DEF Steady, NoHoles
<1>2. QED
  BY <1>1, SteadyInvariant, PTL

\* uid_search and uid_fetch_raw: until the mailbox is rebuilt, a get returns
\* the message that was listed with the UID, whatever else is delivered and
\* expunged.
THEOREM GetsWhatWasListed == Spec => ResultsStayStable
<1> DEFINE Stable == response.status = "none" /\ response'.status = "message" /\ rebuilds = 0 =>
                        \A u \in uids, v \in response'.results : <<u, box[v]>> \in listed
<1>1. IInv /\ Steady /\ [Next]_vars => Stable
  <2> SUFFICES ASSUME IInv, Steady, [Next]_vars,
                      response.status = "none", response'.status = "message", rebuilds = 0,
                      NEW u \in uids, NEW v \in response'.results
               PROVE  <<u, box[v]>> \in listed
    OBVIOUS
  <2>1. GetAnswer
    <3>1. response' # response
      OBVIOUS
    <3>2. ASSUME NEW count, NEW rows, Answer(count, rows) PROVE FALSE
      BY <3>2 DEF Answer, FromResults
    <3>3. ~SearchAnswer /\ ~FetchAnswer
      BY <3>1, <3>2 DEF SearchAnswer, FetchAnswer
    <3>4. ~Search /\ ~Get /\ ~Fail
      BY DEF Search, Get, Fail, NoPage
    <3>5. ~Deliver /\ ~Expunge /\ ~Rebuild /\ ~UNCHANGED vars
      BY <3>1 DEF Deliver, Expunge, Rebuild, vars
    <3>6. QED
      BY <3>3, <3>4, <3>5 DEF Next
  <2>2. PICK entry \in listed : uids = {entry[1]}
    BY <2>1 DEF GetAnswer, Steady
  <2>3. v \in uids /\ v \in Present
    BY <2>1 DEF GetAnswer, NoPage
  <2>4. u = entry[1] /\ box[v] = entry[2]
    BY <2>2, <2>3 DEF Steady, Present
  <2>5. entry = <<entry[1], entry[2]>>
    BY <2>2 DEF IInv, TypeOK
  <2>6. QED
    BY <2>2, <2>4, <2>5
<1>2. QED
  BY <1>1, SteadyInvariant, PTL DEF ResultsStayStable, Spec
=============================================================================

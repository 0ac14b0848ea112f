-------------------------- MODULE AutoconfigProofs --------------------------
(***************************************************************************)
(* The safety of Autoconfig for any number of requests and domains.        *)
(***************************************************************************)
EXTENDS Autoconfig, TLAPS

\* What a request has found so far was found for its own domain.
FoundForOwn(r, v) == \A s \in Side : v[s] # None => v[s].by = DomainOf[r]

\* A request asks for a public domain it has, about a public domain, and keeps
\* what it finds for its own.
Asks ==
    \A r \in Request :
        /\ pc[r] \in Asking \cup {"put"} => DomainOf[r] \in Public /\ target[r] \in Public
        /\ FoundForOwn(r, acc[r]) /\ FoundForOwn(r, found[r])

IInv == TypeOK /\ Asks /\ NoCrossDomain

-----------------------------------------------------------------------------
(* MailServers *)

\* Merging keeps to the servers, and to those found for a request's domain.
LEMMA MergeServers ==
    ASSUME NEW v \in Servers, NEW w \in Servers
    PROVE  Merge(v, w) \in Servers
BY DEF Merge, Servers

LEMMA MergeOwn ==
    ASSUME NEW r, NEW v \in Servers, NEW w \in Servers, FoundForOwn(r, v), FoundForOwn(r, w)
    PROVE  FoundForOwn(r, Merge(v, w))
BY DEF Merge, FoundForOwn

LEMMA NothingOwn == Nothing \in Servers /\ \A r : FoundForOwn(r, Nothing)
BY DEF Nothing, Servers, FoundForOwn

\* What an answer names are servers found for the domain of the request.
LEMMA NamedOwn ==
    ASSUME IInv, NEW r \in Request, pc[r] \in Http \cup Srv, NEW sides
    PROVE  Named(r, sides) \in Servers /\ FoundForOwn(r, Named(r, sides))
<1>1. DomainOf[r] \in Domain /\ target[r] \in Domain
  BY ConstantsOK DEF IInv, Asks, Asking
<1>2. [by |-> DomainOf[r], of |-> target[r], rung |-> pc[r]] \in Endpoint
  BY <1>1 DEF Endpoint
<1>3. Named(r, sides) \in Servers
  BY <1>2 DEF Named, Servers
<1>4. FoundForOwn(r, Named(r, sides))
  BY DEF Named, FoundForOwn
<1>5. QED
  BY <1>3, <1>4

-----------------------------------------------------------------------------
(* The steps *)

LEMMA InitIInv == Init => IInv
<1> SUFFICES ASSUME Init PROVE IInv
  OBVIOUS
<1>1. TypeOK
  BY NothingOwn DEF Init, TypeOK, Phase
<1>2. Asks
  BY NothingOwn DEF Init, Asks, Asking, Http, Srv
<1>3. NoCrossDomain
  BY DEF Init, NoCrossDomain
<1>4. QED
  BY <1>1, <1>2, <1>3 DEF IInv

\* A step that asks nothing and leaves the cache and the ladder alone.
LEMMA QuietStep ==
    ASSUME IInv, NEW r \in Request, NEW to \in {"check_imap", "check_smtp", "done"}, Goto(r, to),
           NEW result \in {"ready", "bad_request", "autoconfig_failed", "host_unreachable"},
           outcome' = outcome \/ outcome' = [outcome EXCEPT ![r] = result],
           UNCHANGED <<now, cache, ladder, learnt>>
    PROVE  IInv'
<1>1. TypeOK'
  BY DEF IInv, TypeOK, Goto, ladder, Phase, Checking
<1>2. Asks'
  <2>1. \A q \in Request : pc'[q] \in Asking \cup {"put"} => pc'[q] = pc[q]
    BY DEF IInv, TypeOK, Goto, Asking, Http, Srv
  <2>2. QED
    BY <2>1 DEF IInv, Asks, ladder, FoundForOwn
<1>3. NoCrossDomain'
  BY DEF IInv, NoCrossDomain
<1>4. QED
  BY <1>1, <1>2, <1>3 DEF IInv

LEMMA RefuseStep == ASSUME IInv, NEW r \in Request, Refuse(r) PROVE IInv'
<1>1. PICK result \in {"bad_request", "autoconfig_failed"} : Finish(r, result)
  BY DEF Refuse
<1>2. QED
  BY <1>1, QuietStep DEF Refuse, Finish

LEMMA FastPathStep == ASSUME IInv, NEW r \in Request, FastPath(r) PROVE IInv'
BY QuietStep DEF FastPath

LEMMA HitStep == ASSUME IInv, NEW r \in Request, Hit(r) PROVE IInv'
BY QuietStep DEF Hit, Assemble, Finish

LEMMA CheckEndpointStep == ASSUME IInv, NEW r \in Request, CheckEndpoint(r) PROVE IInv'
BY QuietStep DEF CheckEndpoint, Finish, CheckErrors

LEMMA MissStep == ASSUME IInv, NEW r \in Request, Miss(r) PROVE IInv'
<1>1. TypeOK'
  <2>1. pc' \in [Request -> Phase]
    BY DEF Miss, IInv, TypeOK, Goto, Phase, Asking, Http
  <2>2. DomainOf[r] \in Domain \cup {None}
    BY ConstantsOK
  <2>3. target' \in [Request -> Domain \cup {None}]
    BY <2>2 DEF Miss, IInv, TypeOK
  <2>4. QED
    BY <2>1, <2>3 DEF Miss, IInv, TypeOK
<1>2. Asks'
  <2>1. \A q \in Request : q # r => pc'[q] = pc[q] /\ target'[q] = target[q]
    BY DEF Miss, IInv, TypeOK, Goto
  <2>2. target'[r] = DomainOf[r] /\ DomainOf[r] \in Public
    BY DEF Miss, IInv, TypeOK
  <2>3. QED
    BY <2>1, <2>2 DEF Miss, IInv, Asks, FoundForOwn
<1>3. NoCrossDomain'
  BY DEF Miss, IInv, NoCrossDomain
<1>4. QED
  BY <1>1, <1>2, <1>3 DEF IInv

\* A request that has heard an answer goes on, in its helper or in run_ladder.
LEMMA AnswerStep ==
    ASSUME IInv, NEW r \in Request, pc[r] \in Http \cup Srv, NEW sides,
           NEW rung \in Asking \cup {"put"},
           Hear(r, sides),
           LET merged == Merge(found[r], Named(r, sides))
           IN  GoOn(r, merged, rung) \/ Return(r, merged, rung),
           UNCHANGED <<now, cache, target, outcome, learnt>>
    PROVE  IInv'
<1> DEFINE merged == Merge(found[r], Named(r, sides))
           all    == Merge(acc[r], merged)
<1>1. Named(r, sides) \in Servers /\ FoundForOwn(r, Named(r, sides))
  BY NamedOwn
<1>2. acc[r] \in Servers /\ found[r] \in Servers /\ FoundForOwn(r, acc[r]) /\ FoundForOwn(r, found[r])
  BY DEF IInv, TypeOK, Asks
<1>3. merged \in Servers /\ FoundForOwn(r, merged)
  BY <1>1, <1>2, MergeServers, MergeOwn
<1>4. all \in Servers /\ FoundForOwn(r, all)
  BY <1>2, <1>3, MergeServers, MergeOwn
<1> HIDE DEF merged, all
<1>5. PICK to \in Asking \cup {"put"} : pc' = [pc EXCEPT ![r] = to]
  BY DEF GoOn, Return, Goto
<1>6. /\ acc' = acc \/ acc' = [acc EXCEPT ![r] = all]
      /\ found' = [found EXCEPT ![r] = merged] \/ found' = [found EXCEPT ![r] = Nothing]
  BY DEF GoOn, Return, merged, all
<1>7. TypeOK'
  <2>1. acc' \in [Request -> Servers] /\ found' \in [Request -> Servers]
    <3>1. acc \in [Request -> Servers] /\ found \in [Request -> Servers]
      BY DEF IInv, TypeOK
    <3>2. acc' \in [Request -> Servers]
      BY <1>4, <1>6, <3>1
    <3>3. Nothing \in Servers
      BY NothingOwn
    <3>4. found' \in [Request -> Servers]
      BY <1>3, <1>6, <3>1, <3>3
    <3> QED  BY <3>2, <3>4
  <2>2. heard' \in [Request -> Seq(Servers)]
    BY <1>1 DEF Hear, IInv, TypeOK
  <2>3. pc' \in [Request -> Phase]
    BY <1>5 DEF IInv, TypeOK, Phase
  <2>4. QED
    BY <2>1, <2>2, <2>3 DEF IInv, TypeOK
<1>8. Asks'
  <2> SUFFICES ASSUME NEW q \in Request
               PROVE  /\ pc'[q] \in Asking \cup {"put"} =>
                            DomainOf[q] \in Public /\ target'[q] \in Public
                      /\ FoundForOwn(q, acc'[q]) /\ FoundForOwn(q, found'[q])
    BY DEF Asks, FoundForOwn
  <2>1. CASE q = r
    <3>1. DomainOf[r] \in Public /\ target[r] \in Public
      BY DEF IInv, Asks, Asking
    <3>2. acc'[r] \in {acc[r], all} /\ found'[r] \in {merged, Nothing}
      BY <1>6 DEF IInv, TypeOK
    <3>3. QED
      BY <2>1, <3>1, <3>2, <1>2, <1>3, <1>4, NothingOwn
  <2>2. CASE q # r
    <3>1. pc'[q] = pc[q] /\ acc'[q] = acc[q] /\ found'[q] = found[q]
      BY <1>5, <1>6, <2>2 DEF IInv, TypeOK
    <3>2. QED
      BY <3>1 DEF IInv, Asks
  <2>3. QED
    BY <2>1, <2>2
<1>9. NoCrossDomain'
  BY DEF IInv, NoCrossDomain
<1>10. QED
  BY <1>7, <1>8, <1>9 DEF IInv

LEMMA HttpAnswerStep == ASSUME IInv, NEW r \in Request, HttpAnswer(r) PROVE IInv'
<1>1. PICK sides \in SUBSET Nameable(pc[r]) :
         LET merged == Merge(found[r], Named(r, sides))
         IN  /\ Hear(r, sides)
             /\ IF IsComplete(merged) \/ pc[r] = "ispdb"
                THEN Return(r, merged, IF target[r] = DomainOf[r] THEN "imaps" ELSE "put")
                ELSE GoOn(r, merged, IF pc[r] = "autoconfig" THEN "wellknown" ELSE "ispdb")
  BY DEF HttpAnswer
<1>2. PICK rung \in Asking \cup {"put"} :
         LET merged == Merge(found[r], Named(r, sides))
         IN  GoOn(r, merged, rung) \/ Return(r, merged, rung)
  BY <1>1, Zenon DEF Asking, Http, Srv
<1>3. QED
  BY <1>1, <1>2, AnswerStep DEF HttpAnswer

LEMMA SrvAnswerStep == ASSUME IInv, NEW r \in Request, SrvAnswer(r) PROVE IInv'
<1>1. PICK sides \in SUBSET Nameable(pc[r]), rung \in Asking \cup {"put"} :
         LET merged == Merge(found[r], Named(r, sides))
         IN  Hear(r, sides) /\ (GoOn(r, merged, rung) \/ Return(r, merged, rung))
  BY DEF SrvAnswer, Asking, Http, Srv
<1>2. QED
  BY <1>1, AnswerStep DEF SrvAnswer

LEMMA MxAnswerStep == ASSUME IInv, NEW r \in Request, MxAnswer(r) PROVE IInv'
<1>1. PICK to \in {"autoconfig", "put"}, domain \in Public :
         pc' = [pc EXCEPT ![r] = to] /\ target' = [target EXCEPT ![r] = domain]
  BY DEF MxAnswer, Goto, IInv, TypeOK, Asks, Asking
<1>2. TypeOK'
  BY <1>1, ConstantsOK DEF MxAnswer, IInv, TypeOK, Phase, Asking, Http
<1>3. Asks'
  <2>1. \A q \in Request : q # r => pc'[q] = pc[q] /\ target'[q] = target[q]
    BY <1>1 DEF IInv, TypeOK
  <2>2. target'[r] \in Public /\ DomainOf[r] \in Public
    BY <1>1 DEF MxAnswer, IInv, TypeOK, Asks, Asking
  <2>3. QED
    BY <2>1, <2>2 DEF MxAnswer, IInv, Asks, FoundForOwn
<1>4. NoCrossDomain'
  BY DEF MxAnswer, IInv, NoCrossDomain
<1>5. QED
  BY <1>2, <1>3, <1>4 DEF IInv

\* A request that leaves the ladder forgets what it had found.
LEMMA LeaveStep ==
    ASSUME IInv, NEW r \in Request, NEW to \in {"check_imap", "done"}, Goto(r, to), Forget(r)
    PROVE  /\ pc' \in [Request -> Phase] /\ target' \in [Request -> Domain \cup {None}]
           /\ acc' \in [Request -> Servers] /\ found' \in [Request -> Servers]
           /\ heard' \in [Request -> Seq(Servers)]
           /\ Asks'
<1>1. /\ pc' \in [Request -> Phase] /\ target' \in [Request -> Domain \cup {None}]
      /\ heard' \in [Request -> Seq(Servers)]
  BY DEF Goto, Forget, IInv, TypeOK, Phase, Checking
<1>2. acc' \in [Request -> Servers] /\ found' \in [Request -> Servers]
  BY NothingOwn DEF Forget, IInv, TypeOK
<1>3. Asks'
  <2> SUFFICES ASSUME NEW q \in Request
               PROVE  /\ pc'[q] \in Asking \cup {"put"} =>
                            DomainOf[q] \in Public /\ target'[q] \in Public
                      /\ FoundForOwn(q, acc'[q]) /\ FoundForOwn(q, found'[q])
    BY DEF Asks, FoundForOwn
  <2>1. CASE q = r
    <3>1. pc'[r] = to /\ acc'[r] = Nothing /\ found'[r] = Nothing
      BY DEF Goto, Forget, IInv, TypeOK
    <3>2. to \notin Asking \cup {"put"}
      BY DEF Asking, Http, Srv
    <3>3. QED
      BY <2>1, <3>1, <3>2, NothingOwn
  <2>2. CASE q # r
    <3>1. pc'[q] = pc[q] /\ target'[q] = target[q] /\ acc'[q] = acc[q] /\ found'[q] = found[q]
      BY <2>2 DEF Goto, Forget, IInv, TypeOK
    <3>2. QED
      BY <3>1 DEF IInv, Asks
  <2>3. QED
    BY <2>1, <2>2
<1>4. QED
  BY <1>1, <1>2, <1>3

LEMMA PutStep == ASSUME IInv, NEW r \in Request, Put(r) PROVE IInv'
<1> DEFINE entry == [expires |-> now + TTLOf(acc[r]), value |-> acc[r]]
<1>1. PICK to \in {"check_imap", "done"} : Goto(r, to)
  BY DEF Put, Assemble, Finish
<1>2. DomainOf[r] \in Domain /\ FoundForOwn(r, acc[r]) /\ acc[r] \in Servers
  BY ConstantsOK DEF Put, IInv, TypeOK, Asks
<1>3. entry \in [expires : Nat, value : Servers]
  BY <1>2, ConstantsOK DEF TTLOf, IInv, TypeOK
<1>4. cache' = [cache EXCEPT ![DomainOf[r]] = entry]
  BY DEF Put
<1>5. TypeOK'
  <2>1. cache' \in [Domain -> [expires : Nat, value : Servers] \cup {None}]
    BY <1>3, <1>4 DEF IInv, TypeOK
  <2>2. now' \in Nat /\ learnt' \in [Domain -> Nat]
    BY DEF Put, IInv, TypeOK
  <2>3. outcome' \in [Request -> {"none", "ready", "bad_request", "autoconfig_failed",
                                  "host_unreachable"}]
    BY DEF Put, Assemble, Finish, IInv, TypeOK
  <2>4. QED
    BY <1>1, <2>1, <2>2, <2>3, LeaveStep DEF TypeOK, Put
<1>6. Asks'
  BY <1>1, LeaveStep DEF Put
<1>7. NoCrossDomain'
  <2>1. \A d \in Domain : d # DomainOf[r] => cache'[d] = cache[d]
    BY <1>4 DEF IInv, TypeOK
  <2>2. cache'[DomainOf[r]].value = acc[r]
    BY <1>2, <1>4 DEF IInv, TypeOK
  <2>3. QED
    BY <1>2, <2>1, <2>2 DEF IInv, NoCrossDomain, FoundForOwn
<1>8. QED
  BY <1>5, <1>6, <1>7 DEF IInv

LEMMA CancelStep == ASSUME IInv, NEW r \in Request, Cancel(r) PROVE IInv'
<1>1. Goto(r, "done") /\ Forget(r)
  BY DEF Cancel
<1>2. TypeOK' /\ Asks'
  BY <1>1, LeaveStep DEF Cancel, IInv, TypeOK
<1>3. NoCrossDomain'
  BY DEF Cancel, IInv, NoCrossDomain
<1>4. QED
  BY <1>2, <1>3 DEF IInv

\* The clock, and steps that change nothing.
LEMMA TickStep ==
    ASSUME IInv, UNCHANGED <<cache, pc, ladder, outcome, learnt>>, now' \in Nat
    PROVE  IInv'
<1>1. TypeOK'
  BY DEF IInv, TypeOK, ladder
<1>2. Asks' /\ NoCrossDomain'
  BY DEF IInv, Asks, NoCrossDomain, ladder, FoundForOwn
<1>3. QED
  BY <1>1, <1>2 DEF IInv

LEMMA NextIInv == IInv /\ [Next]_vars => IInv'
<1> SUFFICES ASSUME IInv, [Next]_vars PROVE IInv'
  OBVIOUS
<1>1. CASE Tick \/ UNCHANGED vars
  <2>1. now' \in Nat
    BY <1>1 DEF Tick, vars, IInv, TypeOK
  <2>2. QED
    BY <1>1, <2>1, TickStep DEF Tick, vars
<1>2. ASSUME NEW r \in Request,
             FastPath(r) \/ Refuse(r) \/ Hit(r) \/ Miss(r) \/ CheckEndpoint(r)
      PROVE  IInv'
  BY <1>2, FastPathStep, RefuseStep, HitStep, MissStep, CheckEndpointStep
<1>3. ASSUME NEW r \in Request,
             HttpAnswer(r) \/ SrvAnswer(r) \/ MxAnswer(r) \/ Put(r) \/ Cancel(r)
      PROVE  IInv'
  BY <1>3, HttpAnswerStep, SrvAnswerStep, MxAnswerStep, PutStep, CancelStep
<1>4. QED
  BY <1>1, <1>2, <1>3 DEF Next

-----------------------------------------------------------------------------
(* Theorems *)

\* The invariant that the others follow from.
THEOREM ResolverInvariance == Spec => []IInv
BY InitIInv, NextIInv, PTL DEF Spec

\* Every variable of the resolver keeps its type.
THEOREM ResolverTypes == Spec => []TypeOK
<1>1. IInv => TypeOK
  BY DEF IInv
<1>2. QED
  BY <1>1, ResolverInvariance, PTL

\* No question is ever asked about a domain that is not public.
THEOREM OnlyPublicAsked == Spec => []PublicOnly
<1>1. IInv => PublicOnly
  BY DEF IInv, Asks, PublicOnly
<1>2. QED
  BY <1>1, ResolverInvariance, PTL

\* The cache entry of a domain was found for that domain.
THEOREM CacheKeepsDomains == Spec => []NoCrossDomain
<1>1. IInv => NoCrossDomain
  BY DEF IInv
<1>2. QED
  BY <1>1, ResolverInvariance, PTL

-----------------------------------------------------------------------------
(* The first source wins *)

\* e is what the first answer to name the side s says, None if none names it.
FirstNamed(answers, s, e) ==
    \/ e = None /\ \A i \in DOMAIN answers : answers[i][s] = None
    \/ \E i \in DOMAIN answers :
          /\ answers[i][s] = e /\ e # None
          /\ \A j \in 1 .. i - 1 : answers[j][s] = None

\* What a request has in its two accumulators is what the first answers to
\* name each side say, and nothing is left in a helper's when it is over.
Gathers ==
    \A r \in Request :
        /\ \A s \in Side : FirstNamed(heard[r], s, Merge(acc[r], found[r])[s])
        /\ pc[r] \in {"mx", "put"} => found[r] = Nothing

LEMMA FirstIsFirst ==
    ASSUME NEW answers \in Seq(Servers), NEW s \in Side, NEW e, FirstNamed(answers, s, e)
    PROVE  FirstToName(answers, s) = e
<1>1. CASE \A i \in DOMAIN answers : answers[i][s] = None
  BY <1>1 DEF FirstNamed, FirstToName
<1>2. ASSUME NEW i \in DOMAIN answers, answers[i][s] = e, e # None,
             \A j \in 1 .. i - 1 : answers[j][s] = None
      PROVE  FirstToName(answers, s) = e
  <2> DEFINE First(k) == answers[k][s] # None /\ \A j \in 1 .. k - 1 : answers[j][s] = None
             chosen   == CHOOSE k \in DOMAIN answers : First(k)
  <2>1. chosen \in DOMAIN answers /\ First(chosen)
    BY <1>2
  <2>2. ASSUME NEW k \in DOMAIN answers, First(k) PROVE k = i
    <3>1. i \in Nat /\ k \in Nat /\ i >= 1 /\ k >= 1
      OBVIOUS
    <3>2. ~(i < k) /\ ~(k < i)
      BY <1>2, <2>2, <3>1
    <3>3. QED
      BY <3>1, <3>2
  <2>3. chosen = i
    BY <2>1, <2>2
  <2>4. FirstToName(answers, s) = answers[chosen][s]
    BY <1>2 DEF FirstToName
  <2>5. QED
    BY <1>2, <2>3, <2>4
<1>3. QED
  BY <1>1, <1>2 DEF FirstNamed

LEMMA FirstOfLonger ==
    ASSUME NEW answers \in Seq(Servers), NEW s \in Side, NEW a \in Servers, NEW e,
           FirstNamed(answers, s, e)
    PROVE  FirstNamed(Append(answers, a), s, IF e = None THEN a[s] ELSE e)
<1> DEFINE longer == Append(answers, a)
<1>1. /\ Len(longer) = Len(answers) + 1 /\ Len(answers) \in Nat
      /\ DOMAIN longer = 1 .. Len(answers) + 1 /\ DOMAIN answers = 1 .. Len(answers)
      /\ longer[Len(answers) + 1] = a
      /\ \A i \in 1 .. Len(answers) : longer[i] = answers[i]
  OBVIOUS
<1> HIDE DEF longer
<1>2. CASE e = None
  <2>1. \A i \in 1 .. Len(answers) : longer[i][s] = None
    BY <1>1, <1>2 DEF FirstNamed
  <2>2. CASE a[s] = None
    BY <1>1, <1>2, <2>1, <2>2 DEF FirstNamed, longer
  <2>3. CASE a[s] # None
    <3>1. \A j \in 1 .. (Len(answers) + 1) - 1 : longer[j][s] = None
      BY <1>1, <2>1
    <3>2. FirstNamed(longer, s, a[s])
      BY <1>1, <2>3, <3>1 DEF FirstNamed
    <3>3. QED
      BY <1>2, <3>2 DEF longer
  <2>4. QED
    BY <2>2, <2>3
<1>3. CASE e # None
  <2>1. PICK i \in DOMAIN answers :
           answers[i][s] = e /\ \A j \in 1 .. i - 1 : answers[j][s] = None
    BY <1>3 DEF FirstNamed
  <2>2. i \in DOMAIN longer /\ longer[i][s] = e
    BY <1>1, <2>1
  <2>3. \A j \in 1 .. i - 1 : longer[j][s] = None
    BY <1>1, <2>1
  <2>4. FirstNamed(longer, s, e)
    BY <1>3, <2>2, <2>3 DEF FirstNamed
  <2>5. QED
    BY <1>3, <2>4 DEF longer
<1>4. QED
  BY <1>2, <1>3

\* It makes no difference at which level answers are merged.
LEMMA MergeLevels ==
    ASSUME NEW u \in Servers, NEW v \in Servers, NEW w \in Servers
    PROVE  /\ Merge(u, Merge(v, w)) = Merge(Merge(u, v), w)
           /\ Merge(u, Nothing) = u
BY DEF Merge, Servers, Nothing

\* A request that has no answers has gathered none.
LEMMA NothingHeard == \A s \in Side : FirstNamed(<< >>, s, Merge(Nothing, Nothing)[s])
BY DEF FirstNamed, Merge, Nothing

\* A step that hears nothing.
LEMMA QuietGathers ==
    ASSUME Gathers, NEW r \in Request,
           pc \in [Request -> Phase], NEW to \in Phase, pc' = [pc EXCEPT ![r] = to],
           to \in {"mx", "put"} => pc[r] \in {"mx", "put"},
           UNCHANGED <<acc, found, heard>>
    PROVE  Gathers'
BY DEF Gathers

LEMMA ForgetGathers ==
    ASSUME IInv, Gathers, NEW r \in Request,
           NEW to \in {"check_imap", "done"}, Goto(r, to), Forget(r)
    PROVE  Gathers'
<1> SUFFICES ASSUME NEW q \in Request
             PROVE  /\ \A s \in Side : FirstNamed(heard'[q], s, Merge(acc'[q], found'[q])[s])
                    /\ pc'[q] \in {"mx", "put"} => found'[q] = Nothing
  BY DEF Gathers
<1>1. CASE q = r
  <2>1. heard'[r] = << >> /\ acc'[r] = Nothing /\ found'[r] = Nothing
    BY DEF Forget, IInv, TypeOK
  <2>2. QED
    BY <1>1, <2>1, NothingHeard
<1>2. CASE q # r
  <2>1. heard'[q] = heard[q] /\ acc'[q] = acc[q] /\ found'[q] = found[q] /\ pc'[q] = pc[q]
    BY <1>2 DEF Forget, Goto, IInv, TypeOK
  <2>2. QED
    BY <2>1 DEF Gathers
<1>3. QED
  BY <1>1, <1>2

\* An answer is merged after all that was heard before.
LEMMA AnswerGathers ==
    ASSUME IInv, Gathers, NEW r \in Request, pc[r] \in Http \cup Srv, NEW sides, NEW rung,
           Hear(r, sides),
           LET merged == Merge(found[r], Named(r, sides))
           IN  (GoOn(r, merged, rung) /\ rung \notin {"mx", "put"}) \/ Return(r, merged, rung)
    PROVE  Gathers'
<1> DEFINE named  == Named(r, sides)
           merged == Merge(found[r], named)
<1>1. PICK a : a = acc[r]
  OBVIOUS
<1>2. PICK f : f = found[r]
  OBVIOUS
<1>3. a \in Servers /\ f \in Servers /\ named \in Servers /\ merged \in Servers
  BY <1>1, <1>2, NamedOwn, MergeServers DEF IInv, TypeOK
<1>4. \A s \in Side : FirstNamed(Append(heard[r], named), s, Merge(Merge(a, f), named)[s])
  <2> SUFFICES ASSUME NEW s \in Side
               PROVE  FirstNamed(Append(heard[r], named), s, Merge(Merge(a, f), named)[s])
    OBVIOUS
  <2>1. PICK e : e = Merge(a, f)[s]
    OBVIOUS
  <2>2. FirstNamed(heard[r], s, e) /\ heard[r] \in Seq(Servers)
    BY <1>1, <1>2, <2>1 DEF Gathers, IInv, TypeOK
  <2>3. FirstNamed(Append(heard[r], named), s, IF e = None THEN named[s] ELSE e)
    BY <1>3, <2>2, FirstOfLonger
  <2>4. Merge(Merge(a, f), named)[s] = IF e = None THEN named[s] ELSE e
    BY <2>1 DEF Merge
  <2>5. QED
    BY <2>3, <2>4
<1>5. Merge(a, merged) = Merge(Merge(a, f), named)
  BY <1>2, <1>3, MergeLevels
<1>6. heard'[r] = Append(heard[r], named)
  BY DEF Hear, IInv, TypeOK
<1>7. /\ \/ acc' = acc /\ found' = [found EXCEPT ![r] = merged] /\ rung \notin {"mx", "put"}
            /\ pc' = [pc EXCEPT ![r] = rung]
         \/ /\ acc' = [acc EXCEPT ![r] = Merge(a, merged)] /\ found' = [found EXCEPT ![r] = Nothing]
            /\ \E to : pc' = [pc EXCEPT ![r] = to]
      /\ heard' = [heard EXCEPT ![r] = Append(@, named)]
  BY <1>1 DEF GoOn, Return, Goto, Hear
<1> HIDE DEF merged, named
<1>8. Merge(acc'[r], found'[r]) = Merge(a, merged)
  <2>1. Merge(a, merged) \in Servers
    BY <1>3, MergeServers
  <2>2. Merge(Merge(a, merged), Nothing) = Merge(a, merged)
    BY <2>1, MergeLevels, NothingOwn
  <2>3. \/ acc'[r] = a /\ found'[r] = merged
        \/ acc'[r] = Merge(a, merged) /\ found'[r] = Nothing
    BY <1>1, <1>7 DEF IInv, TypeOK
  <2>4. QED
    BY <2>2, <2>3
<1>9. pc'[r] \in {"mx", "put"} => found'[r] = Nothing
  BY <1>7 DEF IInv, TypeOK
<1>10. \A q \in Request : q # r =>
          heard'[q] = heard[q] /\ acc'[q] = acc[q] /\ found'[q] = found[q] /\ pc'[q] = pc[q]
  BY <1>7 DEF IInv, TypeOK
<1>11. \A s \in Side : FirstNamed(heard'[r], s, Merge(acc'[r], found'[r])[s])
  BY <1>4, <1>5, <1>6, <1>8
<1>12. QED
  BY <1>9, <1>10, <1>11 DEF Gathers

LEMMA HttpAnswerGathers == ASSUME IInv, Gathers, NEW r \in Request, HttpAnswer(r) PROVE Gathers'
<1>1. PICK sides, rung :
         LET merged == Merge(found[r], Named(r, sides))
         IN  /\ Hear(r, sides)
             /\ (GoOn(r, merged, rung) /\ rung \notin {"mx", "put"}) \/ Return(r, merged, rung)
  BY DEF HttpAnswer
<1>2. QED
  BY <1>1, AnswerGathers DEF HttpAnswer

LEMMA SrvAnswerGathers == ASSUME IInv, Gathers, NEW r \in Request, SrvAnswer(r) PROVE Gathers'
<1>1. PICK sides, rung :
         LET merged == Merge(found[r], Named(r, sides))
         IN  /\ Hear(r, sides)
             /\ (GoOn(r, merged, rung) /\ rung \notin {"mx", "put"}) \/ Return(r, merged, rung)
  BY DEF SrvAnswer
<1>2. QED
  BY <1>1, AnswerGathers DEF SrvAnswer

LEMMA InitGathers == Init => Gathers
BY NothingHeard DEF Init, Gathers

LEMMA NextGathers == IInv /\ Gathers /\ [Next]_vars => Gathers'
<1> SUFFICES ASSUME IInv, Gathers, [Next]_vars PROVE Gathers'
  OBVIOUS
<1>0. pc \in [Request -> Phase]
  BY DEF IInv, TypeOK
<1>1. CASE Tick \/ UNCHANGED vars
  BY <1>1 DEF Tick, vars, ladder, Gathers
<1>2. ASSUME NEW r \in Request, FastPath(r) \/ Refuse(r) \/ Hit(r) \/ Miss(r) \/ CheckEndpoint(r)
      PROVE  Gathers'
  <2>1. PICK to \in {"check_imap", "check_smtp", "done", "autoconfig"} :
           pc' = [pc EXCEPT ![r] = to]
    BY <1>2 DEF FastPath, Refuse, Hit, Miss, CheckEndpoint, Assemble, Finish, Goto
  <2>2. UNCHANGED <<acc, found, heard>>
    BY <1>2 DEF FastPath, Refuse, Hit, Miss, CheckEndpoint, ladder
  <2>3. to \in Phase /\ to \notin {"mx", "put"}
    BY DEF Phase, Asking, Http, Checking
  <2>4. QED
    BY <1>0, <2>1, <2>2, <2>3, QuietGathers
<1>3. ASSUME NEW r \in Request, MxAnswer(r) PROVE Gathers'
  <2>1. PICK to \in {"autoconfig", "put"} : pc' = [pc EXCEPT ![r] = to]
    BY <1>3 DEF MxAnswer, Goto
  <2>2. pc[r] = "mx" /\ UNCHANGED <<acc, found, heard>> /\ to \in Phase
    BY <1>3 DEF MxAnswer, Phase, Asking, Http
  <2>3. QED
    BY <1>0, <2>1, <2>2, QuietGathers
<1>4. ASSUME NEW r \in Request, Put(r) \/ Cancel(r) PROVE Gathers'
  <2>1. PICK to \in {"check_imap", "done"} : Goto(r, to)
    BY <1>4 DEF Put, Cancel, Assemble, Finish
  <2>2. QED
    BY <1>4, <2>1, ForgetGathers DEF Put, Cancel
<1>5. QED
  BY <1>1, <1>2, <1>3, <1>4, HttpAnswerGathers, SrvAnswerGathers DEF Next

THEOREM GatheringInvariant == Spec => [](IInv /\ Gathers)
<1>1. QED
  BY InitIInv, InitGathers, NextIInv, NextGathers, PTL DEF Spec

\* run_ladder, http_ladder, srv_lookup and merge_from: whatever the answers
\* are, what the ladder returns is what the first answers to name each side
\* said.
THEOREM FirstAnswerWins == Spec => []FirstSourceWins
<1>1. IInv /\ Gathers => FirstSourceWins
  <2> SUFFICES ASSUME IInv, Gathers, NEW r \in Request, pc[r] = "put", NEW s \in Side
               PROVE  acc[r][s] = FirstToName(heard[r], s)
    BY DEF FirstSourceWins
  <2>1. PICK a : a = acc[r]
    OBVIOUS
  <2>2. a \in Servers /\ heard[r] \in Seq(Servers) /\ found[r] = Nothing
    BY <2>1 DEF IInv, TypeOK, Gathers
  <2>3. Merge(a, found[r]) = a
    BY <2>2, MergeLevels
  <2>4. FirstNamed(heard[r], s, a[s])
    BY <2>1, <2>3 DEF Gathers
  <2>5. QED
    BY <2>1, <2>2, <2>4, FirstIsFirst
<1>2. QED
  BY <1>1, GatheringInvariant, PTL

-----------------------------------------------------------------------------
(* The age of what is served *)

\* An entry expires its TTL after its domain was learnt.
Dated ==
    \A d \in Domain : cache[d] # None =>
        cache[d].expires = learnt[d] + (IF cache[d].value = Nothing THEN NegTTL ELSE PosTTL)

LEMMA PutDates == ASSUME IInv, Dated, NEW r \in Request, Put(r) PROVE Dated'
<1> DEFINE D == DomainOf[r]
           entry == [expires |-> now + TTLOf(acc[r]), value |-> acc[r]]
<1>1. D \in Domain
  BY ConstantsOK DEF Put, IInv, Asks
<1>2. cache' = [cache EXCEPT ![D] = entry] /\ learnt' = [learnt EXCEPT ![D] = now]
  BY DEF Put
<1>3. cache'[D] = entry /\ learnt'[D] = now
        /\ \A d \in Domain : d # D => cache'[d] = cache[d] /\ learnt'[d] = learnt[d]
  BY <1>1, <1>2 DEF IInv, TypeOK
<1>4. entry.expires = now + (IF entry.value = Nothing THEN NegTTL ELSE PosTTL)
  BY DEF TTLOf
<1> HIDE DEF D, entry
<1>5. QED
  BY <1>3, <1>4 DEF Dated

LEMMA NextDated == IInv /\ Dated /\ [Next]_vars => Dated'
<1> SUFFICES ASSUME IInv, Dated, [Next]_vars PROVE Dated'
  OBVIOUS
<1>1. CASE UNCHANGED <<cache, learnt>>
  BY <1>1 DEF Dated
<1>2. CASE \E r \in Request : Put(r)
  BY <1>2, PutDates
<1>3. UNCHANGED <<cache, learnt>> \/ \E r \in Request : Put(r)
  BY DEF Next, vars, FastPath, Refuse, Hit, Miss, HttpAnswer, SrvAnswer, MxAnswer,
         CheckEndpoint, Cancel, Tick
<1>4. QED
  BY <1>1, <1>2, <1>3

\* Only its own steps move a request.
LEMMA OnlyOwnMoves ==
    ASSUME IInv, NEW q \in Request, NEW r \in Request, r # q, NEW to, Goto(q, to)
    PROVE  pc'[r] = pc[r]
BY DEF Goto, IInv, TypeOK

\* A request that leaves the start for the checks or the end, with autoconfiguration
\* on and a public domain, does so by a hit.
LEMMA OnlyHits ==
    ASSUME IInv, [Next]_vars, NEW r \in Request, AskedNothing(r)
    PROVE  Hit(r)
<1>1. pc[r] = "begin" /\ pc'[r] \in {"check_imap", "done"} /\ pc'[r] # pc[r]
        /\ Explicit[r] # Side /\ Enabled /\ DomainOf[r] \in Public /\ DomainOf[r] # None
  BY ConstantsOK DEF AskedNothing
<1>2. ~UNCHANGED pc
  BY <1>1
<1>3. PICK q \in Request :
          \/ FastPath(q) \/ Refuse(q) \/ Hit(q) \/ Miss(q)
          \/ HttpAnswer(q) \/ SrvAnswer(q) \/ MxAnswer(q) \/ Put(q)
          \/ CheckEndpoint(q) \/ Cancel(q)
  BY <1>2 DEF Next, vars, Tick
<1>4. \E to : Goto(q, to)
  BY <1>3 DEF FastPath, Refuse, Hit, Miss, HttpAnswer, SrvAnswer, MxAnswer, Put, CheckEndpoint,
              Cancel, Finish, Assemble, GoOn, Return
<1>5. q = r
  BY <1>1, <1>4, OnlyOwnMoves
<1>6. pc'[r] # "autoconfig"
  BY <1>1
<1>7. ~Miss(r)
  BY <1>6 DEF Miss, Goto, IInv, TypeOK
<1>8. ~FastPath(r) /\ ~Refuse(r) /\ ~HttpAnswer(r) /\ ~SrvAnswer(r) /\ ~MxAnswer(r)
        /\ ~Put(r) /\ ~CheckEndpoint(r) /\ ~Cancel(r)
  BY <1>1 DEF FastPath, Refuse, HttpAnswer, SrvAnswer, MxAnswer, Put, CheckEndpoint, Cancel,
              Http, Srv, Asking, Checking
<1>9. QED
  BY <1>3, <1>5, <1>7, <1>8

\* cache_get and cache_put: what a request is told without a question asked is
\* within its TTL, for any TTLs and any set of requests.
THEOREM ServedWithinTTL == Spec => ServedFresh
<1>1. Init => Dated
  BY DEF Init, Dated
<1>2. IInv /\ Dated /\ [Next]_vars =>
          [\A r \in Request : AskedNothing(r) =>
              now - learnt[DomainOf[r]] <
                  IF cache[DomainOf[r]].value = Nothing THEN NegTTL ELSE PosTTL]_vars
  <2> SUFFICES ASSUME IInv, Dated, [Next]_vars, NEW r \in Request, AskedNothing(r)
               PROVE  now - learnt[DomainOf[r]] <
                          IF cache[DomainOf[r]].value = Nothing THEN NegTTL ELSE PosTTL
    OBVIOUS
  <2> DEFINE D == DomainOf[r]
             ttl == IF cache[D].value = Nothing THEN NegTTL ELSE PosTTL
  <2>1. CacheGet(D) /\ D \in Domain
    BY OnlyHits, ConstantsOK DEF Hit
  <2>2. cache[D].expires > now /\ cache[D].expires = learnt[D] + ttl
    BY <2>1 DEF CacheGet, Dated
  <2>3. now \in Nat /\ learnt[D] \in Nat /\ ttl \in Nat
    BY <2>1, ConstantsOK DEF IInv, TypeOK
  <2> HIDE DEF ttl, D
  <2>4. now - learnt[D] < ttl
    BY <2>2, <2>3
  <2>5. QED
    BY <2>4 DEF ttl, D
<1>3. QED
  BY <1>1, <1>2, NextDated, ResolverInvariance, PTL DEF Spec, ServedFresh

-----------------------------------------------------------------------------
(* The number of questions *)

\* How many answers a request may have when it is at a rung: those of the rungs
\* before it, all ten at the end.
Before(rung, again) ==
    CASE rung = "autoconfig"  -> IF again THEN 7 ELSE 0
      [] rung = "wellknown"   -> IF again THEN 8 ELSE 1
      [] rung = "ispdb"       -> IF again THEN 9 ELSE 2
      [] rung = "imaps"       -> 3
      [] rung = "imap"        -> 4
      [] rung = "submissions" -> 5
      [] rung = "submission"  -> 6
      [] rung = "mx"          -> 7
      [] rung = "put"         -> 10
      [] OTHER                -> 0

Again(r) == target[r] # DomainOf[r]

Counted == \A r \in Request : Len(heard[r]) <= Before(pc[r], Again(r))

LEMMA BeforeBound ==
    ASSUME NEW rung \in Phase, NEW r
    PROVE  Before(rung, Again(r)) \in 0 .. 10 /\ Before(rung, Again(r)') \in 0 .. 10
BY DEF Before

LEMMA AnswerCounts ==
    ASSUME IInv, Counted, NEW r \in Request, HttpAnswer(r) \/ SrvAnswer(r)
    PROVE  Counted'
<1>1. PICK sides, rung :
         LET merged == Merge(found[r], Named(r, sides))
         IN  /\ Hear(r, sides) /\ (GoOn(r, merged, rung) \/ Return(r, merged, rung))
             /\ rung \in Phase /\ Before(pc[r], Again(r)) + 1 <= Before(rung, Again(r))
             /\ rung \notin {"autoconfig"}
  <2>1. CASE HttpAnswer(r)
    BY <2>1 DEF HttpAnswer, Http, Before, Again, Phase, Asking, Srv
  <2>2. CASE SrvAnswer(r)
    BY <2>2 DEF SrvAnswer, Srv, Before, Phase, Asking, Http
  <2> QED
    BY <2>1, <2>2
<1>2. Len(heard'[r]) = Len(heard[r]) + 1 /\ Len(heard[r]) \in Nat
  <2>1. PICK h \in Seq(Servers) : h = heard[r]
    BY DEF IInv, TypeOK
  <2>2. heard'[r] = Append(h, Named(r, sides))
    BY <1>1, <2>1 DEF Hear, IInv, TypeOK
  <2> QED
    BY <2>1, <2>2
<1>3. pc'[r] \in {rung, "put"} /\ target' = target
  BY <1>1 DEF GoOn, Return, Goto, HttpAnswer, SrvAnswer, IInv, TypeOK
<1>4. Before(pc[r], Again(r)) + 1 <= Before(pc'[r], Again(r)')
  <2>1. Again(r)' = Again(r)
    BY <1>3 DEF Again
  <2>2. Before("put", Again(r)) = 10 /\ Before(rung, Again(r)) \in 0 .. 10
          /\ Before(pc[r], Again(r)) \in 0 .. 10
    <3>1. pc[r] \in Phase
      BY DEF IInv, TypeOK
    <3> QED
      BY <1>1, <3>1, BeforeBound DEF Before
  <2> QED
    BY <1>1, <1>3, <2>1, <2>2
<1>5. \A q \in Request : q # r => heard'[q] = heard[q] /\ pc'[q] = pc[q] /\ target'[q] = target[q]
  BY <1>1, <1>3 DEF GoOn, Return, Goto, Hear, IInv, TypeOK
<1>6. Before(pc[r], Again(r)) \in Nat /\ Before(pc'[r], Again(r)') \in Nat
  <2>1. pc[r] \in Phase /\ pc'[r] \in Phase
    BY <1>1, <1>3 DEF IInv, TypeOK, Phase
  <2>2. PICK to \in Phase : to = pc'[r]
    BY <2>1
  <2> QED
    BY <2>1, <2>2, BeforeBound
<1>7. Len(heard'[r]) <= Before(pc'[r], Again(r)')
  BY <1>2, <1>4, <1>6 DEF Counted
<1> QED
  BY <1>5, <1>7 DEF Counted, Again

\* A step that hears nothing, and moves a request forwards.
LEMMA ForwardCounts ==
    ASSUME IInv, Counted, NEW r \in Request, NEW to \in Phase, Goto(r, to), heard' = heard,
           \A q \in Request : q # r => target'[q] = target[q],
           Before(pc[r], Again(r)) <= Before(to, Again(r)')
    PROVE  Counted'
<1>1. pc'[r] = to /\ \A q \in Request : q # r => pc'[q] = pc[q]
  BY DEF Goto, IInv, TypeOK
<1>2. Len(heard[r]) \in Nat /\ Before(pc[r], Again(r)) \in Nat /\ Before(to, Again(r)') \in Nat
  <2>1. pc[r] \in Phase /\ Len(heard[r]) \in Nat
    BY DEF IInv, TypeOK
  <2> QED
    BY <2>1, BeforeBound
<1>3. Len(heard'[r]) <= Before(pc'[r], Again(r)')
  BY <1>1, <1>2 DEF Counted
<1> QED
  BY <1>1, <1>3 DEF Counted, Again

LEMMA ForgetCounts ==
    ASSUME IInv, Counted, NEW r \in Request, NEW to \in {"check_imap", "done"}, Goto(r, to), Forget(r)
    PROVE  Counted'
<1>1. pc'[r] = to /\ heard'[r] = << >> /\ Before(to, Again(r)') = 0
  BY DEF Goto, Forget, IInv, TypeOK, Before
<1>2. \A q \in Request : q # r => heard'[q] = heard[q] /\ pc'[q] = pc[q] /\ target'[q] = target[q]
  BY DEF Goto, Forget, IInv, TypeOK
<1> QED
  BY <1>1, <1>2 DEF Counted, Again

LEMMA NextCounted == IInv /\ Counted /\ [Next]_vars => Counted'
<1> SUFFICES ASSUME IInv, Counted, [Next]_vars PROVE Counted'
  OBVIOUS
<1>1. CASE Tick \/ UNCHANGED vars
  BY <1>1 DEF Tick, vars, ladder, Counted, Again
<1>2. ASSUME NEW r \in Request, FastPath(r) \/ Refuse(r) \/ Hit(r) \/ CheckEndpoint(r)
      PROVE  Counted'
  <2>1. PICK to \in {"check_imap", "check_smtp", "done"} : Goto(r, to)
    BY <1>2 DEF FastPath, Refuse, Hit, CheckEndpoint, Assemble, Finish
  <2>2. UNCHANGED <<heard, target>> /\ pc[r] \in {"begin", "check_imap", "check_smtp"}
    BY <1>2 DEF FastPath, Refuse, Hit, CheckEndpoint, ladder, Arrives, Checking
  <2>3. Before(pc[r], Again(r)) = 0 /\ Before(to, Again(r)') = 0 /\ to \in Phase
    BY <2>2 DEF Before, Phase, Checking
  <2> QED
    BY <2>1, <2>2, <2>3, ForwardCounts
<1>3. ASSUME NEW r \in Request, Miss(r) PROVE Counted'
  <2>1. /\ Goto(r, "autoconfig") /\ heard' = heard /\ pc[r] = "begin"
        /\ target' = [target EXCEPT ![r] = DomainOf[r]]
    BY <1>3 DEF Miss, Arrives
  <2>2. target'[r] = DomainOf[r] /\ \A q \in Request : q # r => target'[q] = target[q]
    BY <2>1 DEF IInv, TypeOK
  <2>3. Before(pc[r], Again(r)) = 0 /\ Before("autoconfig", Again(r)') = 0
    BY <2>1, <2>2 DEF Before, Again
  <2>4. "autoconfig" \in Phase
    BY DEF Phase, Asking, Http
  <2> QED
    BY <2>1, <2>2, <2>3, <2>4, ForwardCounts
<1>4. ASSUME NEW r \in Request, MxAnswer(r) PROVE Counted'
  <2>1. pc[r] = "mx" /\ heard' = heard
    BY <1>4 DEF MxAnswer
  <2>2. PICK to \in {"autoconfig", "put"} : Goto(r, to) /\ (to = "autoconfig" => Again(r)')
    BY <1>4 DEF MxAnswer, Again, IInv, TypeOK
  <2>3. \A q \in Request : q # r => target'[q] = target[q]
    BY <1>4 DEF MxAnswer, IInv, TypeOK
  <2>4. Before(pc[r], Again(r)) = 7 /\ Before(to, Again(r)') \in {7, 10} /\ to \in Phase
    BY <2>1, <2>2 DEF Before, Phase, Asking, Http
  <2> QED
    BY <2>1, <2>2, <2>3, <2>4, ForwardCounts
<1>5. ASSUME NEW r \in Request, Put(r) \/ Cancel(r) PROVE Counted'
  <2>1. PICK to \in {"check_imap", "done"} : Goto(r, to)
    BY <1>5 DEF Put, Cancel, Assemble, Finish
  <2> QED
    BY <1>5, <2>1, ForgetCounts DEF Put, Cancel
<1> QED
  BY <1>1, <1>2, <1>3, <1>4, <1>5, AnswerCounts DEF Next

\* run_ladder and mx_autoconfig: whatever the rungs answer, and whichever provider
\* an MX record points to, a ladder ends after ten answers and one MX record.
THEOREM LaddersAreShort == Spec => []FewQuestions
<1>1. Init => Counted
  BY DEF Init, Counted, Before
<1>2. IInv /\ Counted => FewQuestions
  <2> SUFFICES ASSUME IInv, Counted, NEW r \in Request PROVE Len(heard[r]) <= 10
    BY DEF FewQuestions
  <2>1. pc[r] \in Phase /\ Len(heard[r]) \in Nat
    BY DEF IInv, TypeOK
  <2>2. Before(pc[r], Again(r)) \in 0 .. 10
    BY <2>1, BeforeBound
  <2> QED
    BY <2>1, <2>2 DEF Counted
<1> QED
  BY <1>1, <1>2, NextCounted, ResolverInvariance, PTL DEF Spec
=============================================================================

---------------------------- MODULE GatewayProofs ---------------------------
(***************************************************************************)
(* Theorems about Gateway: its types, that what the caller is told stays   *)
(* true, that nothing is submitted unchecked, and that it implements       *)
(* Delivery, for every script of POSTs of any length.                      *)
(***************************************************************************)
EXTENDS Gateway, SequenceTheorems, TLAPS

Handed  == wire \cup accepted \cup refused
Response == [id : Nat, code : Code]

Working == {"handle", "credential", "read", "submit", "reply"}

GoodPost(p) ==
    /\ p \in POST
    /\ p.surface = "rest" => IsRest(p)
    /\ p.json = "single" => Len(p.items) = 1

Truthful(a, code) ==
    /\ code = "sent" => a \in accepted
    /\ code \notin {"sent", "host_unreachable"} => a \notin wire \cup accepted

Checked(p, m) ==
    /\ RequireKey => p.key = "right"
    /\ p.headers = "good" /\ p.size # "huge"
    /\ p.size = "large" => \A i \in DOMAIN p.items : IsSendCall(p.items[i])
    /\ CallsTool(m) /\ m.name = "email_send" /\ m.arguments = "good" /\ m.content = "fine"

-----------------------------------------------------------------------------
(* The inductive invariant *)

\* Where the handler is.
Shape ==
    /\ \A n \in DOMAIN posted : GoodPost(posted[n])
    /\ pc \in Working => next \in DOMAIN current.items
    /\ pc = "gate" => next = 1 /\ answers = <<>>

\* The checks that are behind the handler.
Stage ==
    /\ pc \in Working => PostErrors(current) = {}
    /\ pc \in Working \ {"handle"} => CallsTool(item)
    /\ pc \in {"submit", "reply"} =>
          /\ current.headers = "good" /\ item.name = "email_send"
          /\ ArgumentErrors(current, item) = {} /\ ContentErrors(item) = {}

Separate == wire \cap accepted = {} /\ wire \cap refused = {} /\ accepted \cap refused = {}

\* Of the POST that is worked on, only messages that are over were handed to the
\* provider, and the one whose reply is awaited; none was told about.
Behind ==
    pc # "idle" =>
        /\ \A a \in Handed : a[1] = Len(posted) => a[2] < next \/ (pc = "reply" /\ a[2] = next)
        /\ \A answer \in told : answer.attempt[1] < Len(posted)

\* The responses that are gathered are about messages that are over, and true.
Gathered ==
    pc # "idle" =>
        \A k \in DOMAIN answers :
            answers[k].id # 0 => /\ answers[k].id < next
                                 /\ Truthful(<<Len(posted), answers[k].id>>, answers[k].code)

IInv ==
    /\ TypeOK /\ Shape /\ Stage /\ Separate /\ Behind /\ Gathered
    /\ TellsTruth /\ OnlyChecked

LEMMA InitIInv == Init => IInv /\ Attempted!Init
<1> SUFFICES ASSUME Init PROVE IInv /\ Attempted!Init
  OBVIOUS
<1>1. TypeOK
  <2>1. silent \in BOOLEAN /\ (silent => pc \in Waits)
    BY DEF Init
  <2>2. QED
    BY <2>1 DEF Init, TypeOK
<1>2. Shape /\ Stage /\ Separate /\ Behind /\ Gathered /\ TellsTruth /\ OnlyChecked
  BY DEF Init, Shape, Stage, Separate, Behind, Gathered, TellsTruth, OnlyChecked, Working, Handed
<1>3. QED
  BY <1>1, <1>2 DEF IInv, Init, Attempted!Init

-----------------------------------------------------------------------------
(* The end of a message *)

\* Every element of a concatenation comes from one of its parts.
LEMMA ConcatElement ==
    ASSUME NEW S, NEW s \in Seq(S), NEW t \in Seq(S)
    PROVE  /\ s \o t \in Seq(S)
           /\ \A k \in DOMAIN (s \o t) : \/ \E j \in DOMAIN s : (s \o t)[k] = s[j]
                                         \/ \E j \in DOMAIN t : (s \o t)[k] = t[j]
<1>1. s \o t \in Seq(S) /\ Len(s \o t) = Len(s) + Len(t)
  OBVIOUS
<1>2. ASSUME NEW k \in DOMAIN (s \o t)
      PROVE  \/ \E j \in DOMAIN s : (s \o t)[k] = s[j]
             \/ \E j \in DOMAIN t : (s \o t)[k] = t[j]
  <2>1. k \in 1 .. Len(s) + Len(t)
    BY <1>1
  <2>2. CASE k <= Len(s)
    BY <2>1, <2>2
  <2>3. CASE k > Len(s)
    <3>1. (s \o t)[k] = t[k - Len(s)] /\ k - Len(s) \in DOMAIN t
      BY <2>1, <2>3
    <3>2. QED
      BY <3>1
  <2>4. QED
    BY <2>1, <2>2, <2>3
<1>3. QED
  BY <1>1, <1>2

LEMMA ResponseElement ==
    ASSUME NEW s \in Seq(Response), NEW k \in DOMAIN s
    PROVE  s[k].id \in Nat /\ s[k].code \in Code
<1>1. k \in 1 .. Len(s)
  BY LenProperties
<1>2. s[k] \in Response
  BY <1>1, ElementOfSeq
<1>3. QED
  BY <1>2 DEF Response

\* What the caller may be told about a message that is over keeps everything
\* true, and is a Tell of Delivery or no step of it.
LEMMA ConcludeStep ==
    ASSUME IInv, pc \in Working, ~silent, NEW code \in Code, Truthful(attempt, code),
           Conclude(code), UNCHANGED provider
    PROVE  IInv' /\ [Attempted!Next]_(Attempted!vars)
<1>1. /\ posted' = posted /\ current' = current /\ Attempts' = Attempts
      /\ posted # <<>> /\ Len(posted) \in DOMAIN posted /\ current.items \in Seq(Message)
      /\ next \in 1 .. Len(current.items) /\ pc # "idle"
  <2>1. posted # <<>> /\ posted \in Seq(POST) /\ pc # "idle" /\ posted' = posted
    BY DEF IInv, TypeOK, Working, Conclude
  <2>2. Len(posted) \in DOMAIN posted /\ current \in POST
    BY <2>1 DEF current
  <2>3. current.items \in Seq(Message)
    BY <2>2 DEF POST
  <2>4. next \in 1 .. Len(current.items)
    BY <2>3 DEF IInv, Shape
  <2>5. current' = current /\ Attempts' = Attempts
    BY <2>1 DEF current, Attempts
  <2>6. QED
    BY <2>1, <2>2, <2>3, <2>4, <2>5
<1>2. PICK more : more = ResponseTo(item, next, code)
  OBVIOUS
<1>3. /\ more \in Seq(Response)
      /\ \A k \in DOMAIN more : more[k].code = code /\ more[k].id \in {0, next}
  <2>1. PICK r : r = [id |-> IF item.id = "null" THEN 0 ELSE next, code |-> code]
    OBVIOUS
  <2>2. r \in Response /\ r.code = code /\ r.id \in {0, next}
    BY <1>1, <2>1 DEF Response
  <2>3. more = <<r>> \/ more = <<>>
    BY <1>2, <2>1 DEF ResponseTo
  <2>4. CASE more = <<r>>
    <3>1. more \in Seq(Response) /\ DOMAIN more = {1} /\ more[1] = r
      BY <2>2, <2>4
    <3>2. QED
      BY <2>2, <3>1
  <2>5. CASE more = <<>>
    <3>1. more \in Seq(Response) /\ DOMAIN more = {}
      BY <2>5
    <3>2. QED
      BY <3>1
  <2>6. QED
    BY <2>3, <2>4, <2>5
<1>4. PICK gathered : gathered = answers \o more
  OBVIOUS
<1>5. /\ gathered \in Seq(Response)
      /\ \A k \in DOMAIN gathered :
            gathered[k].id # 0 => /\ gathered[k].id <= next
                                  /\ Truthful(<<Len(posted), gathered[k].id>>, gathered[k].code)
  <2>1. answers \in Seq(Response)
    BY DEF IInv, TypeOK, Response
  <2>2. /\ gathered \in Seq(Response)
        /\ \A k \in DOMAIN gathered : \/ \E j \in DOMAIN answers : gathered[k] = answers[j]
                                      \/ \E j \in DOMAIN more : gathered[k] = more[j]
    BY <1>3, <1>4, <2>1, ConcatElement
  <2>3. ASSUME NEW k \in DOMAIN gathered, gathered[k].id # 0
        PROVE  /\ gathered[k].id <= next
               /\ Truthful(<<Len(posted), gathered[k].id>>, gathered[k].code)
    <3>1. CASE \E j \in DOMAIN answers : gathered[k] = answers[j]
      <4>1. PICK j \in DOMAIN answers : gathered[k] = answers[j]
        BY <3>1
      <4>2. answers[j].id \in Nat
        BY <2>1, ResponseElement
      <4>3. QED
        BY <1>1, <2>3, <4>1, <4>2 DEF IInv, Gathered
    <3>2. CASE \E j \in DOMAIN more : gathered[k] = more[j]
      <4>1. PICK j \in DOMAIN more : gathered[k] = more[j]
        BY <3>2
      <4>2. gathered[k].code = code /\ gathered[k].id = next
        BY <1>3, <2>3, <4>1
      <4>3. QED
        BY <1>1, <4>2 DEF attempt
    <3>3. QED
      BY <2>2, <3>1, <3>2
  <2>4. QED
    BY <2>2, <2>3
<1>6. answers' = gathered /\ UNCHANGED <<posted, wire, accepted, refused, silent>>
  BY <1>2, <1>4 DEF Conclude, provider
<1>7. CASE next < Len(current.items)
  <2>1. pc' = "handle" /\ next' = next + 1 /\ UNCHANGED <<response, told>>
    BY <1>7 DEF Conclude
  <2>2. TypeOK'
    BY <1>1, <1>5, <1>6, <2>1 DEF IInv, TypeOK, Known, Response
  <2>3. Shape' /\ Stage'
    BY <1>1, <1>6, <1>7, <2>1 DEF IInv, Shape, Stage, Working
  <2>4. Separate' /\ TellsTruth' /\ OnlyChecked'
    BY <1>6, <2>1 DEF IInv, Separate, TellsTruth, OnlyChecked
  <2>5. Behind'
    <3>1. \A a \in Handed : a[2] \in Nat
      BY DEF IInv, TypeOK, Known, Handed
    <3>2. QED
      BY <1>1, <1>6, <2>1, <3>1 DEF IInv, Behind, Handed
  <2>6. Gathered'
    <3>1. \A k \in DOMAIN gathered : gathered[k].id \in Nat
      BY <1>5, ResponseElement
    <3>2. QED
      BY <1>1, <1>5, <1>6, <2>1, <3>1 DEF Gathered, Truthful
  <2>7. UNCHANGED Attempted!vars
    BY <1>1, <1>6, <2>1 DEF Attempted!vars
  <2>8. QED
    BY <2>2, <2>3, <2>4, <2>5, <2>6, <2>7 DEF IInv
<1>8. CASE ~(next < Len(current.items))
  <2> DEFINE new == {[attempt |-> <<Len(posted), gathered[k].id>>, code |-> gathered[k].code] :
                        k \in {j \in DOMAIN gathered : gathered[j].id # 0}}
  <2>1. /\ pc' = "idle" /\ next' = next /\ told' = told \cup new
        /\ response' \in {"accepted", "answers"}
    BY <1>2, <1>4, <1>8 DEF Conclude
  <2>2. \A answer \in new : /\ answer.attempt \in Attempts /\ answer.attempt \in Known
                            /\ answer.code \in Code /\ Truthful(answer.attempt, answer.code)
    <3> SUFFICES ASSUME NEW k \in DOMAIN gathered, gathered[k].id # 0
                 PROVE  /\ <<Len(posted), gathered[k].id>> \in Attempts \cap Known
                        /\ gathered[k].code \in Code
                        /\ Truthful(<<Len(posted), gathered[k].id>>, gathered[k].code)
      OBVIOUS
    <3>1. gathered[k].id \in Nat /\ gathered[k].code \in Code
      BY <1>5, ResponseElement
    <3>2. DOMAIN current.items = 1 .. Len(current.items)
      BY <1>1, LenProperties
    <3>3. gathered[k].id \in DOMAIN current.items
      <4>1. gathered[k].id <= next
        BY <1>5
      <4>2. QED
        BY <1>1, <3>1, <3>2, <4>1, LenProperties
    <3>4. Len(posted) \in 1 .. Len(posted)
      BY <1>1, LenProperties DEF IInv, TypeOK
    <3>5. QED
      BY <1>1, <1>5, <3>1, <3>3, <3>4 DEF Attempts, Known, current
  <2> HIDE DEF new
  <2>3. TypeOK'
    BY <1>1, <1>5, <1>6, <2>1, <2>2 DEF IInv, TypeOK, Known, Response
  <2>4. Shape' /\ Stage' /\ Behind' /\ Gathered'
    BY <1>6, <2>1 DEF IInv, Shape, Stage, Behind, Gathered, Working
  <2>5. Separate' /\ OnlyChecked'
    BY <1>6, <2>1 DEF IInv, Separate, OnlyChecked
  <2>6. TellsTruth'
    BY <1>6, <2>1, <2>2 DEF IInv, TellsTruth, Truthful
  <2>7. Attempted!Tell
    BY <1>1, <1>6, <2>1, <2>2 DEF Attempted!Tell, Attempted!Truthful, Truthful
  <2>8. QED
    BY <2>3, <2>4, <2>5, <2>6, <2>7 DEF IInv, Attempted!Next
<1>9. QED
  BY <1>7, <1>8
-----------------------------------------------------------------------------
(* The steps *)

\* What Conclude leaves to be shown of a handler that is at work: the message
\* was not handed to the provider unless its reply is awaited.
LEMMA NotHanded ==
    ASSUME IInv, pc \in Working, pc # "reply"
    PROVE  attempt \notin Handed
BY DEF IInv, TypeOK, Behind, Working, attempt

LEMMA PostStep == IInv /\ Post => IInv' /\ Attempted!Ask
<1> SUFFICES ASSUME IInv, Post PROVE IInv' /\ Attempted!Ask
  OBVIOUS
<1>1. PICK s \in Script : /\ Len(posted) < Len(s) /\ SubSeq(s, 1, Len(posted)) = posted
                          /\ posted' = Append(posted, s[Len(posted) + 1])
  BY DEF Post
<1>2. PICK p : p = s[Len(posted) + 1]
  OBVIOUS
<1>3. /\ pc = "idle" /\ pc' = "gate" /\ next' = 1 /\ answers' = <<>> /\ response' = "none"
      /\ ~silent /\ UNCHANGED <<wire, accepted, refused, silent, told>>
  BY DEF Post, provider, IInv, TypeOK, Waits
<1>4. posted \in Seq(POST) /\ Len(posted) \in Nat /\ DOMAIN posted = 1 .. Len(posted)
  BY LenProperties DEF IInv, TypeOK
<1>5. GoodPost(p)
  BY <1>1, <1>2, <1>4, ScriptOK DEF GoodPost
<1>6. /\ posted' \in Seq(POST) /\ posted' # <<>> /\ Len(posted') = Len(posted) + 1
      /\ \A n \in DOMAIN posted : posted'[n] = posted[n]
      /\ posted'[Len(posted')] = p
  BY <1>1, <1>2, <1>4, <1>5, AppendProperties DEF GoodPost
<1>7. DOMAIN posted' = 1 .. Len(posted) + 1
  BY <1>6, LenProperties
<1>8. Known \subseteq Known' /\ \A a \in Known : a[1] \in DOMAIN posted /\ a[1] < Len(posted')
  <2>1. \A a \in Known : a[1] \in DOMAIN posted /\ a[1] < Len(posted')
    BY <1>4, <1>6 DEF Known
  <2>2. QED
    BY <1>4, <1>6, <2>1 DEF Known
<1>9. TypeOK'
  BY <1>3, <1>6, <1>8 DEF IInv, TypeOK
<1>10. Shape' /\ Stage' /\ Separate' /\ TellsTruth'
  <2>1. Shape'
    BY <1>3, <1>4, <1>5, <1>6, <1>7 DEF IInv, Shape, Working
  <2>2. QED
    BY <1>3, <2>1 DEF IInv, Stage, Separate, TellsTruth, Working
<1>11. Behind' /\ Gathered'
  <2>1. \A a \in Handed : a[1] # Len(posted')
    BY <1>4, <1>6, <1>8 DEF IInv, TypeOK, Handed
  <2>2. QED
    BY <1>3, <1>8, <2>1 DEF IInv, TypeOK, Behind, Gathered, Handed
<1>12. OnlyChecked'
  BY <1>3, <1>6, <1>8 DEF IInv, TypeOK, OnlyChecked
<1>13. Attempted!Ask
  <2>1. \A a \in Attempts' : a \notin Handed
    BY <1>4, <1>6, <1>8 DEF IInv, TypeOK, Attempts, Handed
  <2>2. QED
    BY <1>3, <2>1 DEF Attempted!Ask, Attempted!Handed, Handed
<1>14. QED
  BY <1>9, <1>10, <1>11, <1>12, <1>13 DEF IInv

LEMMA ReceiveStep == IInv /\ Receive => IInv' /\ [Attempted!Next]_(Attempted!vars)
<1> SUFFICES ASSUME IInv, Receive PROVE IInv' /\ [Attempted!Next]_(Attempted!vars)
  OBVIOUS
<1>1. /\ pc = "gate" /\ next = 1 /\ answers = <<>> /\ posted # <<>> /\ ~silent
      /\ UNCHANGED <<posted, next, answers, wire, accepted, refused, silent>>
  BY DEF Receive, IInv, TypeOK, Shape, provider, Waits
<1>2. /\ current' = current /\ Attempts' = Attempts /\ Len(posted) \in DOMAIN posted
      /\ GoodPost(current) /\ current.items \in Seq(Message)
  <2>1. Len(posted) \in DOMAIN posted
    BY <1>1 DEF IInv, TypeOK
  <2>2. GoodPost(current)
    BY <2>1 DEF IInv, Shape, current
  <2>3. QED
    BY <1>1, <2>1, <2>2 DEF current, Attempts, GoodPost, POST
<1>3. CASE PostErrors(current) # {}
  <2>1. PICK code \in PostErrors(current) :
            told' = told \cup {[attempt |-> a, code |-> code] : a \in Attempts}
    BY <1>3 DEF Receive
  <2>2. pc' = "idle" /\ response' = "refused"
    BY <1>3 DEF Receive
  <2>3. code \in Code /\ code \notin {"sent", "host_unreachable"}
    BY <2>1 DEF PostErrors, KeyErrors, RpcErrors, BodyErrors, Code
  <2>4. \A a \in Attempts : a \in Known /\ a \notin Handed
    <3>1. \A a \in Attempts : a \in Known
      BY <1>2, LenProperties DEF IInv, TypeOK, Attempts, Known, current
    <3>2. ASSUME NEW a \in Attempts PROVE a \notin Handed
      <4>1. a[1] = Len(posted) /\ a[2] >= 1
        BY <1>2, LenProperties DEF Attempts
      <4>2. QED
        BY <1>1, <4>1 DEF IInv, TypeOK, Known, Behind, Handed
    <3>3. QED
      BY <3>1, <3>2
  <2>5. TypeOK'
    BY <1>1, <2>1, <2>2, <2>3, <2>4 DEF IInv, TypeOK, Known
  <2>6. Shape' /\ Stage' /\ Behind' /\ Gathered' /\ Separate' /\ OnlyChecked'
    BY <1>1, <2>2 DEF IInv, Shape, Stage, Behind, Gathered, Separate, OnlyChecked, Working
  <2>7. TellsTruth'
    BY <1>1, <2>1, <2>3, <2>4 DEF IInv, TellsTruth, Handed
  <2>8. Attempted!Tell
    BY <1>1, <1>2, <2>1, <2>2, <2>3, <2>4 DEF Attempted!Tell, Attempted!Truthful, Handed
  <2>9. QED
    BY <2>5, <2>6, <2>7, <2>8 DEF IInv, Attempted!Next
<1>4. CASE PostErrors(current) = {}
  <2>1. /\ pc' = IF current.surface = "mcp" THEN "handle" ELSE "credential"
        /\ UNCHANGED <<response, told>>
    BY <1>4 DEF Receive
  <2>2. current.items # <<>>
    <3>1. CASE current.surface = "mcp"
      <4>1. RpcErrors(current) = {}
        BY <1>4, <3>1 DEF PostErrors
      <4>2. current.size \in {"small", "large", "huge"}
        BY <1>2 DEF GoodPost, POST
      <4>3. QED
        BY <4>1, <4>2 DEF RpcErrors, IsSendOnly
    <3>2. CASE current.surface # "mcp"
      <4>1. Len(current.items) = 1
        BY <1>2, <3>2 DEF GoodPost, POST, IsRest
      <4>2. QED
        BY <1>2, <4>1, EmptySeq
    <3>3. QED
      BY <3>1, <3>2
  <2>3. next \in DOMAIN current.items
    BY <1>1, <1>2, <2>2, LenProperties, EmptySeq
  <2>4. TypeOK'
    BY <1>1, <2>1 DEF IInv, TypeOK, Known
  <2>5. Shape' /\ Behind' /\ Gathered' /\ Separate' /\ TellsTruth' /\ OnlyChecked'
    BY <1>1, <1>2, <2>1, <2>3
    DEF IInv, Shape, Behind, Gathered, Separate, TellsTruth, OnlyChecked, Working, Handed
  <2>6. Stage'
    <3>1. current.surface # "mcp" => CallsTool(item)
      BY <1>1, <1>2 DEF GoodPost, POST, IsRest, CallsTool, item
    <3>2. item' = item
      BY <1>1, <1>2 DEF item
    <3>3. QED
      BY <1>2, <1>4, <2>1, <3>1, <3>2 DEF Stage, Working
  <2>7. UNCHANGED Attempted!vars
    BY <1>1, <1>2, <2>1 DEF Attempted!vars
  <2>8. QED
    BY <2>4, <2>5, <2>6, <2>7 DEF IInv
<1>5. QED
  BY <1>3, <1>4
\* Handle, Credential, Read and SubmitFails end a message that was not handed to
\* the provider, with a code that says so, or go on with it.
LEMMA NoHandOver ==
    ASSUME IInv, pc \in Working, pc # "reply", ~silent, NEW code \in Code \ {"sent"},
           Conclude(code), UNCHANGED provider
    PROVE  IInv' /\ [Attempted!Next]_(Attempted!vars)
<1>1. Truthful(attempt, code)
  BY NotHanded DEF Truthful, Handed
<1>2. QED
  BY <1>1, ConcludeStep

\* The handler goes on with a message without a word.
LEMMA GoOn ==
    ASSUME IInv, pc \in Working, pc # "reply", ~silent,
           UNCHANGED <<posted, next, answers, response, provider, silent, told>>,
           pc' \in {"credential", "read", "submit"},
           CallsTool(item),
           pc' = "submit" =>
              /\ current.headers = "good" /\ item.name = "email_send"
              /\ ArgumentErrors(current, item) = {} /\ ContentErrors(item) = {}
    PROVE  IInv' /\ UNCHANGED Attempted!vars
<1>1. /\ UNCHANGED <<posted, wire, accepted, refused, silent>>
      /\ current' = current /\ item' = item /\ Attempts' = Attempts
      /\ pc # "idle" /\ pc' # "idle" /\ pc' \in Working /\ pc' # "reply" /\ pc' # "gate"
  BY DEF provider, current, item, Attempts, Working
<1>2. TypeOK'
  BY <1>1 DEF IInv, TypeOK, Known
<1>3. Shape' /\ Stage'
  BY <1>1 DEF IInv, Shape, Stage, Working
<1>4. Separate' /\ TellsTruth' /\ OnlyChecked' /\ Behind' /\ Gathered'
  BY <1>1 DEF IInv, Separate, TellsTruth, OnlyChecked, Behind, Gathered, Handed, Truthful
<1>5. UNCHANGED Attempted!vars
  BY <1>1 DEF Attempted!vars
<1>6. QED
  BY <1>2, <1>3, <1>4, <1>5 DEF IInv

LEMMA HandleStep == IInv /\ Handle => IInv' /\ [Attempted!Next]_(Attempted!vars)
<1> SUFFICES ASSUME IInv, Handle PROVE IInv' /\ [Attempted!Next]_(Attempted!vars)
  OBVIOUS
<1>1. pc = "handle" /\ pc \in Working /\ ~silent /\ UNCHANGED provider
  BY DEF Handle, Working, IInv, TypeOK, Waits
<1>2. CASE CallsTool(item)
  <2>1. pc' = "credential" /\ UNCHANGED <<posted, next, answers, response, silent, told>>
    BY <1>2 DEF Handle
  <2>2. QED
    BY <1>1, <1>2, <2>1, GoOn
<1>3. CASE ~CallsTool(item)
  <2>1. PICK code : code = LocalCode(item)
    OBVIOUS
  <2>2. code \in Code \ {"sent"} /\ Conclude(code)
    BY <1>3, <2>1 DEF LocalCode, Code, Handle
  <2>3. QED
    BY <1>1, <2>2, NoHandOver
<1>4. QED
  BY <1>2, <1>3

LEMMA CredentialStep == IInv /\ Credential => IInv' /\ [Attempted!Next]_(Attempted!vars)
<1> SUFFICES ASSUME IInv, Credential PROVE IInv' /\ [Attempted!Next]_(Attempted!vars)
  OBVIOUS
<1>1. pc = "credential" /\ pc \in Working /\ ~silent /\ UNCHANGED provider /\ CallsTool(item)
  BY DEF Credential, Working, IInv, Stage, TypeOK, Waits
<1>2. CASE \E code \in CredentialErrors(current) \cup ArgumentErrors(current, item)
                       \cup ContentErrors(item) : Conclude(code)
  <2>1. PICK code \in CredentialErrors(current) \cup ArgumentErrors(current, item)
                       \cup ContentErrors(item) : Conclude(code)
    BY <1>2
  <2>2. code \in Code \ {"sent"}
    BY <2>1 DEF CredentialErrors, ArgumentErrors, BodyErrors, ContentErrors, Code
  <2>3. QED
    BY <1>1, <2>1, <2>2, NoHandOver
<1>3. CASE /\ current.headers = "good"
           /\ ArgumentErrors(current, item) = {} /\ ContentErrors(item) = {}
           /\ pc' = IF item.name = "email_send" THEN "submit" ELSE "read"
           /\ UNCHANGED <<posted, next, answers, response, silent, told>>
  BY <1>1, <1>3, GoOn
<1>4. QED
  BY <1>2, <1>3 DEF Credential

LEMMA ReadStep == IInv /\ Read => IInv' /\ [Attempted!Next]_(Attempted!vars)
<1> SUFFICES ASSUME IInv, Read PROVE IInv' /\ [Attempted!Next]_(Attempted!vars)
  OBVIOUS
<1>1. PICK code \in ReadCodes : Conclude(code)
  BY DEF Read
<1>2. code \in Code \ {"sent"}
  BY DEF ReadCodes, Code
<1>3. pc \in Working /\ pc # "reply" /\ ~silent /\ UNCHANGED provider
  BY DEF Read, Working
<1>4. QED
  BY <1>1, <1>2, <1>3, NoHandOver

LEMMA SubmitFailsStep == IInv /\ SubmitFails => IInv' /\ [Attempted!Next]_(Attempted!vars)
<1> SUFFICES ASSUME IInv, SubmitFails PROVE IInv' /\ [Attempted!Next]_(Attempted!vars)
  OBVIOUS
<1>1. PICK error \in {"tls", "auth_reply", "reply", "io"} : Conclude(MapSmtpError(error))
  BY DEF SubmitFails
<1>2. PICK code : code = MapSmtpError(error)
  OBVIOUS
<1>3. code \in Code \ {"sent"} /\ Conclude(code)
  BY <1>1, <1>2 DEF MapSmtpError, Code
<1>4. pc \in Working /\ pc # "reply" /\ ~silent /\ UNCHANGED provider
  BY DEF SubmitFails, Working
<1>5. QED
  BY <1>3, <1>4, NoHandOver

\* What the handler has checked when it hands a message over is all there is to
\* check.
LEMMA StageChecks ==
    ASSUME IInv, pc = "submit"
    PROVE  Checked(current, item)
<1>1. /\ PostErrors(current) = {} /\ CallsTool(item) /\ current.headers = "good"
      /\ item.name = "email_send" /\ ArgumentErrors(current, item) = {}
      /\ ContentErrors(item) = {} /\ next \in DOMAIN current.items
  BY DEF IInv, Stage, Shape, Working
<1>2. Len(posted) \in DOMAIN posted
  BY LenProperties DEF IInv, TypeOK
<1>3. GoodPost(current) /\ current.items \in Seq(Message) /\ DOMAIN current.items = 1 .. Len(current.items)
  BY <1>2, LenProperties DEF IInv, Shape, current, GoodPost, POST
<1>4. item \in Message
  BY <1>1, <1>3, ElementOfSeq DEF item
<1>5. current.key \in {"right", "wrong"} /\ current.size \in {"small", "large", "huge"}
      /\ current.surface \in {"rest", "mcp"}
  BY <1>3 DEF GoodPost, POST
<1>6. item.arguments \in {"good", "bad"} /\ item.content \in {"fine", "invalid"}
  BY <1>4 DEF Message
<1>7. item.content = "fine" /\ (RequireKey => current.key = "right")
  BY <1>1, <1>5, <1>6 DEF ContentErrors, PostErrors, KeyErrors
<1>8. CASE current.surface = "mcp"
  <2>1. item.arguments = "good"
    BY <1>1, <1>6, <1>8 DEF ArgumentErrors
  <2>2. RpcErrors(current) = {}
    BY <1>1, <1>8 DEF PostErrors
  <2>3. current.size # "huge" /\ (current.size = "large" => IsSendOnly(current))
    BY <2>2 DEF RpcErrors
  <2>4. QED
    BY <1>1, <1>7, <2>1, <2>3 DEF Checked, IsSendOnly
<1>9. CASE current.surface = "rest"
  <2>1. Len(current.items) = 1 /\ next = 1 /\ DOMAIN current.items = {1}
    <3>1. Len(current.items) = 1
      BY <1>3, <1>9 DEF GoodPost, IsRest
    <3>2. DOMAIN current.items = {1}
      BY <1>3, <3>1
    <3>3. QED
      BY <1>1, <3>1, <3>2
  <2>2. item = current.items[1]
    BY <2>1 DEF item
  <2>3. BodyErrors(current) = {}
    BY <1>1, <1>9 DEF ArgumentErrors
  <2>4. current.size # "huge" /\ item.arguments = "good"
    BY <1>6, <2>2, <2>3 DEF BodyErrors
  <2>5. \A i \in DOMAIN current.items : IsSendCall(current.items[i])
    BY <1>1, <2>1, <2>2 DEF IsSendCall, CallsTool
  <2>6. QED
    BY <1>1, <1>7, <2>4, <2>5 DEF Checked
<1>10. QED
  BY <1>5, <1>8, <1>9

LEMMA TransferStep == IInv /\ Transfer => IInv' /\ Attempted!Hand
<1> SUFFICES ASSUME IInv, Transfer PROVE IInv' /\ Attempted!Hand
  OBVIOUS
<1>1. /\ pc = "submit" /\ pc' = "reply" /\ wire' = wire \cup {attempt} /\ ~silent
      /\ UNCHANGED <<posted, next, answers, response, accepted, refused, silent, told>>
  BY DEF Transfer
<1>2. /\ current' = current /\ item' = item /\ attempt' = attempt /\ Attempts' = Attempts
      /\ Len(posted) \in 1 .. Len(posted) /\ next \in DOMAIN current.items /\ next \in Nat
  BY <1>1, LenProperties DEF IInv, TypeOK, Shape, Working, current, item, attempt, Attempts
<1>3. attempt \notin Handed
  BY <1>1, NotHanded DEF Working
<1>4. attempt \in Known /\ attempt \in Attempts
  BY <1>2 DEF Known, Attempts, attempt, current
<1>5. TypeOK'
  BY <1>1, <1>4 DEF IInv, TypeOK, Known
<1>6. Shape' /\ Stage'
  BY <1>1, <1>2 DEF IInv, Shape, Stage, Working
<1>7. Separate'
  BY <1>1, <1>3 DEF IInv, Separate, Handed
<1>8. Behind' /\ Gathered' /\ TellsTruth'
  <2>1. attempt[1] = Len(posted) /\ attempt[2] = next
    BY DEF attempt
  <2>2. Behind'
    BY <1>1, <2>1 DEF IInv, Behind, Handed
  <2>3. Gathered'
    <3>1. ASSUME NEW k \in DOMAIN answers, answers[k].id # 0
          PROVE  answers[k].id < next /\ <<Len(posted), answers[k].id>> # attempt
                 /\ Truthful(<<Len(posted), answers[k].id>>, answers[k].code)
      BY <1>1, <1>2, <3>1 DEF IInv, Gathered, attempt
    <3>2. QED
      BY <1>1, <3>1 DEF Gathered, Truthful
  <2>4. TellsTruth'
    <3>1. \A answer \in told : answer.attempt # attempt
      BY <1>1, <1>2, <2>1 DEF IInv, TypeOK, Behind
    <3>2. QED
      BY <1>1, <3>1 DEF IInv, TellsTruth
  <2>5. QED
    BY <2>2, <2>3, <2>4
<1>9. OnlyChecked'
  <2>1. posted[attempt[1]] = current /\ current.items[attempt[2]] = item
    BY DEF attempt, current, item
  <2>2. QED
    BY <1>1, <2>1, StageChecks DEF IInv, OnlyChecked, Checked
<1>10. Attempted!Hand
  <2>1. \A b \in Attempts \cap Handed : b[2] < attempt[2]
    BY <1>1 DEF IInv, Behind, Attempts, attempt
  <2>2. QED
    BY <1>1, <1>2, <1>3, <1>4, <2>1 DEF Attempted!Hand, Attempted!Handed, Handed
<1>11. QED
  BY <1>5, <1>6, <1>7, <1>8, <1>9, <1>10 DEF IInv

LEMMA ReplyStep == IInv /\ Reply => IInv' /\ [Attempted!Next]_(Attempted!vars)
<1> SUFFICES ASSUME IInv, Reply PROVE IInv' /\ [Attempted!Next]_(Attempted!vars)
  OBVIOUS
<1>1. pc \in Working /\ ~silent /\ UNCHANGED provider
  BY DEF Reply, Working
<1>2. CASE attempt \in accepted /\ Conclude("sent")
  <2>1. "sent" \in Code /\ Truthful(attempt, "sent")
    BY <1>2 DEF Code, Truthful
  <2>2. QED
    BY <1>1, <1>2, <2>1, ConcludeStep
<1>3. CASE attempt \in refused /\ \E error \in {"auth_reply", "reply"} : Conclude(MapSmtpError(error))
  <2>1. PICK error \in {"auth_reply", "reply"} : Conclude(MapSmtpError(error))
    BY <1>3
  <2>2. PICK code : code = MapSmtpError(error)
    OBVIOUS
  <2>3. code \in Code /\ code # "sent" /\ Conclude(code)
    BY <2>1, <2>2 DEF MapSmtpError, Code
  <2>4. Truthful(attempt, code)
    BY <1>3, <2>3 DEF IInv, Separate, Truthful
  <2>5. QED
    BY <1>1, <2>3, <2>4, ConcludeStep
<1>4. QED
  BY <1>2, <1>3 DEF Reply

LEMMA ReplyLostStep == IInv /\ ReplyLost => IInv' /\ [Attempted!Next]_(Attempted!vars)
<1> SUFFICES ASSUME IInv, ReplyLost PROVE IInv' /\ [Attempted!Next]_(Attempted!vars)
  OBVIOUS
<1>1. MapSmtpError("io") = "host_unreachable"
  BY DEF MapSmtpError
<1>2. pc \in Working /\ ~silent /\ UNCHANGED provider /\ Conclude("host_unreachable")
  BY <1>1 DEF ReplyLost, Working
<1>3. "host_unreachable" \in Code /\ Truthful(attempt, "host_unreachable")
  BY DEF Code, Truthful
<1>4. QED
  BY <1>2, <1>3, ConcludeStep

LEMMA DecideStep == IInv /\ Decide => IInv' /\ Attempted!Decide
<1> SUFFICES ASSUME IInv, Decide PROVE IInv' /\ Attempted!Decide
  OBVIOUS
<1>1. PICK a \in wire :
          /\ wire' = wire \ {a}
          /\ \/ accepted' = accepted \cup {a} /\ UNCHANGED refused
             \/ refused' = refused \cup {a} /\ UNCHANGED accepted
  BY DEF Decide
<1>2. UNCHANGED <<posted, pc, next, answers, response, silent, told>>
  BY DEF Decide
<1>3. /\ Handed' = Handed /\ accepted \subseteq accepted'
      /\ (wire \cup accepted)' \subseteq wire \cup accepted
      /\ current' = current /\ item' = item /\ Attempts' = Attempts
  BY <1>1, <1>2 DEF Handed, current, item, Attempts
<1>4. TypeOK'
  BY <1>1, <1>2, <1>3 DEF IInv, TypeOK, Known, Handed
<1>5. Shape' /\ Stage'
  BY <1>2, <1>3 DEF IInv, Shape, Stage
<1>6. Separate'
  BY <1>1 DEF IInv, Separate
<1>7. Behind'
  BY <1>2, <1>3 DEF IInv, Behind
<1>8. Gathered' /\ TellsTruth'
  BY <1>2, <1>3 DEF IInv, Gathered, TellsTruth, Truthful
<1>9. OnlyChecked'
  BY <1>2, <1>3 DEF IInv, OnlyChecked, Handed
<1>10. Attempted!Decide
  BY <1>1, <1>2, <1>3 DEF Attempted!Decide
<1>11. QED
  BY <1>4, <1>5, <1>6, <1>7, <1>8, <1>9, <1>10 DEF IInv

LEMMA HangUpStep == IInv /\ HangUp => IInv' /\ Attempted!Abandon
<1> SUFFICES ASSUME IInv, HangUp PROVE IInv' /\ Attempted!Abandon
  OBVIOUS
<1>1. /\ pc' = "idle" /\ response' = "dropped" /\ silent' = FALSE
      /\ UNCHANGED <<posted, next, answers, wire, accepted, refused, told>>
  BY DEF HangUp, provider
<1>2. IInv'
  BY <1>1 DEF IInv, TypeOK, Known, Shape, Stage, Separate, Behind, Gathered, TellsTruth,
              OnlyChecked, Working
<1>3. Attempted!Abandon
  BY <1>1 DEF Attempted!Abandon
<1>4. QED
  BY <1>2, <1>3

LEMMA FallSilentStep == IInv /\ FallSilent => IInv' /\ UNCHANGED Attempted!vars
<1> SUFFICES ASSUME IInv, FallSilent PROVE IInv' /\ UNCHANGED Attempted!vars
  OBVIOUS
<1>1. /\ pc \in Waits /\ silent' = TRUE
      /\ UNCHANGED <<posted, pc, next, answers, response, wire, accepted, refused, told>>
  BY DEF FallSilent, provider
<1>2. current' = current /\ item' = item /\ Attempts' = Attempts
  BY <1>1 DEF current, item, Attempts
<1>3. TypeOK'
  BY <1>1 DEF IInv, TypeOK, Known
<1>4. Shape' /\ Stage' /\ Separate' /\ TellsTruth' /\ OnlyChecked'
  BY <1>1, <1>2 DEF IInv, Shape, Stage, Separate, TellsTruth, OnlyChecked
<1>5. Behind' /\ Gathered'
  BY <1>1 DEF IInv, Behind, Gathered, Handed, Truthful
<1>6. UNCHANGED Attempted!vars
  BY <1>1, <1>2 DEF Attempted!vars
<1>7. QED
  BY <1>3, <1>4, <1>5, <1>6 DEF IInv

LEMMA NextIInv == IInv /\ [Next]_vars => IInv' /\ [Attempted!Next]_(Attempted!vars)
<1> SUFFICES ASSUME IInv, [Next]_vars PROVE IInv' /\ [Attempted!Next]_(Attempted!vars)
  OBVIOUS
<1>1. CASE UNCHANGED vars
  <2>1. UNCHANGED <<posted, pc, next, answers, response, wire, accepted, refused, silent, told>>
    BY <1>1 DEF vars, provider
  <2>2. IInv'
    BY <2>1 DEF IInv, TypeOK, Known, Shape, Stage, Separate, Behind, Gathered, TellsTruth,
                OnlyChecked, Handed, Truthful, current, item
  <2>3. UNCHANGED Attempted!vars
    BY <2>1 DEF Attempted!vars, Attempts, current
  <2>4. QED
    BY <2>2, <2>3
<1>2. CASE Next
  BY <1>2, PostStep, ReceiveStep, HandleStep, CredentialStep, ReadStep, SubmitFailsStep,
     TransferStep, ReplyStep, ReplyLostStep, DecideStep, FallSilentStep, HangUpStep DEF Next, Attempted!Next
<1>3. QED
  BY <1>1, <1>2

-----------------------------------------------------------------------------
(* Every message gets its answer *)

\* The responses s are to the items up to the given one, in their order.
Matched(s, items, upto) ==
    LET given == {k \in DOMAIN s : s[k].id # 0}
    IN  /\ \A j, k \in given : j < k => s[j].id < s[k].id
        /\ {s[k].id : k \in given} = {i \in Owed(items) : i <= upto}

\* A handler has the responses to the messages that are over; when all are
\* over, it has all.
MInv ==
    /\ pc \in Working => Matched(answers, current.items, next - 1)
    /\ response \in {"accepted", "answers"} =>
          posted # <<>> /\ Matched(answers, current.items, Len(current.items))
    /\ pc # "idle" => response = "none"

\* A message is answered with its own id exactly when it is owed an answer.
LEMMA ResponseOwed ==
    ASSUME NEW m \in Message, NEW i, NEW code
    PROVE  \/ /\ m.id = "given" /\ ~IsNotification(m)
              /\ ResponseTo(m, i, code) = <<[id |-> i, code |-> code]>>
           \/ /\ ~(m.id = "given" /\ ~IsNotification(m))
              /\ \/ ResponseTo(m, i, code) = <<[id |-> 0, code |-> code]>>
                 \/ ResponseTo(m, i, code) = <<>>
BY DEF Message, IsNotification, ResponseTo, Answerable

\* One message more is over, which was owed no answer ...
LEMMA MatchedPast ==
    ASSUME NEW s, NEW items \in Seq(Message), NEW n \in 1 .. Len(items),
           Matched(s, items, n - 1), n \notin Owed(items)
    PROVE  Matched(s, items, n)
<1>1. Owed(items) \subseteq Nat
  BY LenProperties DEF Owed
<1>2. {i \in Owed(items) : i <= n} = {i \in Owed(items) : i <= n - 1}
  BY <1>1
<1>3. QED
  BY <1>2 DEF Matched

\* ... and a response more, with an id of null or that of the message.
LEMMA MatchedMore ==
    ASSUME NEW s \in Seq(Response), NEW items \in Seq(Message), NEW n \in 1 .. Len(items),
           Matched(s, items, n - 1), NEW r \in Response,
           \/ r.id = n /\ n \in Owed(items)
           \/ r.id = 0 /\ n \notin Owed(items)
    PROVE  Matched(s \o <<r>>, items, n)
<1> DEFINE t == s \o <<r>>
<1>1. /\ DOMAIN s = 1 .. Len(s) /\ Len(s) \in Nat /\ DOMAIN t = 1 .. Len(s) + 1
      /\ \A k \in DOMAIN s : t[k] = s[k]
      /\ t[Len(s) + 1] = r
  OBVIOUS
<1> HIDE DEF t
<1>2. Owed(items) \subseteq Nat \ {0} /\ n \in Nat \ {0}
  BY LenProperties DEF Owed
<1>3. \A k \in DOMAIN s : s[k].id \in Nat
  BY ResponseElement
<1>4. CASE r.id = 0 /\ n \notin Owed(items)
  <2>1. Matched(s, items, n)
    BY <1>4, MatchedPast
  <2>2. {k \in DOMAIN t : t[k].id # 0} = {k \in DOMAIN s : s[k].id # 0}
    BY <1>1, <1>4
  <2>3. Matched(t, items, n)
    BY <1>1, <2>1, <2>2 DEF Matched
  <2>4. QED
    BY <2>3 DEF t
<1>5. CASE r.id = n /\ n \in Owed(items)
  <2> DEFINE old == {k \in DOMAIN s : s[k].id # 0}
             all == {k \in DOMAIN t : t[k].id # 0}
  <2>1. all = old \cup {Len(s) + 1} /\ Len(s) + 1 \notin old
    BY <1>1, <1>2, <1>5
  <2>2. {s[k].id : k \in old} = {i \in Owed(items) : i <= n - 1}
        /\ \A j, k \in old : j < k => s[j].id < s[k].id
    BY DEF Matched
  <2>3. \A k \in old : s[k].id < n /\ k < Len(s) + 1
    <3> SUFFICES ASSUME NEW k \in old PROVE s[k].id < n /\ k < Len(s) + 1
      OBVIOUS
    <3>1. s[k].id \in Nat /\ s[k].id <= n - 1
      BY <1>3, <2>2
    <3>2. QED
      BY <1>1, <1>2, <3>1
  <2>4. \A j, k \in all : j < k => t[j].id < t[k].id
    BY <1>1, <1>5, <2>1, <2>2, <2>3
  <2>5. {t[k].id : k \in all} = {s[k].id : k \in old} \cup {n}
    BY <1>1, <1>5, <2>1
  <2>6. {i \in Owed(items) : i <= n} = {i \in Owed(items) : i <= n - 1} \cup {n}
    BY <1>2, <1>5
  <2>7. Matched(t, items, n)
    BY <2>2, <2>4, <2>5, <2>6 DEF Matched
  <2>8. QED
    BY <2>7 DEF t
<1>6. QED
  BY <1>4, <1>5

LEMMA ConcludeMatched ==
    ASSUME IInv, MInv, pc \in Working, NEW code \in Code, Conclude(code)
    PROVE  MInv'
<1>1. /\ current.items \in Seq(Message) /\ next \in 1 .. Len(current.items)
      /\ posted' = posted /\ posted # <<>> /\ current' = current /\ item \in Message
      /\ next \in DOMAIN current.items
  <2>1. posted # <<>> /\ posted \in Seq(POST) /\ posted' = posted
    BY DEF IInv, TypeOK, Working, Conclude
  <2>2. current \in POST
    BY <2>1 DEF current
  <2>3. current.items \in Seq(Message)
    BY <2>2 DEF POST
  <2>4. next \in DOMAIN current.items /\ next \in 1 .. Len(current.items)
    BY <2>3 DEF IInv, Shape
  <2>5. QED
    BY <2>1, <2>3, <2>4, ElementOfSeq DEF current, item
<1>2. PICK gathered : gathered = answers \o ResponseTo(item, next, code)
  OBVIOUS
<1>3. answers \in Seq(Response) /\ Matched(answers, current.items, next - 1)
  BY DEF IInv, TypeOK, Response, MInv
<1>4. next \in Owed(current.items) <=> item.id = "given" /\ ~IsNotification(item)
  BY <1>1 DEF Owed, item
<1>5. Matched(gathered, current.items, next)
  <2>1. CASE ResponseTo(item, next, code) = <<>> /\ next \notin Owed(current.items)
    <3>1. gathered = answers
      BY <1>2, <1>3, <2>1
    <3>2. QED
      BY <1>1, <1>3, <2>1, <3>1, MatchedPast
  <2>2. CASE ResponseTo(item, next, code) # <<>> \/ next \in Owed(current.items)
    <3>1. PICK r : /\ ResponseTo(item, next, code) = <<r>>
                   /\ \/ /\ r = [id |-> next, code |-> code] /\ next \in Owed(current.items)
                      \/ /\ r = [id |-> 0, code |-> code] /\ next \notin Owed(current.items)
      BY <1>1, <1>4, <2>2, ResponseOwed
    <3>2. /\ r \in Response
          /\ \/ r.id = next /\ next \in Owed(current.items)
             \/ r.id = 0 /\ next \notin Owed(current.items)
      BY <1>1, <3>1 DEF Response
    <3>3. QED
      BY <1>1, <1>2, <1>3, <3>1, <3>2, MatchedMore
  <2>3. QED
    BY <2>1, <2>2
<1>6. answers' = gathered
  BY <1>2 DEF Conclude
<1>7. CASE next < Len(current.items)
  <2>1. pc' = "handle" /\ next' = next + 1 /\ response' = response /\ response = "none"
    BY <1>7 DEF Conclude, MInv, Working
  <2>2. next' - 1 = next
    BY <1>1, <2>1
  <2>3. QED
    BY <1>1, <1>5, <1>6, <2>1, <2>2 DEF MInv
<1>8. CASE ~(next < Len(current.items))
  <2>1. pc' = "idle" /\ next = Len(current.items)
    BY <1>1, <1>8 DEF Conclude
  <2>2. QED
    BY <1>1, <1>5, <1>6, <2>1 DEF MInv, Working
<1>9. QED
  BY <1>7, <1>8

\* The handler goes on with the same message.
LEMMA StayMatched ==
    ASSUME MInv, pc \in Working, pc' # "idle", UNCHANGED <<posted, next, answers, response>>
    PROVE  MInv'
BY DEF MInv, current, Working

LEMMA ReceiveMatched == ASSUME IInv, MInv, Receive PROVE MInv'
<1>1. /\ next = 1 /\ answers = <<>> /\ response = "none"
      /\ UNCHANGED <<posted, next, answers>>
  BY DEF Receive, IInv, Shape, MInv
<1>2. CASE pc' = "idle" /\ response' = "refused"
  BY <1>2 DEF MInv, Working
<1>3. CASE pc' \in {"handle", "credential"} /\ response' = response
  <2>1. current.items \in Seq(Message)
    <3>1. posted # <<>> /\ posted \in Seq(POST)
      BY DEF Receive, IInv, TypeOK
    <3>2. current \in POST
      BY <3>1 DEF current
    <3>3. QED
      BY <3>2 DEF POST
  <2>2. {i \in Owed(current.items) : i <= 0} = {}
    BY <2>1, LenProperties DEF Owed
  <2>3. Matched(answers, current.items, next - 1)
    BY <1>1, <2>2 DEF Matched
  <2>4. QED
    BY <1>1, <1>3, <2>3 DEF MInv, current
<1>4. QED
  BY <1>2, <1>3 DEF Receive

LEMMA NextMInv == IInv /\ MInv /\ [Next]_vars => MInv'
<1> SUFFICES ASSUME IInv, MInv, [Next]_vars PROVE MInv'
  OBVIOUS
<1>1. CASE UNCHANGED vars \/ Decide \/ FallSilent
  <2>1. UNCHANGED <<posted, pc, next, answers, response>>
    BY <1>1 DEF vars, Decide, FallSilent
  <2>2. QED
    BY <2>1 DEF MInv, current
<1>2. CASE Post
  BY <1>2 DEF Post, MInv, Working
<1>3. CASE Receive
  BY <1>3, ReceiveMatched
<1>4. CASE HangUp
  BY <1>4 DEF HangUp, MInv, Working
<1>5. CASE \E code \in Code : Conclude(code) /\ pc \in Working
  BY <1>5, ConcludeMatched
<1>6. CASE pc \in Working /\ pc' # "idle" /\ UNCHANGED <<posted, next, answers, response>>
  BY <1>6, StayMatched
<1>7. ASSUME Handle PROVE MInv'
  <2>1. LocalCode(item) \in Code
    BY DEF LocalCode, Code
  <2>2. QED
    BY <1>5, <1>6, <1>7, <2>1 DEF Handle, Working
<1>8. ASSUME Credential PROVE MInv'
  <2>1. CredentialErrors(current) \cup ArgumentErrors(current, item) \cup ContentErrors(item)
            \subseteq Code
    BY DEF CredentialErrors, ArgumentErrors, BodyErrors, ContentErrors, Code
  <2>2. QED
    BY <1>5, <1>6, <1>8, <2>1 DEF Credential, Working
<1>9. ASSUME Read \/ SubmitFails \/ Reply \/ ReplyLost PROVE MInv'
  <2>1. ReadCodes \subseteq Code /\ "sent" \in Code
        /\ \A error \in {"tls", "auth_reply", "reply", "io"} : MapSmtpError(error) \in Code
    BY DEF ReadCodes, MapSmtpError, Code
  <2>2. QED
    BY <1>5, <1>9, <2>1 DEF Read, SubmitFails, Reply, ReplyLost, Working
<1>10. CASE Transfer
  BY <1>6, <1>10 DEF Transfer, Working
<1>11. QED
  BY <1>1, <1>2, <1>3, <1>4, <1>7, <1>8, <1>9, <1>10 DEF Next

-----------------------------------------------------------------------------
(* The theorems *)

THEOREM GatewayInvariant == Spec => []IInv
<1>1. QED
  BY InitIInv, NextIInv, PTL DEF Spec

\* The variables keep their types: every code is one of the codes that the
\* gateway documents, and every answer is about a message the caller posted.
THEOREM GatewayTypes == Spec => []TypeOK
<1>1. IInv => TypeOK
  BY DEF IInv
<1>2. QED
  BY <1>1, GatewayInvariant, PTL

\* submit and map_smtp_error: what the caller was told stays true, whatever the
\* provider decides afterwards.
THEOREM AnswersStayTrue == Spec => []TellsTruth
<1>1. IInv => TellsTruth
  BY DEF IInv
<1>2. QED
  BY <1>1, GatewayInvariant, PTL

\* require_gateway_access, mcp_endpoint, tools_call and do_send: no message
\* reaches a provider before all checks have passed, on either front end.
THEOREM NothingUnchecked == Spec => []OnlyChecked
<1>1. IInv => OnlyChecked
  BY DEF IInv
<1>2. QED
  BY <1>1, GatewayInvariant, PTL

\* The gateway implements Delivery: each message is handed over at most once, in
\* order, while the caller waits, and every answer is truthful.
THEOREM GatewayDelivers == Spec => ImplementsDelivery
<1>1. Init => Attempted!Init
  BY InitIInv
<1>2. IInv /\ [Next]_vars => [Attempted!Next]_(Attempted!vars)
  BY NextIInv
<1>3. QED
  BY <1>1, <1>2, GatewayInvariant, PTL DEF Spec, ImplementsDelivery, Attempted!Spec

\* handle_one and the loop over a batch: a POST that is worked off has a
\* response to each message that is owed one, in order, and no other.
THEOREM EveryMessageAnswered == Spec => []AnswersMatch
<1>1. Init => MInv
  BY DEF Init, MInv, Working
<1>2. IInv /\ MInv => AnswersMatch
  <2> SUFFICES ASSUME IInv, MInv, response \in {"accepted", "answers"} PROVE AnswersMatch
    BY DEF AnswersMatch
  <2>1. Matched(answers, current.items, Len(current.items))
    BY DEF MInv
  <2>2. current.items \in Seq(Message)
    <3>1. posted # <<>> /\ posted \in Seq(POST)
      BY DEF IInv, TypeOK, MInv
    <3>2. current \in POST
      BY <3>1 DEF current
    <3>3. QED
      BY <3>2 DEF POST
  <2>3. {i \in Owed(current.items) : i <= Len(current.items)} = Owed(current.items)
    BY <2>2, LenProperties DEF Owed
  <2>4. QED
    BY <2>1, <2>3 DEF Matched, AnswersMatch
<1>3. QED
  BY <1>1, <1>2, NextMInv, GatewayInvariant, PTL DEF Spec
=============================================================================

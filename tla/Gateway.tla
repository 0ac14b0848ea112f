------------------------------ MODULE Gateway -------------------------------
(***************************************************************************)
(* One caller and the two front ends of the gateway: the REST actions of   *)
(* src/routes.rs and the JSON-RPC endpoint of src/mcp.rs, from the gateway *)
(* key to the SMTP provider's verdict on a message.                        *)
(*                                                                         *)
(* The caller sends one POST after the other, as a script says.  A POST    *)
(* has a sequence of messages: a batch, or the one call of an action.  It  *)
(* is worked off message by message and answered at the end; the caller    *)
(* may hang up before that, and then its handler is dropped at an await.   *)
(* The provider decides about a message in its own time, after the gateway *)
(* has given up on it too.  A peer may fall silent in the middle of a      *)
(* conversation: nothing bounds the wait for it then, but the caller's     *)
(* patience.                                                               *)
(*                                                                         *)
(* A definition introduced by "Slip" is no part of the model: it is a      *)
(* plausible fault of the definition after it, which a run must detect.    *)
(***************************************************************************)
EXTENDS Naturals, Sequences

CONSTANTS
    RequireKey,     \* Config::require_api_key
    Script          \* what the caller may do: sequences of POSTs

VARIABLES
    posted,     \* the POSTs so far, the last of which is worked on
    pc,         \* the await its handler is at
    next,       \* the message of the POST that is handled
    answers,    \* the responses mcp_endpoint has gathered
    response,   \* what the caller got for the POST
    wire,       \* the messages the provider has and has not decided about
    accepted,   \* those it has accepted
    refused,    \* those it has refused
    silent,     \* the peer that the handler waits for says no more
    told        \* history: the codes the caller was told, each with its attempt

provider == <<wire, accepted, refused>>
vars     == <<posted, pc, next, answers, response, provider, silent, told>>

Tool == {"email_search", "email_get", "email_send"}

\* A JSON-RPC message: RpcRequest and ToolCallParams.  An `id` that is given is
\* the position of the message.  `form` is "malformed" when it is no RpcRequest;
\* `name` is "none" when the params are missing or are no ToolCallParams;
\* `arguments` says whether they are the tool's, `content` whether they pass
\* the checks that the action itself has.
Message == [id : {"absent", "null", "given"}, form : {"ok", "version", "malformed"},
            method : {"tools/call", "local", "notification", "other"},
            name : Tool \cup {"none", "unknown"},
            arguments : {"good", "bad"}, content : {"fine", "invalid"}]

\* `size` is "large" above DEFAULT_BODY_LIMIT and "huge" above send_body_limit;
\* `json` is what the body of POST /mcp is.
POST == [surface : {"rest", "mcp"}, key : {"right", "wrong"}, headers : {"good", "missing"},
         size : {"small", "large", "huge"}, json : {"none", "scalar", "single", "batch"},
         items : Seq(Message)]

\* A REST request is the call of one tool, that its path names.
IsRest(p) ==
    /\ p.json = "single" /\ Len(p.items) = 1
    /\ LET call == p.items[1]
       IN  call.id = "given" /\ call.form = "ok" /\ call.method = "tools/call" /\ call.name \in Tool

ASSUME ScriptOK ==
    /\ RequireKey \in BOOLEAN
    /\ \A s \in Script : \A n \in DOMAIN s :
          /\ s[n] \in POST
          /\ s[n].surface = "rest" => IsRest(s[n])
          /\ s[n].json \in {"none", "scalar"} => s[n].items = <<>>
          /\ s[n].json = "single" => Len(s[n].items) = 1

current  == posted[Len(posted)]
item     == current.items[next]
attempt  == <<Len(posted), next>>
Attempts == {<<Len(posted), i>> : i \in DOMAIN current.items}

Init ==
    /\ posted = <<>> /\ pc = "idle" /\ next = 0 /\ answers = <<>> /\ response = "none"
    /\ wire = {} /\ accepted = {} /\ refused = {} /\ told = {}
    /\ silent = FALSE

Post ==
    /\ pc = "idle"
    /\ \E s \in Script :
          /\ Len(posted) < Len(s)
          /\ SubSeq(s, 1, Len(posted)) = posted
          /\ posted' = Append(posted, s[Len(posted) + 1])
    /\ pc' = "gate" /\ next' = 1 /\ answers' = <<>> /\ response' = "none"
    /\ UNCHANGED <<provider, silent, told>>

-----------------------------------------------------------------------------
(* The checks of a POST *)

\* require_gateway_access
KeyErrors(p) == IF RequireKey /\ p.key = "wrong" THEN {"unauthorized"} ELSE {}

\* json_rejection: what is wrong with the JSON body of an action.  The body
\* limit is keyed on the route.
BodyErrors(p) ==
    (IF p.size = "huge" \/ (p.size = "large" /\ p.items[1].name # "email_send")
     THEN {"payload_too_large"} ELSE {})
    \cup (IF p.items[1].arguments = "bad" THEN {"bad_request"} ELSE {})

IsSendCall(m) == m.method = "tools/call" /\ m.name = "email_send"

\* Slip: one send is enough for a body over the ordinary limit.
HasSend(p) == \E i \in DOMAIN p.items : IsSendCall(p.items[i])

\* is_send_only
IsSendOnly(p) == p.items # <<>> /\ \A i \in DOMAIN p.items : IsSendCall(p.items[i])

\* mcp_endpoint up to its match on the value
RpcErrors(p) ==
    CASE p.size = "huge"                      -> {"payload_too_large"}
      [] p.size # "huge" /\ p.json = "none"   -> {"parse_error"}
      [] p.size = "large" /\ p.json # "none" /\ ~IsSendOnly(p) -> {"payload_too_large"}
      [] p.size = "small" /\ p.json # "none" /\ p.items = <<>> -> {"invalid_request"}
      [] OTHER                                -> {}

\* What a POST is refused for as a whole: send looks at its body first.
PostErrors(p) ==
    IF KeyErrors(p) # {} THEN KeyErrors(p)
    ELSE IF p.surface = "mcp" THEN RpcErrors(p)
    ELSE IF p.items[1].name = "email_send" THEN BodyErrors(p)
    ELSE {}

Receive ==
    /\ pc = "gate"
    /\ IF PostErrors(current) # {}
       THEN /\ pc' = "idle" /\ response' = "refused"
            /\ \E code \in PostErrors(current) :
                  told' = told \cup {[attempt |-> a, code |-> code] : a \in Attempts}
       ELSE /\ pc' = IF current.surface = "mcp" THEN "handle" ELSE "credential"
            /\ UNCHANGED <<response, told>>
    /\ UNCHANGED <<posted, next, answers, provider, silent>>

-----------------------------------------------------------------------------
(* The messages of a POST *)

\* Slip: the id is taken from what was parsed.
AnswerableIfParsed(m) == m.form # "malformed" /\ m.id = "given"

\* handle_one: which messages get a response.  An `id` that is null is copied
\* from a message that does not parse, and lost from one that does.
Answerable(m) ==
    IF m.form = "malformed" THEN m.id # "absent"
    ELSE m.id = "given" /\ (m.form = "version" \/ m.method # "notification")

\* The responses a message adds, 0 standing for an id that is null.
ResponseTo(m, i, code) ==
    IF Answerable(m) THEN <<[id |-> IF m.id = "null" THEN 0 ELSE i, code |-> code]>> ELSE <<>>

\* A message is over: go on with the next one, or respond.
Conclude(code) ==
    LET gathered == answers \o ResponseTo(item, next, code)
    IN  /\ answers' = gathered
        /\ IF next < Len(current.items)
           THEN /\ pc' = "handle" /\ next' = next + 1
                /\ UNCHANGED <<response, told>>
           ELSE /\ pc' = "idle"
                /\ response' = IF gathered = <<>> THEN "accepted" ELSE "answers"
                /\ told' = told \cup
                       {[attempt |-> <<Len(posted), gathered[k].id>>, code |-> gathered[k].code] :
                           k \in {j \in DOMAIN gathered : gathered[j].id # 0}}
                /\ UNCHANGED next
        /\ UNCHANGED <<posted, silent>>

\* handle_one, for a message that is not the call of a tool.
LocalCode(m) ==
    IF m.form # "ok" THEN "invalid_request"
    ELSE IF m.method = "other" THEN "method_not_found" ELSE "result"

CallsTool(m) == m.form = "ok" /\ m.method = "tools/call" /\ m.id = "given"

Handle ==
    /\ pc = "handle"
    /\ IF CallsTool(item)
       THEN pc' = "credential" /\ UNCHANGED <<posted, next, answers, response, silent, told>>
       ELSE Conclude(LocalCode(item))
    /\ UNCHANGED provider

\* InlineHeaders::parse and into_credential; {} is a credential.
CredentialErrors(p) ==
    IF p.headers = "missing" THEN {"bad_request"}
    ELSE {"bad_request", "autoconfig_failed", "host_unreachable"}

\* What is wrong with the arguments: search and get look at the body of a REST
\* request only now.
ArgumentErrors(p, m) ==
    IF p.surface = "rest" THEN BodyErrors(p)
    ELSE IF m.name \in {"none", "unknown"} \/ m.arguments = "bad" THEN {"invalid_params"} ELSE {}

\* search_key; into_message with decode_attachments, and the addresses of
\* build_envelope.
ContentErrors(m) ==
    IF m.name # "email_get" /\ m.content = "invalid" THEN {"bad_request"} ELSE {}

\* The credential is there, or is not: then the action begins.
Credential ==
    /\ pc = "credential"
    /\ \/ \E code \in CredentialErrors(current) : Conclude(code)
       \/ /\ current.headers = "good"
          /\ IF ArgumentErrors(current, item) # {}
             THEN \E code \in ArgumentErrors(current, item) : Conclude(code)
             ELSE IF ContentErrors(item) # {}
             THEN \E code \in ContentErrors(item) : Conclude(code)
             ELSE /\ pc' = IF item.name = "email_send" THEN "submit" ELSE "read"
                  /\ UNCHANGED <<posted, next, answers, response, silent, told>>
    /\ UNCHANGED provider

\* imap::search, imap::get
ReadCodes == {"result", "bad_request", "not_found", "auth_failure", "tls_failure", "host_unreachable"}

Read ==
    /\ pc = "read" /\ ~silent
    /\ \E code \in ReadCodes : Conclude(code)
    /\ UNCHANGED provider

-----------------------------------------------------------------------------
(* Submission *)

\* Slip: an I/O error keeps a code of its own.
SmtpErrorUnmapped(error) ==
    CASE error = "tls" -> "tls_failure" [] error = "auth_reply" -> "auth_failure"
      [] error = "reply" -> "host_unreachable" [] error = "io" -> "io_error"

\* map_smtp_error: a TLS failure, a negative reply with a code that is_auth_code
\* knows, another negative reply, an I/O error.
MapSmtpError(error) ==
    CASE error = "tls"        -> "tls_failure"
      [] error = "auth_reply" -> "auth_failure"
      [] error \in {"reply", "io"} -> "host_unreachable"

\* submit fails before the provider has the message.
SubmitFails ==
    /\ pc = "submit" /\ ~silent
    /\ \E error \in {"tls", "auth_reply", "reply", "io"} : Conclude(MapSmtpError(error))
    /\ UNCHANGED provider

\* Slip: success is reported when the message is written.
TransferAndForget ==
    /\ pc = "submit" /\ ~silent
    /\ Conclude("sent")
    /\ wire' = wire \cup {attempt}
    /\ UNCHANGED <<accepted, refused>>

\* send_raw has written the message.
Transfer ==
    /\ pc = "submit" /\ ~silent
    /\ pc' = "reply"
    /\ wire' = wire \cup {attempt}
    /\ UNCHANGED <<posted, next, answers, response, accepted, refused, silent, told>>

\* The reply to it is read, and the one to the QUIT that ends the conversation.
Reply ==
    /\ pc = "reply" /\ ~silent
    /\ \/ attempt \in accepted /\ Conclude("sent")
       \/ attempt \in refused /\ \E error \in {"auth_reply", "reply"} : Conclude(MapSmtpError(error))
    /\ UNCHANGED provider

\* Slip: the message is submitted once more.
ReplyLostRetried ==
    /\ pc = "reply" /\ ~silent
    /\ pc' = "submit"
    /\ UNCHANGED <<posted, next, answers, response, provider, silent, told>>

\* The reply is not read, because the connection breaks.
ReplyLost ==
    /\ pc = "reply" /\ ~silent
    /\ Conclude(MapSmtpError("io"))
    /\ UNCHANGED provider

Decide ==
    /\ \E a \in wire :
          /\ wire' = wire \ {a}
          /\ \/ accepted' = accepted \cup {a} /\ UNCHANGED refused
             \/ refused' = refused \cup {a} /\ UNCHANGED accepted
    /\ UNCHANGED <<posted, pc, next, answers, response, silent, told>>

-----------------------------------------------------------------------------
(* What ends a wait, and what does not *)

Waits == {"read", "submit", "reply"}

\* The peer says no more, and its connection does not break either.  submit and
\* the reads of imap.rs await it without a time limit: the transport's own bounds
\* the TCP connect only.
FallSilent ==
    /\ pc \in Waits /\ ~silent
    /\ silent' = TRUE
    /\ UNCHANGED <<posted, pc, next, answers, response, provider, told>>

\* The caller hangs up: the handler is dropped at an await.
HangUp ==
    /\ pc \in {"gate", "credential", "read", "submit", "reply"}
    /\ pc' = "idle" /\ response' = "dropped" /\ silent' = FALSE
    /\ UNCHANGED <<posted, next, answers, provider, told>>

Next ==
    \/ Post \/ Receive \/ Handle \/ Credential \/ Read
    \/ SubmitFails \/ Transfer \/ Reply \/ ReplyLost \/ Decide
    \/ FallSilent \/ HangUp

Spec == Init /\ [][Next]_vars

\* The handler goes on.  What into_credential asks has the time limits of
\* Autoconfig; a peer that is not silent answers, or its connection breaks.
Progress ==
    \/ Receive \/ Handle \/ Credential \/ Read
    \/ SubmitFails \/ Transfer \/ Reply \/ ReplyLost

FairSpec == Spec /\ WF_vars(Progress)

-----------------------------------------------------------------------------
(* Properties *)

Code == {"result", "sent", "unauthorized", "payload_too_large", "parse_error", "invalid_request",
         "method_not_found", "invalid_params", "bad_request", "autoconfig_failed", "not_found",
         "auth_failure", "tls_failure", "host_unreachable"}

Known == {a \in (1 .. Len(posted)) \X Nat : a[2] \in DOMAIN posted[a[1]].items}

TypeOK ==
    /\ posted \in Seq(POST)
    /\ pc \in {"idle", "gate", "handle", "credential", "read", "submit", "reply"}
    /\ next \in Nat /\ (pc # "idle" => posted # <<>>)
    /\ answers \in Seq([id : Nat, code : Code])
    /\ response \in {"none", "refused", "accepted", "answers", "dropped"}
    /\ \A a \in wire \cup accepted \cup refused : a \in Known
    /\ silent \in BOOLEAN /\ (silent => pc \in Waits)
    /\ \A answer \in told : answer.attempt \in Known /\ answer.code \in Code

IsNotification(m) == m.form = "ok" /\ m.method = "notification"

\* The messages that are to be answered.
Owed(items) == {i \in DOMAIN items : items[i].id = "given" /\ ~IsNotification(items[i])}

\* A POST that is worked off is answered message by message, in order: each
\* message with an id of its own gets one response, unless it is a
\* notification, and a message without an id gets none.
AnswersMatch ==
    response \in {"accepted", "answers"} =>
        LET given == {k \in DOMAIN answers : answers[k].id # 0}
        IN  /\ \A j, k \in given : j < k => answers[j].id < answers[k].id
            /\ {answers[k].id : k \in given} = Owed(current.items)

\* What the caller was told stays true, whatever the provider decides later: a
\* message that was reported sent was accepted, and one that was answered with
\* a code other than host_unreachable is not delivered.
TellsTruth ==
    \A answer \in told :
        /\ answer.code = "sent" => answer.attempt \in accepted
        /\ answer.code \notin {"sent", "host_unreachable"} => answer.attempt \notin wire \cup accepted

\* No message reaches a provider before all checks of its POST and its call have
\* passed: the gateway key, the size of the body, the mailbox headers, the
\* arguments, and that the call can be answered.
OnlyChecked ==
    \A a \in wire \cup accepted \cup refused :
        LET p == posted[a[1]]
            m == p.items[a[2]]
        IN  /\ RequireKey => p.key = "right"
            /\ p.headers = "good" /\ p.size # "huge"
            /\ p.size = "large" => \A i \in DOMAIN p.items : IsSendCall(p.items[i])
            /\ CallsTool(m) /\ m.name = "email_send" /\ m.arguments = "good" /\ m.content = "fine"

\* Every POST comes to an end, with all messages of its batch, unless the peer
\* of the message that is worked on falls silent: no message is worked on for
\* ever, although its reply may be lost and its verdict never come
\* (mcp_endpoint, handle_one, submit).
EndsUnlessSilent == pc # "idle" ~> pc = "idle" \/ silent

\* The gateway implements Delivery, the attempts of the POST that is worked on
\* being those the caller waits for.
Attempted == INSTANCE Delivery WITH waiting <- IF pc = "idle" THEN {} ELSE Attempts

ImplementsDelivery == Attempted!Spec

-----------------------------------------------------------------------------
(* What the documentation says and the code does not do *)

\* src/mcp.rs, handle_one: "Returns `None` for notifications (no `id`) and for
\* messages we cannot parse that lack an `id`": a message that has an `id`, and
\* whose method is no notification, gets a response.
EveryIdAnswered ==
    response \in {"accepted", "answers"} =>
        Len(answers) = Len(SelectSeq(current.items,
                               LAMBDA m : m.id # "absent" /\ ~IsNotification(m)))
=============================================================================

----------------------------- MODULE SendAction -----------------------------
(***************************************************************************)
(* The process from its environment to POST /email/send: what main.rs and  *)
(* lib.rs start, and what the handler does with one request after the      *)
(* other until the message goes to the SMTP provider.  The gateway key,    *)
(* the body limit, the mailbox headers, autoconfiguration, the endpoint    *)
(* guard and the checks of the letter stand in this order, and each can    *)
(* answer for the request.                                                 *)
(*                                                                         *)
(* Handlers share only the immutable configuration (Autoconfig models the  *)
(* cache), so one request at a time is enough; Gateway models what becomes *)
(* of a message that is submitted.                                         *)
(*                                                                         *)
(* The caller writes its letter file by file, and a part of a request is   *)
(* chosen when the handler looks at it.                                    *)
(***************************************************************************)
EXTENDS Settings, Lists

CONSTANTS
    DefaultSendLimit, MaxAttachments, MaxFilenameChars, Addresses,  \* see Outgoing
    Workloads,      \* by name, an environment with what requests may be made of
    Documents,      \* what autoconfiguration may find: for each side the servers
    Lookups,        \* what a lookup may answer: sets of addresses, None for an error
    Literals        \* the addresses that are written as such

VARIABLES
    process,    \* off, serving or exited
    load,       \* the name of the workload
    config,     \* the Config it serves with
    pc,         \* the step the handler is at
    request,    \* the request so far, with what the caller knows of its size
    target,     \* the endpoints, once they are known
    document,   \* what autoconfiguration found
    found,      \* the addresses of the endpoint that is checked
    outgoing,   \* the letter and what became of it, when it is submitted
    answer      \* the answer to the request

vars == <<process, load, config, pc, request, target, document, found, outgoing, answer>>

INSTANCE Endpoints
INSTANCE Outgoing

InlineHeaders == [auth : AuthHeader, form : [Side -> TargetForm], hostPort : [Side -> HostPort],
                  domain : DomainHeader]

Error == {"bad_request", "unauthorized", "payload_too_large", "autoconfig_failed", "auth_failure",
          "host_unreachable", "tls_failure"}

ASSUME LimitAssumption ==
    /\ DefaultCap \in Nat /\ MaxUsize \in Nat /\ DefaultSendLimit \in 0 .. MaxUsize
    /\ Base64Len(DefaultCap) <= DefaultSendLimit
    /\ MaxAttachments \in Nat /\ MaxFilenameChars \in Nat

\* None is none of the values it stands in for, and no address is a text that
\* lettre does not parse.
ASSUME NoneAssumption ==
    /\ None \notin Nat /\ None \notin Reason /\ None \notin HostPort /\ None \notin XmlServer
    /\ None \notin [code : Error \cup {"sent"}, why : {None, "blocked"}]
    /\ \A name \in DOMAIN Workloads : Config(Workloads[name].env) # None
    /\ Addresses \cap {"", "no address"} = {}

\* Lengths of the JSON without the base64 texts, for each position of a letter
\* the files it may have there, letters without their files, mailbox headers.
ASSUME SendAssumption ==
    /\ Documents \subseteq [Side -> Seq(XmlServer)]
    /\ Literals \subseteq Address4 \cup Address6
    /\ Lookups \ {None} \subseteq SUBSET (Address4 \cup Address6)
    /\ \A name \in DOMAIN Workloads :
          LET w == Workloads[name]
          IN  /\ w.env \in Environment
              /\ w.rests \subseteq 0 .. MaxUsize
              /\ w.files \in Seq(SUBSET Attachment)
              /\ w.letters \subseteq Letter
              /\ w.headers \subseteq InlineHeaders

work == Workloads[load]

Step  == {"idle", "compose", "gate", "credential", "pick", "look imap", "judge imap", "look smtp", "judge smtp",
          "content", "submit"}

NoTarget == [s \in Side |-> None]

\* `size` is the sum of what the caller's files measure, None when one of them
\* cannot be measured; `wrapped` says whether any has line breaks.
Blank(rest) ==
    [files |-> <<>>, rest |-> rest, length |-> rest, size |-> 0, wrapped |-> FALSE, bearer |-> None]

Init ==
    /\ process = "off" /\ load \in DOMAIN Workloads /\ config = None /\ pc = "idle" /\ request = Blank(0)
    /\ target = NoTarget /\ document = None /\ found = None /\ outgoing = None /\ answer = None

Answer(code, why) ==
    /\ answer' = [code |-> code, why |-> why]
    /\ pc' = "idle" /\ target' = NoTarget /\ document' = None /\ found' = None
    /\ UNCHANGED <<process, load, config, outgoing>>

Refuse(code, why) == Answer(code, why) /\ UNCHANGED request

Proceed(step) == pc' = step /\ UNCHANGED <<process, load, config, outgoing, answer>>

-----------------------------------------------------------------------------
(* The process *)

\* main: the address may be taken.
Start ==
    /\ process # "serving"
    /\ \E bound \in BOOLEAN :
          IF Loads(work.env) /\ bound THEN process' = "serving" /\ config' = Config(work.env)
          ELSE process' = "exited" /\ config' = None
    /\ UNCHANGED <<load, pc, request, target, document, found, outgoing, answer>>

-----------------------------------------------------------------------------
(* The caller *)

Begin ==
    /\ process = "serving" /\ pc = "idle"
    /\ pc' = "compose"
    /\ \E rest \in work.rests : request' = Blank(rest)
    /\ outgoing' = None /\ answer' = None
    /\ UNCHANGED <<process, load, config, target, document, found>>

Post ==
    /\ pc = "compose"
    /\ \E bearer \in KeyText \cup {None} : request' = [request EXCEPT !.bearer = bearer]
    /\ Proceed("gate")
    /\ UNCHANGED <<target, document, found>>

\* A line break of a base64 text takes two bytes of JSON.  No body is longer than
\* a usize can say.
Attach ==
    /\ pc = "compose"
    /\ Len(request.files) < Len(work.files)
    /\ \E f \in work.files[Len(request.files) + 1] :
          LET measured == DecodedLen(f.content)
          IN  request' =
                [files   |-> Append(request.files, f), rest |-> request.rest, bearer |-> None,
                 length  |-> request.length + f.content.chars + 2 * f.content.breaks,
                 size    |-> IF None \in {request.size, measured} THEN None ELSE request.size + measured,
                 wrapped |-> request.wrapped \/ f.content.breaks # 0]
    /\ request'.length <= MaxUsize
    /\ UNCHANGED <<process, load, config, pc, target, document, found, outgoing, answer>>

-----------------------------------------------------------------------------
(* The handler *)

\* The gate, then the extractor of the JSON: a wrong content type is seen before
\* the length of the body, what is in the body after it.
Receive ==
    /\ pc = "gate"
    /\ request' = [request EXCEPT !.bearer = None]
    /\ \/ ~Access(config, request.bearer) /\ Answer("unauthorized", None)
       \/ /\ Access(config, request.bearer)
          /\ \/ Answer("bad_request", "content type")
             \/ request.length > SendBodyLimit(config.cap) /\ Answer("payload_too_large", None)
             \/ /\ request.length <= SendBodyLimit(config.cap)
                /\ \/ Answer("bad_request", "json")
                   \/ Proceed("credential") /\ UNCHANGED <<target, document, found>>

Given(headers) ==
    [s \in Side |-> IF headers.form[s] = "good" THEN headers.hostPort[s] ELSE None]

\* InlineHeaders::parse, and into_credential up to the answer of resolve
Credential ==
    /\ pc = "credential"
    /\ \E h \in work.headers :
          LET parses   == HeadersParse(h.auth, h.form, h.domain)
              complete == \A s \in Side : Given(h)[s] # None
              findable == config.autoconfig /\ HasDomain(h.auth, h.domain)
          IN  \/ ~parses /\ Refuse("bad_request", None)
              \/ /\ parses /\ complete
                 /\ target' = Given(h) /\ Proceed("look imap") /\ UNCHANGED <<request, document, found>>
              \/ parses /\ ~complete /\ ~findable /\ Refuse("bad_request", None)
              \/ /\ parses /\ ~complete /\ findable
                 /\ \/ Refuse("autoconfig_failed", None)
                    \/ /\ document' \in Documents /\ target' = Given(h)
                       /\ Proceed("pick") /\ UNCHANGED <<request, found>>

\* into_credential: a header wins over what was found for its side.
Pick ==
    /\ pc = "pick"
    /\ LET served == [s \in Side |-> PickServer(document[s], s)]
           chosen == [s \in Side |->
                         IF target[s] # None THEN target[s]
                         ELSE IF served[s] = None THEN None
                         ELSE [host |-> served[s].hostname, port |-> served[s].port]]
       IN  IF \E s \in Side : chosen[s] = None THEN Refuse("autoconfig_failed", None)
           ELSE target' = chosen /\ document' = None /\ Proceed("look imap") /\ UNCHANGED <<request, found>>

Passed(s) ==
    /\ found' = None /\ Proceed(IF s = "imap" THEN "look smtp" ELSE "content")
    /\ UNCHANGED <<request, target, document>>

\* EndpointGuard::check up to its lookup
Look(s) ==
    /\ pc = IF s = "imap" THEN "look imap" ELSE "look smtp"
    /\ \/ ~config.block /\ Passed(s)
       \/ config.block /\ target[s].host = "special" /\ Refuse("bad_request", "blocked")
       \/ /\ config.block /\ target[s].host = "name"
          /\ \/ \E answers \in Lookups : answers \in {None, {}} /\ Refuse("host_unreachable", None)
             \/ /\ found' \in Lookups \ {None, {}}
                /\ Proceed(IF s = "imap" THEN "judge imap" ELSE "judge smtp")
                /\ UNCHANGED <<request, target, document>>
       \/ /\ config.block /\ target[s].host = "literal"
          /\ \E a \in Literals : found' = {a}
          /\ Proceed(IF s = "imap" THEN "judge imap" ELSE "judge smtp")
          /\ UNCHANGED <<request, target, document>>

\* EndpointGuard::check from there
Judge(s) ==
    /\ pc = IF s = "imap" THEN "judge imap" ELSE "judge smtp"
    /\ IF AnyForbidden(found) THEN Refuse("bad_request", "blocked") ELSE Passed(s)

\* do_send up to the await of submit
DoSend ==
    /\ pc = "content"
    /\ \E letter \in work.letters :
          LET objection == Objection(letter, request.files, config.cap)
              message   == IntoMessage(letter, request.files)
          IN  \/ objection # None /\ Refuse("bad_request", objection)
              \/ /\ objection = None /\ ~IsAddressed(Envelope(message))
                 /\ Refuse("bad_request", "address")
              \/ /\ objection = None /\ IsAddressed(Envelope(message))
                 /\ outgoing' = [letter     |-> letter,
                                 disclosure |-> Disclosure(message),
                                 envelope   |-> Envelope(message),
                                 mime       |-> Mime(message),
                                 security   |-> Security(target["smtp"].port, config.insecure)]
                 /\ pc' = "submit"
                 /\ UNCHANGED <<process, load, config, request, target, document, found, answer>>

\* What send_raw returns, by map_smtp_error
Submitted ==
    /\ pc = "submit"
    /\ \E code \in {"sent", "auth_failure", "host_unreachable", "tls_failure"} :
          Refuse(code, None)

Next ==
    \/ Start \/ Begin \/ Attach \/ Post \/ Receive \/ Credential \/ Pick
    \/ \E s \in Side : Look(s) \/ Judge(s)
    \/ DoSend \/ Submitted

Spec == Init /\ [][Next]_vars

-----------------------------------------------------------------------------
(* Properties *)

\* Every request is worked off with a configuration, and every answer has a code
\* of the error set (src/error.rs) or says that the message is sent.
TypeOK ==
    /\ process \in {"off", "serving", "exited"}
    /\ config # None <=> process = "serving"
    /\ pc \in Step
    /\ request.size \in 0 .. MaxUsize \cup {None}
    /\ target \in [Side -> HostPort \cup {None}]
    /\ answer # None => answer.code \in Error \cup {"sent"}
    /\ pc # "idle" => process = "serving"

\* When a key is required, a request gets past the gate exactly with the key of
\* the environment, and never without any (Config::from_env and
\* require_gateway_access; a key with blanks around it lets nobody in).
KeyDecides ==
    [][pc = "gate" /\ config.requireKey =>
          ((answer' # None /\ answer'.code = "unauthorized") <=>
              (request.bearer = None \/ request.bearer.core # config.apiKey.core \/ config.apiKey.padded))
      ]_vars

\* A body is only ever refused for its length when its files are above the cap,
\* cannot be measured or have line breaks, or when the rest of the JSON leaves
\* less than three bytes per file of the overhead (send_body_limit promises that
\* no request within the cap is refused by the transport first).
WithinCapFits ==
    answer # None /\ answer.code = "payload_too_large" =>
        \/ request.size = None \/ request.wrapped
        \/ request.size > config.cap
        \/ request.rest + 3 * Len(request.files) > SendBodyOverhead

\* The same without the exception for line breaks, although Attachment says that
\* they are tolerated in content_base64.
RaisedCapFits ==
    answer # None /\ answer.code = "payload_too_large" =>
        \/ request.size = None
        \/ request.size > config.cap
        \/ request.rest + 3 * Len(request.files) > SendBodyOverhead

\* A letter whose files all decode is refused as too large exactly when they
\* have more bytes than the cap, although nothing is decoded to find that out
\* (decoded_len); and files that go out are within the cap to the byte.
CapIsExact ==
    LET decode == \A i \in DOMAIN request.files : request.files[i].content.bytes # None
        sum    == SumOf([i \in DOMAIN request.files |-> request.files[i].content.bytes])
    IN  /\ answer # None /\ answer.why = "too large" /\ decode => sum > config.cap
        /\ pc = "submit" => decode /\ sum <= config.cap

IsSafe(name) ==
    \/ name = Fallback
    \/ /\ Len(name) \in 1 .. MaxFilenameChars
       /\ \A i \in DOMAIN name : name[i] \notin {"control", "separator"}
       /\ name[1] # "blank" /\ name[Len(name)] # "blank"
       /\ \E i \in DOMAIN name : name[i] # "."

\* The files on the wire have names that no recipient's system takes for a path,
\* a directory or another name: something besides dots, no control or bidi
\* character, no separator and no blank at an end, also where the clamp cuts.
NamesSafe ==
    pc = "submit" =>
        \A i \in DOMAIN outgoing.mime.attachments : IsSafe(outgoing.mime.attachments[i].filename)

Written(field) == {field.items[i] : i \in DOMAIN field.items} \ {""}
Values(s)      == {s[i] : i \in DOMAIN s}

\* Everybody the caller wrote down gets the message, and who is only a blind
\* recipient is named neither in a header nor in the answer to the caller
\* (build_envelope, build_mime, SendDisclosure).
BlindButServed ==
    pc = "submit" =>
        LET letter == outgoing.letter
            named  == Values(outgoing.mime.to) \cup Values(outgoing.mime.cc) \cup Values(outgoing.disclosure.to)
        IN  /\ Values(outgoing.envelope.recipients)
                 = Written(letter.to) \cup Written(letter.cc) \cup Written(letter.bcc)
            /\ named \cap Written(letter.bcc) \subseteq Written(letter.to) \cup Written(letter.cc)

\* What the caller is told that it sent is what goes out: sender, recipients, the
\* body that comes first, and each file by its name and size
\* (SendDisclosure::for_message and mixed_body).
DisclosesWhatIsSent ==
    pc = "submit" =>
        LET told == outgoing.disclosure
            mime == outgoing.mime
        IN  /\ told.from = mime.from /\ told.to = mime.to /\ told.preview.part = mime.bodies[1]
            /\ told.attachments = [i \in DOMAIN mime.attachments |->
                   [filename |-> mime.attachments[i].filename, size |-> mime.attachments[i].bytes]]

\* With the guard on, an endpoint is passed exactly when it is no special name
\* and none of its addresses lies in a network that src/endpoint.rs names as
\* non-public, also written as an IPv4-mapped address.
GuardHolds ==
    [][(pc = "judge imap" \/ pc = "judge smtp") =>
          (answer' # None <=> (\E a \in found : NonPublic(a)))
      ]_vars

\* Of the servers of a document, the one that is chosen is usable, has implicit
\* TLS if any usable one has, and is the first such; and a side is given up only
\* if it has no usable server (pick_server).
BestServerChosen ==
    [][pc = "pick" =>
          LET usable(s) == {i \in DOMAIN document[s] : Usable(document[s][i], s)}
              tls(s, i) == document[s][i].socket = "SSL"
              better(s, i, j) == (tls(s, j) /\ ~tls(s, i)) \/ ((tls(s, j) <=> tls(s, i)) /\ j < i)
              is(s, i) == /\ target'[s].host = document[s][i].hostname
                          /\ target'[s].port = document[s][i].port
          IN  IF pc' = "idle" THEN \E s \in Side : target[s] = None /\ usable(s) = {}
              ELSE \A s \in Side : target[s] = None =>
                       \E i \in usable(s) : is(s, i) /\ \A j \in usable(s) : ~better(s, i, j)
      ]_vars
=============================================================================

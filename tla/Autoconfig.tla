----------------------------- MODULE Autoconfig -----------------------------
(***************************************************************************)
(* How a request gets its provider endpoints: into_credential of           *)
(* src/auth.rs, the ladder and the TTL cache of `Autoconfig` in            *)
(* src/autoconfig.rs, and EndpointGuard::check of src/endpoint.rs.         *)
(*                                                                         *)
(* An endpoint is named by where it was found: `by` the domain the request *)
(* wanted, `of` the domain that was asked, and the rung of the ladder that *)
(* was asked.  Requests are interleaved between any two awaits; each       *)
(* question to the network is one await, bounded by a timeout, and its     *)
(* answer may differ from one time to the next.  A request may be dropped  *)
(* at any await.                                                           *)
(*                                                                         *)
(* A definition introduced by "Slip" is no part of the model: it is a      *)
(* plausible fault of the definition after it, which a run must detect.    *)
(***************************************************************************)
EXTENDS Integers, Sequences, FiniteSets

CONSTANTS
    Request,    \* the requests
    Domain,     \* the domains that are ever looked at, normalised
    Public,     \* those that is_public_domain accepts
    DomainOf,   \* DomainOf[r]: the mailbox domain of r, None when unknown
    Explicit,   \* Explicit[r]: the sides r names in X-Mailbox-Imap / -Smtp
    Enabled,    \* AutoconfigSettings::enabled
    Guarded,    \* EndpointGuard::enabled
    PosTTL,     \* AutoconfigSettings::pos_ttl, in ticks
    NegTTL,     \* AutoconfigSettings::neg_ttl, in ticks
    Talkative,  \* bound: the rungs that may name an endpoint
    MaxTime,    \* bound: the last tick of the clock
    MaxRequests,\* bound: how many of the requests are ever made
    None        \* no endpoint, no domain, no cache entry

VARIABLES
    now,        \* the clock that Instant::now() reads
    cache,      \* Autoconfig::cache
    pc,         \* where each request is
    target,     \* the domain a request is asking about
    acc,        \* run_ladder's `acc`, and then the servers resolved
    found,      \* the `acc` of http_ladder, or what srv_lookup has so far
    outcome,    \* what into_credential returned
    heard,      \* history: the answers to a request's questions, in order
    learnt      \* history: when each domain was last put in the cache

ladder == <<target, acc, found, heard>>
vars   == <<now, cache, pc, ladder, outcome, learnt>>

-----------------------------------------------------------------------------
(* MailServers *)

Side == {"imap", "smtp"}

Http     == {"autoconfig", "wellknown", "ispdb"}
Srv      == {"imaps", "imap", "submissions", "submission"}
Asking   == Http \cup Srv \cup {"mx"}
Checking == {"check_imap", "check_smtp"}
Phase    == {"begin", "put", "done"} \cup Asking \cup Checking

Endpoint == [by : Domain, of : Domain, rung : Http \cup Srv]
Servers  == [Side -> Endpoint \cup {None}]

Nothing       == [s \in Side |-> None]
IsComplete(v) == \A s \in Side : v[s] # None

\* Slip: the last source to name a side wins.
MergeLast(v, other) == [s \in Side |-> IF other[s] = None THEN v[s] ELSE other[s]]

\* merge_from: the first source to name a side wins.
Merge(v, other) == [s \in Side |-> IF v[s] = None THEN other[s] ELSE v[s]]

\* The sides an answer at a rung can name: a document that does not arrive or
\* does not parse names none, and of two servers for one side pick_server
\* leaves one.
Nameable(rung) ==
    IF rung \notin Talkative THEN {}
    ELSE IF rung \in Http THEN Side
    ELSE IF rung \in {"imaps", "imap"} THEN {"imap"} ELSE {"smtp"}

ASSUME ConstantsOK ==
    /\ Public \subseteq Domain /\ None \notin Domain \cup Endpoint
    /\ \A r \in Request : DomainOf[r] \in Domain \cup {None} /\ Explicit[r] \subseteq Side
    /\ Enabled \in BOOLEAN /\ Guarded \in BOOLEAN
    /\ PosTTL \in Nat /\ NegTTL \in Nat /\ MaxTime \in Nat /\ MaxRequests \in Nat

Init ==
    /\ now = 0
    /\ cache = [d \in Domain |-> None]
    /\ pc = [r \in Request |-> "begin"]
    /\ target = [r \in Request |-> None]
    /\ acc = [r \in Request |-> Nothing]
    /\ found = [r \in Request |-> Nothing]
    /\ outcome = [r \in Request |-> "none"]
    /\ heard = [r \in Request |-> << >>]
    /\ learnt = [d \in Domain |-> 0]

Goto(r, to) == pc' = [pc EXCEPT ![r] = to]

Finish(r, result) ==
    /\ Goto(r, "done")
    /\ outcome' = [outcome EXCEPT ![r] = result]

\* The locals of the ladder are gone.
Forget(r) ==
    /\ target' = [target EXCEPT ![r] = None]
    /\ acc' = [acc EXCEPT ![r] = Nothing]
    /\ found' = [found EXCEPT ![r] = Nothing]
    /\ heard' = [heard EXCEPT ![r] = << >>]

-----------------------------------------------------------------------------
(* into_credential and resolve *)

\* The header wins over what was resolved; a side that neither names fails the
\* request, else the two endpoints are checked.
Assemble(r, servers) ==
    IF \A s \in Side : s \in Explicit[r] \/ servers[s] # None
    THEN Goto(r, "check_imap") /\ UNCHANGED outcome
    ELSE Finish(r, "autoconfig_failed")

\* One more request may be made.
Arrives(r) == pc[r] = "begin" /\ Cardinality({q \in Request : pc[q] # "begin"}) < MaxRequests

\* cache_get: an entry that has not expired.
CacheGet(d) == cache[d] # None /\ cache[d].expires > now

\* Both endpoints are given: nothing to resolve.
FastPath(r) ==
    /\ Arrives(r) /\ Explicit[r] = Side
    /\ Goto(r, "check_imap")
    /\ UNCHANGED <<now, cache, ladder, outcome, learnt>>

\* Autoconfiguration is off, or there is no domain to ask about, or none that
\* could be a public mail domain.
Refuse(r) ==
    /\ Arrives(r) /\ Explicit[r] # Side
    /\ \/ (~Enabled \/ DomainOf[r] = None) /\ Finish(r, "bad_request")
       \/ Enabled /\ DomainOf[r] \in Domain \ Public /\ Finish(r, "autoconfig_failed")
    /\ UNCHANGED <<now, cache, ladder, learnt>>

\* The cache has a success or a failure for the domain, partial or not.
Hit(r) ==
    /\ Arrives(r) /\ Explicit[r] # Side
    /\ Enabled /\ DomainOf[r] \in Public
    /\ CacheGet(DomainOf[r])
    /\ Assemble(r, cache[DomainOf[r]].value)
    /\ UNCHANGED <<now, cache, ladder, learnt>>

\* The cache has nothing: run_ladder asks the first question.
Miss(r) ==
    /\ Arrives(r) /\ Explicit[r] # Side
    /\ Enabled /\ DomainOf[r] \in Public
    /\ ~CacheGet(DomainOf[r])
    /\ Goto(r, "autoconfig")
    /\ target' = [target EXCEPT ![r] = DomainOf[r]]
    /\ UNCHANGED <<now, cache, acc, found, outcome, heard, learnt>>

-----------------------------------------------------------------------------
(* The ladder *)

\* The endpoints that the answer to the request's question names.
Named(r, sides) ==
    [s \in Side |-> IF s \in sides
                    THEN [by |-> DomainOf[r], of |-> target[r], rung |-> pc[r]]
                    ELSE None]

Hear(r, sides) ==
    heard' = [heard EXCEPT ![r] = Append(@, Named(r, sides))]

\* The helper goes on with another question ...
GoOn(r, merged, rung) ==
    /\ found' = [found EXCEPT ![r] = merged]
    /\ Goto(r, rung)
    /\ UNCHANGED acc

\* ... or returns to run_ladder, which goes on while a side is missing.
Return(r, merged, rung) ==
    LET all == Merge(acc[r], merged)
    IN  /\ acc' = [acc EXCEPT ![r] = all]
        /\ found' = [found EXCEPT ![r] = Nothing]
        /\ Goto(r, IF IsComplete(all) THEN "put" ELSE rung)

\* Slip: the provider's ladder is followed by its DNS records.
HttpAnswerThenSrv(r) ==
    /\ pc[r] \in Http
    /\ \E sides \in SUBSET Nameable(pc[r]) :
          LET merged == Merge(found[r], Named(r, sides))
          IN  /\ Hear(r, sides)
              /\ IF IsComplete(merged) \/ pc[r] = "ispdb"
                 THEN Return(r, merged, "imaps")
                 ELSE GoOn(r, merged, IF pc[r] = "autoconfig" THEN "wellknown" ELSE "ispdb")
    /\ UNCHANGED <<now, cache, target, outcome, learnt>>

\* http_ladder, for the mailbox domain and then perhaps for the provider its
\* MX names: one URL after the other until it has found both sides.
HttpAnswer(r) ==
    /\ pc[r] \in Http
    /\ \E sides \in SUBSET Nameable(pc[r]) :
          LET merged == Merge(found[r], Named(r, sides))
          IN  /\ Hear(r, sides)
              /\ IF IsComplete(merged) \/ pc[r] = "ispdb"
                 THEN Return(r, merged, IF target[r] = DomainOf[r] THEN "imaps" ELSE "put")
                 ELSE GoOn(r, merged, IF pc[r] = "autoconfig" THEN "wellknown" ELSE "ispdb")
    /\ UNCHANGED <<now, cache, target, outcome, learnt>>

\* srv_lookup: the implicit-TLS record of each protocol, or else the other one.
SrvAnswer(r) ==
    /\ pc[r] \in Srv
    /\ \E sides \in SUBSET Nameable(pc[r]) :
          LET merged == Merge(found[r], Named(r, sides))
          IN  /\ Hear(r, sides)
              /\ CASE pc[r] = "imaps" ->
                        GoOn(r, merged, IF sides = {} THEN "imap" ELSE "submissions")
                   [] pc[r] = "imap" -> GoOn(r, merged, "submissions")
                   [] pc[r] = "submissions" /\ sides = {} -> GoOn(r, merged, "submission")
                   [] OTHER -> Return(r, merged, "mx")
    /\ UNCHANGED <<now, cache, target, outcome, learnt>>

\* Slip: the exchanger's domain is asked without is_public_domain.
MxAnswerUnchecked(r) ==
    /\ pc[r] = "mx"
    /\ \E provider \in Domain \cup {None} :
          IF provider \in {None, DomainOf[r]}
          THEN Goto(r, "put") /\ UNCHANGED target
          ELSE Goto(r, "autoconfig") /\ target' = [target EXCEPT ![r] = provider]
    /\ UNCHANGED <<now, cache, acc, found, outcome, heard, learnt>>

\* mx_autoconfig: the first exchanger's registrable domain, if there is one
\* that is another public domain, goes through http_ladder.
MxAnswer(r) ==
    /\ pc[r] = "mx"
    /\ \E provider \in Domain \cup {None} :
          IF provider \in Public \ {DomainOf[r]}
          THEN Goto(r, "autoconfig") /\ target' = [target EXCEPT ![r] = provider]
          ELSE Goto(r, "put") /\ UNCHANGED target
    /\ UNCHANGED <<now, cache, acc, found, outcome, heard, learnt>>

\* Slip: a failure is kept as long as a success.
TTLAlwaysPositive(v) == PosTTL

\* cache_put: a value that names neither side is a failure.
TTLOf(v) == IF v = Nothing THEN NegTTL ELSE PosTTL

\* Slip: the result is filed under the domain that was asked last.
PutUnderTarget(r) ==
    /\ pc[r] = "put"
    /\ cache' = [cache EXCEPT ![target[r]] = [expires |-> now + TTLOf(acc[r]), value |-> acc[r]]]
    /\ learnt' = [learnt EXCEPT ![target[r]] = now]
    /\ Assemble(r, acc[r])
    /\ Forget(r)
    /\ UNCHANGED now

\* Slip: a result waits for the cache to have room for it.
PutWhenVacant(r) ==
    /\ pc[r] = "put"
    /\ ~CacheGet(DomainOf[r])
    /\ cache' = [cache EXCEPT ![DomainOf[r]] = [expires |-> now + TTLOf(acc[r]), value |-> acc[r]]]
    /\ learnt' = [learnt EXCEPT ![DomainOf[r]] = now]
    /\ Assemble(r, acc[r])
    /\ Forget(r)
    /\ UNCHANGED now

\* run_ladder is over: its result replaces whatever the cache has.
Put(r) ==
    /\ pc[r] = "put"
    /\ cache' = [cache EXCEPT ![DomainOf[r]] = [expires |-> now + TTLOf(acc[r]), value |-> acc[r]]]
    /\ learnt' = [learnt EXCEPT ![DomainOf[r]] = now]
    /\ Assemble(r, acc[r])
    /\ Forget(r)
    /\ UNCHANGED now

-----------------------------------------------------------------------------
(* The rest *)

\* Slip: the resolver's own error is passed on.
CheckErrorsUnmapped == {"bad_request", "io_error"}

\* A name is refused when it is or resolves to a non-public address, and fails
\* when it does not resolve.
CheckErrors == {"bad_request", "host_unreachable"}

\* EndpointGuard::check of one endpoint, then of the other.
CheckEndpoint(r) ==
    /\ pc[r] \in Checking
    /\ \/ /\ pc[r] = "check_imap"
          /\ Goto(r, "check_smtp") /\ UNCHANGED outcome
       \/ pc[r] = "check_smtp" /\ Finish(r, "ready")
       \/ Guarded /\ \E error \in CheckErrors : Finish(r, error)
    /\ UNCHANGED <<now, cache, ladder, learnt>>

\* The future of the request is dropped at an await.
Cancel(r) ==
    /\ pc[r] \in Asking \/ (pc[r] \in Checking /\ Guarded)
    /\ Goto(r, "done")
    /\ Forget(r)
    /\ UNCHANGED <<now, cache, outcome, learnt>>

Tick ==
    /\ now < MaxTime
    /\ now' = now + 1
    /\ UNCHANGED <<cache, pc, ladder, outcome, learnt>>

Next ==
    \/ \E r \in Request :
          \/ FastPath(r) \/ Refuse(r) \/ Hit(r) \/ Miss(r)
          \/ HttpAnswer(r) \/ SrvAnswer(r) \/ MxAnswer(r) \/ Put(r)
          \/ CheckEndpoint(r) \/ Cancel(r)
    \/ Tick

Spec == Init /\ [][Next]_vars

\* A request goes on: each question to the network has a timeout (settings.timeout),
\* and so has the lookup of a name.
Progress(r) == HttpAnswer(r) \/ SrvAnswer(r) \/ MxAnswer(r) \/ Put(r) \/ CheckEndpoint(r)

FairSpec == Spec /\ \A r \in Request : WF_vars(Progress(r))

-----------------------------------------------------------------------------
(* Properties *)

TypeOK ==
    /\ now \in Nat
    /\ cache \in [Domain -> [expires : Nat, value : Servers] \cup {None}]
    /\ pc \in [Request -> Phase]
    /\ target \in [Request -> Domain \cup {None}]
    /\ acc \in [Request -> Servers]
    /\ found \in [Request -> Servers]
    /\ outcome \in [Request -> {"none", "ready", "bad_request", "autoconfig_failed",
                                "host_unreachable"}]
    /\ heard \in [Request -> Seq(Servers)]
    /\ learnt \in [Domain -> Nat]

\* Whatever partial answers the rungs give, and although http_ladder,
\* srv_lookup and run_ladder each gather answers of their own, an endpoint
\* comes from the first answer of the whole ladder that named its side.
FirstToName(answers, s) ==
    IF \E i \in DOMAIN answers : answers[i][s] # None
    THEN answers[CHOOSE i \in DOMAIN answers :
                    /\ answers[i][s] # None
                    /\ \A j \in 1 .. i - 1 : answers[j][s] = None][s]
    ELSE None

FirstSourceWins ==
    \A r \in Request : pc[r] = "put" =>
        \A s \in Side : acc[r][s] = FirstToName(heard[r], s)

\* No question is ever about a domain that is_public_domain rejects, neither
\* the caller's nor one that an MX record of a public domain points to.
PublicOnly ==
    \A r \in Request : pc[r] \in Asking => target[r] \in Public

\* What the cache has for a domain was found by a ladder for that domain,
\* even when requests for other domains, and ladders that ended at the same
\* provider, run at the same time.
NoCrossDomain ==
    \A d \in Domain : cache[d] # None =>
        \A s \in Side : cache[d].value[s] # None => cache[d].value[s].by = d

\* However little the answers say, a ladder asks three URLs, four records and one
\* MX, and three more URLs: what an MX record points to is not looked up in DNS
\* again, so that a request waits for eleven timeouts at most.
FewQuestions == \A r \in Request : Len(heard[r]) <= 10

\* Every request that is made comes to an end, whatever the rungs answer, the
\* cache has, and other requests do (resolve, into_credential).
EveryRequestEnds == <>[] \A r \in Request : pc[r] \in {"begin", "done"}

\* A request that is answered from the cache is told of a failure that is less
\* than neg_ttl old, or of a success less than pos_ttl old.
AskedNothing(r) ==
    /\ pc[r] = "begin" /\ pc'[r] \in {"check_imap", "done"}
    /\ Explicit[r] # Side /\ Enabled /\ DomainOf[r] \in Public

ServedFresh ==
    [][\A r \in Request : AskedNothing(r) =>
          now - learnt[DomainOf[r]] <
              IF cache[DomainOf[r]].value = Nothing THEN NegTTL ELSE PosTTL]_vars

-----------------------------------------------------------------------------
(* What the documentation says and the code does not do *)

\* src/autoconfig.rs, neg_ttl: "How long a failed resolution is negatively
\* cached (kept short so a provider that starts publishing autoconfig is picked
\* up soon after)": no request fails because of what was learnt earlier.
FailureKeptBriefly ==
    [][\A r \in Request : AskedNothing(r) /\ outcome'[r] = "autoconfig_failed" =>
          now - learnt[DomainOf[r]] < NegTTL]_vars
=============================================================================

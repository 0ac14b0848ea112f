# A verification of overfwd

overfwd is a stateless HTTP gateway that gives agents e-mail: `POST /email/search`,
`/email/get` and `/email/send`, and the same three actions as MCP tools on
`POST /mcp`. Each request carries its own mailbox credential; the gateway logs in to
the provider's IMAP or SMTP server, does one operation and answers. The state that
survives a request is in memory only: the pool of warm IMAP connections
(`src/pool.rs`) and the cache of autoconfigured provider endpoints
(`src/autoconfig.rs`). This directory holds TLA+ models of the program, the TLC
configurations that check them, and theorems that TLAPS proves about them. Paths in
this document are relative to the repository.

## 1. Inventory

| component | source | state it keeps | operations | what makes it correct |
|---|---|---|---|---|
| connection pool | `src/pool.rs` | a mutex around a deque of idle sessions, each with a key and a time | `take_warm`, `give_back`, `close`, `close_all` | a session has one user at a time, the user's own login, and is in sync; at most `max_idle` are kept; housekeeping delays nobody for ever |
| IMAP reads | `src/imap.rs` | none of its own (a session while a request runs) | `search[_pooled]`, `get[_pooled]`, `acquire`, `release`, `connect_and_login`, `select`, `uid_search`, `uid_fetch_raw`, `logout` | reads happen in the mailbox that was asked for; a broken connection is not pooled; the page returned is the newest part of what matched |
| autoconfiguration | `src/autoconfig.rs` | a mutex around a map from domain to a result with an expiry | `resolve`, `run_ladder`, `http_ladder`, `srv_lookup`, `mx_autoconfig`, `cache_get`, `cache_put` | the first source wins; a domain's entry is about that domain; nothing stale is served; only public domains are asked about |
| mailbox credential | `src/auth.rs` | none | `InlineHeaders::parse`, `into_credential` | a header wins over what was resolved; nothing is dialled unchecked |
| endpoint guard | `src/endpoint.rs` | none | `check`, `is_forbidden_ip` | one non-public address is enough to refuse, in whichever form it is written, and no public one is |
| actions | `src/routes.rs` | none | `do_search`, `do_get`, `do_send`, body limits, search keys | `total` and `truncated` agree with the page, so that a client that pages misses nothing; a UID of a page still names its message in a `get`; the limits agree with each other |
| send | `src/send.rs` | none | `into_message`, `decode_attachments`, `decoded_len`, `sanitize_filename` | the size that is computed before anything is decoded is the size; names are safe wherever they are cut; the disclosure is of what goes out |
| SMTP | `src/smtp.rs` | none | `submit`, `build_envelope`, `build_mime`, `map_smtp_error` | what the caller is told about a message is true and stays true; blind recipients are served and not named |
| MCP | `src/mcp.rs` | none | `mcp_endpoint`, `handle_one`, `tools_call` | one answer per request that wants one, in order |
| gateway key | `src/auth.rs`, `src/config.rs` | configuration | `require_gateway_access` | no action without the key, whatever the environment has in its place |
| start-up | `src/main.rs`, `src/lib.rs`, `src/config.rs` | configuration | `Config::from_env`, the switches that are read apart from it | it serves with what the environment says or not at all |
| OpenAPI, errors | `src/openapi.rs`, `src/error.rs` | none | | the codes are in every model; the document and the statuses are not behaviour that a model tells more about |

How they interact. A route (or an MCP tool call) parses the headers, awaits
`into_credential`, which awaits `Autoconfig::resolve` and `EndpointGuard::check`, and
then awaits one action. The actions call `imap::search` and `imap::get`, which open a
connection each; the pooled forms `search_pooled` and `get_pooled` are public and
tested but no route calls them yet (`src/lib.rs` says that the pool lands in a later
task). The pool's model has both, selected by the constant `Pooled`.

What is hard here: every request is a future that is suspended at awaits, on a
multi-threaded runtime, and may be dropped at any of them; the two shared structures
are read, then something is awaited, then they are written; peers may fall silent;
clocks are read before locks are taken; timeouts exist in some places and not in
others.

## 2. Modules

| module | models | built on |
|---|---|---|
| `Reservoir` | the policy of `Reservoir<T>`: TTL, LRU, cap, as operators on the set of entries | |
| `ReservoirDeque` | the same as the loops of the code on a sequence, one iteration a step; checked and proved against `Reservoir` | `Reservoir` |
| `ImapPool` | requests, the pool, the connections and their peers | `Reservoir`, `SessionStore` |
| `SessionStore` | what a pool promises: an abstract specification | |
| `MCImapPool` | instances of `ImapPool` for TLC | `ImapPool` |
| `ReservoirProofs`, `ReservoirDequeProofs`, `ImapPoolProofs`, `ImapSessionProofs` | theorems | `Reservoir`, `ReservoirDeque`, `ImapPool` |
| `Autoconfig` | `into_credential`, the ladder, the cache, the guard's outcomes | |
| `MCAutoconfig` | instances of `Autoconfig` for TLC | `Autoconfig` |
| `AutoconfigProofs` | theorems | `Autoconfig` |
| `SearchPage` | search keys, limits, SEARCH, `select_newest`, FETCH, the envelope, `get`, and a client that pages, against a mailbox that changes | |
| `SearchPageProofs` | theorems | `SearchPage` |
| `Delivery` | what a caller may conclude from the answer to a send: an abstract specification | |
| `Gateway` | a caller, the REST actions and the MCP endpoint, from the gateway key to the provider's verdict | `Delivery` |
| `MCGateway` | the scripts of the caller for TLC | `Gateway` |
| `GatewayProofs` | theorems | `Gateway` |
| `Lists` | subsequences and sums, spelled out so that they can be proved about | |
| `Settings` | the environment, `Config::from_env` and the gateway key, as operators | |
| `Endpoints` | mailbox headers, `pick_server`, `is_forbidden_ip`, submission security, as operators | `Lists` |
| `Outgoing` | limits, attachments, file names, recipients, envelope, MIME tree and disclosure, as operators | `Lists` |
| `SendAction` | the process from its environment to `POST /email/send`, up to submission | `Settings`, `Endpoints`, `Outgoing` |
| `MCSendAction` | environments, letters, headers and addresses for TLC | `SendAction` |
| `SendActionProofs` | theorems | `SendAction` |

Definitions that a comment introduces with "Slip" are faults: each is a plausible
mistake in the definition after it, and a run finds a property violated when the
definition is replaced by it. They are no part of the models.

### ImapPool

A behaviour is a number of requests, each of which makes one call of `search`, `get`,
or their pooled forms. `pc[r]` is the await or the lock a request is at:

    new -> take -> sweep -> noop -> select -> search -> fetch -> release -> put -> evict -> done
                     \-> login -/      get: select -> fetch            \-> logout -> done

A request opens at most one connection, which is named after it. `entries` is the
deque; an entry's `slot` is the number of the push that put it there, so that an order
on slots is the order in the deque. What runs under the mutex is one step (`Take`,
`Put`); the clock that `take_warm` and `give_back` read before they ask for the lock
is in `clock[r]`, read in the step before. `closing[r]` holds the sessions that
`close_all` has still to log out, one await each (`CloseOne`); the session a request
works on is `session[r]`. `open`, `login`, `selected`, `unread` and `peer` describe
connections: who they are logged in as, what is selected, how many commands have an
unread response, and whether the server answers. A connection whose value is dropped
is closed (`Drop`). `pooledAt` and `disturbed` are history that properties use.

The errors of a command are told apart as far as the code does: `NO` and `BAD`, and
`LOST` for an I/O error or a lost connection. What a refused command is mapped to
(`LoginError`, `SelectError`, `CommandError`) decides whether the session is pooled.

A silent peer (`"hung"`) never answers. `CloseOne` and `NoopFail` do not ask for an
answer, since the code has a timeout there; every other command waits for one, since
the code has none.

### SessionStore

The abstract pool: idle sessions, sessions lent to a borrower, sessions that are only
to be closed, and what each was opened with. `ImapPool` maps `idle` to the connections
of the deque, `lent` to `session`, `doomed` to the union of `closing`.

### Autoconfig

`pc[r]` is the question a request has asked the network: the three URLs, the four SRV
records, the MX record, and the three URLs again for the provider. `acc` and `found`
are the two levels of accumulators. An endpoint is represented by where it was found,
so that "the first source to name a side wins" can be stated. `Hit` and `Miss` hold
everything from the call of `resolve` to its first await, `Put` everything from the
last answer to the guard's first await; each has one use of the cache's mutex. A
request arrives (`Arrives`) with what `DomainOf` and `Explicit` say of it; `MaxRequests`
bounds how many of them do. `heard` is the history of a ladder: the answers it got, in
order, against which `FirstSourceWins` recomputes the result and `FewQuestions` counts.

### SearchPage

One client and one mailbox. The client wants what its filter matches, and pages as the
description of `email_search` tells it to (`src/mcp.rs:348`): while an answer says
`truncated`, it asks for what is below the last UID it was given, which only a raw query
can express. `pc` is the command whose response the gateway awaits. The search key is
abstracted to what can be wrong with it and to whether it filters; the summaries, which
the code sorts newest first, to the set of their UIDs. `Deliver` and `Expunge` may come
between any two steps, `Rebuild` (another UIDVALIDITY) only between two requests,
because a server keeps the numbering for as long as a session has the mailbox selected.
A client that has changed its filter is a client that starts anew. `matched` and `owed`
are history: what SEARCH returned, and what was wanted and present since the first page.

The client may also `get` a UID that an answer listed. `GetAnswer` returns the message
the mailbox has under that UID when it answers, which is compared with the message that
was listed; they may differ only after a `Rebuild`, since `select` discards the
UIDVALIDITY and `search` does not hand it out.

### Gateway and Delivery

One caller that sends POST after POST, to either front end. A POST has the fields that
decide about it (key, mailbox headers, size of the body, what the JSON is) and a
sequence of messages, of which a REST request has one. `pc` is the await of its handler:

    idle -> gate -> handle -> credential -> submit -> reply -> (next message, or idle)
                                        \-> read -/

`Receive` is the middleware and the head of the handler, in the order of the code, which
differs between the front ends: `send` looks at its body before the mailbox headers,
`search` and `get` after them, `/mcp` looks at the size of the body before anything and
at the arguments last. `Conclude` ends a message: it adds the response, if the message
gets one, and goes on or answers the POST. The answers of a batch reach the caller all
at once. `Transfer` and `Reply` are the two halves of `send_raw` that matter: in between,
the provider has the message and may decide about it at any time (`Decide`), also after
`ReplyLost` or `HangUp`. `ReplyLost` is a connection that breaks. A peer may also fall
silent for good without breaking it (`FallSilent`), while it is read from or submitted
to: then no step of the handler is enabled, and only `HangUp` ends the POST, because
neither `submit` nor the reads of `src/imap.rs` have a time limit. `"reply"` stands for
the wait for the reply to the message and for the one to the `QUIT` after it, so that a
provider may fall silent after it has accepted.

`Delivery` says what a caller may conclude: `"sent"` means accepted; `host_unreachable`
means nothing; any other code means that the message is not delivered, then or later;
each message is handed over at most once, in the order of the batch, and only while the
caller waits. `Gateway` implements it with the messages of the current POST as those the
caller waits for. An answer to a REST send that says `host_unreachable` thus is no
invitation to retry: with `Retries`, TLC has the behaviours in which a message is
delivered twice because the caller asked twice, which `Delivery` allows.

### Settings, Endpoints, Outgoing and SendAction

The first three are the pure code of the send path: what the environment is read as,
what the headers and a provider's document say of the endpoints, what becomes of a
letter. Data is told as far as the code does: a header by what can be wrong with it, a
base64 text by how many characters, padding and line breaks it has and what a strict
decoder makes of it (`Tally`), a file name by the classes of its characters, an address
by its octets or segments. `Networks4` and `Networks6` are not code: they are the
networks that the documentation of `src/endpoint.rs` lists, by first and last address,
which `GuardHolds` compares with the bit masks of the code.

`SendAction` puts them in the order of the code:

    off -> serving:  idle -> compose -> gate -> credential -> [pick] -> look/judge imap
                          -> look/judge smtp -> content -> submit -> idle

`Start` is `main` and may be repeated after an exit; `Begin`, `Attach` and `Post` are the
caller, who writes a letter file by file; `Receive` is the middleware and the extractor,
`Credential`, `Pick`, `Look` and `Judge` are `into_credential` with its guard, `DoSend`
is the handler up to the await of `submit`. A part of a request that no earlier step
looks at is chosen when it is looked at, which gives the same behaviours. `request`
keeps the length of the body and what its files measure; `outgoing` is what is
submitted with what was asked for, and what the caller is told. What becomes of a
submitted message is in `Gateway`; here `Submitted` only ends the request.

## 3. Runs

Deadlock is checked in `deque_agrees` and `send_action`. The other runs set
`CHECK_DEADLOCK FALSE`: a system of requests that run once stops when they are answered.

| run | bounds | shows |
|---|---|---|
| `pool_safety` | 3 pooled requests, one account, two passwords, two SMTP endpoints, two mailboxes; one peer that may fail; cap 1, TTL 1, time 0..1 | `TypeOK`, `SingleOwner`, `OwnLogin`, `Bounded`, `IdleInSync`, `ReadsOwnMailbox`, `NoSpuriousFailure`, `ImplementsStore` |
| `pool_liveness` | 2 requests with the same credential, both peers may fail, time 0..2, fair | `HousekeepingEnds`, `AnsweredUnlessPeerHung` |
| `pool_disabled` | 3 requests, one of them outside the pool, cap 0 | `SingleOwner` |
| `deque_agrees` | 2 keys, 4 pushes, clock readings and TTLs 0..2 and caps 0..3 in any order, every iteration of a loop a step | `TakeAgrees`, `PutAgrees` |
| `autoconfig` | two out of six kinds of requests (twice one domain, once with its SMTP server given; the provider that hosts it; a name that is not public; no domain; both endpoints given), all answers from three rungs, TTLs 2 and 1, time 0..2, fair | `TypeOK`, `FirstSourceWins`, `PublicOnly`, `NoCrossDomain`, `FewQuestions`, `ServedFresh`, `EveryRequestEnds` |
| `search_page` | three messages, two of which match, UIDs 1..3, limits absent, 0 and 3 with a default of 1 and a cap of 2, one rebuild | `TypeOK`, `UncutIsAll`, `NoHoles`, `PagingComplete`, `ResultsStayStable` |
| `gateway` | every batch of up to two messages of 19 kinds and of three of the four interesting ones, every combination of key, headers and size for twelve REST bodies and eight of `/mcp`, and four scripts that send twice, fair | `TypeOK`, `AnswersMatch`, `TellsTruth`, `OnlyChecked`, `ImplementsDelivery`, `EndsUnlessSilent` |
| `send_action` | twelve environments with bodies around the limits; every base64 text of up to four characters and some longer ones; every file name of up to four classes of characters; letters; every combination of headers under four environments; every address that bounds a network and its neighbour; server lists of up to three; caps 0 to the word size | `WithinCapFits`, `CapIsExact`, `NamesSafe`, `BlindButServed`, `DisclosesWhatIsSent`, `KeyDecides`, `GuardHolds`, `BestServerChosen` |

Why the bounds are enough to be interesting. With three requests and a cap of one, a
put evicts the other request's connection, a take misses because the only idle
connection has another key, a third request reuses what the first returned, and a
session expires while another request holds the clock reading that decides it: all of
these are in the state space of `pool_safety`. Two time steps with a TTL of one give
every relation of a stored time, an old clock reading and the present that the
comparison with the TTL tells apart. A cap above one matters only to the loops of the
deque, which `deque_agrees` has with caps up to three. In `autoconfig` a failure
is served and expires, a success is served and expires, and two ladders for one domain
end in either order. The rungs of an HTTP ladder are alike, and so are the SRV records;
the three that talk are one of the former and one SRV record of each side, which give
every order in which sides are named by sources of both levels.

With limits below, at and above the cap, and two matches, pages are empty, cut and
whole; three UIDs let a message be expunged and another delivered under a higher UID
while a page is fetched. In `gateway` a batch of two has every pair of fates of two
messages and one of three has an answered message between two that are not; a script of
two POSTs has a verdict that arrives while the next POST is worked on. The key is
required there; that it may not be required is in the theorems only. The proofs of
section 5 have no bounds.

`send_action` has scaled limits: a default cap of 6, a default body limit of 20, a word
that ends at 40, two attachments at most and names of two characters. The overhead then
is 12, so that lengths below, at and above every sum are reached, sums saturate, and
names are longer than the clamp by two characters, which is what its second trim is
about. What is varied together is what one step of the code compares (`MCWorkloads`);
everything else is at its usual value. `body_limit` has the real numbers.

The remaining runs are violations, each of one sentence of the documentation that the
code does not keep:

| run | the sentence | what happens |
|---|---|---|
| `logout_returns` | `src/imap.rs:590`, a failed logout must not mask the result | `imap::logout` has no timeout, so that a silent server keeps the answer back |
| `failure_kept_briefly` | `src/autoconfig.rs:79`, failures are cached briefly | a result with one side is cached as a success and fails requests for the long TTL; `run_ladder` (251-253) calls only an empty result a failure, so it is the purpose of the sentence that is missed rather than its letter |
| `body_limit` | `src/routes.rs:107`, raising the cap never leaves a request within it refused by the transport first (and `src/send.rs:136`, line breaks are tolerated) | nothing is allowed for the line breaks, so that a file of 100 MiB under a cap of 100 MiB, in lines of 76 characters, is refused for the length of the body |
| `every_id_answered` | `src/mcp.rs:269`, only a message without an `id` gets no response | a request with `"id": null` is dropped, and its tool is not run |

None of them breaks an invariant of the other runs. `WithinCapFits` is what holds of the
body limit: the three exceptions (line breaks, a file that cannot be measured, JSON that
leaves less than three bytes per file of the overhead) are all there are.

More observations, which are not counted as disagreements:

- Two `give_back`s may read the clock in one order and take the lock in the other, so
  that the deque is in the order of the lock and not of `stored_at`; a session may be
  older than the TTL when it is reused, because its age is judged before the sweep and
  the `NOOP` are awaited; and nothing sweeps expired sessions without traffic.
- `select` discards the UIDVALIDITY, and `src/imap.rs:546` says that UIDs make results
  stable across requests: they do until the mailbox is rebuilt, which is what
  `ResultsStayStable` says.
- `OVERFWD_AUTOCONFIG_ENABLE` set to a word that is neither disables autoconfiguration,
  while the switches of `Config::from_env` refuse to start.
- A key of the environment with blanks around it is accepted by `Config::from_env`, and
  no request can present it, since tokens are trimmed: `KeyDecides` has this case.
- `pick_server` prefers an SSL entry but keeps only host and port, and the security is
  derived anew from the port (`Security`), so that an entry marked otherwise is used as
  its port says; a provider that only offers STARTTLS is found, not refused with
  `autoconfig_failed` for it.
- A submission has no time limit after the TCP connect. An SMTP provider that falls
  silent keeps the POST open, and the answers of the other messages of its batch back,
  although it may have accepted the message. No document promises otherwise.
- The guard's lookup has no timeout of its own, and its answer is not the one the
  transport dials by, which `src/endpoint.rs` documents.

## 4. Fairness

`FairSpec` of `ImapPool` has weak fairness on the progress of each request that has
been started, because the runtime polls a future that can make progress, and on the
clock. It has none on starting a request (a client need not), none on a peer's failing
and none on its answering: the steps that need an answer are not enabled while the
peer is hung. Under it, `HousekeepingEnds` says that the pool's own work ends although
every peer may be silent, which is what `IO_TIMEOUT` is for, and
`AnsweredUnlessPeerHung` that a request ends unless the very connection it works on is
silent. `logout_returns` is violated under the same fairness.

`FairSpec` of `Autoconfig` has weak fairness on every answer of a ladder, on its end and
on the guard's check, request by request: each question has `settings.timeout`, so that
an answer or a failure comes, and the guard's lookup is one `getaddrinfo`, which gives up
by itself. Arrivals, cancellations and the clock have none. `EveryRequestEnds` then
says that no ladder goes on for ever, through the provider's domain and whatever other
requests write into the cache.

`FairSpec` of `Gateway` has weak fairness on the steps of the handler, since the runtime
polls a future that can make progress. Those that need a peer are enabled only while the
peer is not silent, so that no time limit is assumed where the code has none: the
transport that `build_transport` makes (`AsyncSmtpTransport<Tokio1Executor>`, lettre 0.11,
which is not part of the repository) bounds the TCP connect and neither the replies nor
the `QUIT`, nothing above it adds a limit, and the reads of `src/imap.rs` have none
either. What the fairness does assume of a peer that is not silent is what this means:
in the end it answers, or its connection breaks. There is none on the caller, on falling
silent or on the provider's verdict. `EndsUnlessSilent` says that a POST comes to its end
with all messages of its batch, unless the very peer it waits for has fallen silent: no
step of a message is repeated for ever, and none is left without a way on. The other
specifications state no fairness and have only safety properties.

## 5. Theorems

Assumptions: the set of requests is finite, `Null` is not a request, the constants
have their types (`ConstantsOK`), and the digests of two different passwords differ
(`DigestInjective`; SHA-256 in the code).

`ReservoirProofs` proves the lemmas on the deque: a take splits the entries into the
hit, the rest and the expired, with at most one hit (`TakeSplits`, `TakeOne`); a put
splits them into kept and dead (`PutSplits`); and what a put keeps is at most
`max_idle` (`PutBound`). The last goes by contradiction: the entries that are kept
are those with fewer than `max_idle` above them, and in a larger set the one at the
front has at least that many.

`ImapPoolProofs` proves, for every number of requests, cap and TTL:

- `TypeCorrect`, `SingleOwnership`, `LoginIsolation`: `Spec` keeps `TypeOK`,
  `SingleOwner`, `OwnLogin`;
- `CapHolds`: `Spec` keeps `Bounded`;
- `Refinement`: `Spec` implements `SessionStore`.

The first three follow from the inductive invariant `IInv` (`Invariance`). `OwnLogin`
is not inductive: that a request gets its own login out of the pool needs that every
entry is filed under the key of the login of its connection (`KeysMatch`) and that
digests are injective. `SingleOwner` is not inductive either: that a request that logs
in does not open a connection that exists needs that it has not opened one before
(`Fresh`), and that it does not forget one needs which phases have a session and which
have something to close (`Shape`). `Owned` says `SingleOwner` connection by
connection, which is what the provers handle. Each action has a lemma that it keeps
`IInv`; `NextIInv` puts them together. The cap needs only that slots are distinct.
The refinement has a lemma per step of the store (`TakeLends`, `PutRestores`,
`CondemnsOwn`, `LoginOpens`, `CloseCloses`, `EndDrops`); the other actions are
stutters (`StoreStutter`). That the abstract store lends a session only to its own
login is `OwnLogin` after the step; that it keeps at most `MaxIdle` is `CapHolds`.

`ImapSessionProofs` proves `IdleInSync` (`KeptInSync`), `ReadsOwnMailbox` (`OwnMailbox`)
and `NoSpuriousFailure` (`FailsOnlyWithItsConnection`) from a second inductive invariant
over `ImapPool`, which builds on the first. For each request it says at each of its phases
what is selected and outstanding on the connection it works on, and that the peer of that
connection answers unless it failed in the request's hands (`Calm`); and that every
connection that rests in the pool has nothing outstanding (`Rested`). That a step of one
request leaves the others calm is `OwnSession`: their connections are their own.

`AutoconfigProofs` proves, for every set of requests and domains, that `Autoconfig` keeps
`TypeOK`, `PublicOnly` and `NoCrossDomain`; `FirstSourceWins` (`FirstAnswerWins`), from
the invariant that the two accumulators are at each phase what the answers heard so far
give when the first is kept (`Gathers`); `ServedFresh` (`ServedWithinTTL`), from the
dates of what is in the cache (`Dated`); and `FewQuestions` (`LaddersAreShort`), from the
number of questions that come before each phase (`Counted`).

`SearchPageProofs` proves `TypeOK`, `UncutIsAll` (`UncutPagesAreComplete`), `NoHoles`
(`PagesHaveNoHoles`), `PagingComplete` (`PagingMissesNothing`) and `ResultsStayStable`
(`GetsWhatWasListed`) for every mailbox, filter and set of limits.
The two lemmas that carry them are about the page: what `select_newest` leaves has no
holes (`NewestHasNoHoles`), and a page with as many rows as there were matches is all of
them (`UncutPage`). `PagingComplete` is not inductive. The invariant adds `Fetching`,
that the page in hand is the newest part of what matched, and `Owing`, that whatever the
client is owed is either below its cursor or listed: a page lists everything it skips
over, since an owed message cannot be expunged, and a delivery is always above the
cursor's past because UIDs ascend (`Numbered`). Both hold until a rebuild, which is what
the property assumes.

`GatewayProofs` proves `TypeOK`, `TellsTruth` (`AnswersStayTrue`), `OnlyChecked`
(`NothingUnchecked`), `AnswersMatch` (`EveryMessageAnswered`: one response to each
message that is owed one, in order) and the refinement of `Delivery` (`GatewayDelivers`) for every
script, with batches of any length. `TellsTruth` needs that what is gathered for a batch
is already true and stays so (`Gathered`), and that a message whose answer is still to
be written was handed to nobody but in the step before (`Behind`); `OnlyChecked` that
the phases remember the checks they have passed (`Stage`). The steps of the gateway map
to `Ask` (`Post`), `Hand` (`Transfer`), `Decide`, `Abandon` (`HangUp`), `Tell` (whatever
ends a POST) or a stutter.

`ReservoirDequeProofs` proves, for every set of keys, clock readings, TTLs and caps and
any number of pushes, that the loops of `take` and `put` compute the operators that the
pool's model and its proofs use: `TakeAgrees` (`TakeComputesThePolicy`) and `PutAgrees`
(`PutComputesThePolicy`). So the theorems about the pool are about the code's loops, and
not only about a set that stands for its deque. The invariant has one part per loop:
before the index of `drain_expired` nothing is expired, and what was removed and what is
left make up the deque that the method found (`Draining`); behind the index of
`rposition` no key is the one that is looked for (`Finding`); and what was popped at the
front has at least `max_idle` newer entries, while everything newer than an entry that
is left is left too (`Evicting`). `InOrder` says that slots ascend, whatever the clocks
said. That an ordered deque has as many entries as it is long is `Counting`.

`SendActionProofs` proves every property of `send_action`, for every environment, every
limit and every width of the word. From the first invariant (`SendInvariant`) follow
`WithinCapFits` (`CapFitsBody`), `KeyDecides` (`GateNeedsKey`) and `GuardHolds`
(`GuardIsComplete`). The first rests on the part that a body is no longer than the
rest of its JSON, 4/3 of what its files measure and 8/3 bytes per file (`LengthBounded`),
and on `OverLimit`, that a body over the limit is longer than 4/3 of
the cap and the overhead. The last rests on
lemmas about all IPv4 and all IPv6 addresses: the predicates and bit masks of
`is_forbidden_ip` hold exactly for the addresses of the networks in the documentation
(`Forbidden4Exact`, `Forbidden6Exact`), mapped forms included (`Mapped`).

From the second invariant (`SecondInvariant`) follow `TypeOK` (`TypeCorrect`),
`CapIsExact` (`CapExact`), `NamesSafe` (`NamesAreSafe`), `BlindButServed`
(`BlindAreServed`), `DisclosesWhatIsSent` (`Disclosed`) and `BestServerChosen`
(`BestIsChosen`). It says that the sum kept with the files is the sum of what they
measure and no longer than the body (`SizeOK`), that what is submitted was made of a
letter without objection (`SubmitOK`), and that a letter that was too large was so by the
files of its request (`TooLargeOK`). `CapIsExact` needs `SizeOK` because the code's total
saturates: a request whose sum saturated would be decided wrongly, and there is none,
because its body would not have fitted into a usize either. The properties then are about
the operators:

- what `filter` keeps is the increasing enumeration of the places that pass (`Kept`, and
  `KeptEnds` for its elements and its ends), and the partial sums are what their recursion
  says (`PartialSums`, `SumAppend`). `Keep` picks its elements by their rank, and `SumOf` is
  a recursive function; both are proved by induction over a set of numbers (`Minimal`,
  `Induction`, `Recursion`), which needs no operator as a parameter;
- a text that decodes has as many bytes as `decoded_len` says (`DecodesAsMeasured`), every
  text has a tally of the kind these lemmas are about (`EveryTextIsTallied`), and the
  saturating total is the sum cut off at the largest usize (`TotalSaturates`);
- a name that is trimmed, clamped and trimmed again is safe (`SanitizedIsSafe`);
- `de_recipients` drops nothing but empty parts (`WrittenDown`);
- `pick_server` returns the first of the best (`Picked`).

The assumptions are that lookups and literals are addresses, the requests are made of
what a letter, a header and a file can be (`SendAssumption`), the limits are numbers in order
(`LimitAssumption`), and that the model value for "absent" is none of the values it is
told from (`NoneAssumption`). `DequeAssumption` is that clock readings, TTLs and caps are
numbers.

Only model-checked: the liveness properties `HousekeepingEnds`, `AnsweredUnlessPeerHung`,
`EveryRequestEnds` and `EndsUnlessSilent`, because TLAPS has no ENABLED. Every other property
of a passing run is a theorem.

## 6. Plan

Done: the pool, its policy, its abstract specification; the autoconfiguration; searching,
paging and getting; the two front ends down to submission, and the abstract
specification of delivery; the send path from the environment to submission; the proofs
of section 5.

Next, in this order:

1. The front ends of `Gateway` compared: for which requests the REST action and the MCP
   tool give the same code. They make the same checks in another order, so that this can
   only hold of requests with one fault.
2. The reads of `Gateway` composed with `SearchPage` over a pooled connection, when the
   routes use the pool.
3. The compilation of a structured search into a search key, with its quoting, as an
   operator against the grammar of SEARCH.

## 7. Not modelled

- Time is in ticks. The durations of timeouts are not: that a timeout passes is a step
  that may always happen. In `cache_put` the clock is read just before the lock is
  taken; the model does both at once.
- A poisoned mutex. `ImapPool::lock` recovers from it; nothing that runs under it
  panics.
- In `Gateway`, a body is small, large or huge; the arithmetic of the limits is in `Outgoing`.
- One caller at a time in `Gateway`: handlers share nothing but configuration there, and
  the structures they do share are those of `ImapPool` and `Autoconfig`.
- A mailbox in `SearchPage` is read by one client; a UID is not reused within a
  UIDVALIDITY, as the protocol demands.
- MIME, XML, JSON and header parsing, wording of errors, HTTP statuses, logging, the
  OpenAPI document. In `Autoconfig` an XML document or a DNS answer is the set of sides
  it names; in `SendAction` a document is its list of servers.
- The parsing and rendering of messages (in `src/imap.rs`): a pure conversion of bytes
  by a library.
- The HTTP and DNS back ends of autoconfiguration (redirects, the cap on a body, what is
  resolved for a fetch): external libraries, whose outcome is the answer of a rung.
- The text of a search key. A raw query counts as one command, which is what
  `validated_query` is for.
- The durations of the settings, and the bytes of the MIME that are sent.
- The e-mail address that is passed to provider-hosted autoconfiguration, which may
  make the answer for one user of a domain differ from that for another although the
  cache has one entry for the domain.
- A server that answers a command with data that does not parse counts as a lost
  connection.
- `is_public_domain` is a set given as a constant; in `Autoconfig` the guard is its
  outcome, which `SendAction` computes.

----------------------------- MODULE SearchPage -----------------------------
(***************************************************************************)
(* What search and get tell a client about a mailbox that changes: the     *)
(* search key and the limit of src/routes.rs, SEARCH, select_newest and    *)
(* FETCH of src/imap.rs, and the envelope of SearchResponse.               *)
(*                                                                         *)
(* The client lists everything it wants page by page, as the description   *)
(* of the email_search tool tells it to: while an answer says `truncated`, *)
(* it asks again for what is below the last UID it was given.  Meanwhile   *)
(* messages are delivered and expunged, and between two requests the       *)
(* server may rebuild the mailbox under another UIDVALIDITY.  Summaries    *)
(* are sorted before they are returned, so that a page is a set of UIDs.   *)
(*                                                                         *)
(* A definition introduced by "Slip" is no part of the model: it is a      *)
(* plausible fault of the definition after it, which a run must detect.    *)
(***************************************************************************)
EXTENDS Integers, FiniteSets

CONSTANTS
    Message,        \* the messages that may be delivered
    Hit,            \* those that the client's filter matches
    Limit,          \* the limits a client may send, None when it sends none
    DefaultLimit,   \* DEFAULT_SEARCH_LIMIT
    MaxLimit,       \* MAX_SEARCH_LIMIT
    MaxUid,         \* bound: the greatest UID
    MaxRebuilds,    \* bound: how often UIDVALIDITY changes
    None            \* no message, no limit

VARIABLES
    box,        \* the mailbox: the message with each UID
    uidnext,    \* the UID of the next message
    rebuilds,   \* how often UIDVALIDITY has changed
    fresh,      \* the messages that were not delivered yet
    pc,         \* what the gateway waits for
    limit,      \* effective_limit of the request
    uids,       \* the UIDs select_newest leaves, or the one of a get
    total,      \* how many UIDs SEARCH returned
    response,   \* the answer to the last request
    wanted,     \* client: the messages its filter matches, {} before the first page
    cursor,     \* client: it has seen the pages from this UID on
    finished,   \* client: the last page was not truncated
    listed,     \* client: the UIDs it was given, each with its message
    matched,    \* history: the UIDs the last SEARCH returned
    owed        \* history: what was wanted and there all the time since the first page

mailbox == <<box, uidnext, rebuilds, fresh>>
request == <<limit, uids, total>>
client  == <<wanted, cursor, finished, listed>>
vars    == <<mailbox, pc, request, response, client, matched, owed>>

Uid == 1 .. MaxUid

Present == {u \in Uid : box[u] # None}
Contents == {box[u] : u \in Present}

ASSUME ConstantsOK ==
    /\ IsFiniteSet(Message) /\ Hit \subseteq Message /\ Hit # {} /\ None \notin Message
    /\ Limit \subseteq Nat \cup {None} /\ None \notin Nat
    /\ DefaultLimit \in Nat /\ MaxLimit \in Nat /\ MaxUid \in Nat /\ MaxRebuilds \in Nat

NoPage == [status |-> "none", results |-> {}, total |-> 0, truncated |-> FALSE]

Init ==
    /\ box = [u \in Uid |-> None] /\ uidnext = 1 /\ rebuilds = 0 /\ fresh = Message
    /\ pc = "idle" /\ limit = 0 /\ uids = {} /\ total = 0
    /\ response = NoPage
    /\ wanted = {} /\ cursor = MaxUid + 1 /\ finished = FALSE /\ listed = {}
    /\ matched = {} /\ owed = {}

-----------------------------------------------------------------------------
(* The request *)

\* Slip: `.min(MAX_SEARCH_LIMIT)` is left out.
UnclampedLimit(asked) == IF asked = None THEN DefaultLimit ELSE asked

\* SearchRequest::effective_limit
EffectiveLimit(asked) ==
    LET given == IF asked = None THEN DefaultLimit ELSE asked
    IN  IF given < MaxLimit THEN given ELSE MaxLimit

\* SearchRequest::search_key: the structured params or the raw query, each
\* unset, well formed or not, and not both; {} stands for bad_request.
Filled == {"unset", "good", "bad"}

SearchKey(structured, query) ==
    IF structured = "bad" \/ (structured # "unset" /\ query # "unset") \/ query = "bad" THEN {}
    ELSE IF structured = "unset" /\ query = "unset" THEN Message ELSE Hit

\* Slip: the oldest matches are kept.
SelectOldest(found, n) == {u \in found : Cardinality({v \in found : v < u}) < n}

\* select_newest: what is left of the UIDs that SEARCH found.
SelectNewest(found, n) == {u \in found : Cardinality({v \in found : v > u}) < n}

\* Slip: the matches are counted after they are narrowed.
CountNarrowed(found, n) == Cardinality(SelectNewest(found, n))

\* select_newest: the count it returns, captured before truncation.
Count(found, n) == Cardinality(found)

\* Slip: `truncated` is judged by the limit.
PageByLimit(count, rows) ==
    [status |-> "ok", results |-> rows, total |-> count, truncated |-> count > limit]

\* SearchResponse::from_results
FromResults(count, rows) ==
    [status |-> "ok", results |-> rows, total |-> count, truncated |-> count > Cardinality(rows)]

\* The client sends a search: a first one, or one with a raw query for what is
\* below its cursor.  do_search refuses a filter that compiles to no key.
Search ==
    /\ pc = "idle" /\ ~finished
    /\ \E structured, query \in Filled, asked \in Limit :
          LET key == SearchKey(structured, query)
          IN  /\ wanted = {} \/ (structured = "unset" /\ query # "unset")
              /\ IF key = {}
                 THEN /\ response' = [NoPage EXCEPT !.status = "bad_request"]
                      /\ UNCHANGED <<pc, request, wanted, owed>>
                 ELSE /\ pc' = "search"
                      /\ limit' = EffectiveLimit(asked)
                      /\ response' = NoPage
                      /\ wanted' = IF wanted = {} THEN key ELSE wanted
                      /\ owed' = IF wanted = {} THEN key \cap Contents ELSE owed
                      /\ UNCHANGED <<uids, total>>
    /\ matched' = {}
    /\ UNCHANGED <<mailbox, cursor, finished, listed>>

\* search_on is over: the page is returned, and the client turns it.
Answer(count, rows) ==
    LET page == FromResults(count, rows)
    IN  /\ pc' = "idle"
        /\ response' = page
        /\ listed' = listed \cup {<<u, box[u]>> : u \in rows}
        /\ cursor' \in IF rows = {} THEN {cursor}
                       ELSE {u \in rows : \A v \in rows : u <= v}
        /\ finished' = (~page.truncated \/ cursor' = 1)
        /\ UNCHANGED <<mailbox, limit, wanted, owed>>

\* SEARCH is answered: FETCH the newest hits, or return when there are none to
\* fetch.
SearchAnswer ==
    /\ pc = "search"
    /\ matched' = {u \in Present : box[u] \in wanted /\ u < cursor}
    /\ total' = Count(matched', limit)
    /\ uids' = SelectNewest(matched', limit)
    /\ IF uids' = {}
       THEN Answer(total', {})
       ELSE pc' = "fetch" /\ UNCHANGED <<mailbox, limit, response, client, owed>>

\* FETCH is answered: a UID that is gone by now is simply absent.
FetchAnswer ==
    /\ pc = "fetch"
    /\ Answer(total, uids \cap Present)
    /\ UNCHANGED <<uids, total, matched>>

\* A command or the connection fails: the client hears of it and may try again.
Fail ==
    /\ pc \in {"search", "fetch", "get"}
    /\ pc' = "idle"
    /\ response' = [NoPage EXCEPT !.status = "failed"]
    /\ UNCHANGED <<mailbox, request, client, matched, owed>>

\* The client sends a get for a UID it was given.
Get ==
    /\ pc = "idle"
    /\ \E entry \in listed : uids' = {entry[1]}
    /\ pc' = "get"
    /\ response' = NoPage
    /\ UNCHANGED <<mailbox, limit, total, client, matched, owed>>

\* Slip: the UID is taken for a sequence number.
GetBySequence ==
    LET found == {v \in Present : Cardinality({w \in Present : w <= v}) \in uids}
    IN  /\ pc = "get"
        /\ pc' = "idle"
        /\ response' = [NoPage EXCEPT !.status = IF found = {} THEN "not_found" ELSE "message",
                                      !.results = found]
        /\ UNCHANGED <<mailbox, request, client, matched, owed>>

\* get_on: the message with the UID, or not_found.
GetAnswer ==
    LET found == uids \cap Present
    IN  /\ pc = "get"
        /\ pc' = "idle"
        /\ response' = [NoPage EXCEPT !.status = IF found = {} THEN "not_found" ELSE "message",
                                      !.results = found]
        /\ UNCHANGED <<mailbox, request, client, matched, owed>>

-----------------------------------------------------------------------------
(* The mailbox *)

Deliver ==
    /\ uidnext <= MaxUid
    /\ \E m \in fresh :
          /\ box' = [box EXCEPT ![uidnext] = m]
          /\ fresh' = fresh \ {m}
    /\ uidnext' = uidnext + 1
    /\ UNCHANGED <<rebuilds, pc, request, response, client, matched, owed>>

Expunge ==
    /\ \E u \in Present :
          /\ box' = [box EXCEPT ![u] = None]
          /\ owed' = owed \ {box[u]}
    /\ UNCHANGED <<uidnext, rebuilds, fresh, pc, request, response, client, matched>>

\* The messages are numbered anew; no session is open then.
Rebuild ==
    /\ pc = "idle" /\ rebuilds < MaxRebuilds
    /\ LET n == Cardinality(Present)
       IN  /\ box' \in [Uid -> Contents \cup {None}]
           /\ {box'[u] : u \in 1 .. n} = Contents
           /\ \A u \in Uid : u > n => box'[u] = None
           /\ uidnext' = n + 1
    /\ rebuilds' = rebuilds + 1
    /\ UNCHANGED <<fresh, pc, request, response, client, matched, owed>>

Next ==
    \/ Search \/ SearchAnswer \/ FetchAnswer \/ Get \/ GetAnswer \/ Fail
    \/ Deliver \/ Expunge \/ Rebuild

Spec == Init /\ [][Next]_vars

-----------------------------------------------------------------------------
(* Properties *)

TypeOK ==
    /\ box \in [Uid -> Message \cup {None}]
    /\ uidnext \in 1 .. MaxUid + 1 /\ rebuilds \in Nat /\ fresh \subseteq Message
    /\ pc \in {"idle", "search", "fetch", "get"}
    /\ limit \in 0 .. MaxLimit /\ uids \subseteq Uid /\ total \in Nat
    /\ response \in [status : {"none", "ok", "message", "bad_request", "failed", "not_found"},
                     results : SUBSET Uid, total : Nat, truncated : BOOLEAN]
    /\ wanted \subseteq Message /\ cursor \in 1 .. MaxUid + 1 /\ finished \in BOOLEAN
    /\ listed \subseteq Uid \X Message
    /\ matched \subseteq Uid /\ owed \subseteq Message

\* A client that is not told of a truncation holds everything that matched
\* when the mailbox was searched, although messages may have been expunged
\* between the SEARCH and the FETCH.
UncutIsAll ==
    response.status = "ok" /\ ~response.truncated => response.results = matched

\* A page has no holes: a match that is newer than some row of it, and still
\* there, is a row of it.
NoHoles ==
    rebuilds = 0 /\ response.status = "ok" =>
        \A row \in response.results, u \in matched :
            u > row /\ u \in Present => u \in response.results

\* A client that pages until it is not told of a truncation has been given
\* every message that matched and was there from its first search to its last,
\* whatever is delivered and expunged in the meantime.
PagingComplete ==
    finished /\ rebuilds = 0 =>
        \A m \in owed : \E u \in Uid : <<u, m>> \in listed

\* The message that a get returns for a UID is the one that a search listed
\* with it, whatever was delivered and expunged since, until the mailbox gets
\* another UIDVALIDITY (src/imap.rs, uid_search: "so results stay stable
\* across the connectionless, stateless request model").
ResultsStayStable ==
    [][response.status = "none" /\ response'.status = "message" /\ rebuilds = 0 =>
          \A u \in uids, v \in response'.results : <<u, box[v]>> \in listed]_vars
=============================================================================

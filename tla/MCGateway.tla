----------------------------- MODULE MCGateway ------------------------------
(* Instances of Gateway for TLC. *)
EXTENDS Gateway

Call(id, name, arguments, content) ==
    [id |-> id, form |-> "ok", method |-> "tools/call", name |-> name,
     arguments |-> arguments, content |-> content]

SendOf(id) == Call(id, "email_send", "good", "fine")
Ask(id, method) == [SendOf(id) EXCEPT !.method = method, !.name = "none"]

\* The messages of the four kinds that make a batch interesting, and one of
\* every other kind.
Mixed == {SendOf("given"), SendOf("null"), Call("given", "email_search", "good", "fine"),
          Ask("absent", "notification")}

Every == Mixed \cup
    {SendOf("absent"), Call("given", "email_send", "bad", "fine"),
     Call("given", "email_send", "good", "invalid"), Call("given", "email_get", "good", "invalid"),
     Call("given", "none", "good", "fine"), Call("given", "unknown", "good", "fine"),
     Ask("given", "notification"), Ask("given", "local"), Ask("null", "local"), Ask("given", "other"),
     [SendOf("given") EXCEPT !.form = "malformed"], [SendOf("null") EXCEPT !.form = "malformed"],
     [SendOf("absent") EXCEPT !.form = "malformed"], [SendOf("given") EXCEPT !.form = "version"],
     [Ask("given", "notification") EXCEPT !.form = "version"]}

Batch(items) ==
    [surface |-> "mcp", key |-> "right", headers |-> "good", size |-> "small", json |-> "batch",
     items |-> items]

Varied(p) ==
    {[p EXCEPT !.key = k, !.headers = h, !.size = s] :
        k \in {"right", "wrong"}, h \in {"good", "missing"}, s \in {"small", "large", "huge"}}

RestPost(name, arguments, content) ==
    [Batch(<<Call("given", name, arguments, content)>>) EXCEPT !.surface = "rest", !.json = "single"]

\* Every batch of up to two messages, and of three of the interesting kinds.
Batches ==
    {Batch(items) : items \in (Every \X Every) \cup (Mixed \X Mixed \X Mixed)}
    \cup {[Batch(<<m>>) EXCEPT !.json = "single"] : m \in Every}

\* Every combination of key, headers and size, for a few bodies.
Checks ==
    UNION {Varied(p) :
        p \in {Batch(<<SendOf("given"), m>>) : m \in Mixed} \cup
              {Batch(<<>>), [Batch(<<>>) EXCEPT !.json = "none"], [Batch(<<>>) EXCEPT !.json = "scalar"],
               Batch(<<[SendOf("given") EXCEPT !.form = "malformed"]>>)} \cup
              {RestPost(name, arguments, content) :
                  name \in Tool, arguments \in {"good", "bad"}, content \in {"fine", "invalid"}}}

\* A caller that sends a POST again, to the same front end or to the other.
Retries ==
    LET rest == RestPost("email_send", "good", "fine")
        one  == Batch(<<SendOf("given")>>)
        two  == Batch(<<SendOf("given"), SendOf("given")>>)
    IN  {<<rest, rest>>, <<rest, one>>, <<two, one>>, <<two, two>>}

MCScript == {<<p>> : p \in Batches \cup Checks} \cup Retries
=============================================================================

---------------------------- MODULE MCSendAction ----------------------------
(***************************************************************************)
(* Instances of SendAction for TLC.  The limits are scaled down; every     *)
(* address that bounds a network is there, with its neighbour outside.     *)
(***************************************************************************)
EXTENDS SendAction, TLC

-----------------------------------------------------------------------------
(* Environments: a plain one, and what differs from it in one variable or two *)

Plain ==
    [bind |-> "unset", requireKey |-> "unset", key |-> None, mcp |-> "unset", block |-> "unset",
     cap |-> None, autoconfig |-> "unset", insecure |-> "unset"]
Keyed == [Plain EXCEPT !.requireKey = "true", !.key = [core |-> "key", padded |-> FALSE]]
Cap(n) == [parses |-> TRUE, value |-> n]

Postures ==
    [plain     |-> Plain,
     keyed     |-> Keyed,
     badBind   |-> [Plain EXCEPT !.bind = "other"],
     keyless   |-> [Keyed EXCEPT !.key = None],
     padded    |-> [Keyed EXCEPT !.key.padded = TRUE],
     emptyKey  |-> [Keyed EXCEPT !.key.core = ""],
     badSwitch |-> [Plain EXCEPT !.mcp = "other"],
     block     |-> [Plain EXCEPT !.block = "true"],
     noFiles   |-> [Plain EXCEPT !.cap = Cap(0)],
     raised    |-> [Plain EXCEPT !.cap = Cap(9)],
     unlimited |-> [Plain EXCEPT !.cap = Cap(MaxUsize)],
     badCap    |-> [Plain EXCEPT !.cap = [parses |-> FALSE, value |-> 0]]]

-----------------------------------------------------------------------------
(* Letters and files *)

Texts  == UNION {[1 .. n -> Base64Char] : n \in 0 .. 4}
          \cup {<<"A", "A", "A", "A", "A", "A", "A", "A">>, <<"A", "A", "A", "A", "A", "A", "A", "=">>,
                <<"A", "A", "A", "A", "A", "A", "=", "=">>, <<"A", "break", "A", "=", "=">>,
                <<"x", "x", "x", "x", "break", "x", "x", "x", "x", "break">>}
Names  == UNION {[1 .. n -> NameChar] : n \in 0 .. 4}
File(name, type, content) == [filename |-> name, type |-> type, content |-> content]
Plenty == Tally(<<"A", "A", "A", "A">>)

AnyFile ==
    {File(<<"letter">>, "good", Tally(t)) : t \in Texts}
    \cup {File(n, "good", Plenty) : n \in Names}
    \cup {File(<<"letter">>, type, Plenty) : type \in ContentType}
FewFiles ==
    {File(<<"letter">>, "parameters", Tally(t)) :
        t \in {<<"A", "A", "=", "=">>, <<"A", "A", "A", "A">>, <<"x", "x", "=", "=">>, [i \in 1 .. 12 |-> "A"]}}
OneFile == {File(<<"letter">>, "good", Plenty)}

Line(s) == [form |-> "line", items |-> s]
List(s) == [form |-> "list", items |-> s]
Note    == [from |-> "ann", to |-> Line(<<"bob">>), cc |-> List(<<>>), bcc |-> List(<<>>),
            text |-> "short", html |-> None]

AnyLetter ==
    {Note, [Note EXCEPT !.to = Line(<<"">>)], [Note EXCEPT !.to = List(<<"">>)],
     [Note EXCEPT !.to = Line(<<"ann", "", "bob">>), !.bcc = Line(<<"bob", "cyd">>)],
     [Note EXCEPT !.cc = Line(<<"cyd">>), !.bcc = List(<<"ann">>), !.html = "long"],
     [Note EXCEPT !.bcc = List(<<"no address">>)], [Note EXCEPT !.from = "no address"],
     [Note EXCEPT !.text = None], [Note EXCEPT !.text = None, !.html = "long"]}

-----------------------------------------------------------------------------
(* Endpoints *)

At(host, port) == [host |-> host, port |-> port]
Fine == [auth |-> "user@domain", domain |-> "absent", form |-> [s \in Side |-> "good"],
         hostPort |-> [s \in Side |-> At("name", IF s = "imap" THEN 993 ELSE 465)]]
Bare == [Fine EXCEPT !.form = [s \in Side |-> "absent"]]

AnyHeaders ==
    {[Fine EXCEPT !.auth = a] : a \in AuthHeader} \cup {[Bare EXCEPT !.auth = a] : a \in AuthHeader}
    \cup {[Fine EXCEPT !.form[s] = f] : s \in Side, f \in TargetForm}
    \cup {[Bare EXCEPT !.auth = "user", !.domain = d] : d \in DomainHeader}
    \cup {[Fine EXCEPT !.hostPort[s].host = h] : s \in Side, h \in HostKind}
    \cup {[Fine EXCEPT !.hostPort["smtp"].port = 587]}

Server(s, hostname, port, socket) == [kind |-> s, hostname |-> hostname, port |-> port, socket |-> socket]

\* For a side: what is not usable first, what is not SSL before what is.
ServerLists(s) ==
    LET pool == {Server(s, "name", 465, "SSL"), Server(s, "special", 3465, "SSL"), Server(s, "name", 587, "STARTTLS"),
                 Server(s, "name", None, "SSL"), Server(s, "", 465, "SSL"), Server(s, None, 465, "SSL"),
                 Server(s, "name", 25, None), Server(IF s = "imap" THEN "smtp" ELSE "imap", "name", 1, "SSL")}
    IN  UNION {[1 .. n -> pool] : n \in 0 .. 3}
MCDocuments ==
    {[s \in Side |-> IF s = side THEN list ELSE <<Server(s, "name", 993, "SSL")>>] :
        side \in Side, list \in ServerLists("imap") \cup ServerLists("smtp")}

MCLiterals ==
    {<<1, 1, 1, 1>>, <<0, 0, 0, 0>>, <<0, 255, 255, 255>>, <<9, 255, 255, 255>>, <<10, 0, 0, 0>>,
     <<10, 255, 255, 255>>, <<11, 0, 0, 0>>, <<100, 63, 255, 255>>, <<100, 64, 0, 0>>, <<100, 127, 255, 255>>,
     <<100, 128, 0, 0>>, <<126, 255, 255, 255>>, <<127, 0, 0, 1>>, <<127, 255, 255, 255>>, <<128, 0, 0, 0>>,
     <<169, 253, 255, 255>>, <<169, 254, 0, 0>>, <<169, 254, 169, 254>>, <<169, 255, 0, 0>>,
     <<172, 15, 255, 255>>, <<172, 16, 0, 0>>, <<172, 31, 255, 255>>, <<172, 32, 0, 0>>, <<192, 0, 1, 255>>,
     <<192, 0, 2, 0>>, <<192, 0, 2, 255>>, <<192, 0, 3, 0>>, <<192, 167, 255, 255>>, <<192, 168, 0, 0>>,
     <<192, 168, 255, 255>>, <<192, 169, 0, 0>>, <<198, 51, 99, 255>>, <<198, 51, 100, 0>>,
     <<198, 51, 101, 0>>, <<203, 0, 112, 255>>, <<203, 0, 113, 255>>, <<203, 0, 114, 0>>,
     <<223, 255, 255, 255>>, <<224, 0, 0, 0>>, <<239, 255, 255, 255>>, <<240, 0, 0, 0>>,
     <<255, 255, 255, 254>>, <<255, 255, 255, 255>>,
     <<0, 0, 0, 0, 0, 0, 0, 0>>, <<0, 0, 0, 0, 0, 0, 0, 1>>, <<0, 0, 0, 0, 0, 0, 0, 2>>,
     <<0, 0, 0, 0, 0, 65535, 2560, 1>>, <<0, 0, 0, 0, 0, 65535, 257, 257>>, <<0, 0, 0, 0, 0, 65535, 32512, 1>>,
     <<0, 0, 0, 0, 0, 65534, 2560, 1>>, <<0, 0, 0, 0, 1, 65535, 2560, 1>>, <<8193, 0, 0, 0, 0, 0, 0, 1>>,
     <<64511, 0, 0, 0, 0, 0, 0, 0>>, <<64512, 0, 0, 0, 0, 0, 0, 0>>, <<65023, 0, 0, 0, 0, 0, 0, 0>>,
     <<65024, 0, 0, 0, 0, 0, 0, 0>>, <<65151, 65535, 0, 0, 0, 0, 0, 0>>, <<65152, 0, 0, 0, 0, 0, 0, 0>>,
     <<65215, 0, 0, 0, 0, 0, 0, 0>>, <<65216, 0, 0, 0, 0, 0, 0, 0>>, <<65279, 0, 0, 0, 0, 0, 0, 0>>,
     <<65280, 0, 0, 0, 0, 0, 0, 0>>, <<65535, 0, 0, 0, 0, 0, 0, 0>>}
MCLookups ==
    {None, {}, {<<1, 1, 1, 1>>}, {<<10, 0, 0, 0>>}, {<<1, 1, 1, 1>>, <<8193, 0, 0, 0, 0, 0, 0, 1>>},
     {<<1, 1, 1, 1>>, <<10, 0, 0, 0>>}, {<<1, 1, 1, 1>>, <<0, 0, 0, 0, 0, 65535, 2560, 1>>}}

-----------------------------------------------------------------------------
(* What is varied together *)

Usual == [env |-> Plain, rests |-> {1}, files |-> <<OneFile>>, letters |-> {Note}, headers |-> {Fine}]

MCWorkloads ==
    [posture \in DOMAIN Postures |->
        [Usual EXCEPT !.env = Postures[posture], !.rests = {1, 6, 9, 12}, !.files = <<FewFiles, OneFile>>]]
    @@ [files      |-> [Usual EXCEPT !.files = <<AnyFile, FewFiles, OneFile>>,
                                     !.letters = {Note, [Note EXCEPT !.html = "long"]}],
        letters    |-> [Usual EXCEPT !.letters = AnyLetter],
        headers    |-> [Usual EXCEPT !.headers = AnyHeaders],
        blockAll   |-> [Usual EXCEPT !.env.block = "true", !.headers = AnyHeaders],
        disableAll |-> [Usual EXCEPT !.env.autoconfig = "other", !.headers = AnyHeaders],
        trustAll   |-> [Usual EXCEPT !.env.insecure = "true", !.headers = AnyHeaders]]

-----------------------------------------------------------------------------
(* The real limits, with a file of 100 MiB under a cap of 100 MiB and its     *)
(* base64 broken into lines of 76 characters                                 *)

RaisedWorkloads ==
    [raised |-> [Usual EXCEPT !.env.cap = Cap(104857600),
                              !.files = <<{File(<<"letter">>, "good",
                                               [chars |-> 139810136, padding |-> 2,
                                                breaks |-> 2 * 1839606, bytes |-> 104857600])}>>]]
=============================================================================

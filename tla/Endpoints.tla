----------------------------- MODULE Endpoints ------------------------------
(***************************************************************************)
(* The endpoints of a request: the X-Mailbox-* headers of src/auth.rs that *)
(* name them, pick_server of src/autoconfig.rs that finds them in a        *)
(* provider's document, is_forbidden_ip of src/endpoint.rs that judges     *)
(* their addresses, and the security that src/smtp.rs reads off the port.  *)
(*                                                                         *)
(* A definition introduced by "Slip" is no part of the model: it is a      *)
(* plausible fault of the definition after it, which a run must detect.    *)
(***************************************************************************)
EXTENDS Lists

CONSTANT None       \* absent, no result

Side == {"imap", "smtp"}

\* HostPort: the guard looks at what kind of name the host is, the transport
\* at the port.
HostKind == {"literal", "special", "name"}
HostPort == [host : HostKind, port : Nat]

-----------------------------------------------------------------------------
(* The headers *)

\* X-Mailbox-Auth, X-Mailbox-Imap, -Smtp and -Domain by what can be wrong with
\* them; a user name may have a domain after an `@`, or an empty one.
AuthHeader   == {"absent", "not ascii", "no scheme", "no base64", "no utf8", "no colon", "no user",
                 "user", "user@", "user@domain"}
TargetForm   == {"absent", "not ascii", "no colon", "no host", "bad port", "good"}
DomainHeader == {"absent", "not ascii", "blank", "domain"}

\* InlineHeaders::parse with parse_basic, required_str, optional_host_port and
\* HostPort::parse
HeadersParse(auth, target, domain) ==
    /\ auth \in {"user", "user@", "user@domain"}
    /\ \A s \in Side : target[s] \in {"absent", "good"}
    /\ domain # "not ascii"

\* autoconfig_domain: whether there is a domain to resolve from.
HasDomain(auth, domain) == domain = "domain" \/ auth = "user@domain"

-----------------------------------------------------------------------------
(* The servers of a document *)

\* XmlServer; `kind` is compared without regard to case.
XmlServer == [kind : Side, hostname : HostKind \cup {None, ""}, port : Nat \cup {None},
              socket : {None, "SSL", "STARTTLS"}]

Usable(server, kind) ==
    server.kind = kind /\ server.hostname \notin {None, ""} /\ server.port # None

First(servers) == IF servers = <<>> THEN None ELSE servers[1]

\* Slip: the list is narrowed to SSL before it is narrowed to usable servers.
PickServerTlsFirst(servers, kind) ==
    LET own == Keep(servers, {i \in DOMAIN servers : servers[i].kind = kind})
        ssl == Keep(own, {i \in DOMAIN own : own[i].socket = "SSL"})
        few == IF ssl # <<>> THEN ssl ELSE own
    IN  First(Keep(few, {i \in DOMAIN few : Usable(few[i], kind)}))

\* pick_server: the first usable SSL entry of the kind, or the first usable one.
PickServer(servers, kind) ==
    LET candidates == Keep(servers, {i \in DOMAIN servers : Usable(servers[i], kind)})
        ssl        == Keep(candidates, {i \in DOMAIN candidates : candidates[i].socket = "SSL"})
    IN  First(IF ssl # <<>> THEN ssl ELSE candidates)

\* SmtpSecurity::for_submission_port
Security(port, insecure) ==
    IF port \in {465, 3465} THEN [tls |-> TRUE, anyCertificate |-> insecure]
    ELSE [tls |-> FALSE, anyCertificate |-> FALSE]

-----------------------------------------------------------------------------
(* Addresses *)

\* IpAddr: the octets of one kind, the segments of the other.
Address4 == [1 .. 4 -> {n \in Nat : n <= 255}]
Address6 == [1 .. 8 -> {n \in Nat : n <= 65535}]

\* The predicates of std::net::Ipv4Addr, and the two ranges spelled out:
\* `& 0xc0 == 0x40` says that the two upper bits are 01.
IsForbidden4(a) ==
    \/ a[1] = 127                                               \* is_loopback
    \/ a[1] = 10 \/ (a[1] = 172 /\ a[2] \in 16 .. 31) \/ (a[1] = 192 /\ a[2] = 168)
    \/ a[1] = 169 /\ a[2] = 254                                 \* is_link_local
    \/ a = <<0, 0, 0, 0>> \/ a = <<255, 255, 255, 255>>
    \/ a[1] \in 224 .. 239                                      \* is_multicast
    \/ <<a[1], a[2], a[3]>> \in {<<192, 0, 2>>, <<198, 51, 100>>, <<203, 0, 113>>}
    \/ a[1] = 100 /\ a[2] \div 64 = 1                           \* CGNAT
    \/ a[1] = 0                                                 \* this network

\* to_ipv4_mapped
IsMapped(a)  == a[6] = 65535 /\ \A i \in 1 .. 5 : a[i] = 0
MappedV4(a) == <<a[7] \div 256, a[7] % 256, a[8] \div 256, a[8] % 256>>

\* `& 0xfe00 == 0xfc00` and `& 0xffc0 == 0xfe80` keep the upper 7 and 10 bits.
IsForbidden6(a) ==
    IF IsMapped(a) THEN IsForbidden4(MappedV4(a))
    ELSE \/ \A i \in 1 .. 7 : a[i] = 0 /\ a[8] \in {0, 1}       \* is_unspecified, is_loopback
         \/ a[1] \div 256 = 255                                 \* is_multicast
         \/ a[1] \div 512 = 126                                 \* unique local
         \/ a[1] \div 64 = 1018                                 \* link-local

IsForbidden(a) == IF a \in Address4 THEN IsForbidden4(a) ELSE IsForbidden6(a)

\* Slip: one good answer is enough.
AllForbidden(answers) == \A a \in answers : IsForbidden(a)

\* EndpointGuard::check, on the addresses of a literal or a lookup
AnyForbidden(answers) == \E a \in answers : IsForbidden(a)

-----------------------------------------------------------------------------
(* The same as a table of networks, for the properties *)

\* The networks that the documentation of src/endpoint.rs names, each by its
\* first and last address.
Networks4 ==
    {<<<<0, 0, 0, 0>>, <<0, 255, 255, 255>>>>, <<<<10, 0, 0, 0>>, <<10, 255, 255, 255>>>>,
     <<<<100, 64, 0, 0>>, <<100, 127, 255, 255>>>>, <<<<127, 0, 0, 0>>, <<127, 255, 255, 255>>>>,
     <<<<169, 254, 0, 0>>, <<169, 254, 255, 255>>>>, <<<<172, 16, 0, 0>>, <<172, 31, 255, 255>>>>,
     <<<<192, 0, 2, 0>>, <<192, 0, 2, 255>>>>, <<<<192, 168, 0, 0>>, <<192, 168, 255, 255>>>>,
     <<<<198, 51, 100, 0>>, <<198, 51, 100, 255>>>>, <<<<203, 0, 113, 0>>, <<203, 0, 113, 255>>>>,
     <<<<224, 0, 0, 0>>, <<239, 255, 255, 255>>>>, <<<<255, 255, 255, 255>>, <<255, 255, 255, 255>>>>}

Networks6 ==
    {<<<<0, 0, 0, 0, 0, 0, 0, 0>>, <<0, 0, 0, 0, 0, 0, 0, 1>>>>,
     <<<<64512, 0, 0, 0, 0, 0, 0, 0>>, <<65023, 65535, 65535, 65535, 65535, 65535, 65535, 65535>>>>,
     <<<<65152, 0, 0, 0, 0, 0, 0, 0>>, <<65215, 65535, 65535, 65535, 65535, 65535, 65535, 65535>>>>,
     <<<<65280, 0, 0, 0, 0, 0, 0, 0>>, <<65535, 65535, 65535, 65535, 65535, 65535, 65535, 65535>>>>}

\* A network is a prefix, so its bounds hold element by element.
Within(a, network) == \A i \in DOMAIN a : network[1][i] <= a[i] /\ a[i] <= network[2][i]

\* An address in one of the networks, or an IPv4-mapped form of one.
NonPublic(a) ==
    \/ a \in Address4 /\ \E n \in Networks4 : Within(a, n)
    \/ /\ a \in Address6
       /\ \/ \E n \in Networks6 : Within(a, n)
          \/ IsMapped(a) /\ \E n \in Networks4 : Within(MappedV4(a), n)
=============================================================================

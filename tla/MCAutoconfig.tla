---------------------------- MODULE MCAutoconfig ----------------------------
(***************************************************************************)
(* Instances of Autoconfig for TLC: a domain, the provider that hosts it,  *)
(* and a name that is no public domain.                                    *)
(***************************************************************************)
EXTENDS Autoconfig, TLC

CONSTANTS r1, r2, r3, r4, r5, r6, custom, provider, internal

\* Two requests for one domain, one of which names its SMTP server, one for the
\* provider's own, and three that never ask: no public domain, no domain, both
\* headers given.
AnyDomainOf ==
    (r1 :> custom) @@ (r2 :> custom) @@ (r3 :> provider) @@ (r4 :> internal) @@ (r5 :> None) @@ (r6 :> custom)
AnyExplicit ==
    (r1 :> {}) @@ (r2 :> {"smtp"}) @@ (r3 :> {}) @@ (r4 :> {}) @@ (r5 :> {"imap"}) @@ (r6 :> Side)
=============================================================================

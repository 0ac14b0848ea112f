----------------------------- MODULE MCImapPool -----------------------------
(***************************************************************************)
(* Instances of ImapPool for TLC: three requests of one mailbox account    *)
(* under two passwords.                                                    *)
(***************************************************************************)
EXTENDS ImapPool, TLC

CONSTANTS r1, r2, r3, p1, p2, d1, d2, inbox, archive, imapHost, smtpHost, smtpHost2

Account(smtp, password) ==
    [imap |-> imapHost, smtp |-> smtp, username |-> "alice", password |-> password]

MCDigest == (p1 :> d1) @@ (p2 :> d2)

\* r1 and r2 present the same login, with different SMTP endpoints, and read
\* different mailboxes; r3 presents another password.
MCCredOf    == (r1 :> Account(smtpHost, p1)) @@ (r2 :> Account(smtpHost2, p1))
                 @@ (r3 :> Account(smtpHost, p2))
MCMailboxOf == (r1 :> inbox) @@ (r2 :> archive) @@ (r3 :> inbox)
MCOpOf      == (r1 :> "search") @@ (r2 :> "get") @@ (r3 :> "search")
MCSameCred  == [r \in Request |-> Account(smtpHost, p1)]
=============================================================================

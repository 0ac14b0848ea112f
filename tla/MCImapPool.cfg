SPECIFICATION Spec
CONSTANTS
    r1 = r1
    r2 = r2
    r3 = r3
    p1 = p1
    p2 = p2
    d1 = d1
    d2 = d2
    inbox = inbox
    archive = archive
    imapHost = imapHost
    smtpHost = smtpHost
    smtpHost2 = smtpHost2
    Null = Null
    Request = {r1, r2, r3}
    Pooled = {r1, r2, r3}
    CredOf <- MCCredOf
    MailboxOf <- MCMailboxOf
    OpOf <- MCOpOf
    Digest <- MCDigest
    Fragile = {r1}
    MaxIdle = 1
    TTL = 1
    MaxTime = 1
INVARIANTS
    TypeOK
    SingleOwner
    OwnLogin
    Bounded
    IdleInSync
    ReadsOwnMailbox
    NoSpuriousFailure
PROPERTIES
    ImplementsStore
CHECK_DEADLOCK FALSE

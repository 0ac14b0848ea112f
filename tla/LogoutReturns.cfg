SPECIFICATION FairSpec
CONSTANTS
    r1 = r1
    r2 = r2
    r3 = r3
    p1 = p1
    p2 = p2
    d1 = d1
    d2 = d2
    inbox = inbox
    archive = archive
    imapHost = imapHost
    smtpHost = smtpHost
    smtpHost2 = smtpHost2
    Null = Null
    Request = {r1, r2, r3}
    Pooled = {}
    CredOf <- MCCredOf
    MailboxOf <- MCMailboxOf
    OpOf <- MCOpOf
    Digest <- MCDigest
    Fragile = {r1}
    MaxIdle = 1
    TTL = 1
    MaxTime = 0
PROPERTIES
    LogoutReturns
CHECK_DEADLOCK FALSE

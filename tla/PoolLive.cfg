SPECIFICATION FairSpec
CONSTANTS
    r1 = r1
    r2 = r2
    r3 = r3
    p1 = p1
    p2 = p2
    d1 = d1
    d2 = d2
    inbox = inbox
    archive = archive
    imapHost = imapHost
    smtpHost = smtpHost
    smtpHost2 = smtpHost2
    Null = Null
    Request = {r1, r2}
    Pooled = {r1, r2}
    CredOf <- MCSameCred
    MailboxOf <- MCMailboxOf
    OpOf <- MCOpOf
    Digest <- MCDigest
    Fragile = {r1, r2}
    MaxIdle = 1
    TTL = 1
    MaxTime = 2
PROPERTIES
    HousekeepingEnds
    AnsweredUnlessPeerHung
CHECK_DEADLOCK FALSE

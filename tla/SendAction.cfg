SPECIFICATION Spec
CONSTANTS
    DefaultCap = 6
    DefaultSendLimit = 20
    MaxUsize = 40
    MaxAttachments = 2
    MaxFilenameChars = 2
    None = None
    Addresses = {"ann", "bob", "cyd"}
    Workloads <- MCWorkloads
    Documents <- MCDocuments
    Lookups <- MCLookups
    Literals <- MCLiterals
INVARIANTS TypeOK WithinCapFits CapIsExact NamesSafe BlindButServed DisclosesWhatIsSent
PROPERTIES KeyDecides GuardHolds BestServerChosen

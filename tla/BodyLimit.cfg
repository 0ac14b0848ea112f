SPECIFICATION Spec
CONSTANTS
    DefaultCap = 10485760
    DefaultSendLimit = 16777216
    MaxUsize = 2147483647
    MaxAttachments = 20
    MaxFilenameChars = 255
    None = None
    Addresses = {"ann", "bob", "cyd"}
    Workloads <- RaisedWorkloads
    Documents <- MCDocuments
    Lookups <- MCLookups
    Literals <- MCLiterals
INVARIANT RaisedCapFits

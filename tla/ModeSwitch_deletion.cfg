\* A deletion with one API failure and one restart: safety, and completion.
SPECIFICATION DeletionSpec
CONSTANTS
    a = a
    b = b
    IPs <- OneIP
    NoIPs = NoIPs
    Deletable = TRUE
    MaxChanges = 0
    MaxFaults = 1
    MaxRestarts = 1
INVARIANTS GoneIsForgotten SliceHasPrivateService
PROPERTY DeletionCompletes

\* Convergence of the two modes, with an API failure.
SPECIFICATION FairSpec
CONSTANTS
    a = a
    b = b
    IPs <- TwoIPs
    NoIPs = NoIPs
    Deletable = FALSE
    MaxChanges = 1
    MaxFaults = 1
    MaxRestarts = 0
PROPERTIES
    ServeConverges
    ProxyConverges

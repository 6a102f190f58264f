\* Two sandboxes, one without IPAM; interfaces are entered into the
\* net-attach-def one after the other.
CONSTANTS
    s1 = s1  s2 = s2  n1 = n1  n2 = n2
    a4 = a4  a6 = a6  b4 = b4  c4 = c4
    Sandboxes = {s1, s2}
    Nics = {n1, n2}
    NoNic = NoNic
    NicOf <- MCNicOf
    Recorded = {n1, n2}
    AddrsOf <- MCAddrsOf
    V4 = {a4, b4, c4}
    Ipam = {s1}
SPECIFICATION FairSpec
INVARIANTS TypeOK ResultMeansAttached ParentOwnsDevice
PROPERTIES AddKeepsForeignLink FailedAddIsCleanedUp

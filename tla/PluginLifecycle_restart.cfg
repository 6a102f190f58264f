\* Kubelet restarts, failures and crashes around RunOnce.
CONSTANTS
    DefaultResource = FALSE
    Mem = FALSE
SPECIFICATION FairSpec
INVARIANTS ListenFindsNoSocket RegisteredIsKnown
PROPERTY EventuallyConnected

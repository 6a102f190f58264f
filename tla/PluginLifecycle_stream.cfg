\* The first ListAndWatch can come before the net-attach-def.
CONSTANTS
    DefaultResource = FALSE
    Mem = FALSE
SPECIFICATION FairSpec
PROPERTY EventuallyListed

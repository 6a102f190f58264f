\* Subscribe against a scan that is under way, without -auto-conf.
CONSTANTS
    vsfc = vsfc  mem = mem  gw = gw  sub = sub
    plain = plain  chain = chain  swapped = swapped  other = other  broken = broken
    Garbage = Garbage
    NoFile = NoFile
    NoParent = NoParent
    Resources <- MCResources
    Builtin <- MCBuiltin
    Contents <- FewContents
    Parse <- FewParse
    AutoConf = {FALSE}
SPECIFICATION FairSpec
PROPERTY SubscribeSendsEvent
\* The process may block for good during start-up, or die.
CHECK_DEADLOCK FALSE

\* The pipeline, with and without -auto-conf.
CONSTANTS
    vsfc = vsfc  mem = mem  gw = gw  sub = sub
    plain = plain  chain = chain  swapped = swapped  other = other  broken = broken
    Garbage = Garbage
    NoFile = NoFile
    NoParent = NoParent
    Resources <- MCResources
    Builtin <- MCBuiltin
    Contents <- MCContents
    Parse <- MCParse
    AutoConf = {TRUE, FALSE}
SPECIFICATION Spec
INVARIANTS TypeOK NoLostUpdate OneGoroutinePerPlugin PluginMatchesRegistry
\* The process may block for good during start-up, or die.
CHECK_DEADLOCK FALSE

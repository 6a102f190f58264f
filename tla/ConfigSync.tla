----------------------------- MODULE ConfigSync -----------------------------
(***************************************************************************)
(* The configuration pipeline of the device plugin: the scanner of         *)
(* config.go, the registry loop of plugin_registry.go and the manager loop *)
(* of plugin_manager.go, started by main.go.                               *)
(*                                                                         *)
(*   nic.conf --scan--> instance.conf --event--> registry.syncLoop         *)
(*                                    --child--> pluginMgr.syncLoop        *)
(*                                                                         *)
(* Channels are unbuffered: a send and its receive are one step.  The      *)
(* guard of config.go is held across steps only by Subscribe, which sends  *)
(* while it holds it; every other critical section is one step that needs  *)
(* the guard to be free.  main.go never closes stopChan, so the ctx.Done   *)
(* branches of the loops are never taken.                                  *)
(***************************************************************************)
EXTENDS Naturals, Sequences

CONSTANTS
    Contents,    \* what nic.conf can hold
    Parse,       \* Parse[c]: the interface list in c, or Garbage (bad YAML)
    Garbage,
    NoFile,      \* nic.conf does not exist; also the initial, nil, checksum
    Resources,   \* resource names
    NoParent,    \* an interface entry without "parent"
    Builtin,     \* the initial ResourceRegistry
    AutoConf     \* the values the -auto-conf flag may be given

Constructors == {"NewPlugin", "NewMemVSfcPlugin"}

\* A map from resources to constructors; "absent" marks a missing key.
ConstructorMap == [Resources -> Constructors \cup {"absent"}]

\* One entry of "interfaces"; addr says whether allocServiceAddr is given.
\* The name of the network interface plays no part in this pipeline.
Interface == [resource : Resources, parent : Resources \cup {NoParent},
              addr : BOOLEAN]

ASSUME ConfigAssumption ==
    /\ NoFile \notin Contents
    /\ NoParent \notin Resources
    /\ Garbage \notin Seq(Interface)
    /\ Parse \in [Contents -> Seq(Interface) \cup {Garbage}]
    /\ Builtin \in ConstructorMap
    /\ AutoConf \subseteq BOOLEAN

VARIABLES
    file,        \* content of /etc/solarflare/nic.conf
    conf, sum,   \* instance.conf; instance.sum, injective in the content
    scanner,     \* where the scan goroutine is
    scanned,     \* the content resolveFile is working on
    subscribed,  \* instance.subscribers has the one subscriber
    guard,       \* instance.guard is write-locked by Subscribe
    autoConf,    \* the -auto-conf flag of this process
    main,        \* where pluginMgr.Run is
    made,        \* configUpdate has been made (it is nil before)
    reg,         \* where registry.syncLoop is
    regConf,     \* the interfaces it ranges over, and the next one to visit
    regAt,
    registry,    \* ResourceRegistry
    mgr,         \* where pluginMgr.syncLoop is
    mgrConf,     \* the interfaces it ranges over, and the next one to visit
    mgrAt,
    plugins,     \* mgr.plugins: the constructor each plugin was built with
    launched,    \* how many goroutines runPlugin has started, per resource
    starting     \* the resources whose goroutine has yet to read mgr.plugins

scanVars == <<conf, sum, scanner, scanned>>
mainVars == <<autoConf, subscribed, guard, main, made>>
regVars  == <<reg, regConf, regAt, registry>>
mgrVars  == <<mgr, mgrConf, mgrAt, plugins, launched, starting>>
vars     == <<file, scanVars, mainVars, regVars, mgrVars>>

TypeOK ==
    /\ file \in Contents \cup {NoFile}
    /\ conf \in Seq(Interface)
    /\ sum \in Contents \cup {NoFile}
    /\ scanner \in {"idle", "update", "range", "send", "dead"}
    /\ scanned \in Contents \cup {NoFile}
    /\ subscribed \in BOOLEAN
    /\ guard \in BOOLEAN
    /\ autoConf \in AutoConf
    /\ main \in {"spawn", "make", "subscribe", "register", "send", "run", "dead"}
    /\ made \in BOOLEAN
    /\ reg \in {"none", "start", "stuck", "wait", "conf", "sync", "child", "dead"}
    /\ regConf \in Seq(Interface)
    /\ regAt \in Nat \ {0}
    /\ registry \in ConstructorMap
    /\ mgr \in {"wait", "conf", "sync", "dead"}
    /\ mgrConf \in Seq(Interface)
    /\ mgrAt \in Nat \ {0}
    /\ plugins \in ConstructorMap
    /\ launched \in [Resources -> Nat]
    /\ starting \subseteq Resources

Init ==
    /\ file \in Contents \cup {NoFile}
    /\ conf = <<>> /\ sum = NoFile
    /\ scanner = "idle" /\ scanned = NoFile
    /\ subscribed = FALSE /\ guard = FALSE
    /\ autoConf \in AutoConf
    /\ main = "spawn" /\ made = FALSE
    /\ reg = "none" /\ regConf = <<>> /\ regAt = 1
    /\ registry = Builtin
    /\ mgr = "wait" /\ mgrConf = <<>> /\ mgrAt = 1
    /\ plugins = [r \in Resources |-> "absent"]
    /\ launched = [r \in Resources |-> 0] /\ starting = {}

-----------------------------------------------------------------------------
(* The environment: somebody edits, replaces or removes nic.conf.          *)

EditFile ==
    /\ file' \in (Contents \cup {NoFile}) \ {file}
    /\ UNCHANGED <<scanVars, mainVars, regVars, mgrVars>>

-----------------------------------------------------------------------------
(* config.go: the scan goroutine                                           *)

\* Variant of Scan: a YAML error is not an early return.
ScanIgnoringYamlError ==
    /\ scanner = "idle"
    /\ file # NoFile /\ file # sum
    /\ scanned' = file
    /\ scanner' = "update"
    /\ UNCHANGED <<file, conf, sum, mainVars, regVars, mgrVars>>

\* scan, and resolveFile up to the critical section: an unreadable file, an
\* unchanged one and one that does not parse all end the tick with nothing
\* changed, so only the remaining case is a step.
Scan ==
    /\ scanner = "idle"
    /\ file # NoFile /\ file # sum /\ Parse[file] # Garbage
    /\ scanned' = file
    /\ scanner' = "update"
    /\ UNCHANGED <<file, conf, sum, mainVars, regVars, mgrVars>>

\* The critical section of resolveFile.
Store ==
    /\ scanner = "update" /\ ~guard
    /\ conf' = Parse[scanned] /\ sum' = scanned
    /\ scanned' = NoFile
    /\ scanner' = "range"
    /\ UNCHANGED <<file, mainVars, regVars, mgrVars>>

\* Variant of NotifyAll: the loop over the subscribers is missing.
NotifyNobody ==
    /\ scanner = "range"
    /\ scanner' = "idle"
    /\ UNCHANGED <<file, conf, sum, scanned, mainVars, regVars, mgrVars>>

\* notifyAll ranges over the subscribers without the guard.
NotifyAll ==
    /\ scanner = "range"
    /\ scanner' = IF subscribed THEN "send" ELSE "idle"
    /\ UNCHANGED <<file, conf, sum, scanned, mainVars, regVars, mgrVars>>

-----------------------------------------------------------------------------
(* pluginMgr.Run, registry.Run and config.Subscribe, on the main goroutine *)

\* go mgr.syncLoop; with auto-conf, Transfer and go registry.syncLoop.
Spawn ==
    /\ main = "spawn"
    /\ IF autoConf
         THEN main' = "make" /\ reg' = "start"
         ELSE main' = "subscribe" /\ reg' = reg
    /\ UNCHANGED <<file, scanVars, autoConf, subscribed, guard, made,
                   regConf, regAt, registry, mgrVars>>

\* configUpdate = make(chan struct{}), after the loop was started.
MakeChannel ==
    /\ main = "make"
    /\ made' = TRUE
    /\ main' = "subscribe"
    /\ UNCHANGED <<file, scanVars, autoConf, subscribed, guard, regVars, mgrVars>>

\* Subscribe takes the guard; it is called once, so "already subscribed"
\* does not arise.
Subscribe ==
    /\ main = "subscribe" /\ ~guard
    /\ guard' = TRUE
    /\ main' = "register"
    /\ UNCHANGED <<file, scanVars, autoConf, subscribed, made, regVars, mgrVars>>

\* instance.subscribers[user] = channel
Register ==
    /\ main = "register"
    /\ subscribed' = TRUE
    /\ main' = "send"
    /\ UNCHANGED <<file, scanVars, autoConf, guard, made, regVars, mgrVars>>

\* Variant of SendEvent: Subscribe does not unlock.
SendEventKeepingGuard ==
    \/ /\ scanner = "send"
       /\ scanner' = "idle"
       /\ UNCHANGED <<conf, sum, scanned, mainVars>>
    \/ /\ main = "send"
       /\ main' = "run"
       /\ UNCHANGED <<autoConf, guard, subscribed, made, scanVars>>

\* The sending half of an event on the subscriber's channel: notifyAll's
\* send, or Subscribe's own one, after which it returns and unlocks.
SendEvent ==
    \/ /\ scanner = "send"
       /\ scanner' = "idle"
       /\ UNCHANGED <<conf, sum, scanned, mainVars>>
    \/ /\ main = "send"
       /\ main' = "run" /\ guard' = FALSE
       /\ UNCHANGED <<autoConf, subscribed, made, scanVars>>

-----------------------------------------------------------------------------
(* plugin_registry.go: syncLoop                                            *)

\* The first evaluation of the select: a nil configUpdate blocks for good.
RegSelect ==
    /\ reg = "start"
    /\ reg' = IF made THEN "wait" ELSE "stuck"
    /\ UNCHANGED <<file, scanVars, mainVars, regConf, regAt, registry,
                   mgrVars>>

RegReceive ==
    /\ autoConf /\ reg = "wait"
    /\ SendEvent
    /\ reg' = "conf"
    /\ UNCHANGED <<file, regConf, regAt, registry, mgrVars>>

\* config.Conf() takes the read lock.
RegConf ==
    /\ reg = "conf" /\ ~guard
    /\ regConf' = conf /\ regAt' = 1
    /\ reg' = "sync"
    /\ UNCHANGED <<file, scanVars, mainVars, registry, mgrVars>>

HasResource(r) == registry[r] # "absent"

\* Variant of Inherit: known resources are overwritten.
InheritAlways(entry) ==
    IF entry.parent # NoParent /\ HasResource(entry.parent)
      THEN [registry EXCEPT ![entry.resource] = registry[entry.parent]]
      ELSE registry

\* The registry after an entry was visited: a resource that is not known
\* inherits the constructor of its parent, if the parent is known.
Inherit(entry) ==
    IF /\ ~HasResource(entry.resource)
       /\ entry.parent # NoParent
       /\ HasResource(entry.parent)
      THEN [registry EXCEPT ![entry.resource] = registry[entry.parent]]
      ELSE registry

RegSync ==
    /\ reg = "sync" /\ regAt <= Len(regConf)
    /\ registry' = Inherit(regConf[regAt])
    /\ regAt' = regAt + 1
    /\ UNCHANGED <<file, scanVars, mainVars, reg, regConf, mgrVars>>

\* Variant of RegSynced: the event is not passed on to the child.
RegSyncedSilently ==
    /\ reg = "sync" /\ regAt > Len(regConf)
    /\ regConf' = <<>> /\ regAt' = 1
    /\ reg' = "wait"
    /\ UNCHANGED <<file, scanVars, mainVars, registry, mgrVars>>

RegSynced ==
    /\ reg = "sync" /\ regAt > Len(regConf)
    /\ regConf' = <<>> /\ regAt' = 1
    /\ reg' = "child"
    /\ UNCHANGED <<file, scanVars, mainVars, registry, mgrVars>>

-----------------------------------------------------------------------------
(* plugin_manager.go: syncLoop and runPlugin                               *)

\* pluginUpdate is the registry's child channel with auto-conf, and the
\* channel subscribed to the configuration without it.
MgrReceive ==
    /\ mgr = "wait"
    /\ \/ ~autoConf /\ SendEvent /\ UNCHANGED reg
       \/ /\ reg = "child" /\ reg' = "wait"
          /\ UNCHANGED <<scanVars, mainVars>>
    /\ mgr' = "conf"
    /\ UNCHANGED <<file, regConf, regAt, registry, mgrConf, mgrAt, plugins,
                   launched, starting>>

MgrConf ==
    /\ mgr = "conf" /\ ~guard
    /\ mgrConf' = conf /\ mgrAt' = 1
    /\ mgr' = "sync"
    /\ UNCHANGED <<file, scanVars, mainVars, regVars, plugins, launched,
                   starting>>

\* getAllocAddr keeps a pointer to the loop variable of its range, so the
\* address it returns is the one of the last entry, whichever entry matched.
HasAllocAddr(c, r) ==
    /\ \E i \in DOMAIN c : c[i].resource = r
    /\ c[Len(c)].addr

\* Whether the constructor registered for r returns a plugin under c.
Constructs(c, r) ==
    registry[r] = "NewMemVSfcPlugin" => HasAllocAddr(c, r)

\* Variant of Skipped: mgr.plugins is not looked up.
SkippedUnlessNew(entry) ==
    \/ ~HasResource(entry.resource)
    \/ ~Constructs(conf, entry.resource)

\* The entry is skipped: no constructor, a plugin already, or an error of
\* the constructor, which reads the configuration anew.
Skipped(entry) ==
    \/ ~HasResource(entry.resource)
    \/ plugins[entry.resource] # "absent"
    \/ ~Constructs(conf, entry.resource)

\* Visiting an entry; NewMemVSfcPlugin calls Conf() and so needs the guard.
MgrSync ==
    /\ mgr = "sync" /\ mgrAt <= Len(mgrConf)
    /\ LET r == mgrConf[mgrAt].resource
       IN /\ (registry[r] = "NewMemVSfcPlugin" /\ plugins[r] = "absent") => ~guard
          /\ IF Skipped(mgrConf[mgrAt])
               THEN UNCHANGED <<plugins, launched, starting>>
               ELSE /\ plugins' = [plugins EXCEPT ![r] = registry[r]]
                    /\ launched' = [launched EXCEPT ![r] = @ + 1]
                    /\ starting' = starting \cup {r}
    /\ mgrAt' = mgrAt + 1
    /\ UNCHANGED <<file, scanVars, mainVars, regVars, mgr, mgrConf>>

MgrSynced ==
    /\ mgr = "sync" /\ mgrAt > Len(mgrConf)
    /\ mgrConf' = <<>> /\ mgrAt' = 1
    /\ mgr' = "wait"
    /\ UNCHANGED <<file, scanVars, mainVars, regVars, plugins, launched,
                   starting>>

\* The goroutine of runPlugin looks its plugin up and runs it.
StartPlugin(r) ==
    /\ r \in starting
    /\ starting' = starting \ {r}
    /\ UNCHANGED <<file, scanVars, mainVars, regVars, mgr, mgrConf, mgrAt,
                   plugins, launched>>

-----------------------------------------------------------------------------
(* Maps that are written in one goroutine and read in another without a    *)
(* lock: the Go runtime may detect the overlap and kill the process.       *)

MapRace ==
    \/ main = "register" /\ scanner = "range"             \* subscribers
    \/ /\ reg = "sync" /\ regAt <= Len(regConf)           \* ResourceRegistry
       /\ Inherit(regConf[regAt]) # registry
       /\ mgr = "sync" /\ mgrAt <= Len(mgrConf)
    \/ /\ mgr = "sync" /\ mgrAt <= Len(mgrConf)           \* mgr.plugins
       /\ ~Skipped(mgrConf[mgrAt])
       /\ starting # {}

FatalMapAccess ==
    /\ MapRace
    /\ scanner' = "dead" /\ main' = "dead" /\ reg' = "dead" /\ mgr' = "dead"
    /\ starting' = {}
    /\ UNCHANGED <<file, conf, sum, scanned, autoConf, subscribed, guard, made,
                   regConf, regAt, registry, mgrConf, mgrAt, plugins, launched>>

-----------------------------------------------------------------------------
Next ==
    \/ EditFile
    \/ Scan \/ Store \/ NotifyAll
    \/ Spawn \/ MakeChannel \/ Subscribe \/ Register
    \/ RegSelect \/ RegReceive \/ RegConf \/ RegSync \/ RegSynced
    \/ MgrReceive \/ MgrConf \/ MgrSync \/ MgrSynced
    \/ \E r \in Resources : StartPlugin(r)
    \/ FatalMapAccess

Spec == Init /\ [][Next]_vars

\* Every goroutine that can run is eventually scheduled, and the ticker of
\* the scan goroutine keeps ticking.  Nothing is assumed of the environment.
Fairness ==
    /\ WF_vars(Scan \/ Store \/ NotifyAll)
    /\ WF_vars(Spawn \/ MakeChannel \/ Subscribe \/ Register)
    /\ WF_vars(RegSelect \/ RegReceive \/ RegConf \/ RegSync \/ RegSynced)
    /\ WF_vars(MgrReceive \/ MgrConf \/ MgrSync \/ MgrSynced)
    /\ \A r \in Resources : WF_vars(StartPlugin(r))

FairSpec == Spec /\ Fairness

-----------------------------------------------------------------------------
(* Properties                                                              *)

\* Entry i of c descends from a built-in resource through entries that are
\* each listed after the entry of their parent.
Lineage(c, i) ==
    \E L \in SUBSET (1..i) :
        /\ i \in L
        /\ \A k \in L :
              /\ c[k].parent # NoParent
              /\ \/ Builtin[c[k].parent] # "absent"
                 \/ \E j \in L : j < k /\ c[j].resource = c[k].parent

\* What a visit of entry i leaves behind in ResourceRegistry and mgr.plugins.
RegEntryDone(c, i) == Lineage(c, i) => HasResource(c[i].resource)

MgrEntryDone(c, i) ==
    HasResource(c[i].resource) /\ Constructs(c, c[i].resource)
      => plugins[c[i].resource] # "absent"

Applied(c) ==
    \A i \in DOMAIN c : /\ autoConf => RegEntryDone(c, i)
                        /\ MgrEntryDone(c, i)

Quiescent ==
    /\ main = "run"
    /\ scanner \in {"idle", "update"}
    /\ reg \in {"none", "wait"}
    /\ mgr = "wait"

\* No configuration update is lost between the scanner, the registry and the
\* manager, although each of them reads Conf() on its own and may see a newer
\* configuration than the one it was notified of: whenever no event is on its
\* way, every entry of the stored configuration that can have a plugin has one.
NoLostUpdate == Quiescent => Applied(conf)

\* pluginMgr.syncLoop starts at most one goroutine per resource, however often
\* a resource is listed or announced, and one exactly for every plugin kept.
OneGoroutinePerPlugin ==
    \A r \in Resources : launched[r] = (IF plugins[r] = "absent" THEN 0 ELSE 1)

\* A plugin was built by the constructor its resource is registered with, even
\* after later configurations name another parent for the resource.
PluginMatchesRegistry ==
    \A r \in Resources : plugins[r] # "absent" => plugins[r] = registry[r]

\* A configuration that stays in nic.conf is eventually in force, once
\* Subscribe has returned and unless the process dies.
EventuallyApplied ==
    \A c \in Contents :
        Parse[c] # Garbage /\ <>[](main = "run" /\ file = c)
          => <>[](conf = Parse[c] /\ Applied(conf))

\* "In this subscribe will send one event in the end": a call of Subscribe
\* ends, having delivered its event, unless the process dies.
SubscribeSendsEvent == (main = "subscribe") ~> (main = "run" \/ main = "dead")

=============================================================================

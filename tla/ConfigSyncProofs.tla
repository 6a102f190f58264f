-------------------------- MODULE ConfigSyncProofs --------------------------
(***************************************************************************)
(* Proofs about ConfigSync, for every set of configuration contents, every *)
(* resource tree and both values of -auto-conf.                            *)
(***************************************************************************)
EXTENDS ConfigSync, TLAPS

\* TypeOK is inductive once it is known that the scanner only stores content
\* that parsed.
TypeInv ==
    /\ TypeOK
    /\ scanner = "update" => scanned \in Contents /\ Parse[scanned] # Garbage

\* Init establishes the types.
LEMMA TypeInit == Init => TypeInv
<1> SUFFICES ASSUME Init PROVE TypeInv
  OBVIOUS
<1>1. registry \in ConstructorMap
  BY ConfigAssumption DEF ConfigAssumption, Init
<1>2. plugins \in ConstructorMap
  BY DEF Init, ConstructorMap
<1>3. launched \in [Resources -> Nat]
  BY DEF Init
<1>4. conf \in Seq(Interface) /\ regConf \in Seq(Interface) /\ mgrConf \in Seq(Interface)
  BY DEF Init
<1>5. /\ file \in Contents \cup {NoFile}
      /\ sum \in Contents \cup {NoFile}
      /\ scanned \in Contents \cup {NoFile}
      /\ scanner = "idle" /\ main = "spawn" /\ reg = "none" /\ mgr = "wait"
      /\ starting = {}
      /\ regAt = 1 /\ mgrAt = 1
  BY DEF Init
<1>6. /\ autoConf \in AutoConf
      /\ subscribed \in BOOLEAN /\ guard \in BOOLEAN /\ made \in BOOLEAN
  BY DEF Init
<1> QED
  BY <1>1, <1>2, <1>3, <1>4, <1>5, <1>6 DEF TypeInv, TypeOK

\* What registry.syncLoop does with an entry keeps constructors in the map.
LEMMA InheritType ==
    ASSUME registry \in ConstructorMap, NEW e \in Interface
    PROVE  Inherit(e) \in ConstructorMap
  BY DEF Inherit, HasResource, ConstructorMap, Interface

\* A send on Subscribe's channel touches the sender and the guard alone.
LEMMA SendEventType ==
    ASSUME TypeInv, SendEvent
    PROVE  /\ UNCHANGED <<conf, sum, scanned, autoConf, subscribed, made>>
           /\ scanner' \in {scanner, "idle"}
           /\ main' \in {main, "run"}
           /\ guard' \in BOOLEAN
  BY DEF TypeInv, TypeOK, SendEvent, scanVars, mainVars

\* A visit of pluginMgr.syncLoop skips the entry or stores a new plugin.
LEMMA MgrVisit ==
    ASSUME TypeInv, MgrSync
    PROVE  LET r == mgrConf[mgrAt].resource
           IN /\ mgrAt \in 1..Len(mgrConf)
              /\ r \in Resources
              /\ \/ /\ Skipped(mgrConf[mgrAt])
                    /\ UNCHANGED <<plugins, launched, starting>>
                 \/ /\ ~Skipped(mgrConf[mgrAt])
                    /\ plugins' = [plugins EXCEPT ![r] = registry[r]]
                    /\ launched' = [launched EXCEPT ![r] = launched[r] + 1]
                    /\ starting' = starting \cup {r}
<1>1. mgrAt \in 1..Len(mgrConf)
  BY DEF TypeInv, TypeOK, MgrSync
<1>2. mgrConf[mgrAt] \in Interface
  BY <1>1 DEF TypeInv, TypeOK
<1>3. mgrConf[mgrAt].resource \in Resources
  BY <1>2 DEF Interface
<1> QED
  BY <1>1, <1>3 DEF MgrSync

\* Every step preserves the types.
LEMMA TypeNext == TypeInv /\ [Next]_vars => TypeInv'
<1> SUFFICES ASSUME TypeInv, [Next]_vars PROVE TypeInv'
  OBVIOUS
<1> USE DEF TypeInv, TypeOK
<1>1. CASE EditFile
  BY <1>1 DEF EditFile, scanVars, mainVars, regVars, mgrVars
<1>2. CASE Scan
  BY <1>2 DEF Scan, mainVars, regVars, mgrVars
<1>3. CASE Store
  BY <1>3, ConfigAssumption DEF ConfigAssumption, Store, mainVars, regVars, mgrVars
<1>4. CASE NotifyAll
  BY <1>4 DEF NotifyAll, mainVars, regVars, mgrVars
<1>5. CASE Spawn
  BY <1>5 DEF Spawn, scanVars, mgrVars
<1>6. CASE MakeChannel
  BY <1>6 DEF MakeChannel, scanVars, regVars, mgrVars
<1>7. CASE Subscribe
  BY <1>7 DEF Subscribe, scanVars, regVars, mgrVars
<1>8. CASE Register
  BY <1>8 DEF Register, scanVars, regVars, mgrVars
<1>9. CASE RegSelect
  BY <1>9 DEF RegSelect, scanVars, mainVars, mgrVars
<1>10. CASE RegReceive
  <2>1. SendEvent /\ reg' = "conf" /\ UNCHANGED <<file, regConf, regAt, registry, mgrVars>>
    BY <1>10 DEF RegReceive
  <2> QED
    BY <2>1, SendEventType DEF mgrVars
<1>11. CASE RegConf
  BY <1>11 DEF RegConf, scanVars, mainVars, mgrVars
<1>12. CASE RegSync
  <2>1. regConf[regAt] \in Interface
    BY <1>12 DEF RegSync
  <2> QED
    BY <1>12, <2>1, InheritType DEF RegSync, scanVars, mainVars, mgrVars
<1>13. CASE RegSynced
  BY <1>13 DEF RegSynced, scanVars, mainVars, mgrVars
<1>14. CASE MgrReceive
  <2>1. CASE SendEvent /\ UNCHANGED reg
    <3>1. UNCHANGED <<regVars, mgrConf, mgrAt, plugins, launched, starting>>
      BY <1>14, <2>1 DEF MgrReceive, regVars
    <3>2. mgr' = "conf" /\ UNCHANGED file
      BY <1>14 DEF MgrReceive
    <3> QED
      BY <2>1, <3>1, <3>2, SendEventType DEF regVars
  <2>2. CASE reg' = "wait" /\ UNCHANGED <<scanVars, mainVars>>
    BY <1>14, <2>2 DEF MgrReceive, scanVars, mainVars
  <2> QED
    BY <1>14, <2>1, <2>2 DEF MgrReceive
<1>15. CASE MgrConf
  BY <1>15 DEF MgrConf, scanVars, mainVars, regVars
<1>16. CASE MgrSync
  <2> DEFINE r == mgrConf[mgrAt].resource
  <2>1. r \in Resources /\ registry[r] \in Constructors \cup {"absent"}
    BY <1>16, MgrVisit DEF ConstructorMap
  <2>2. \/ UNCHANGED <<plugins, launched, starting>>
        \/ /\ plugins' = [plugins EXCEPT ![r] = registry[r]]
           /\ launched' = [launched EXCEPT ![r] = launched[r] + 1]
           /\ starting' = starting \cup {r}
    BY <1>16, MgrVisit
  <2> HIDE DEF r
  <2>3. plugins' \in ConstructorMap
    BY <2>1, <2>2 DEF ConstructorMap
  <2>4. launched' \in [Resources -> Nat]
    <3>1. launched \in [Resources -> Nat] /\ launched[r] + 1 \in Nat
      BY <2>1
    <3> QED
      BY <2>1, <2>2, <3>1
  <2>5. starting' \subseteq Resources
    BY <2>1, <2>2
  <2> QED
    BY <1>16, <2>3, <2>4, <2>5 DEF MgrSync, scanVars, mainVars, regVars
<1>17. CASE MgrSynced
  BY <1>17 DEF MgrSynced, scanVars, mainVars, regVars
<1>18. ASSUME NEW r \in Resources, StartPlugin(r) PROVE TypeInv'
  BY <1>18 DEF StartPlugin, scanVars, mainVars, regVars
<1>19. CASE FatalMapAccess
  BY <1>19 DEF FatalMapAccess
<1>20. CASE UNCHANGED vars
  BY <1>20 DEF vars, scanVars, mainVars, regVars, mgrVars
<1> QED
  BY <1>1, <1>2, <1>3, <1>4, <1>5, <1>6, <1>7, <1>8, <1>9, <1>10, <1>11,
     <1>12, <1>13, <1>14, <1>15, <1>16, <1>17, <1>18, <1>19, <1>20 DEF Next

\* Type correctness of the pipeline: in particular resolveFile never stores
\* the result of a failed yaml.Unmarshal.
THEOREM TypeCorrect == Spec => []TypeOK
<1>1. TypeInv => TypeOK
  BY DEF TypeInv
<1> QED
  BY TypeInit, TypeNext, <1>1, PTL DEF Spec

-----------------------------------------------------------------------------
\* The steps of the two maps, as facts about single entries.

\* A descendant of a built-in resource has a parent that is built in or is
\* itself a descendant, listed earlier.
LEMMA LineageParent ==
    ASSUME NEW c, NEW i \in Nat \ {0}, Lineage(c, i)
    PROVE  /\ c[i].parent # NoParent
           /\ \/ Builtin[c[i].parent] # "absent"
              \/ \E j \in 1..(i - 1) : c[j].resource = c[i].parent /\ Lineage(c, j)
<1>1. PICK L \in SUBSET (1..i) :
        /\ i \in L
        /\ \A k \in L :
              /\ c[k].parent # NoParent
              /\ \/ Builtin[c[k].parent] # "absent"
                 \/ \E j \in L : j < k /\ c[j].resource = c[k].parent
  BY DEF Lineage
<1>2. ASSUME NEW j \in L, j < i PROVE j \in 1..(i - 1) /\ Lineage(c, j)
  <2> DEFINE M == L \cap (1..j)
  <2>1. M \in SUBSET (1..j) /\ j \in M
    BY <1>2
  <2>2. \A k \in M : /\ c[k].parent # NoParent
                     /\ \/ Builtin[c[k].parent] # "absent"
                        \/ \E l \in M : l < k /\ c[l].resource = c[k].parent
    BY <1>1
  <2> HIDE DEF M
  <2>3. Lineage(c, j)
    BY <2>1, <2>2 DEF Lineage
  <2> QED
    BY <1>2, <2>3
<1> QED
  BY <1>1, <1>2

\* Resources of the initial ResourceRegistry stay registered.
BuiltinKept == \A r \in Resources : Builtin[r] # "absent" => HasResource(r)

\* A visit of registry.syncLoop only adds resources.
LEMMA InheritGrows ==
    ASSUME registry \in ConstructorMap, NEW e \in Interface, registry' = Inherit(e)
    PROVE  /\ \A r \in Resources : HasResource(r) => registry'[r] = registry[r]
           /\ (e.parent # NoParent /\ HasResource(e.parent)) => registry'[e.resource] # "absent"
  BY DEF Inherit, HasResource, ConstructorMap, Interface

\* Visiting entry k, after the ones before it, leaves it and them done.
LEMMA RegVisit ==
    ASSUME TypeInv, BuiltinKept, NEW k \in 1..Len(conf),
           \A i \in 1..(k - 1) : RegEntryDone(conf, i),
           registry' = Inherit(conf[k]), conf' = conf
    PROVE  \A i \in 1..k : RegEntryDone(conf, i)'
<1> DEFINE e == conf[k]
<1>1. conf \in Seq(Interface) /\ registry \in ConstructorMap
  BY DEF TypeInv, TypeOK
<1>2. \A i \in 1..k : conf[i] \in Interface
  BY <1>1
<1>3. /\ \A r \in Resources : HasResource(r) => registry'[r] = registry[r]
      /\ (e.parent # NoParent /\ HasResource(e.parent)) => registry'[e.resource] # "absent"
  BY <1>1, <1>2, InheritGrows
<1>4. ASSUME NEW i \in 1..(k - 1), Lineage(conf, i)
      PROVE  registry[conf[i].resource] # "absent"
  BY <1>4 DEF RegEntryDone, HasResource
<1>5. ASSUME NEW i \in 1..(k - 1), Lineage(conf, i)
      PROVE  registry'[conf[i].resource] # "absent"
  BY <1>2, <1>3, <1>4, <1>5 DEF Interface, HasResource
<1>6. ASSUME Lineage(conf, k) PROVE registry'[e.resource] # "absent"
  <2>1. /\ e.parent # NoParent
        /\ \/ Builtin[e.parent] # "absent"
           \/ \E j \in 1..(k - 1) : conf[j].resource = e.parent /\ Lineage(conf, j)
    BY <1>6, LineageParent
  <2>2. HasResource(e.parent)
    BY <2>1, <1>2, <1>4 DEF BuiltinKept, HasResource, Interface
  <2> QED
    BY <2>1, <2>2, <1>3
<1>7. ASSUME NEW i \in 1..k, Lineage(conf, i) PROVE registry'[conf[i].resource] # "absent"
  BY <1>5, <1>6, <1>7
<1>8. \A i \in 1..k : Lineage(conf, i)' <=> Lineage(conf, i)
  BY DEF Lineage
<1> QED
  BY <1>7, <1>8 DEF RegEntryDone, HasResource

\* The same for the manager: visiting entry k of the current configuration.
LEMMA MgrVisitDone ==
    ASSUME TypeInv, MgrSync, mgrConf = conf, UNCHANGED <<conf, registry>>,
           \A i \in 1..(mgrAt - 1) : MgrEntryDone(conf, i)
    PROVE  \A i \in 1..mgrAt : MgrEntryDone(conf, i)'
<1> DEFINE r == conf[mgrAt].resource
<1>1. /\ mgrAt \in 1..Len(conf) /\ r \in Resources
      /\ \/ Skipped(conf[mgrAt]) /\ UNCHANGED plugins
         \/ ~Skipped(conf[mgrAt]) /\ plugins' = [plugins EXCEPT ![r] = registry[r]]
  BY MgrVisit
<1>2. plugins \in ConstructorMap /\ registry \in ConstructorMap
  BY DEF TypeInv, TypeOK
<1>3. \A i \in 1..mgrAt : conf[i].resource \in Resources
  <2>1. \A i \in 1..mgrAt : conf[i] \in Interface
    BY <1>1 DEF TypeInv, TypeOK
  <2> QED
    BY <2>1 DEF Interface
<1>4. ~Skipped(conf[mgrAt]) => registry[r] # "absent"
  BY DEF Skipped, HasResource
<1>5. \A x \in Resources : plugins[x] # "absent" => plugins'[x] # "absent"
  BY <1>1, <1>2, <1>4 DEF ConstructorMap
<1>6. \A x \in Resources : Constructs(conf, x)' <=> Constructs(conf, x)
  BY DEF Constructs, HasAllocAddr
<1>7. ASSUME HasResource(r), Constructs(conf, r) PROVE plugins'[r] # "absent"
  <2>1. CASE Skipped(conf[mgrAt])
    BY <2>1, <1>1, <1>5, <1>7 DEF Skipped
  <2>2. CASE ~Skipped(conf[mgrAt])
    BY <2>2, <1>1, <1>2, <1>4 DEF ConstructorMap
  <2> QED
    BY <2>1, <2>2
<1>8. ASSUME NEW i \in 1..mgrAt, HasResource(conf[i].resource), Constructs(conf, conf[i].resource)
      PROVE  plugins'[conf[i].resource] # "absent"
  <2>1. CASE i = mgrAt
    BY <2>1, <1>7, <1>8
  <2>2. CASE i # mgrAt
    <3>1. i \in 1..(mgrAt - 1)
      BY <2>2, <1>1
    <3> QED
      BY <3>1, <1>3, <1>5, <1>8 DEF MgrEntryDone
  <2> QED
    BY <2>1, <2>2
<1> QED
  BY <1>3, <1>6, <1>8 DEF MgrEntryDone, HasResource

-----------------------------------------------------------------------------
\* The inductive invariant: unless an event is still on its way to a loop, the
\* loop is about to read the configuration, is visiting the current one and is
\* done with the entries before its position, or is done with all of it.

EventPending == main # "run" \/ scanner \in {"range", "send"}

RegFresh ==
    \/ EventPending
    \/ reg = "conf"
    \/ /\ reg = "sync" /\ regConf = conf
       /\ \A i \in 1..(regAt - 1) : RegEntryDone(conf, i)
    \/ /\ reg \in {"wait", "child"}
       /\ \A i \in 1..Len(conf) : RegEntryDone(conf, i)

MgrFresh ==
    \/ EventPending
    \/ reg \in {"conf", "sync", "child"}
    \/ mgr = "conf"
    \/ /\ mgr = "sync" /\ mgrConf = conf
       /\ \A i \in 1..(mgrAt - 1) : MgrEntryDone(conf, i)
    \/ mgr = "wait" /\ \A i \in 1..Len(conf) : MgrEntryDone(conf, i)

Wiring ==
    /\ main \in {"send", "run"} => subscribed
    /\ autoConf /\ main = "run" => reg \in {"wait", "conf", "sync", "child"}
    /\ ~autoConf /\ main # "dead" => reg = "none"
    /\ BuiltinKept

UpdateInv == TypeInv /\ Wiring /\ (autoConf => RegFresh) /\ MgrFresh

\* Every step preserves the way main.go wires scanner, registry and manager.
LEMMA WiringNext == TypeInv /\ Wiring /\ [Next]_vars => Wiring'
<1> SUFFICES ASSUME TypeInv, Wiring, [Next]_vars PROVE Wiring'
  OBVIOUS
<1> USE DEF Wiring, scanVars, mainVars, regVars, mgrVars
<1>1. ASSUME UNCHANGED registry PROVE BuiltinKept'
  BY <1>1 DEF BuiltinKept, HasResource
<1>2. CASE EditFile
  BY <1>2, <1>1 DEF EditFile
<1>3. CASE Scan \/ Store \/ NotifyAll
  BY <1>3, <1>1 DEF Scan, Store, NotifyAll
<1>4. CASE Spawn
  BY <1>4, <1>1 DEF Spawn
<1>5. CASE MakeChannel \/ Subscribe \/ Register
  BY <1>5, <1>1 DEF MakeChannel, Subscribe, Register
<1>6. CASE RegSelect
  BY <1>6, <1>1 DEF RegSelect
<1>7. CASE RegReceive
  <2>1. SendEvent /\ reg' = "conf" /\ UNCHANGED registry
    BY <1>7 DEF RegReceive
  <2>2. autoConf'
    BY <1>7, <2>1, SendEventType, Zenon DEF RegReceive
  <2>3. main' \in {"send", "run"} => subscribed'
    BY <2>1 DEF SendEvent
  <2> QED
    BY <2>1, <2>2, <2>3, <1>1
<1>8. CASE RegConf
  BY <1>8, <1>1 DEF RegConf
<1>9. CASE RegSync
  <2>1. regConf[regAt] \in Interface /\ registry \in ConstructorMap
    BY <1>9 DEF RegSync, TypeInv, TypeOK
  <2>2. BuiltinKept'
    BY <1>9, <2>1, InheritGrows DEF RegSync, BuiltinKept, HasResource
  <2> QED
    BY <1>9, <2>2 DEF RegSync
<1>10. CASE RegSynced
  BY <1>10, <1>1 DEF RegSynced
<1>11. CASE MgrReceive
  BY <1>11, <1>1 DEF MgrReceive, SendEvent
<1>12. CASE MgrConf \/ MgrSync \/ MgrSynced
  BY <1>12, <1>1 DEF MgrConf, MgrSync, MgrSynced
<1>13. ASSUME NEW r \in Resources, StartPlugin(r) PROVE Wiring'
  BY <1>13, <1>1 DEF StartPlugin
<1>14. CASE FatalMapAccess
  BY <1>14, <1>1 DEF FatalMapAccess
<1>15. CASE UNCHANGED vars
  BY <1>15, <1>1 DEF vars
<1> QED
  BY <1>2, <1>3, <1>4, <1>5, <1>6, <1>7, <1>8, <1>9, <1>10, <1>11, <1>12,
     <1>13, <1>14, <1>15 DEF Next

\* What RegFresh is about is the same before and after a step that leaves
\* the registry loop and the configuration alone.
LEMMA RegFreshSame ==
    ASSUME RegFresh, UNCHANGED <<conf, reg, regConf, regAt, registry>>,
           EventPending => EventPending'
    PROVE  RegFresh'
<1>1. \A i : RegEntryDone(conf, i) => RegEntryDone(conf, i)'
  BY DEF RegEntryDone, Lineage, HasResource
<1> QED
  BY <1>1 DEF RegFresh

\* Every step keeps the registry loop up to date or due to be woken.
LEMMA RegFreshNext ==
    TypeInv /\ Wiring /\ autoConf /\ RegFresh /\ [Next]_vars => RegFresh'
<1> SUFFICES ASSUME TypeInv, Wiring, autoConf, RegFresh, [Next]_vars PROVE RegFresh'
  OBVIOUS
<1> USE DEF scanVars, mainVars, regVars, mgrVars
<1>1. CASE EditFile
  BY <1>1, RegFreshSame DEF EditFile, EventPending
<1>2. CASE Scan
  BY <1>2, RegFreshSame DEF Scan, EventPending
<1>3. CASE Store
  BY <1>3 DEF Store, RegFresh, EventPending
<1>4. CASE NotifyAll
  BY <1>4 DEF NotifyAll, RegFresh, EventPending, Wiring
<1>5. CASE Spawn \/ MakeChannel \/ Subscribe \/ Register
  BY <1>5 DEF Spawn, MakeChannel, Subscribe, Register, RegFresh, EventPending
<1>6. CASE RegSelect
  BY <1>6 DEF RegSelect, RegFresh, EventPending, Wiring
<1>7. CASE RegReceive
  BY <1>7 DEF RegReceive, RegFresh
<1>8. CASE RegConf
  BY <1>8 DEF RegConf, RegFresh
<1>9. CASE RegSync
  <2>1. CASE EventPending
    BY <1>9, <2>1 DEF RegSync, RegFresh, EventPending
  <2>2. CASE regConf = conf /\ \A i \in 1..(regAt - 1) : RegEntryDone(conf, i)
    <3>1. regAt \in 1..Len(conf)
      BY <1>9, <2>2 DEF RegSync, TypeInv, TypeOK
    <3>2. \A i \in 1..regAt : RegEntryDone(conf, i)'
      BY <1>9, <2>2, <3>1, RegVisit DEF RegSync, Wiring
    <3>3. regAt' - 1 = regAt
      BY <1>9, <3>1 DEF RegSync
    <3> QED
      BY <1>9, <2>2, <3>2, <3>3 DEF RegSync, RegFresh
  <2> QED
    BY <1>9, <2>1, <2>2 DEF RegSync, RegFresh
<1>10. CASE RegSynced
  <2>1. CASE EventPending
    BY <1>10, <2>1 DEF RegSynced, RegFresh, EventPending
  <2>2. CASE regConf = conf /\ \A i \in 1..(regAt - 1) : RegEntryDone(conf, i)
    <3>1. \A i \in 1..Len(conf) : i \in 1..(regAt - 1)
      BY <1>10, <2>2 DEF RegSynced, TypeInv, TypeOK
    <3>2. \A i \in 1..Len(conf) : RegEntryDone(conf, i)'
      BY <1>10, <2>2, <3>1 DEF RegSynced, RegEntryDone, Lineage, HasResource
    <3> QED
      BY <1>10, <3>2 DEF RegSynced, RegFresh
  <2> QED
    BY <1>10, <2>1, <2>2 DEF RegSynced, RegFresh
<1>11. CASE MgrReceive
  <2>1. reg = "child" /\ reg' = "wait" /\ UNCHANGED <<conf, registry, main, scanner>>
    BY <1>11 DEF MgrReceive
  <2>2. \A i : RegEntryDone(conf, i) => RegEntryDone(conf, i)'
    BY <2>1 DEF RegEntryDone, Lineage, HasResource
  <2> QED
    BY <2>1, <2>2 DEF RegFresh, EventPending
<1>12. CASE MgrConf \/ MgrSync \/ MgrSynced
  BY <1>12, RegFreshSame DEF MgrConf, MgrSync, MgrSynced, EventPending
<1>13. ASSUME NEW r \in Resources, StartPlugin(r) PROVE RegFresh'
  BY <1>13, RegFreshSame DEF StartPlugin, EventPending
<1>14. CASE FatalMapAccess
  BY <1>14 DEF FatalMapAccess, RegFresh, EventPending
<1>15. CASE UNCHANGED vars
  BY <1>15, RegFreshSame DEF vars, EventPending
<1> QED
  BY <1>1, <1>2, <1>3, <1>4, <1>5, <1>6, <1>7, <1>8, <1>9, <1>10, <1>11, <1>12,
     <1>13, <1>14, <1>15 DEF Next

\* The same for the manager; its entries also depend on the registry.
LEMMA MgrFreshSame ==
    ASSUME MgrFresh, UNCHANGED <<conf, registry, mgr, mgrConf, mgrAt, plugins>>,
           EventPending \/ reg \in {"conf", "sync", "child"}
             => EventPending' \/ reg' \in {"conf", "sync", "child"}
    PROVE  MgrFresh'
<1>1. \A i : MgrEntryDone(conf, i) => MgrEntryDone(conf, i)'
  BY DEF MgrEntryDone, HasResource, Constructs, HasAllocAddr
<1> QED
  BY <1>1 DEF MgrFresh

\* Every step keeps the manager loop up to date or due to be woken.
LEMMA MgrFreshNext == TypeInv /\ Wiring /\ MgrFresh /\ [Next]_vars => MgrFresh'
<1> SUFFICES ASSUME TypeInv, Wiring, MgrFresh, [Next]_vars PROVE MgrFresh'
  OBVIOUS
<1> USE DEF scanVars, mainVars, regVars, mgrVars
<1>1. CASE EditFile
  BY <1>1, MgrFreshSame DEF EditFile, EventPending
<1>2. CASE Scan
  BY <1>2, MgrFreshSame DEF Scan, EventPending
<1>3. CASE Store
  BY <1>3 DEF Store, MgrFresh, EventPending
<1>4. CASE NotifyAll
  BY <1>4, MgrFreshSame DEF NotifyAll, EventPending, Wiring
<1>5. CASE Spawn \/ MakeChannel \/ Subscribe \/ Register
  BY <1>5 DEF Spawn, MakeChannel, Subscribe, Register, MgrFresh, EventPending
<1>6. CASE RegSelect
  BY <1>6, MgrFreshSame DEF RegSelect, EventPending
<1>7. CASE RegReceive \/ RegConf \/ RegSync \/ RegSynced
  BY <1>7 DEF RegReceive, RegConf, RegSync, RegSynced, MgrFresh
<1>8. CASE MgrReceive
  BY <1>8 DEF MgrReceive, MgrFresh
<1>9. CASE MgrConf
  BY <1>9 DEF MgrConf, MgrFresh
<1>10. CASE MgrSync
  <2>1. CASE EventPending \/ reg \in {"conf", "sync", "child"}
    BY <1>10, <2>1 DEF MgrSync, MgrFresh, EventPending
  <2>2. CASE mgrConf = conf /\ \A i \in 1..(mgrAt - 1) : MgrEntryDone(conf, i)
    <3>1. \A i \in 1..mgrAt : MgrEntryDone(conf, i)'
      BY <1>10, <2>2, MgrVisitDone DEF MgrSync
    <3>2. mgrAt' - 1 = mgrAt
      BY <1>10 DEF MgrSync, TypeInv, TypeOK
    <3> QED
      BY <1>10, <2>2, <3>1, <3>2 DEF MgrSync, MgrFresh
  <2> QED
    BY <1>10, <2>1, <2>2 DEF MgrSync, MgrFresh
<1>11. CASE MgrSynced
  <2>1. CASE EventPending \/ reg \in {"conf", "sync", "child"}
    BY <1>11, <2>1 DEF MgrSynced, MgrFresh, EventPending
  <2>2. CASE mgrConf = conf /\ \A i \in 1..(mgrAt - 1) : MgrEntryDone(conf, i)
    <3>1. \A i \in 1..Len(conf) : i \in 1..(mgrAt - 1)
      BY <1>11, <2>2 DEF MgrSynced, TypeInv, TypeOK
    <3>2. \A i \in 1..Len(conf) : MgrEntryDone(conf, i)'
      BY <1>11, <2>2, <3>1
         DEF MgrSynced, MgrEntryDone, HasResource, Constructs, HasAllocAddr
    <3> QED
      BY <1>11, <3>2 DEF MgrSynced, MgrFresh
  <2> QED
    BY <1>11, <2>1, <2>2 DEF MgrSynced, MgrFresh
<1>12. ASSUME NEW r \in Resources, StartPlugin(r) PROVE MgrFresh'
  BY <1>12, MgrFreshSame DEF StartPlugin, EventPending
<1>13. CASE FatalMapAccess
  BY <1>13 DEF FatalMapAccess, MgrFresh, EventPending
<1>14. CASE UNCHANGED vars
  BY <1>14, MgrFreshSame DEF vars, EventPending
<1> QED
  BY <1>1, <1>2, <1>3, <1>4, <1>5, <1>6, <1>7, <1>8, <1>9, <1>10, <1>11, <1>12,
     <1>13, <1>14 DEF Next

\* The -auto-conf flag is read once, by main.go, and no step changes it.
LEMMA FlagFixed == [Next]_vars => autoConf' = autoConf
  BY DEF Next, vars, EditFile, Scan, Store, NotifyAll, Spawn, MakeChannel,
         Subscribe, Register, SendEvent, RegSelect, RegReceive, RegConf,
         RegSync, RegSynced, MgrReceive, MgrConf, MgrSync, MgrSynced,
         StartPlugin, FatalMapAccess, mainVars

\* UpdateInv is inductive.
THEOREM UpdateInvariant == Spec => []UpdateInv
<1>1. Init => UpdateInv
  <2> SUFFICES ASSUME Init PROVE UpdateInv
    OBVIOUS
  <2>1. Wiring
    BY ConfigAssumption DEF ConfigAssumption, Init, Wiring, BuiltinKept, HasResource
  <2> QED
    BY <2>1, TypeInit DEF Init, UpdateInv, RegFresh, MgrFresh, EventPending
<1>2. UpdateInv /\ [Next]_vars => UpdateInv'
  BY TypeNext, WiringNext, RegFreshNext, MgrFreshNext, FlagFixed DEF UpdateInv
<1> QED
  BY <1>1, <1>2, PTL DEF Spec

\* Whenever no event is on its way between config.go, plugin_registry.go and
\* plugin_manager.go, every entry of the stored configuration that can have a
\* plugin has one: for all configurations and all interleavings.
THEOREM NoUpdateIsLost == Spec => []NoLostUpdate
<1>1. UpdateInv => NoLostUpdate
  <2> SUFFICES ASSUME UpdateInv, Quiescent PROVE Applied(conf)
    BY DEF NoLostUpdate
  <2>1. DOMAIN conf = 1..Len(conf)
    BY DEF UpdateInv, TypeInv, TypeOK
  <2>2. \A i \in 1..Len(conf) : MgrEntryDone(conf, i)
    BY DEF UpdateInv, Quiescent, MgrFresh, EventPending
  <2>3. autoConf => \A i \in 1..Len(conf) : RegEntryDone(conf, i)
    BY DEF UpdateInv, Quiescent, RegFresh, EventPending, Wiring
  <2> QED
    BY <2>1, <2>2, <2>3 DEF Applied
<1> QED
  BY <1>1, UpdateInvariant, PTL

-----------------------------------------------------------------------------
PluginInv == TypeInv /\ OneGoroutinePerPlugin /\ PluginMatchesRegistry

\* Every step preserves the relation of plugins, goroutines and registry.
LEMMA PluginNext == PluginInv /\ [Next]_vars => PluginInv'
<1> SUFFICES ASSUME PluginInv, [Next]_vars PROVE PluginInv'
  OBVIOUS
<1>1. TypeInv /\ TypeInv'
  BY TypeNext DEF PluginInv
<1>2. ASSUME UNCHANGED <<plugins, launched, registry>> PROVE PluginInv'
  BY <1>1, <1>2 DEF PluginInv, OneGoroutinePerPlugin, PluginMatchesRegistry
<1>3. CASE RegSync
  <2>1. regConf[regAt] \in Interface /\ registry \in ConstructorMap
    BY <1>1, <1>3 DEF RegSync, TypeInv, TypeOK
  <2>2. \A r \in Resources : registry[r] # "absent" => registry'[r] = registry[r]
    BY <1>3, <2>1, InheritGrows DEF RegSync, HasResource
  <2>3. \A r \in Resources : plugins[r] # "absent" => registry[r] = plugins[r]
    BY DEF PluginInv, PluginMatchesRegistry
  <2>4. UNCHANGED <<plugins, launched>>
    BY <1>3 DEF RegSync, mgrVars
  <2>5. PluginMatchesRegistry'
    BY <2>2, <2>3, <2>4 DEF PluginMatchesRegistry
  <2> QED
    BY <1>1, <2>4, <2>5 DEF PluginInv, OneGoroutinePerPlugin
<1>4. CASE MgrSync
  <2> DEFINE r == mgrConf[mgrAt].resource
  <2>1. UNCHANGED registry
    BY <1>4 DEF MgrSync, regVars
  <2>2. CASE UNCHANGED <<plugins, launched>>
    BY <1>2, <2>1, <2>2
  <2>3. CASE ~UNCHANGED <<plugins, launched>>
    <3>1. /\ r \in Resources
          /\ plugins' = [plugins EXCEPT ![r] = registry[r]]
          /\ launched' = [launched EXCEPT ![r] = launched[r] + 1]
          /\ plugins[r] = "absent" /\ registry[r] # "absent"
      BY <1>1, <1>4, <2>3, MgrVisit DEF Skipped, HasResource
    <3>2. /\ plugins \in ConstructorMap /\ launched \in [Resources -> Nat]
          /\ \A x \in Resources : launched[x] = (IF plugins[x] = "absent" THEN 0 ELSE 1)
          /\ \A x \in Resources : plugins[x] # "absent" => plugins[x] = registry[x]
      BY DEF PluginInv, TypeInv, TypeOK, OneGoroutinePerPlugin, PluginMatchesRegistry
    <3> HIDE DEF r
    <3>3. OneGoroutinePerPlugin'
      BY <3>1, <3>2 DEF OneGoroutinePerPlugin, ConstructorMap
    <3>4. PluginMatchesRegistry'
      BY <3>1, <3>2, <2>1 DEF PluginMatchesRegistry, ConstructorMap
    <3> QED
      BY <1>1, <3>3, <3>4 DEF PluginInv
  <2> QED
    BY <2>2, <2>3
<1>5. CASE ~RegSync /\ ~MgrSync
  <2> USE DEF scanVars, mainVars, regVars, mgrVars
  <2>1. CASE EditFile \/ Scan \/ Store \/ NotifyAll
    BY <1>2, <2>1 DEF EditFile, Scan, Store, NotifyAll
  <2>2. CASE Spawn \/ MakeChannel \/ Subscribe \/ Register
    BY <1>2, <2>2 DEF Spawn, MakeChannel, Subscribe, Register
  <2>3. CASE RegSelect \/ RegReceive \/ RegConf \/ RegSynced
    BY <1>2, <2>3 DEF RegSelect, RegReceive, RegConf, RegSynced
  <2>4. CASE MgrReceive \/ MgrConf \/ MgrSynced
    BY <1>2, <2>4 DEF MgrReceive, MgrConf, MgrSynced
  <2>5. ASSUME NEW r \in Resources, StartPlugin(r) PROVE PluginInv'
    BY <1>2, <2>5 DEF StartPlugin
  <2>6. CASE FatalMapAccess
    BY <1>2, <2>6 DEF FatalMapAccess
  <2>7. CASE UNCHANGED vars
    BY <1>2, <2>7 DEF vars
  <2> QED
    BY <1>5, <2>1, <2>2, <2>3, <2>4, <2>5, <2>6, <2>7 DEF Next
<1> QED
  BY <1>3, <1>4, <1>5

\* The invariant of mgr.plugins holds in every reachable state.
THEOREM PluginInvariant == Spec => []PluginInv
<1>1. Init => PluginInv
  <2> SUFFICES ASSUME Init PROVE PluginInv
    OBVIOUS
  <2>1. OneGoroutinePerPlugin /\ PluginMatchesRegistry
    BY DEF Init, OneGoroutinePerPlugin, PluginMatchesRegistry
  <2> QED
    BY <2>1, TypeInit DEF PluginInv
<1> QED
  BY <1>1, PluginNext, PTL DEF Spec

\* pluginMgr.syncLoop runs one goroutine for every plugin it keeps, whatever
\* configurations follow each other.
THEOREM PluginsRunOnce == Spec => []OneGoroutinePerPlugin
<1>1. PluginInv => OneGoroutinePerPlugin
  BY DEF PluginInv
<1> QED
  BY <1>1, PluginInvariant, PTL

\* A plugin stays the one that its registered constructor builds: registry's
\* syncLoop never changes a constructor that is registered.
THEOREM PluginsAreAsRegistered == Spec => []PluginMatchesRegistry
<1>1. PluginInv => PluginMatchesRegistry
  BY DEF PluginInv
<1> QED
  BY <1>1, PluginInvariant, PTL

=============================================================================

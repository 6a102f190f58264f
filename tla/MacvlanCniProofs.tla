-------------------------- MODULE MacvlanCniProofs --------------------------
(***************************************************************************)
(* Theorems about MacvlanCni, for any sandboxes, interfaces and addresses. *)
(***************************************************************************)
EXTENDS MacvlanCni, TLAPS

-----------------------------------------------------------------------------
(* Type correctness                                                        *)

Entry == [name : Recorded, ids : SUBSET Nics]

\* getParentInterface returns an interface, or the error.
LEMMA ParentType ==
    ASSUME nad \in Seq(Entry), NEW id PROVE getParentInterface(id) \in Nics \cup {NoNic}
  <1>1. CASE nad = <<>>
    BY <1>1 DEF getParentInterface
  <1>2. CASE nad # <<>>
    <2>1. nad[Len(nad)] \in Entry
      BY <1>2
    <2> QED
      BY <2>1, CniAssumption DEF getParentInterface, Entry, CniAssumption
  <1> QED
    BY <1>1, <1>2

\* The annotation stays a list of entries.
LEMMA RecordType ==
    ASSUME nad \in Seq(Entry), NEW n \in Nics, Record(n) PROVE nad' \in Seq(Entry)
  <1>1. PICK S \in SUBSET {nad[i].name : i \in DOMAIN nad} :
            nad' = Append(nad, [name |-> n, ids |-> S \cup {n}])
    BY DEF Record
  <1>2. \A i \in DOMAIN nad : nad[i] \in Entry
    OBVIOUS
  <1>3. S \subseteq Nics /\ n \in Recorded
    BY <1>2, CniAssumption DEF CniAssumption, Entry, Record
  <1>4. [name |-> n, ids |-> S \cup {n}] \in Entry
    BY <1>3 DEF Entry
  <1> QED
    BY <1>1, <1>4

\* Every step preserves the types.
LEMMA TypeNext == TypeOK /\ [Next]_vars => TypeOK'
  <1> SUFFICES ASSUME TypeOK, [Next]_vars PROVE TypeOK'
    OBVIOUS
  <1> USE DEF kernel, TypeOK, Steps
  <1>1. CASE UNCHANGED vars
    BY <1>1 DEF vars
  <1>2. ASSUME NEW n \in Nics, Record(n) PROVE TypeOK'
    BY <1>2, RecordType DEF Record, Entry
  <1>3. ASSUME NEW c \in Sandboxes, CreateSandbox(c) \/ DestroySandbox(c) PROVE TypeOK'
    BY <1>3 DEF CreateSandbox, DestroySandbox
  <1>4. ASSUME NEW c \in Sandboxes, Add(c) \/ Kill(c) \/ Check(c) \/ AddFails(c)
        PROVE  TypeOK'
    BY <1>4 DEF Add, Kill, Check, AddFails, Report
  <1>5. ASSUME NEW c \in Sandboxes, GetParent(c) PROVE TypeOK'
    BY <1>5, ParentType DEF GetParent, Goto, Entry
  <1>6. ASSUME NEW c \in Sandboxes, GetNS(c) \/ LinkAdd(c) \/ LinkSetNsFd(c) \/ RenameLink(c)
        PROVE  TypeOK'
    BY <1>6 DEF GetNS, LinkAdd, LinkSetNsFd, RenameLink, Goto, Report
  <1>7. ASSUME NEW c \in Sandboxes, IpamAdd(c) \/ ConvertResult(c) PROVE TypeOK'
    BY <1>7 DEF IpamAdd, ConvertResult, Goto, Report
  <1>8. ASSUME NEW c \in Sandboxes, GetAddrs(c) PROVE TypeOK'
    BY <1>8 DEF GetAddrs, DelLink, Goto, Report
  <1>9. ASSUME NEW c \in Sandboxes, Configure(c) PROVE TypeOK'
    <2>1. AddrsOf[parent[c]] \cap V4 \subseteq Addrs
      BY <1>9, CniAssumption DEF Configure, Addrs, CniAssumption
    <2> QED
      BY <1>9, <2>1 DEF Configure, DelLink, Goto, Report
  <1>10. ASSUME NEW c \in Sandboxes, PrintResult(c) \/ Del(c) PROVE TypeOK'
    BY <1>10 DEF PrintResult, Del, DelLink, Report
  <1> QED
    BY <1>1, <1>2, <1>3, <1>4, <1>5, <1>6, <1>7, <1>8, <1>9, <1>10 DEF Next, AddStep

\* At first there is no sandbox and nothing is recorded.
LEMMA TypeInit == Init => TypeOK
  BY DEF Init, TypeOK, Steps

\* TypeOK holds in every reachable state of the node.
THEOREM TypeCorrect == Spec => []TypeOK
  BY TypeInit, TypeNext, PTL DEF Spec

-----------------------------------------------------------------------------
(* What an ADD has done                                                    *)

Attached(c) ==
    /\ "own" \in links[c] /\ c \in up
    /\ addrs[c] = AddrsOf[parent[c]] \cap V4

\* From the rename on the name args.IfName is that of the sandbox's own link,
\* and from Configure on the link is complete.  Nothing has been reported
\* while an ADD runs, and the namespace stays.
AddInv(c) ==
    /\ pc[c] # "idle" => told[c] = "nothing" /\ c \in netns
    /\ pc[c] \in {"addrs", "ipam", "convert", "configure", "print"}
         => "own" \in links[c] /\ "foreign" \notin links[c]
    /\ pc[c] = "print" => Attached(c)
    /\ c \in netns /\ told[c] = "result" => Attached(c)

AttachInv == \A c \in Sandboxes : AddInv(c)

\* A step of one sandbox does not concern the others.
LEMMA AddInvSame ==
    ASSUME NEW c, AddInv(c), pc'[c] = pc[c], told'[c] = told[c], c \in netns' <=> c \in netns,
           links'[c] = links[c], c \in up' <=> c \in up, addrs'[c] = addrs[c],
           parent'[c] = parent[c]
    PROVE  AddInv(c)'
  BY DEF AddInv, Attached

\* Every step preserves the invariant.
LEMMA AttachNext == TypeOK /\ AttachInv /\ [Next]_vars => AttachInv'
  <1> SUFFICES ASSUME TypeOK, AttachInv, [Next]_vars PROVE AttachInv'
    OBVIOUS
  <1> USE DEF kernel
  <1>1. CASE UNCHANGED <<kernel, pc, parent, told>>
    BY <1>1 DEF AttachInv, AddInv, Attached
  <1>2. ASSUME NEW c \in Sandboxes,
               \A d \in Sandboxes \ {c} :
                  /\ pc'[d] = pc[d] /\ told'[d] = told[d] /\ (d \in netns' <=> d \in netns)
                  /\ links'[d] = links[d] /\ (d \in up' <=> d \in up)
                  /\ addrs'[d] = addrs[d] /\ parent'[d] = parent[d],
               AddInv(c)'
        PROVE  AttachInv'
    BY <1>2, AddInvSame DEF AttachInv
  <1>3. ASSUME NEW c \in Sandboxes, CreateSandbox(c) \/ DestroySandbox(c) PROVE AttachInv'
    <2>1. AddInv(c)'
      BY <1>3 DEF CreateSandbox, DestroySandbox, AttachInv, AddInv, Attached, TypeOK
    <2> QED
      BY <1>2, <1>3, <2>1 DEF CreateSandbox, DestroySandbox, TypeOK
  <1>4. ASSUME NEW c \in Sandboxes, Add(c) \/ Kill(c) \/ AddFails(c) \/ GetParent(c)
        PROVE  AttachInv'
    <2>1. AddInv(c)'
      BY <1>4 DEF Add, Kill, AddFails, GetParent, Goto, Report, AttachInv, AddInv,
                  Attached, TypeOK
    <2> QED
      BY <1>2, <1>4, <2>1 DEF Add, Kill, AddFails, GetParent, Goto, Report, TypeOK
  <1>5. ASSUME NEW c \in Sandboxes, GetNS(c) \/ LinkAdd(c) \/ LinkSetNsFd(c) \/ RenameLink(c)
        PROVE  AttachInv'
    <2>1. AddInv(c)'
      BY <1>5 DEF GetNS, LinkAdd, LinkSetNsFd, RenameLink, Goto, Report, AttachInv,
                  AddInv, Attached, TypeOK
    <2> QED
      BY <1>2, <1>5, <2>1 DEF GetNS, LinkAdd, LinkSetNsFd, RenameLink, Goto, Report,
                              TypeOK
  <1>6. ASSUME NEW c \in Sandboxes, GetAddrs(c) \/ IpamAdd(c) \/ ConvertResult(c)
        PROVE  AttachInv'
    <2>1. AddInv(c)'
      BY <1>6 DEF GetAddrs, IpamAdd, ConvertResult, DelLink, Goto, Report, AttachInv,
                  AddInv, Attached, TypeOK
    <2> QED
      BY <1>2, <1>6, <2>1 DEF GetAddrs, IpamAdd, ConvertResult, DelLink, Goto, Report,
                              TypeOK
  <1>7. ASSUME NEW c \in Sandboxes, Configure(c) \/ PrintResult(c) \/ Del(c)
        PROVE  AttachInv'
    <2>1. AddInv(c)'
      BY <1>7 DEF Configure, PrintResult, Del, DelLink, Goto, Report, AttachInv,
                  AddInv, Attached, TypeOK
    <2> QED
      BY <1>2, <1>7, <2>1 DEF Configure, PrintResult, Del, DelLink, Goto, Report, TypeOK
  <1>8. CASE UNCHANGED vars \/ (\E n \in Nics : Record(n)) \/ \E c \in Sandboxes : Check(c)
    BY <1>1, <1>8 DEF vars, Record, Check
  <1> QED
    BY <1>3, <1>4, <1>5, <1>6, <1>7, <1>8 DEF Next, AddStep

\* The invariant of the ADDs holds in every reachable state.
THEOREM AttachInvariant == Spec => [](TypeOK /\ AttachInv)
  <1>1. Init => AttachInv
    BY DEF Init, AttachInv, AddInv
  <1> QED
    BY <1>1, TypeInit, TypeNext, AttachNext, PTL DEF Spec

\* A result of cmdAdd means a link that is up and has the parent's addresses,
\* whatever failed before, for any number of sandboxes.
THEOREM ResultsAreTrue == Spec => []ResultMeansAttached
  <1>1. TypeOK /\ AttachInv => ResultMeansAttached
    BY DEF AttachInv, AddInv, Attached, ResultMeansAttached, TypeOK
  <1> QED
    BY <1>1, AttachInvariant, PTL

\* The deferred functions of cmdAdd, which delete by name, never delete a link
\* that was there before: they run only after the rename has succeeded.
THEOREM ForeignLinksAreKept == Spec => AddKeepsForeignLink
  <1> DEFINE Kept == \A c \in Sandboxes :
                  "foreign" \in links[c] /\ pc[c] # "idle" => "foreign" \in links'[c]
  <1>1. TypeOK /\ AttachInv /\ [Next]_vars => [Kept]_vars
    <2> SUFFICES ASSUME TypeOK, AttachInv, Next, NEW c \in Sandboxes,
                        "foreign" \in links[c], pc[c] # "idle"
                 PROVE  "foreign" \in links'[c]
      OBVIOUS
    <2>1. pc[c] \notin {"addrs", "configure"}
      BY DEF AttachInv, AddInv
    <2>2. ASSUME NEW d \in Sandboxes, CreateSandbox(d) \/ DestroySandbox(d)
          PROVE  "foreign" \in links'[c]
      <3>1. pc[d] = "idle" /\ \A e \in Sandboxes \ {d} : links'[e] = links[e]
        BY <2>2 DEF CreateSandbox, DestroySandbox, TypeOK
      <3> QED
        BY <3>1
    <2>3. ASSUME NEW d \in Sandboxes, LinkSetNsFd(d) \/ RenameLink(d)
          PROVE  "foreign" \in links'[c]
      BY <2>3 DEF LinkSetNsFd, RenameLink, TypeOK
    <2>4. ASSUME NEW d \in Sandboxes, GetAddrs(d) \/ Configure(d) \/ Del(d)
          PROVE  "foreign" \in links'[c]
      <3>1. links' = links \/ (d # c /\ links' = [links EXCEPT ![d] = @ \ {"own", "foreign"}])
        BY <2>1, <2>4 DEF GetAddrs, Configure, Del, DelLink
      <3> QED
        BY <3>1 DEF TypeOK
    <2>5. CASE UNCHANGED links
      BY <2>5
    <2> QED
      BY <2>2, <2>3, <2>4, <2>5 DEF Next, AddStep, Record, Add, Kill, Check, AddFails,
         GetParent, GetNS, LinkAdd, IpamAdd, ConvertResult, PrintResult, kernel
  <1>2. Spec => [][Kept]_vars
    BY <1>1, AttachInvariant, PTL DEF Spec
  <1> QED
    BY <1>2 DEF AddKeepsForeignLink

-----------------------------------------------------------------------------
(* The parent interface                                                    *)

\* The first entry lists its own interface only, and before there is an entry
\* no ADD has a parent.
ParentInv ==
    /\ nad # <<>> => nad[1].ids = {nad[1].name}
    /\ nad = <<>> => \A c \in Sandboxes : parent[c] = NoNic
    /\ ParentOwnsDevice

\* Every step preserves the invariant.
LEMMA ParentNext == TypeOK /\ ParentInv /\ [Next]_vars => ParentInv'
  <1> SUFFICES ASSUME TypeOK, ParentInv, [Next]_vars PROVE ParentInv'
    OBVIOUS
  <1> USE DEF kernel
  <1>1. CASE UNCHANGED <<nad, parent>>
    BY <1>1 DEF ParentInv, ParentOwnsDevice
  <1>2. ASSUME NEW n \in Nics, Record(n) PROVE ParentInv'
    <2>1. PICK S \in SUBSET {nad[i].name : i \in DOMAIN nad} :
              nad' = Append(nad, [name |-> n, ids |-> S \cup {n}])
      BY <1>2 DEF Record
    <2>2. nad \in Seq(Entry)
      BY DEF TypeOK, Entry
    <2>3. parent' = parent
      BY <1>2 DEF Record
    <2>4. CASE nad = <<>>
      <3>1. S = {}
        BY <2>4
      <3>2. nad' = <<[name |-> n, ids |-> {n}]>>
        BY <2>1, <2>4, <3>1
      <3> QED
        BY <2>3, <2>4, <3>2 DEF ParentInv, ParentOwnsDevice
    <2>5. CASE nad # <<>>
      <3>1. Len(nad) \in Nat \ {0} /\ Len(nad') = Len(nad) + 1 /\ nad'[1] = nad[1]
        BY <2>1, <2>2, <2>5
      <3> QED
        BY <2>5, <3>1 DEF ParentInv, ParentOwnsDevice
    <2> QED
      BY <2>4, <2>5
  <1>3. ASSUME NEW c \in Sandboxes, Add(c) PROVE ParentInv'
    BY <1>3 DEF Add, ParentInv, ParentOwnsDevice, TypeOK
  <1>4. ASSUME NEW c \in Sandboxes, GetParent(c) PROVE ParentInv'
    <2>1. nad' = nad /\ nad \in Seq(Entry) /\ nad # <<>>
      BY <1>4 DEF GetParent, getParentInterface, TypeOK, Entry
    <2>2. parent' = [parent EXCEPT ![c] = nad[Len(nad)].name]
      BY <1>4 DEF GetParent, getParentInterface
    <2>3. ASSUME Len(nad) = 1 PROVE nad[Len(nad)].name = NicOf[c]
      <3>1. PICK i \in DOMAIN nad : NicOf[c] \in nad[i].ids
        BY <1>4 DEF GetParent, getParentInterface
      <3>2. i = 1
        BY <2>1, <2>3, <3>1
      <3> QED
        BY <2>1, <2>3, <3>1, <3>2 DEF ParentInv
    <2> QED
      BY <2>1, <2>2, <2>3 DEF ParentInv, ParentOwnsDevice, TypeOK
  <1>5. CASE \E c \in Sandboxes :
               \/ CreateSandbox(c) \/ DestroySandbox(c) \/ Kill(c) \/ AddFails(c) \/ GetNS(c)
               \/ LinkAdd(c) \/ LinkSetNsFd(c) \/ RenameLink(c) \/ GetAddrs(c) \/ IpamAdd(c)
               \/ ConvertResult(c) \/ Configure(c) \/ PrintResult(c) \/ Del(c) \/ Check(c)
    BY <1>1, <1>5 DEF CreateSandbox, DestroySandbox, Kill, AddFails, GetNS, LinkAdd,
       LinkSetNsFd, RenameLink, GetAddrs, IpamAdd, ConvertResult, Configure,
       PrintResult, Del, Check
  <1>6. CASE UNCHANGED vars
    BY <1>1, <1>6 DEF vars
  <1> QED
    BY <1>2, <1>3, <1>4, <1>5, <1>6 DEF Next, AddStep

\* With one interface in the net-attach-def, getParentInterface finds the one
\* that the sandbox's device belongs to.
THEOREM ParentsOwnDevices == Spec => []ParentOwnsDevice
  <1>1. Init => ParentInv
    BY DEF Init, ParentInv, ParentOwnsDevice
  <1>2. ParentInv => ParentOwnsDevice
    BY DEF ParentInv
  <1> QED
    BY <1>1, <1>2, TypeInit, TypeNext, ParentNext, PTL DEF Spec

=============================================================================

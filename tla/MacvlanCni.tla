----------------------------- MODULE MacvlanCni -----------------------------
(***************************************************************************)
(* The CNI plugin sfc-macvlan (cni/solarflare_macvlan.go): ADD, DEL and     *)
(* CHECK calls of the container runtime for the sandboxes of a node.  Every *)
(* call is a process of its own; those for one sandbox do not overlap.      *)
(*                                                                          *)
(* A step of an ADD is a call to the API server, the kernel or the IPAM     *)
(* plugin, and each of them may fail.  What cmdAdd then undoes is decided   *)
(* by its two deferred functions, each of which looks at the variable err   *)
(* of its own scope.                                                        *)
(***************************************************************************)
EXTENDS Naturals, Sequences, FiniteSets

CONSTANTS
    Sandboxes,
    Nics,
    NoNic,
    NicOf,      \* the interface whose device the kubelet gave to a sandbox
    Recorded,   \* interfaces the device plugin enters in the net-attach-def
    AddrsOf,    \* the addresses of an interface
    V4,         \* those of them that are IPv4
    Ipam        \* the sandboxes whose network configuration names an IPAM plugin

ASSUME CniAssumption ==
    /\ NoNic \notin Nics
    /\ NicOf \in [Sandboxes -> Nics]
    /\ Recorded \subseteq Nics
    /\ DOMAIN AddrsOf = Nics
    /\ Ipam \subseteq Sandboxes

Addrs == UNION {AddrsOf[n] : n \in Nics}

VARIABLES
    nad,     \* this node's annotation: entries [name, ids], a device ID being
             \* represented by the interface the device belongs to
    netns,   \* sandboxes whose network namespace exists
    links,   \* links in it: "own" and "foreign" have the name args.IfName,
             \* "tmp" has a random one
    host,    \* sandboxes whose link is in the namespace of the host
    addrs,   \* addresses of the sandbox's own link
    up,      \* sandboxes whose own link is up
    lease,   \* sandboxes for which the IPAM plugin holds an address
    pc,      \* the next step of the sandbox's ADD
    parent,  \* parentIfName
    told,    \* what the last ADD reported: a result, an error, nothing at all
             \* ("silence": success without a result) or its death
    checked  \* what the last CHECK reported

vars == <<nad, netns, links, host, addrs, up, lease, pc, parent, told, checked>>
kernel == <<netns, links, host, addrs, up>>

Steps == {"parent", "netns", "create", "move", "rename", "addrs", "ipam",
          "convert", "configure", "print"}

TypeOK ==
    /\ nad \in Seq([name : Recorded, ids : SUBSET Nics])
    /\ netns \subseteq Sandboxes
    /\ links \in [Sandboxes -> SUBSET {"own", "foreign", "tmp"}]
    /\ host \subseteq Sandboxes /\ up \subseteq Sandboxes /\ lease \subseteq Sandboxes
    /\ addrs \in [Sandboxes -> SUBSET Addrs]
    /\ pc \in [Sandboxes -> Steps \cup {"idle"}]
    /\ parent \in [Sandboxes -> Nics \cup {NoNic}]
    /\ \A c \in Sandboxes : pc[c] \notin {"idle", "parent"} => parent[c] \in Nics
    /\ told \in [Sandboxes -> {"nothing", "result", "error", "silence", "killed"}]
    /\ checked \in [Sandboxes -> {"nothing", "mismatch", "error"}]

Init ==
    /\ nad = <<>>
    /\ netns = {} /\ host = {} /\ up = {} /\ lease = {}
    /\ links = [c \in Sandboxes |-> {}]
    /\ addrs = [c \in Sandboxes |-> {}]
    /\ pc = [c \in Sandboxes |-> "idle"]
    /\ parent = [c \in Sandboxes |-> NoNic]
    /\ told = [c \in Sandboxes |-> "nothing"]
    /\ checked = [c \in Sandboxes |-> "nothing"]

-----------------------------------------------------------------------------
(* The container runtime and the device plugin                              *)

\* A sandbox is set up; a network attached before ours may have taken the
\* interface name.
CreateSandbox(c) ==
    /\ c \notin netns /\ pc[c] = "idle" /\ told[c] = "nothing"
    /\ netns' = netns \cup {c}
    /\ \E l \in {{}, {"foreign"}} : links' = [links EXCEPT ![c] = l]
    /\ UNCHANGED <<nad, host, addrs, up, lease, pc, parent, told, checked>>

\* The namespace goes away, and the links in it; DEL may come before or after.
DestroySandbox(c) ==
    /\ c \in netns /\ pc[c] = "idle"
    /\ netns' = netns \ {c}
    /\ links' = [links EXCEPT ![c] = {}]
    /\ addrs' = [addrs EXCEPT ![c] = {}]
    /\ up' = up \ {c}
    /\ UNCHANGED <<nad, host, lease, pc, parent, told, checked>>

\* AddDeviceIDs of the device plugin enters an interface with the IDs of all
\* the interfaces its refresh has visited, and so recorded, before.
Record(n) ==
    /\ n \in Recorded
    /\ \A i \in DOMAIN nad : nad[i].name # n
    /\ \E S \in SUBSET {nad[i].name : i \in DOMAIN nad} :
          nad' = Append(nad, [name |-> n, ids |-> S \cup {n}])
    /\ UNCHANGED <<kernel, lease, pc, parent, told, checked>>

Add(c) ==
    /\ pc[c] = "idle" /\ told[c] = "nothing" /\ c \in netns
    /\ pc' = [pc EXCEPT ![c] = "parent"]
    /\ parent' = [parent EXCEPT ![c] = NoNic]
    /\ UNCHANGED <<nad, kernel, lease, told, checked>>

\* The runtime gives up on an ADD and kills the process: nothing is deferred.
Kill(c) ==
    /\ pc[c] # "idle"
    /\ pc' = [pc EXCEPT ![c] = "idle"]
    /\ told' = [told EXCEPT ![c] = "killed"]
    /\ UNCHANGED <<nad, kernel, lease, parent, checked>>

-----------------------------------------------------------------------------
(* cmdAdd                                                                   *)

Goto(c, step) ==
    /\ pc' = [pc EXCEPT ![c] = step]
    /\ UNCHANGED <<told, checked>>

Report(c, what) ==
    /\ pc' = [pc EXCEPT ![c] = "idle"]
    /\ told' = [told EXCEPT ![c] = what]
    /\ UNCHANGED checked

\* An early return before the first deferred function is in place.
AddFails(c) ==
    /\ pc[c] \in {"parent", "netns", "create"}
    /\ Report(c, "error")
    /\ UNCHANGED <<nad, kernel, lease, parent>>

\* Variant: the test of found after the loop is missing.
getParentInterfaceUnchecked(id) ==
    IF nad = <<>> THEN NoNic ELSE nad[Len(nad)].name

\* getParentInterface: found is not reset, so every entry after the first that
\* lists the device overwrites parentIfName.  NoNic stands for the error.
getParentInterface(id) ==
    IF \E i \in DOMAIN nad : id \in nad[i].ids THEN nad[Len(nad)].name ELSE NoNic

\* Variant: the error of getParentInterface is ignored.
GetParentUnchecked(c) ==
    /\ pc[c] = "parent"
    /\ parent' = [parent EXCEPT ![c] = getParentInterface(NicOf[c])]
    /\ Goto(c, "netns")
    /\ UNCHANGED <<nad, kernel, lease>>

GetParent(c) ==
    /\ pc[c] = "parent"
    /\ getParentInterface(NicOf[c]) # NoNic
    /\ parent' = [parent EXCEPT ![c] = getParentInterface(NicOf[c])]
    /\ Goto(c, "netns")
    /\ UNCHANGED <<nad, kernel, lease>>

GetNS(c) ==
    /\ pc[c] = "netns" /\ c \in netns
    /\ Goto(c, "create")
    /\ UNCHANGED <<nad, kernel, lease, parent>>

\* createMacvlan up to LinkAdd: a link with a random name on the host.
LinkAdd(c) ==
    /\ pc[c] = "create"
    /\ host' = host \cup {c}
    /\ Goto(c, "move")
    /\ UNCHANGED <<nad, netns, links, addrs, up, lease, parent>>

\* LinkSetNsFd; when it fails createMacvlan returns and the link stays.
LinkSetNsFd(c) ==
    /\ pc[c] = "move"
    /\ \/ /\ host' = host \ {c}
          /\ links' = [links EXCEPT ![c] = @ \cup {"tmp"}]
          /\ Goto(c, "rename")
       \/ Report(c, "error") /\ UNCHANGED <<host, links>>
    /\ UNCHANGED <<nad, netns, addrs, up, lease, parent>>

\* Variant: cleaning up by name after a failed rename.
RenameLinkDeletingByName(c) ==
    /\ pc[c] = "rename"
    /\ \/ /\ links[c] \cap {"own", "foreign"} = {}
          /\ links' = [links EXCEPT ![c] = (@ \ {"tmp"}) \cup {"own"}]
          /\ Goto(c, "addrs")
       \/ /\ links' = [links EXCEPT ![c] = @ \ {"own", "foreign"}]
          /\ Report(c, "error")
    /\ UNCHANGED <<nad, netns, host, addrs, up, lease, parent>>

\* RenameLink fails when the name is taken; the link may also not be found
\* again under its new name.  The LinkDel that follows a failure is made on
\* the host, which the link has left: it does nothing.
RenameLink(c) ==
    /\ pc[c] = "rename"
    /\ \/ /\ links[c] \cap {"own", "foreign"} = {}
          /\ links' = [links EXCEPT ![c] = (@ \ {"tmp"}) \cup {"own"}]
          /\ Goto(c, "addrs") \/ Report(c, "error")
       \/ Report(c, "error") /\ UNCHANGED links
    /\ UNCHANGED <<nad, netns, host, addrs, up, lease, parent>>

\* DelLinkByName(args.IfName) in the sandbox's namespace, which is taken to
\* succeed when the link is there
DelLink(c) ==
    /\ links' = [links EXCEPT ![c] = @ \ {"own", "foreign"}]
    /\ addrs' = [addrs EXCEPT ![c] = {}]
    /\ up' = up \ {c}

GetAddrs(c) ==
    /\ pc[c] = "addrs"
    /\ \/ Goto(c, IF c \in Ipam THEN "ipam" ELSE "configure") /\ UNCHANGED <<links, addrs, up>>
       \/ Report(c, "error") /\ DelLink(c)
    /\ UNCHANGED <<nad, netns, host, lease, parent>>

\* ipam.ExecAdd; its err is not the one the first deferred function tests.
IpamAdd(c) ==
    /\ pc[c] = "ipam"
    /\ \/ lease' = lease \cup {c} /\ Goto(c, "convert")
       \/ Report(c, "error") /\ UNCHANGED lease
    /\ UNCHANGED <<nad, kernel, parent>>

\* NewResultFromResult; on error the second deferred function runs ExecDel.
ConvertResult(c) ==
    /\ pc[c] = "convert"
    /\ \/ Goto(c, "configure") /\ UNCHANGED lease
       \/ Report(c, "error") /\ lease' = lease \ {c}
    /\ UNCHANGED <<nad, kernel, parent>>

\* Variant: an error from inside netns.Do is not noticed.
ConfigureUnchecked(c) ==
    /\ pc[c] = "configure"
    /\ \/ addrs' = [addrs EXCEPT ![c] = AddrsOf[parent[c]] \cap V4] /\ up' = up \cup {c}
       \/ UNCHANGED <<addrs, up>>
    /\ Goto(c, "print")
    /\ UNCHANGED <<nad, netns, links, host, lease, parent>>

\* Addresses are added and the link is set up.  On error the link is deleted,
\* the address is not given back, and cmdAdd returns nil.
Configure(c) ==
    /\ pc[c] = "configure"
    /\ \/ /\ addrs' = [addrs EXCEPT ![c] = AddrsOf[parent[c]] \cap V4]
          /\ up' = up \cup {c}
          /\ Goto(c, "print")
          /\ UNCHANGED links
       \/ Report(c, "silence") /\ DelLink(c)
    /\ UNCHANGED <<nad, netns, host, lease, parent>>

\* PrintResult; its error is in no variable that is tested.
PrintResult(c) ==
    /\ pc[c] = "print"
    /\ \/ Report(c, "result")
       \/ Report(c, "error")
    /\ UNCHANGED <<nad, kernel, lease, parent>>

-----------------------------------------------------------------------------
(* cmdDel and cmdCheck                                                      *)

\* Variant: a link that is not there is an error.
DelStrict(c) ==
    /\ pc[c] = "idle" /\ told[c] # "nothing"
    /\ c \in netns => links[c] \cap {"own", "foreign"} # {}
    /\ DelLink(c)
    /\ told' = [told EXCEPT ![c] = "nothing"]
    /\ checked' = [checked EXCEPT ![c] = "nothing"]
    /\ UNCHANGED <<nad, netns, host, lease, pc, parent>>

\* A DEL that reports success: the link is deleted or was not there, or the
\* namespace is gone.  A DEL that fails changes nothing and is repeated.
Del(c) ==
    /\ pc[c] = "idle" /\ told[c] # "nothing"
    /\ DelLink(c)
    /\ told' = [told EXCEPT ![c] = "nothing"]
    /\ checked' = [checked EXCEPT ![c] = "nothing"]
    /\ UNCHANGED <<nad, netns, host, lease, pc, parent>>

\* A CHECK of an attached sandbox, with the result of its ADD as prevResult.
\* contMap is never assigned: args.Netns is compared with the empty string.
Check(c) ==
    /\ pc[c] = "idle" /\ told[c] = "result"
    /\ \/ checked' = [checked EXCEPT ![c] = "error"]
       \/ c \in netns /\ checked' = [checked EXCEPT ![c] = "mismatch"]
    /\ UNCHANGED <<nad, kernel, lease, pc, parent, told>>

-----------------------------------------------------------------------------
AddStep(c) ==
    \/ AddFails(c) \/ GetParent(c) \/ GetNS(c) \/ LinkAdd(c) \/ LinkSetNsFd(c)
    \/ RenameLink(c) \/ GetAddrs(c) \/ IpamAdd(c) \/ ConvertResult(c)
    \/ Configure(c) \/ PrintResult(c)

Next ==
    \/ \E n \in Nics : Record(n)
    \/ \E c \in Sandboxes :
          \/ CreateSandbox(c) \/ DestroySandbox(c) \/ Add(c) \/ Kill(c)
          \/ AddStep(c) \/ Del(c) \/ Check(c)

Spec == Init /\ [][Next]_vars

\* An ADD goes on, and the runtime repeats a DEL, which does not fail for ever.
FairSpec == Spec /\ \A c \in Sandboxes : WF_vars(AddStep(c)) /\ SF_vars(Del(c))

-----------------------------------------------------------------------------
(* Properties                                                               *)

\* When cmdAdd has printed a result, and until DEL or the end of the namespace,
\* the sandbox has its link, up, with all the IPv4 addresses of the parent
\* ("we want to use same ip"), whatever failed before and however often ADD
\* was killed and repeated.
ResultMeansAttached ==
    \A c \in netns : told[c] = "result" =>
        /\ "own" \in links[c] /\ c \in up
        /\ addrs[c] = AddrsOf[parent[c]] \cap V4

\* An ADD never removes a link that was in the sandbox before it, although it
\* cleans up by name: only DEL and the end of the namespace do.
AddKeepsForeignLink ==
    [][\A c \in Sandboxes :
          "foreign" \in links[c] /\ pc[c] # "idle" => "foreign" \in links'[c]]_vars

\* While the net-attach-def lists a single interface, the macvlan is created on
\* the interface the sandbox's device belongs to, or not at all.
ParentOwnsDevice ==
    Len(nad) = 1 => \A c \in Sandboxes : parent[c] # NoNic => parent[c] = NicOf[c]

\* "Delete can be called multiple times so don't return an error if the device
\* is already removed": after an ADD that failed at any step, or was killed at
\* any step, DEL comes to an end, and the interface name is free again.
FailedAddIsCleanedUp ==
    \A c \in Sandboxes :
        told[c] \in {"error", "silence", "killed"}
          ~> told[c] = "nothing" /\ links[c] \cap {"own", "foreign"} = {}

=============================================================================

-------------------------- MODULE PluginLifecycle --------------------------
(***************************************************************************)
(* One plugin from PluginBase.Run on (plugin.go): RunOnce of               *)
(* vsfc_plugin.go listens on the plugin's socket and runs a group of       *)
(* actors: the gRPC server, the registration with the kubelet, the watch   *)
(* of the socket and, for resources that are not built in, the watch of    *)
(* the net-attach-def.  The first actor to return ends the group; when all *)
(* have returned, Run waits and calls RunOnce again.  The context of main  *)
(* is never cancelled, so this goes on until the process dies.             *)
(*                                                                         *)
(* A kubelet that starts removes all sockets from the plugin directory;    *)
(* that is how a plugin learns of it.                                      *)
(***************************************************************************)

CONSTANTS
    DefaultResource, \* the resource is built in: nobody creates its net-attach-def
    Mem              \* it is served by a memVSfcPluginServer

ASSUME LifecycleAssumption ==
    DefaultResource \in BOOLEAN /\ Mem \in BOOLEAN

VARIABLES
    kubelet,    \* the kubelet's device manager: "down", "starting" or "up"
    pending,    \* it has a Register request it has not acted on
    stream,     \* its ListAndWatch call to the plugin: "none", "open" or "failed"
    nadExists,  \* the net-attach-def of the resource exists
    sock,       \* the plugin's socket file exists
    run,        \* where PluginBase.Run is: "listen", "group" or "backoff"
    cancelled,  \* the group has been interrupted
    serve, reg, watch, nadWatch  \* where the actors are: "off" without a group,
                                 \* "done" when they have returned

kubeletVars == <<kubelet, pending, stream>>
actors      == <<serve, reg, watch, nadWatch>>
vars        == <<kubeletVars, nadExists, sock, run, cancelled, actors>>

Init ==
    /\ kubelet \in {"down", "up"} /\ pending = FALSE /\ stream = "none"
    /\ nadExists \in BOOLEAN /\ sock = FALSE
    /\ run = "listen" /\ cancelled = FALSE
    /\ serve = "off" /\ reg = "off" /\ watch = "off" /\ nadWatch = "off"

-----------------------------------------------------------------------------
(* The environment                                                         *)

KubeletStops ==
    /\ kubelet = "up"
    /\ kubelet' = "down" /\ pending' = FALSE /\ stream' = "none"
    /\ UNCHANGED <<nadExists, sock, run, cancelled, actors>>

\* The device manager cleans its directory before it listens.
KubeletStarts ==
    /\ kubelet = "down"
    /\ kubelet' = "starting" /\ sock' = FALSE
    /\ UNCHANGED <<pending, stream, nadExists, run, cancelled, actors>>

KubeletServes ==
    /\ kubelet = "starting"
    /\ kubelet' = "up"
    /\ UNCHANGED <<pending, stream, nadExists, sock, run, cancelled, actors>>

\* After Register has returned the kubelet dials the plugin's socket and
\* calls ListAndWatch, or finds nobody there.
KubeletDials ==
    /\ pending
    /\ pending' = FALSE
    /\ stream' = IF sock /\ serve = "run" THEN "open" ELSE stream
    /\ UNCHANGED <<kubelet, nadExists, sock, run, cancelled, actors>>

\* An operator creates or deletes the net-attach-def.
EditNad ==
    /\ nadExists' = ~nadExists
    /\ UNCHANGED <<kubeletVars, sock, run, cancelled, actors>>

\* The process dies and is started again.  MakeUnixSockPath puts the time
\* into the name of the socket, so the new plugin has a socket of its own.
Crash ==
    /\ pending' = FALSE /\ stream' = "none"
    /\ sock' = FALSE /\ run' = "listen" /\ cancelled' = FALSE
    /\ serve' = "off" /\ reg' = "off" /\ watch' = "off" /\ nadWatch' = "off"
    /\ UNCHANGED <<kubelet, nadExists>>

-----------------------------------------------------------------------------
(* PluginBase.Run and RunOnce                                              *)

\* RunOnce up to g.Run; a socket file in the way makes it return an error.
Listen ==
    /\ run = "listen"
    /\ IF sock
         THEN run' = "backoff" /\ UNCHANGED <<sock, cancelled, actors>>
         ELSE /\ sock' = TRUE
              /\ run' = "group" /\ cancelled' = FALSE
              /\ serve' = "run" /\ reg' = "dial" /\ watch' = "loop"
              /\ nadWatch' = IF DefaultResource THEN "off" ELSE "create"
    /\ UNCHANGED <<kubeletVars, nadExists>>

\* An actor has returned and all are interrupted.  grpcServer.Stop closes the
\* listener, which removes the socket file, and every connection.
Interrupt ==
    /\ run = "group" /\ ~cancelled
    /\ "done" \in {serve, reg, watch, nadWatch}
    /\ cancelled' = TRUE
    /\ serve' = "done" /\ sock' = FALSE /\ stream' = "none"
    /\ UNCHANGED <<kubelet, pending, nadExists, run, reg, watch, nadWatch>>

\* Variant: the first error is returned at once.
GroupReturnsAtOnce ==
    /\ run = "group"
    /\ "done" \in {serve, reg, watch, nadWatch}
    /\ run' = "backoff"
    /\ serve' = "off" /\ reg' = "off" /\ watch' = "off" /\ nadWatch' = "off"
    /\ UNCHANGED <<kubeletVars, nadExists, sock, cancelled>>

\* g.Run returns the error once every actor has returned.
GroupReturns ==
    /\ run = "group" /\ cancelled
    /\ {serve, reg, watch, nadWatch} \subseteq {"off", "done"}
    /\ run' = "backoff"
    /\ serve' = "off" /\ reg' = "off" /\ watch' = "off" /\ nadWatch' = "off"
    /\ UNCHANGED <<kubeletVars, nadExists, sock, cancelled>>

\* time.After(restartInterval)
Restart ==
    /\ run = "backoff"
    /\ run' = "listen"
    /\ UNCHANGED <<kubeletVars, nadExists, sock, cancelled, actors>>

-----------------------------------------------------------------------------
(* The actors                                                              *)

\* Serve gives up by itself and closes its listener.
ServeFails ==
    /\ serve = "run"
    /\ serve' = "done" /\ sock' = FALSE
    /\ UNCHANGED <<kubeletVars, nadExists, run, cancelled, reg, watch, nadWatch>>

\* The blocking dial of the plugin's own socket, which ctx ends.
RegDial ==
    /\ reg = "dial"
    /\ \/ sock /\ serve = "run" /\ reg' = "kubelet"
       \/ cancelled /\ reg' = "done"
    /\ UNCHANGED <<kubeletVars, nadExists, sock, run, cancelled, serve, watch,
                   nadWatch>>

\* registerWithKubelet dials the kubelet: blocking, without a deadline and
\* deaf to the interrupt.
RegDialKubelet ==
    /\ reg = "kubelet" /\ kubelet = "up"
    /\ reg' = "request"
    /\ UNCHANGED <<kubeletVars, nadExists, sock, run, cancelled, serve, watch,
                   nadWatch>>

Register ==
    /\ reg = "request" /\ kubelet = "up"
    /\ pending' = TRUE
    /\ reg' = "hold"
    /\ UNCHANGED <<kubelet, stream, nadExists, sock, run, cancelled, serve,
                   watch, nadWatch>>

\* Variant: the error of Register is only logged.
RegisterFailsLogging ==
    /\ reg = "request"
    /\ reg' = "hold"
    /\ UNCHANGED <<kubeletVars, nadExists, sock, run, cancelled, serve, watch,
                   nadWatch>>

\* The kubelet is gone again, or refuses.
RegisterFails ==
    /\ reg = "request"
    /\ reg' = "done"
    /\ UNCHANGED <<kubeletVars, nadExists, sock, run, cancelled, serve, watch,
                   nadWatch>>

\* <-ctx.Done()
RegHold ==
    /\ reg = "hold" /\ cancelled
    /\ reg' = "done"
    /\ UNCHANGED <<kubeletVars, nadExists, sock, run, cancelled, serve, watch,
                   nadWatch>>

\* Variant: the error of Lstat is only logged.
WatchSocketLogging ==
    /\ watch = "loop" /\ cancelled
    /\ watch' = "done"
    /\ UNCHANGED <<kubeletVars, nadExists, sock, run, cancelled, serve, reg,
                   nadWatch>>

\* A tick that finds no socket, or the interrupt.
WatchSocket ==
    /\ watch = "loop" /\ (~sock \/ cancelled)
    /\ watch' = "done"
    /\ UNCHANGED <<kubeletVars, nadExists, sock, run, cancelled, serve, reg,
                   nadWatch>>

\* AddNetAttachDefByResource, whose error is dropped.
NadCreate ==
    /\ nadWatch = "create"
    /\ nadExists' \in {nadExists, TRUE}
    /\ nadWatch' = "loop"
    /\ UNCHANGED <<kubeletVars, sock, run, cancelled, serve, reg, watch>>

\* A tick for which GetNetAttachDef returns nil, or the interrupt.
NadWatch ==
    /\ nadWatch = "loop" /\ (~nadExists \/ cancelled)
    /\ nadWatch' = "done"
    /\ UNCHANGED <<kubeletVars, nadExists, sock, run, cancelled, serve, reg,
                   watch>>

\* ListAndWatch of vSfcPluginServer returns when AddDeviceIDs fails (there is
\* no net-attach-def yet, or somebody else wrote it), and the stream ends.
ListFails ==
    /\ stream = "open" /\ ~Mem
    /\ stream' = "failed"
    /\ UNCHANGED <<kubelet, pending, nadExists, sock, run, cancelled, actors>>

-----------------------------------------------------------------------------
Next ==
    \/ KubeletStops \/ KubeletStarts \/ KubeletServes \/ KubeletDials
    \/ EditNad \/ Crash
    \/ Listen \/ Interrupt \/ GroupReturns \/ Restart
    \/ ServeFails \/ RegDial \/ RegDialKubelet \/ Register \/ RegisterFails
    \/ RegHold \/ WatchSocket \/ NadCreate \/ NadWatch \/ ListFails

Spec == Init /\ [][Next]_vars

\* The goroutines of the plugin are scheduled, its tickers and timers fire,
\* and the kubelet acts on a registration.  Nobody has to start a kubelet, and
\* a missing net-attach-def need not be noticed: the client may return an
\* empty object in place of nil.
Fairness ==
    /\ WF_vars(Listen \/ Interrupt \/ GroupReturns \/ Restart)
    /\ WF_vars(RegDial \/ RegDialKubelet \/ Register \/ RegisterFails \/ RegHold)
    /\ WF_vars(WatchSocket)
    /\ WF_vars(NadCreate)
    /\ WF_vars(NadWatch /\ cancelled)
    /\ WF_vars(KubeletDials)

FairSpec == Spec /\ Fairness

-----------------------------------------------------------------------------
(* Properties                                                              *)

\* RunOnce uses one socket path again and again; whatever ended the last
\* group, its socket file is gone when RunOnce listens, so that net.Listen
\* does not fail with an address in use, time after time.
ListenFindsNoSocket == run = "listen" => ~sock

\* The watch of the socket is enough to notice a kubelet that was restarted:
\* while the actor that registers waits and the socket file is there, the
\* present kubelet, and not only an earlier one, has been told of the plugin.
RegisteredIsKnown ==
    reg = "hold" /\ sock /\ kubelet = "up" => pending \/ stream # "none"

\* A kubelet that stays up ends up connected to the plugin, however often it
\* was restarted before and at whatever moment of RunOnce, as long as the
\* net-attach-def stays and nothing fails again and again; only ListAndWatch
\* itself may have ended the stream.
EventuallyConnected ==
    \/ []<><<Crash \/ ServeFails \/ RegisterFails>>_vars
    \/ <>[](kubelet = "up" /\ nadExists) => <>[](stream # "none")

\* "ListAndWatch lists all devices and then refreshes every
\* deviceCheckInterval": under the same conditions the stream is open for good.
EventuallyListed ==
    \/ []<><<Crash \/ ServeFails \/ RegisterFails>>_vars
    \/ <>[](kubelet = "up" /\ nadExists) => <>[](stream = "open")

=============================================================================

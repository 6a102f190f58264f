----------------------- MODULE PluginLifecycleProofs -----------------------
(* Proofs about PluginLifecycle: the socket file and the registration.     *)
EXTENDS PluginLifecycle, TLAPS

\* The socket file exists only while its server runs, and a server runs only
\* inside a group.  Of the registration: the file that was there when the
\* kubelet was told is removed by whatever ends that kubelet's knowledge.
SocketInv ==
    /\ sock => serve = "run"
    /\ run # "group" => serve = "off" /\ reg = "off" /\ watch = "off" /\ nadWatch = "off"
    /\ cancelled /\ run = "group" => serve = "done"
    /\ reg = "hold" /\ sock => kubelet # "starting"
    /\ RegisteredIsKnown

\* The invariant holds before RunOnce is called for the first time.
LEMMA SocketInit == Init => SocketInv
  BY DEF Init, SocketInv, RegisteredIsKnown

\* Every step of the kubelet, of Run and of the actors of its group preserves
\* the invariant, for built-in and other resources and for both servers.
LEMMA SocketNext == SocketInv /\ [Next]_vars => SocketInv'
<1> SUFFICES ASSUME SocketInv, [Next]_vars PROVE SocketInv'
  OBVIOUS
<1> USE DEF SocketInv, RegisteredIsKnown, kubeletVars, actors
<1>1. CASE KubeletStops
  BY <1>1 DEF KubeletStops
<1>2. CASE KubeletStarts
  BY <1>2 DEF KubeletStarts
<1>3. CASE KubeletServes
  BY <1>3 DEF KubeletServes
<1>4. CASE KubeletDials
  BY <1>4 DEF KubeletDials
<1>5. CASE EditNad
  BY <1>5 DEF EditNad
<1>6. CASE Crash
  BY <1>6 DEF Crash
<1>7. CASE Listen
  BY <1>7 DEF Listen
<1>8. CASE Interrupt
  BY <1>8 DEF Interrupt
<1>9. CASE GroupReturns
  BY <1>9 DEF GroupReturns
<1>10. CASE Restart
  BY <1>10 DEF Restart
<1>11. CASE ServeFails
  BY <1>11 DEF ServeFails
<1>12. CASE RegDial
  BY <1>12 DEF RegDial
<1>13. CASE RegDialKubelet
  BY <1>13 DEF RegDialKubelet
<1>14. CASE Register
  BY <1>14 DEF Register
<1>15. CASE RegisterFails
  BY <1>15 DEF RegisterFails
<1>16. CASE RegHold
  BY <1>16 DEF RegHold
<1>17. CASE WatchSocket
  BY <1>17 DEF WatchSocket
<1>18. CASE NadCreate
  BY <1>18 DEF NadCreate
<1>19. CASE NadWatch
  BY <1>19 DEF NadWatch
<1>20. CASE ListFails
  BY <1>20 DEF ListFails
<1>21. CASE UNCHANGED vars
  BY <1>21 DEF vars
<1> QED
  BY <1>1, <1>2, <1>3, <1>4, <1>5, <1>6, <1>7, <1>8, <1>9, <1>10,
     <1>11, <1>12, <1>13, <1>14, <1>15, <1>16, <1>17, <1>18, <1>19, <1>20, <1>21
  DEF Next

\* The socket file belongs to a running server, and to a kubelet that has been
\* told of it if the registration is waiting.
THEOREM SocketInvariant == Spec => []SocketInv
  BY SocketInit, SocketNext, PTL DEF Spec

\* For every resource: net.Listen of RunOnce never finds the socket of an
\* earlier group in its way.
THEOREM ListenSucceeds == Spec => []ListenFindsNoSocket
<1>1. SocketInv => ListenFindsNoSocket
  BY DEF SocketInv, ListenFindsNoSocket
<1> QED
  BY <1>1, SocketInvariant, PTL

\* For every resource: a registration that is waiting, with the socket in its
\* place, is a registration with the present kubelet.
THEOREM WatchSuffices == Spec => []RegisteredIsKnown
<1>1. SocketInv => RegisteredIsKnown
  BY DEF SocketInv
<1> QED
  BY <1>1, SocketInvariant, PTL

=============================================================================

------------------------- MODULE NativeProxyProofs -------------------------
(***************************************************************************)
(* Proofs about NativeProxy, for every limit on restarts, every set of     *)
(* callers and every number of power cuts.                                 *)
(***************************************************************************)
EXTENDS NativeProxy, TLAPS

\* While doStart waits for a child or sets up its client, there is a child.
Started == pc \in {"handshake", "connect"} => cmd # 0

\* A step keeps every variable within its type.
LEMMA TypeStep == TypeOK /\ Started /\ [Next]_vars => TypeOK' /\ Started'
<1> SUFFICES ASSUME TypeOK, Started, [Next]_vars PROVE TypeOK' /\ Started'
  OBVIOUS
<1> USE AttemptAssumption, CutAssumption
<1> USE DEF TypeOK, Started, Children
<1>0. CASE UNCHANGED vars
  BY <1>0 DEF vars, proxy
<1>e. ASSUME Ended, dump' \in {"none", "log", "link"}, cuts' \in 0..MaxCuts
      PROVE  TypeOK' /\ Started'
  <2>1. 0 \in 0..(MaxRestartAttempts - 1) /\ 0 \in 0..MaxRestartAttempts
    OBVIOUS
  <2>2. child' \in [Children -> {"none", "starting", "serving", "dead"}]
    BY <1>e DEF Ended
  <2>3. call' \in [Callers -> 0..MaxRestartAttempts]
    BY <1>e, <2>1 DEF Ended
  <2> QED
    BY <1>e, <2>1, <2>2, <2>3 DEF Ended
<1>f. ASSUME Fatal PROVE TypeOK' /\ Started'
  BY <1>e, <1>f DEF Fatal
<1>1. CASE StartApp
  BY <1>1 DEF StartApp
<1>2. CASE SaveDump
  BY <1>2 DEF SaveDump, proxy
<1>3. CASE AppCrash
  BY <1>3, <1>f DEF AppCrash
<1>4. CASE PowerCut
  <2>1. cuts' \in 0..MaxCuts
    BY <1>4 DEF PowerCut
  <2> QED
    BY <1>4, <1>e, <2>1 DEF PowerCut
<1>5. CASE ChildReady
  BY <1>5 DEF ChildReady
<1>6. CASE ChildDies
  BY <1>6 DEF ChildDies
<1>7. CASE Spawn
  <2>1. cmd' \in 0..MaxRestartAttempts /\ cmd' # 0
    BY <1>7 DEF Spawn
  <2>2. child' \in [Children -> {"none", "starting", "serving", "dead"}]
    BY <1>7 DEF Spawn
  <2>3. pc' \in {"handshake", "failed"} /\ waited' \in BOOLEAN
    BY <1>7 DEF Spawn
  <2> QED
    BY <1>7, <2>1, <2>2, <2>3 DEF Spawn
<1>8. CASE Handshake
  BY <1>8 DEF Handshake
<1>9. CASE HandshakeTimeout
  BY <1>9 DEF HandshakeTimeout
<1>10. CASE Connected
  BY <1>10 DEF Connected
<1>11. CASE NotReady
  BY <1>11 DEF NotReady
<1>12. CASE StartFailed
  BY <1>12, <1>f DEF StartFailed
<1>13. CASE WaitReturns
  BY <1>13 DEF WaitReturns
<1>14. CASE Restart
  BY <1>14, <1>f DEF Restart
<1>15. CASE CloseClient
  BY <1>15 DEF CloseClient
<1>16. CASE \E c \in Callers : Forward(c)
  BY <1>16 DEF Forward, BeginCall, EndCall
<1> QED
  BY <1>0, <1>1, <1>2, <1>3, <1>4, <1>5, <1>6, <1>7, <1>8, <1>9, <1>10, <1>11,
     <1>12, <1>13, <1>14, <1>15, <1>16 DEF Next, Proxy

\* The first state of the application satisfies the type invariant.
LEMMA TypeInit == Init => TypeOK /\ Started
<1> SUFFICES ASSUME Init PROVE TypeOK /\ Started
  OBVIOUS
<1>1. /\ 0 \in 0..(MaxRestartAttempts - 1)
      /\ 0 \in 0..MaxRestartAttempts
      /\ 0 \in 0..MaxCuts
  BY AttemptAssumption, CutAssumption
<1>2. child \in [Children -> {"none", "starting", "serving", "dead"}]
  BY DEF Init
<1>3. call \in [Callers -> 0..MaxRestartAttempts]
  BY <1>1 DEF Init
<1> QED
  BY <1>1, <1>2, <1>3 DEF Init, TypeOK, Started

\* Every variable of the proxy keeps its type and the application ends before
\* the number of restarts reaches its limit.
THEOREM TypeCorrect == Spec => []TypeOK
<1>1. Spec => [](TypeOK /\ Started)
  BY TypeInit, TypeStep, PTL DEF Spec
<1> QED
  BY <1>1, PTL

-----------------------------------------------------------------------------
(***************************************************************************)
(* One child at a time.                                                    *)
(***************************************************************************)

\* Between the end of Wait and the next spawn no child is alive, a child that
\* was waited for is dead, and only a normal application has a monitor.
NoneAlive == \A g \in Children : ~Alive(g)
Between   == pc \in {"restart", "close", "spawn"} => NoneAlive
Reaped    == waited => NoneAlive
Stopped   == app # "normal" => NoneAlive /\ pc = "idle"
ChildInv  == OneChild /\ Between /\ Reaped /\ Stopped

\* No step of the proxy, and no crash, leaves two children alive.
LEMMA ChildStep == TypeOK /\ Started /\ ChildInv /\ [Next]_vars => ChildInv'
<1> SUFFICES ASSUME TypeOK, Started, ChildInv, [Next]_vars PROVE ChildInv'
  OBVIOUS
<1> USE AttemptAssumption
<1> USE DEF TypeOK, Started, Children, ChildInv, OneChild, Between, Reaped, Stopped,
            NoneAlive, Alive
<1>0. CASE UNCHANGED vars
  BY <1>0 DEF vars, proxy
<1>e. ASSUME Ended PROVE ChildInv'
  BY <1>e DEF Ended
<1>f. ASSUME Fatal PROVE ChildInv'
  BY <1>e, <1>f DEF Fatal
<1>1. CASE StartApp
  <2>1. CASE pc' = pc
    BY <1>1, <2>1 DEF StartApp
  <2>2. CASE pc' = "spawn"
    BY <1>1, <2>2 DEF StartApp
  <2> QED
    BY <1>1, <2>1, <2>2 DEF StartApp
<1>2. CASE SaveDump
  BY <1>2 DEF SaveDump, proxy
<1>3. CASE AppCrash
  BY <1>3, <1>f DEF AppCrash
<1>4. CASE PowerCut
  BY <1>4, <1>e DEF PowerCut
<1>5. CASE ChildReady
  BY <1>5 DEF ChildReady
<1>6. CASE ChildDies
  BY <1>6 DEF ChildDies
<1>7. CASE Spawn
  BY <1>7 DEF Spawn
<1>8. CASE Handshake
  BY <1>8 DEF Handshake
<1>9. CASE HandshakeTimeout
  BY <1>9 DEF HandshakeTimeout
<1>10. CASE Connected
  BY <1>10 DEF Connected
<1>11. CASE NotReady
  BY <1>11 DEF NotReady
<1>12. CASE StartFailed
  BY <1>12, <1>f DEF StartFailed
<1>13. CASE WaitReturns
  BY <1>13 DEF WaitReturns, Dead
<1>14. CASE Restart
  BY <1>14, <1>f DEF Restart
<1>15. CASE CloseClient
  BY <1>15 DEF CloseClient
<1>16. CASE \E c \in Callers : Forward(c)
  BY <1>16 DEF Forward, BeginCall, EndCall
<1> QED
  BY <1>0, <1>1, <1>2, <1>3, <1>4, <1>5, <1>6, <1>7, <1>8, <1>9, <1>10, <1>11,
     <1>12, <1>13, <1>14, <1>15, <1>16 DEF Next, Proxy

\* At most one native process is alive, whatever crashes and however often the
\* monitor retries.
THEOREM AtMostOneChild == Spec => []OneChild
<1>1. Init => ChildInv
  BY DEF Init, ChildInv, OneChild, Between, Reaped, Stopped, NoneAlive, Alive
<1>2. Spec => [](TypeOK /\ Started /\ ChildInv)
  BY <1>1, TypeInit, TypeStep, ChildStep, PTL DEF Spec
<1>3. ChildInv => OneChild
  BY DEF ChildInv
<1> QED
  BY <1>2, <1>3, PTL

-----------------------------------------------------------------------------
(***************************************************************************)
(* Calls and the client.                                                   *)
(***************************************************************************)

\* From the close of a client to the handshake with the next child there is no
\* client, which is when p.client may be assigned without clientMu.
NoClient == pc \in {"spawn", "handshake"} => client = 0
Unserved == app # "normal" => client = 0 /\ pc = "idle"
CallInv  == CallsAreCurrent /\ NoClient /\ Unserved

\* No step changes the client under a call.
LEMMA CallStep == TypeOK /\ CallInv /\ [Next]_vars => CallInv'
<1> SUFFICES ASSUME TypeOK, CallInv, [Next]_vars PROVE CallInv'
  OBVIOUS
<1> USE DEF CallInv, CallsAreCurrent, NoClient, Unserved
<1>0. CASE UNCHANGED vars
  BY <1>0 DEF vars, proxy
<1>e. ASSUME Ended PROVE CallInv'
  BY <1>e DEF Ended
<1>f. ASSUME Fatal PROVE CallInv'
  BY <1>e, <1>f DEF Fatal
<1>1. CASE StartApp
  BY <1>1 DEF StartApp
<1>2. CASE SaveDump
  BY <1>2 DEF SaveDump, proxy
<1>3. CASE AppCrash
  BY <1>3, <1>f DEF AppCrash
<1>4. CASE PowerCut
  BY <1>4, <1>e DEF PowerCut
<1>5. CASE ChildReady \/ ChildDies
  BY <1>5 DEF ChildReady, ChildDies
<1>6. CASE Spawn
  BY <1>6 DEF Spawn
<1>7. CASE Handshake
  <2>1. \A c \in Callers : call[c] = 0
    BY <1>7 DEF Handshake
  <2> QED
    BY <1>7, <2>1 DEF Handshake
<1>8. CASE HandshakeTimeout \/ Connected \/ NotReady
  BY <1>8 DEF HandshakeTimeout, Connected, NotReady
<1>9. CASE StartFailed
  BY <1>9, <1>f DEF StartFailed
<1>10. CASE WaitReturns
  BY <1>10 DEF WaitReturns
<1>11. CASE Restart
  BY <1>11, <1>f DEF Restart
<1>12. CASE CloseClient
  BY <1>12 DEF CloseClient
<1>13. ASSUME NEW c \in Callers, Forward(c) PROVE CallInv'
  <2>1. call \in [Callers -> 0..MaxRestartAttempts]
    BY DEF TypeOK
  <2> QED
    BY <1>13, <2>1 DEF Forward, BeginCall, EndCall
<1> QED
  BY <1>0, <1>1, <1>2, <1>3, <1>4, <1>5, <1>6, <1>7, <1>8, <1>9, <1>10, <1>11,
     <1>12, <1>13 DEF Next, Proxy

\* The client is never closed or replaced under a call.
THEOREM CallsKeepTheirClient == Spec => []CallsAreCurrent
<1>1. Init => CallInv
  BY DEF Init, CallInv, CallsAreCurrent, NoClient, Unserved
<1>2. Spec => [](TypeOK /\ Started /\ CallInv)
  BY <1>1, TypeInit, TypeStep, CallStep, PTL DEF Spec
<1>3. CallInv => CallsAreCurrent
  BY DEF CallInv
<1> QED
  BY <1>2, <1>3, PTL
=============================================================================

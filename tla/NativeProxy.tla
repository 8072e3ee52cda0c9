---------------------------- MODULE NativeProxy ----------------------------
(***************************************************************************)
(* The native process and everyone who restarts something:                 *)
(* internal/native/proxy.go spawns a child process for video and display,  *)
(* waits for its handshake on stdout, connects to it and starts it again   *)
(* when it ends; too many restarts end the application.  The supervisor of *)
(* cmd/main.go then saves a crash dump, and the next start of the          *)
(* application finds it and runs in failsafe mode (failsafe.go), without a *)
(* child.                                                                  *)
(*                                                                         *)
(* The child may die at any moment and may miss a deadline while it is     *)
(* alive; the application may crash and the power may go.  Goroutines of   *)
(* the application call the child through the client all the time.         *)
(***************************************************************************)
EXTENDS Integers

CONSTANTS
    MaxRestartAttempts,   \* options.MaxRestartAttempts
    Callers,              \* goroutines that call the child
    MaxCuts               \* bound: power cuts and reboots

ASSUME AttemptAssumption == MaxRestartAttempts \in Nat \ {0}
ASSUME CutAssumption     == MaxCuts \in Nat

VARIABLES
    app,         \* the application process
    dump,        \* its log, in the hands of the supervisor or behind the link
    pc,          \* the goroutine of Start and monitorProcess
    restarts,    \* p.restarts
    cmd,         \* p.cmd: the number of the child, 0 before the first
    child,       \* the child processes of this application process
    handshake,   \* p.cmd.stdoutHandler
    waited,      \* p.cmd.Wait has nothing to wait for
    client,      \* p.client: the number of the child it is connected to, or 0
    call,        \* the client a caller is using under clientMu.RLock, or 0
    cuts,
    late         \* history: a live child has missed its handshake deadline

proxy == <<pc, restarts, cmd, child, handshake, waited, client, call>>
vars  == <<app, dump, proxy, cuts, late>>

Children == 1..MaxRestartAttempts
Alive(g) == child[g] \in {"starting", "serving"}
Dead(g)  == g # 0 /\ child[g] = "dead"

Init ==
    /\ app = "off"
    /\ dump = "none"
    /\ pc = "idle"
    /\ restarts = 0
    /\ cmd = 0
    /\ child = [g \in Children |-> "none"]
    /\ handshake = "none"
    /\ waited = FALSE
    /\ client = 0
    /\ call = [c \in Callers |-> 0]
    /\ cuts = 0
    /\ late = FALSE

\* the application process is gone, and Pdeathsig takes the child with it
Ended ==
    /\ app' = "off"
    /\ pc' = "idle"
    /\ restarts' = 0
    /\ cmd' = 0
    /\ child' = [g \in Children |-> "none"]
    /\ handshake' = "none"
    /\ waited' = FALSE
    /\ client' = 0
    /\ call' = [c \in Callers |-> 0]
    /\ late' = FALSE

\* logger.Fatal: exit status 1
Fatal == Ended /\ dump' = "log" /\ UNCHANGED cuts

(***************************************************************************)
(* The supervisor and the start of the application.                        *)
(***************************************************************************)

\* checkFailsafeReason, then initNative: the environment or a file may ask for
\* failsafe mode, else the link to a crash log does, and is removed
StartApp ==
    /\ app = "off"
    /\ dump # "log"
    /\ \/ app' = "failsafe" /\ UNCHANGED <<dump, pc>>
       \/ dump = "link" /\ app' = "failsafe" /\ dump' = "none" /\ UNCHANGED pc
       \/ dump = "none" /\ app' = "normal" /\ pc' = "spawn" /\ UNCHANGED dump
    /\ UNCHANGED <<restarts, cmd, child, handshake, waited, client, call, cuts, late>>

\* supervise and createErrorDump
SaveDump ==
    /\ dump = "log"
    /\ dump' = "link"
    /\ UNCHANGED <<app, proxy, cuts, late>>

\* any other panic of the application, in failsafe mode too
AppCrash == app # "off" /\ Fatal

\* a reboot or a power cut; a dump that is not yet saved is lost
PowerCut ==
    /\ cuts < MaxCuts
    /\ cuts' = cuts + 1
    /\ dump' = IF dump = "link" THEN "link" ELSE "none"
    /\ Ended

(***************************************************************************)
(* doStart: spawn, handshake, client.                                      *)
(***************************************************************************)
Spawn ==
    /\ pc = "spawn"
    /\ cmd' = restarts + 1
    /\ handshake' = "none"
    /\ \/ /\ child' = [child EXCEPT ![restarts + 1] = "starting"]
          /\ waited' = FALSE
          /\ pc' = "handshake"
       \/ /\ waited' = TRUE
          /\ pc' = "failed"
          /\ UNCHANGED child
    /\ UNCHANGED <<app, dump, restarts, client, call, cuts, late>>

\* Write of the stdout handler sends on handshakeCh, which has no buffer: the
\* copier of stdout waits there for a receiver
CopierBlocked == handshake = "sent"

\* RunNativeProcess has brought up video and the gRPC server and writes the
\* handshake message
ChildReady ==
    /\ cmd # 0
    /\ child[cmd] = "starting"
    /\ child' = [child EXCEPT ![cmd] = "serving"]
    /\ handshake' = "sent"
    /\ UNCHANGED <<app, dump, pc, restarts, cmd, waited, client, call, cuts, late>>

ChildDies ==
    /\ cmd # 0
    /\ Alive(cmd)
    /\ child' = [child EXCEPT ![cmd] = "dead"]
    /\ UNCHANGED <<app, dump, pc, restarts, cmd, handshake, waited, client, call,
                   cuts, late>>

\* setUpGRPCClient, first half; p.client is set without clientMu
Handshake ==
    /\ pc = "handshake"
    /\ CopierBlocked
    /\ handshake' = "taken"
    /\ client' = cmd
    /\ pc' = "connect"
    /\ UNCHANGED <<app, dump, restarts, cmd, child, waited, call, cuts, late>>

\* ten seconds have passed; the child is left alone
HandshakeTimeout ==
    /\ pc = "handshake"
    /\ pc' = "failed"
    /\ late' = (late \/ child[cmd] # "dead" \/ handshake # "none")
    /\ UNCHANGED <<app, dump, restarts, cmd, child, handshake, waited, client, call,
                   cuts>>

\* WaitReady; the display is then configured by one more caller
Connected ==
    /\ pc = "connect"
    /\ child[cmd] = "serving"
    /\ pc' = "wait"
    /\ UNCHANGED <<app, dump, restarts, cmd, child, handshake, waited, client, call,
                   cuts, late>>

\* WaitReady fails: the child is killed and waited for
NotReady ==
    /\ pc = "connect"
    /\ child' = [child EXCEPT ![cmd] = "dead"]
    /\ waited' = TRUE
    /\ pc' = "failed"
    /\ UNCHANGED <<app, dump, restarts, cmd, handshake, client, call, cuts, late>>

(***************************************************************************)
(* monitorProcess and restartProcess.                                      *)
(***************************************************************************)

\* mutant: the monitor gives up when a restart fails
StartFailedReturns ==
    /\ pc = "failed"
    /\ \/ restarts = 0 /\ Fatal
       \/ /\ restarts > 0
          /\ pc' = "idle"
          /\ UNCHANGED <<app, dump, restarts, cmd, child, handshake, waited, client,
                         call, cuts, late>>

\* mutant: the monitor tries the next restart at once
StartFailedRetries ==
    /\ pc = "failed"
    /\ \/ restarts = 0 /\ Fatal
       \/ /\ restarts > 0
          /\ pc' = "restart"
          /\ UNCHANGED <<app, dump, restarts, cmd, child, handshake, waited, client,
                         call, cuts, late>>

\* the error of the first start is fatal in initNative; the monitor goes on
\* with the next round of its loop
StartFailed ==
    /\ pc = "failed"
    /\ \/ restarts = 0 /\ Fatal
       \/ /\ restarts > 0
          /\ pc' = "wait"
          /\ UNCHANGED <<app, dump, restarts, cmd, child, handshake, waited, client,
                         call, cuts, late>>

\* cmd.Wait returns when the process has ended and the copier of its stdout
\* has, at once if it was never started or already waited for
WaitReturns ==
    /\ pc = "wait"
    /\ waited \/ (Dead(cmd) /\ ~CopierBlocked)
    /\ waited' = TRUE
    /\ pc' = "restart"
    /\ UNCHANGED <<app, dump, restarts, cmd, child, handshake, client, call, cuts,
                   late>>

Restart ==
    /\ pc = "restart"
    /\ \/ restarts + 1 >= MaxRestartAttempts /\ Fatal
       \/ /\ restarts + 1 < MaxRestartAttempts
          /\ restarts' = restarts + 1
          /\ pc' = "close"
          /\ UNCHANGED <<app, dump, cmd, child, handshake, waited, client, call,
                         cuts, late>>

\* mutant: the client is closed without clientMu
CloseClientUnlocked ==
    /\ pc = "close"
    /\ client' = 0
    /\ pc' = "spawn"
    /\ UNCHANGED <<app, dump, restarts, cmd, child, handshake, waited, call, cuts,
                   late>>

\* clientMu.Lock waits for the callers
CloseClient ==
    /\ pc = "close"
    /\ \A c \in Callers : call[c] = 0
    /\ client' = 0
    /\ pc' = "spawn"
    /\ UNCHANGED <<app, dump, restarts, cmd, child, handshake, waited, call, cuts,
                   late>>

(***************************************************************************)
(* nativeProxyClientExec.  A waiting clientMu.Lock keeps new readers out.  *)
(***************************************************************************)
BeginCall(c) ==
    /\ call[c] = 0
    /\ client # 0
    /\ pc # "close"
    /\ call' = [call EXCEPT ![c] = client]
    /\ UNCHANGED <<app, dump, pc, restarts, cmd, child, handshake, waited, client,
                   cuts, late>>

\* the child answers, or the connection breaks
EndCall(c) ==
    /\ call[c] # 0
    /\ call' = [call EXCEPT ![c] = 0]
    /\ UNCHANGED <<app, dump, pc, restarts, cmd, child, handshake, waited, client,
                   cuts, late>>

\* every method of NativeProxy only forwards its call to the child
Forward(c) == BeginCall(c) \/ EndCall(c)

\* a child that is coming up becomes ready or dies
ChildStarts ==
    /\ cmd # 0
    /\ child[cmd] = "starting"
    /\ ChildReady \/ ChildDies

Proxy ==
    \/ Spawn
    \/ Handshake
    \/ HandshakeTimeout
    \/ Connected
    \/ NotReady
    \/ StartFailed
    \/ WaitReturns
    \/ Restart
    \/ CloseClient

Next ==
    \/ StartApp
    \/ SaveDump
    \/ AppCrash
    \/ PowerCut
    \/ ChildReady
    \/ ChildDies
    \/ Proxy
    \/ \E c \in Callers : Forward(c)

Spec == Init /\ [][Next]_vars

\* Goroutines run, calls return, the supervisor saves the dump, the device
\* starts the application again, a starting child becomes ready or dies.
FairSpec ==
    /\ Spec
    /\ WF_vars(Proxy)
    /\ WF_vars(StartApp)
    /\ WF_vars(SaveDump)
    /\ WF_vars(ChildStarts)
    /\ \A c \in Callers : WF_vars(EndCall(c))

-----------------------------------------------------------------------------
(***************************************************************************)
(* Properties.                                                             *)
(***************************************************************************)

\* Every variable has its type; the number of restarts stays below the limit.
TypeOK ==
    /\ app \in {"off", "failsafe", "normal"}
    /\ dump \in {"none", "log", "link"}
    /\ pc \in {"idle", "spawn", "handshake", "connect", "failed", "wait", "restart",
               "close"}
    /\ restarts \in 0..(MaxRestartAttempts - 1)
    /\ cmd \in 0..MaxRestartAttempts
    /\ child \in [Children -> {"none", "starting", "serving", "dead"}]
    /\ handshake \in {"none", "sent", "taken"}
    /\ waited \in BOOLEAN
    /\ client \in 0..MaxRestartAttempts
    /\ call \in [Callers -> 0..MaxRestartAttempts]
    /\ cuts \in 0..MaxCuts
    /\ late \in BOOLEAN

\* At most one native process is alive, and it is the one the proxy knows: two
\* would share the capture chip and the display.  A start that failed by
\* timeout leaves its child running, so a retry must not come before its end.
OneChild == \A g \in Children : Alive(g) => g = cmd

\* The client is never closed or replaced under a call: clientMu covers the
\* close, and p.client is assigned without it only while nobody has a client.
CallsAreCurrent == \A c \in Callers : call[c] # 0 => call[c] = client

\* Whatever crashes, a running child is reached again, or the application is in
\* failsafe mode, as long as no live child misses its handshake deadline.
Served   == client # 0 /\ client = cmd /\ child[cmd] = "serving"
Recovers == []<>(Served \/ app = "failsafe" \/ late)

\* monitorProcess starts a child that has ended again, or the application ends.
CrashRestarts ==
    \A g \in Children : cmd = g /\ Dead(g) ~> cmd # g
=============================================================================

---------------------------- MODULE StreamDaemon ----------------------------
(***************************************************************************)
(* internal/native/cgo/main.c: the stand-alone program around video.c.  It *)
(* starts the stream, keeps one client on a local socket and, when a call  *)
(* of the socket fails, stops the stream and ends.  The same module covers *)
(* the native process of the main program (main = "off"), in which Go makes *)
(* the calls.                                                              *)
(***************************************************************************)
EXTENDS VideoPipeline

CONSTANTS
    Sockets,         \* descriptors accept can return
    MaxConnections   \* bound: clients that connect

ASSUME SocketAssumption ==
    /\ Sockets \subseteq Nat \ {0}
    /\ \E a, b \in Sockets : a # b
    /\ MaxConnections \in Nat

VARIABLES
    main,          \* where main is; "off": another program drives video.c
    client,        \* client_fd
    ready,         \* the descriptors select has found readable
    waiting,       \* clients in the queue of the listening socket
    connections,   \* clients that have connected so far
    peer           \* what the other end of each descriptor has done

daemon  == <<main, client, ready, waiting, connections, peer>>
allVars == <<vars, daemon>>

NoClient == -1
Server   == 0

DaemonInit ==
    /\ Init
    /\ main \in {"off", "begin"}
    /\ client = NoClient
    /\ ready = {}
    /\ waiting = 0
    /\ connections = 0
    /\ peer = [s \in Sockets |-> "idle"]

\* main continues at l when the call of video.c it has made is over
MainAt(l)    == main = l /\ pc["go"] = "idle"
VideoLeft    == UNCHANGED <<proc, switch, stream, venc, hdmi, asleep>>
VideoAlone   == VideoLeft /\ UNCHANGED callers

\* jetkvm_video_start, after jetkvm_video_init has succeeded
StartStream ==
    /\ MainAt("begin")
    /\ Goto("go", "start")
    /\ main' = "socket"
    /\ VideoLeft
    /\ UNCHANGED <<faults, client, ready, waiting, connections, peer>>

\* socket, fcntl, bind and listen; each failure leads to the same clean-up
OpenSocket ==
    /\ MainAt("socket")
    /\ \/ main' = "select" /\ UNCHANGED faults
       \/ Fault /\ main' = "stop"
    /\ VideoAlone
    /\ UNCHANGED <<client, ready, waiting, connections, peer>>

\* what select reports; a time-out and an interruption lead back to it
Readable ==
    (IF waiting > 0 THEN {Server} ELSE {})
    \cup {s \in Sockets : s = client /\ peer[s] # "idle"}

Select ==
    /\ MainAt("select")
    /\ \/ Readable # {} /\ ready' = Readable /\ main' = "accept" /\ UNCHANGED faults
       \/ Fault /\ main' = "stop" /\ UNCHANGED ready
    /\ VideoAlone
    /\ UNCHANGED <<client, waiting, connections, peer>>

Lowest(S) == CHOOSE s \in S : \A r \in S : s <= r

\* accept, then the old client is closed: the new one has another descriptor
Accept ==
    /\ MainAt("accept")
    /\ main' = "check"
    /\ \/ /\ Server \in ready
          /\ client' = Lowest(Sockets \ {client})
          /\ peer' = [s \in Sockets |-> IF s = client THEN "idle" ELSE peer[s]]
          /\ waiting' = waiting - 1
          /\ UNCHANGED faults
       \/ Server \in ready /\ Fault /\ UNCHANGED <<client, peer, waiting>>
       \/ Server \notin ready /\ UNCHANGED <<client, peer, waiting, faults>>
    /\ VideoAlone
    /\ UNCHANGED <<ready, connections>>

\* FD_ISSET(current_client_fd) on the sets of this round
Check ==
    /\ MainAt("check")
    /\ main' = IF client \in ready THEN "read" ELSE "select"
    /\ ready' = {}
    /\ VideoAlone
    /\ UNCHANGED <<faults, client, waiting, connections, peer>>

\* the descriptor blocks: read returns when the client has sent or closed
Read ==
    /\ MainAt("read")
    /\ peer[client] # "idle"
    /\ main' = "select"
    /\ client' = IF peer[client] = "closed" THEN NoClient ELSE client
    /\ peer' = [peer EXCEPT ![client] = "idle"]
    /\ VideoAlone
    /\ UNCHANGED <<faults, ready, waiting, connections>>

\* jetkvm_video_stop, and then jetkvm_video_shutdown, which stops once more
StopStream ==
    /\ \/ MainAt("stop") /\ Proceed("go", "stop", "return", NoThread) /\ main' = "shutdown"
       \/ MainAt("shutdown") /\ Proceed("go", "stop", "shutdown", NoThread) /\ main' = "leave"
    /\ VideoLeft
    /\ UNCHANGED <<faults, client, ready, waiting, connections, peer>>

MainStep == StartStream \/ OpenSocket \/ Select \/ Accept \/ Check \/ Read \/ StopStream

\* a client connects, sends something or goes away
ClientStep ==
    /\ \/ /\ main \notin {"off", "begin", "socket", "stop", "shutdown", "leave"}
          /\ connections < MaxConnections
          /\ connections' = connections + 1
          /\ waiting' = waiting + 1
          /\ UNCHANGED peer
       \/ /\ client # NoClient
          /\ \/ peer[client] = "idle" /\ peer' = [peer EXCEPT ![client] = "sent"]
             \/ peer[client] # "closed" /\ peer' = [peer EXCEPT ![client] = "closed"]
          /\ UNCHANGED <<waiting, connections>>
    /\ VideoAlone
    /\ UNCHANGED <<faults, main, client, ready>>

DaemonNext ==
    \/ main = "off" /\ proc = "run" /\ GoCalls /\ UNCHANGED daemon
    \/ proc = "run" /\ Machine /\ UNCHANGED daemon
    \/ proc = "run" /\ (MainStep \/ ClientStep)

DaemonSpec == DaemonInit /\ [][DaemonNext]_allVars

\* the threads of video.c run, and so does main
DaemonFairSpec ==
    /\ DaemonSpec
    /\ Fairness
    /\ WF_allVars(proc = "run" /\ MainStep /\ UNCHANGED faults)

(***************************************************************************)
(* Properties.                                                             *)
(***************************************************************************)

\* main.c replaces a client within the round in which the old one may have been
\* reported readable.  It never reads from a client with nothing to say: that read
\* would block, and with it every later client and the end of the program.
ReadIsReady == main = "read" => client # NoClient /\ peer[client] # "idle"

\* video_shutdown destroys memPool and streaming_mutex.  Nobody uses them then:
\* main.c has stopped the stream on every path that leads there, and no thread and
\* no block is left.
ShutdownIsClean ==
    proc = "exited" /\ ~overlap =>
        /\ \A t \in Threads : spc[t] = "none"
        /\ ~failed => pool = BufferCount
=============================================================================

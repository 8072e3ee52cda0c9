------------------------- MODULE StreamDaemonProofs -------------------------
(***************************************************************************)
(* Proofs about VideoPipeline and StreamDaemon, for every number of stream *)
(* threads, every set of formats, every number of buffers and of failures. *)
(***************************************************************************)
EXTENDS StreamDaemon, TLAPS, WellFoundedInduction

-----------------------------------------------------------------------------
(***************************************************************************)
(* The parts of the inductive invariant.                                   *)
(***************************************************************************)

\* A signal has known timings, and so has a detection that is about to store them.
TimingsKnown ==
    /\ signal => detected \in Formats
    /\ pc["detect"] = "apply" => incoming \in Formats

\* The stages of a stream thread with blocks of memPool in buffers[].
Holding == {"venc", "capture", "cleanup", "joinReader", "release"}

\* One thread at a time holds all the blocks, and only a thread that ends on an
\* error keeps any for good.
Blocks ==
    /\ \A t \in Threads :
         /\ held[t] \in {0, BufferCount}
         /\ held[t] # 0 => pool = 0 /\ spc[t] \in Holding
         /\ \A u \in Threads : u # t => held[t] = 0 \/ held[u] = 0
    /\ failed \/ pool = BufferCount \/ \E t \in Threads : held[t] = BufferCount

\* streaming_stopped is false only while a thread runs, or one has failed.
Announced ==
    stopped \/ failed \/ \E t \in Threads : spc[t] \notin {"none", "new", "done", "failed"}

\* An uninitialised venc_read_thread comes from a failure of pthread_create.
GarbageIsFault == handle = "garbage" => faults > 0

NoneLive == \A t \in Threads : spc[t] = "none"

\* Where the callers are in the streaming code, and what they know there.
Alone == \A p, q \in Callers : p # q /\ Inside(p) => ~Inside(q)

Knows(p) ==
    /\ pc[p] \in {"startFlag", "create", "assign", "sleepWait", "sleepWrite", "shutdown"}
         => thread = NoThread
    /\ pc[p] \in {"create", "assign"} => flag
    /\ pc[p] \in {"join", "joining", "free", "clear"} => ~flag
    /\ pc[p] = "assign" => target[p] \in Threads
    /\ pc[p] \in {"stopFlag", "join", "joining"} => thread # NoThread
    /\ pc[p] = "joining" => target[p] = thread
    /\ pc[p] \in {"free", "clear"} => NoneLive
    /\ pc[p] = "sleepWrite" => ~flag /\ stopped

\* The flag is up exactly for a thread that exists or is being made, until a
\* caller begins to stop it.
FlagIsUsed ==
    /\ thread # NoThread /\ ~flag => \E p \in Callers : pc[p] \in {"join", "joining", "free", "clear"}
    /\ thread = NoThread /\ flag => \E p \in Callers : pc[p] \in {"create", "assign"}

FreedIsShort == freed => \E p \in Callers : pc[p] = "clear"

Stray == \A t \in Threads : spc[t] # "none" =>
             thread = t \/ \E p \in Callers : pc[p] = "assign" /\ target[p] = t

\* While the chip sleeps nothing is under way that would start a stream.
Asleep ==
    asleep => /\ ~flag /\ stopped /\ thread = NoThread
              /\ \A p \in Callers :
                   /\ pc[p] \notin {"free", "clear", "restartWait", "start", "startFlag", "create", "assign"}
                   /\ pc[p] = "stop" => cont[p] # "restart"

HandleInv == ~overlap => Alone /\ (\A p \in Callers : Knows(p)) /\ FlagIsUsed /\ FreedIsShort /\ Stray /\ Asleep

\* The stages in which a thread uses the format it has read.
Using == {"buffers"} \cup Holding

\* What the detection thread has stored and the running stream uses.
FormatInv ==
    ~overlap =>
      /\ pc["detect"] = "apply" => \A t \in Threads : spc[t] \in Using =>
            fmt[t].size \in {detected.size, incoming.size}
      /\ pc["detect"] \notin {"apply", "restart", "stop", "stopFlag", "join", "joining"} =>
            \A t \in Threads : spc[t] \in Using => fmt[t].size = detected.size

\* The stand-alone program never puts the chip to sleep, and it ends after a stop.
ModeInv ==
    /\ main # "off" => ~asleep /\ cont["go"] # "sleep" /\ pc["go"] \notin {"sleepWait", "sleepWrite"}
    /\ proc = "exited" => pc["go"] = "shutdown"

-----------------------------------------------------------------------------
(***************************************************************************)
(* What main does to the variables of video.c.                             *)
(***************************************************************************)

\* The calls of main, and its own failures.
MainStart == main # "off" /\ pc["go"] = "idle" /\ Goto("go", "start") /\ VideoLeft /\ UNCHANGED faults
MainStop  == /\ pc["go"] = "idle"
             /\ \E c \in {"return", "shutdown"} : Proceed("go", "stop", c, NoThread)
             /\ VideoLeft
             /\ UNCHANGED faults
MainFault == VideoAlone /\ Fault

VideoNext == GoCalls \/ Machine \/ MainStart \/ MainStop \/ MainFault

\* Every step of the two programs is one of video.c, of its callers, or none of both.
LEMMA DaemonIsVideo == [DaemonNext]_allVars => [proc = "run" /\ VideoNext]_vars
<1> SUFFICES ASSUME [DaemonNext]_allVars PROVE [proc = "run" /\ VideoNext]_vars
  OBVIOUS
<1>0. CASE UNCHANGED allVars
  BY <1>0 DEF allVars
<1>1. CASE proc = "run" /\ MainStep
  <2>1. CASE StartStream
    BY <1>1, <2>1 DEF StartStream, MainAt, VideoNext, MainStart
  <2>2. CASE OpenSocket
    BY <1>1, <2>2 DEF OpenSocket, VideoNext, MainFault, VideoAlone, VideoLeft, vars
  <2>3. CASE Select
    BY <1>1, <2>3 DEF Select, VideoNext, MainFault, VideoAlone, VideoLeft, vars
  <2>4. CASE Accept
    BY <1>1, <2>4 DEF Accept, VideoNext, MainFault, VideoAlone, VideoLeft, vars
  <2>5. CASE Check
    BY <1>1, <2>5 DEF Check, VideoAlone, VideoLeft, vars
  <2>6. CASE Read
    BY <1>1, <2>6 DEF Read, VideoAlone, VideoLeft, vars
  <2>7. CASE StopStream
    BY <1>1, <2>7 DEF StopStream, MainAt, VideoNext, MainStop
  <2> QED
    BY <1>1, <2>1, <2>2, <2>3, <2>4, <2>5, <2>6, <2>7 DEF MainStep
<1>2. CASE ClientStep
  BY <1>2 DEF ClientStep, VideoAlone, VideoLeft, vars
<1> QED
  BY <1>0, <1>1, <1>2 DEF DaemonNext, VideoNext

-----------------------------------------------------------------------------
(***************************************************************************)
(* Type correctness.                                                       *)
(***************************************************************************)

\* Types are not inductive alone: the blocks and the timings belong to them.
TypeInv == TypeOK /\ TimingsKnown /\ Blocks /\ Announced /\ GarbageIsFault

\* The callers' part of the type, on its own since most steps of a caller change
\* nothing else.
CallerTypes ==
    /\ pc \in [Callers -> Locations]
    /\ cont \in [Callers -> {"return", "restart", "sleep", "shutdown"}]
    /\ target \in [Callers -> Threads \cup {NoThread}]
    /\ overlap \in BOOLEAN

\* A caller that goes on keeps its types, and detection enters "apply" otherwise.
LEMMA ProceedTypes ==
    ASSUME CallerTypes, NEW p \in Callers, NEW l \in Locations,
           NEW c \in {"return", "restart", "sleep", "shutdown"},
           NEW t \in Threads \cup {NoThread}, Proceed(p, l, c, t), l # "apply"
    PROVE  CallerTypes' /\ (pc'["detect"] = "apply" => pc["detect"] = "apply")
BY DEF CallerTypes, Proceed, Callers

\* Steps that only move a caller keep the types.
LEMMA CallerMoves ==
    ASSUME TypeInv, CallerTypes', pc'["detect"] = "apply" => pc["detect"] = "apply",
           UNCHANGED <<stream, venc, hdmi, proc, faults>>,
           flag' \in BOOLEAN, stopped' = stopped, freed' \in BOOLEAN,
           thread' \in Threads \cup {NoThread}, asleep' \in BOOLEAN
    PROVE  TypeInv'
BY DEF TypeInv, TypeOK, CallerTypes, TimingsKnown, Blocks, Announced, GarbageIsFault,
       stream, venc, hdmi

\* One more failure of a call is within the bound.
LEMMA FaultTypes ==
    ASSUME faults \in 0..MaxFaults, Fault
    PROVE  faults' \in 0..MaxFaults /\ faults' > 0
BY CountAssumption DEF Fault

\* The steps of a caller in the streaming functions.
LEMMA CallerTypeStep ==
    ASSUME TypeInv, NEW p \in Callers, CallerStep(p)
    PROVE  TypeInv'
<1>a. CallerTypes
  BY DEF TypeInv, TypeOK, CallerTypes
<1>b. cont[p] \in {"return", "restart", "sleep", "shutdown"} /\ target[p] \in Threads \cup {NoThread}
  BY <1>a DEF CallerTypes
<1>c. ASSUME NEW l \in Locations \ {"apply"}, Goto(p, l)
      PROVE  CallerTypes' /\ (pc'["detect"] = "apply" => pc["detect"] = "apply")
  BY <1>a, <1>b, <1>c, ProceedTypes DEF Goto
<1>d. ASSUME Return(p)
      PROVE  CallerTypes' /\ (pc'["detect"] = "apply" => pc["detect"] = "apply")
  BY <1>a, <1>d, ProceedTypes DEF Return, Locations
<1>e. ASSUME AfterStop(p)
      PROVE  CallerTypes' /\ (pc'["detect"] = "apply" => pc["detect"] = "apply")
  BY <1>b, <1>c, <1>d, <1>e DEF AfterStop, Locations
<1>f. ASSUME Crash, UNCHANGED faults PROVE TypeInv'
  BY <1>f DEF Crash, TypeInv, TypeOK, TimingsKnown, Blocks, Announced, GarbageIsFault,
              switch, callers, stream, venc, hdmi
<1>g. /\ flag \in BOOLEAN /\ freed \in BOOLEAN /\ asleep \in BOOLEAN
      /\ thread \in Threads \cup {NoThread} /\ faults \in 0..MaxFaults
  BY DEF TypeInv, TypeOK
<1>1. CASE RestartStatus(p)
  <2>1. CallerTypes' /\ (pc'["detect"] = "apply" => pc["detect"] = "apply")
    BY <1>1, <1>a, <1>d, ProceedTypes DEF RestartStatus, Locations
  <2> QED
    BY <1>1, <1>g, <2>1, CallerMoves DEF RestartStatus, switch
<1>2. CASE StopCheck(p)
  <2>1. CallerTypes' /\ (pc'["detect"] = "apply" => pc["detect"] = "apply")
    BY <1>2, <1>c, <1>e DEF StopCheck, Locations
  <2> QED
    BY <1>2, <1>g, <2>1, CallerMoves DEF StopCheck, switch
<1>3. CASE StopFlag(p)
  <2>1. CallerTypes' /\ (pc'["detect"] = "apply" => pc["detect"] = "apply")
    BY <1>3, <1>c DEF StopFlag, Locations
  <2> QED
    BY <1>3, <1>g, <2>1, CallerMoves DEF StopFlag
<1>4. CASE Join(p)
  <2>1. CASE ~BadJoin(p) /\ Proceed(p, "joining", cont[p], thread)
                         /\ UNCHANGED <<proc, switch, stream, venc, hdmi, asleep>>
    <3>1. CallerTypes' /\ (pc'["detect"] = "apply" => pc["detect"] = "apply")
      BY <2>1, <1>a, <1>b, <1>g, ProceedTypes DEF Locations
    <3> QED
      BY <1>4, <2>1, <1>g, <3>1, CallerMoves DEF Join, switch
  <2>2. CASE Goto(p, "free") /\ UNCHANGED <<proc, switch, stream, venc, hdmi, asleep>>
    <3>1. CallerTypes' /\ (pc'["detect"] = "apply" => pc["detect"] = "apply")
      BY <2>2, <1>c DEF Locations
    <3> QED
      BY <1>4, <2>2, <1>g, <3>1, CallerMoves DEF Join, switch
  <2>3. CASE Crash
    BY <1>4, <2>3, <1>f DEF Join
  <2> QED
    BY <1>4, <2>1, <2>2, <2>3 DEF Join
<1>5. CASE Joined(p)
  <2>1. CallerTypes' /\ (pc'["detect"] = "apply" => pc["detect"] = "apply")
    BY <1>5, <1>c DEF Joined, Locations
  <2>6. spc' \in [Threads -> Stages] /\ fmt' \in [Threads -> Formats \cup {NoSource}]
    <3>1. spc \in [Threads -> Stages] /\ fmt \in [Threads -> Formats \cup {NoSource}] /\ "none" \in Stages
      BY DEF TypeInv, TypeOK, Stages
    <3> QED
      BY <1>5, <3>1 DEF Joined
  <2>2. TypeOK'
    BY <1>5, <2>1, <2>6 DEF TypeInv, TypeOK, CallerTypes, Joined, switch, venc, hdmi
  <2>3. TimingsKnown' /\ GarbageIsFault'
    BY <1>5, <2>1 DEF TypeInv, TimingsKnown, GarbageIsFault, Joined, hdmi, venc
  <2>4. \A u \in Threads : spc'[u] = spc[u] \/ (spc[u] \in {"done", "failed"} /\ spc'[u] = "none")
    BY <1>5 DEF Joined, TypeInv, TypeOK
  <2>5. Blocks' /\ Announced'
    BY <1>5, <2>4 DEF TypeInv, Blocks, Holding, Announced, Joined, switch
  <2> QED
    BY <2>2, <2>3, <2>5 DEF TypeInv
<1>6. CASE Free(p)
  <2>1. CASE Crash
    BY <1>6, <2>1, <1>f DEF Free
  <2>2. CASE ~Crash
    <3>1. CallerTypes' /\ (pc'["detect"] = "apply" => pc["detect"] = "apply")
      BY <1>6, <2>2, <1>c DEF Free, Locations
    <3> QED
      BY <1>6, <2>2, <1>g, <3>1, CallerMoves DEF Free
  <2> QED
    BY <2>1, <2>2
<1>7. CASE Clear(p)
  <2>1. CallerTypes' /\ (pc'["detect"] = "apply" => pc["detect"] = "apply")
    BY <1>7, <1>e DEF Clear
  <2> QED
    BY <1>7, <1>g, <2>1, CallerMoves DEF Clear
<1>8. CASE RestartWait(p)
  <2>1. CallerTypes' /\ (pc'["detect"] = "apply" => pc["detect"] = "apply")
    BY <1>8, <1>c, <1>d DEF RestartWait, Locations
  <2> QED
    BY <1>8, <1>g, <2>1, CallerMoves DEF RestartWait, switch
<1>9. CASE StartCheck(p)
  <2>1. CallerTypes' /\ (pc'["detect"] = "apply" => pc["detect"] = "apply")
    BY <1>9, <1>c, <1>d DEF StartCheck, Locations
  <2>2. faults' \in 0..MaxFaults /\ (faults > 0 => faults' > 0)
    BY <1>9, <1>g, FaultTypes DEF StartCheck
  <2> QED
    BY <1>9, <2>1, <2>2 DEF StartCheck, TypeInv, TypeOK, CallerTypes, TimingsKnown, Blocks, Announced,
       GarbageIsFault, switch, stream, venc, hdmi
<1>10. CASE StartFlag(p)
  <2>1. CallerTypes' /\ (pc'["detect"] = "apply" => pc["detect"] = "apply")
    BY <1>10, <1>c DEF StartFlag, Locations
  <2> QED
    BY <1>10, <1>g, <2>1, CallerMoves DEF StartFlag
<1>11. CASE Create(p)
  <2>1. Unused # {} => NewThread \in Threads /\ spc[NewThread] = "none"
    <3>1. Unused # {} => NewThread \in Unused
      BY DEF NewThread
    <3> QED
      BY <3>1 DEF Unused
  <2>2. CallerTypes' /\ (pc'["detect"] = "apply" => pc["detect"] = "apply")
    BY <1>11, <1>a, <1>b, <1>d, <2>1, ProceedTypes DEF Create, Locations
  <2>3. faults' \in 0..MaxFaults /\ (faults > 0 => faults' > 0)
    BY <1>11, <1>g, FaultTypes DEF Create
  <2>4. spc' \in [Threads -> Stages]
        /\ \A u \in Threads : spc'[u] = spc[u] \/ (spc[u] = "none" /\ spc'[u] = "new")
    BY <1>11, <2>1 DEF Create, TypeInv, TypeOK, Stages
  <2>8. flag' \in BOOLEAN
    BY <1>11, <1>g DEF Create
  <2>9. UNCHANGED <<proc, stopped, thread, freed, fmt, held, pool, failed, venc, hdmi, asleep>>
    BY <1>11 DEF Create
  <2>5. TypeOK'
    BY <2>2, <2>3, <2>4, <2>8, <2>9 DEF TypeInv, TypeOK, CallerTypes, venc, hdmi
  <2>6. TimingsKnown' /\ GarbageIsFault'
    BY <1>11, <2>2, <2>3 DEF TypeInv, TimingsKnown, GarbageIsFault, Create, hdmi, venc
  <2>7. Blocks' /\ Announced'
    BY <1>11, <2>4 DEF TypeInv, Blocks, Holding, Announced, Create
  <2> QED
    BY <2>5, <2>6, <2>7 DEF TypeInv
<1>12. CASE Assign(p)
  <2>1. CallerTypes' /\ (pc'["detect"] = "apply" => pc["detect"] = "apply")
    BY <1>12, <1>d DEF Assign
  <2> QED
    BY <1>12, <1>b, <1>g, <2>1, CallerMoves DEF Assign
<1> QED
  BY <1>1, <1>2, <1>3, <1>4, <1>5, <1>6, <1>7, <1>8, <1>9, <1>10, <1>11, <1>12 DEF CallerStep

\* The steps of a stream thread.
LEMMA StreamTypeStep ==
    ASSUME TypeInv, NEW t \in Threads, StreamStep(t) \/ AssertFails(t)
    PROVE  TypeInv'
<1>a. /\ spc \in [Threads -> Stages] /\ fmt \in [Threads -> Formats \cup {NoSource}]
      /\ held \in [Threads -> 0..BufferCount] /\ pool \in 0..BufferCount
      /\ faults \in 0..MaxFaults /\ event \in BOOLEAN /\ asleep \in BOOLEAN
      /\ channel \in BOOLEAN /\ running \in BOOLEAN /\ encoded \in BOOLEAN
      /\ reader \in {"none", "run", "sending", "done", "broken"}
      /\ handle \in {"null", "valid", "garbage"}
      /\ proc \in {"run", "crashed", "exited"} /\ stopped \in BOOLEAN /\ failed \in BOOLEAN
  BY DEF TypeInv, TypeOK
<1>b. BufferCount \in Nat /\ 0 \in 0..BufferCount /\ BufferCount \in 0..BufferCount
  BY CountAssumption
<1>c. Blocks /\ Announced /\ GarbageIsFault /\ TimingsKnown
  BY DEF TypeInv
<1>f. ASSUME Fault PROVE faults' \in 0..MaxFaults /\ faults' > 0
  BY <1>a, <1>f, FaultTypes
\* the parts that are left to show when the handle and the callers stay as they are
<1>g. ASSUME UNCHANGED <<flag, thread, freed, callers, detected, signal, incoming, source>>,
             spc' \in [Threads -> Stages], fmt' \in [Threads -> Formats \cup {NoSource}],
             held' \in [Threads -> 0..BufferCount], pool' \in 0..BufferCount,
             faults' \in 0..MaxFaults, event' \in BOOLEAN, asleep' \in BOOLEAN,
             channel' \in BOOLEAN, running' \in BOOLEAN, encoded' \in BOOLEAN,
             reader' \in {"none", "run", "sending", "done", "broken"},
             handle' \in {"null", "valid", "garbage"},
             proc' \in {"run", "crashed", "exited"}, stopped' \in BOOLEAN, failed' \in BOOLEAN,
             Blocks', Announced', GarbageIsFault'
      PROVE  TypeInv'
  BY <1>g, <1>c DEF TypeInv, TypeOK, TimingsKnown, callers
<1>h. ASSUME NEW l \in Stages, spc' = [spc EXCEPT ![t] = l]
      PROVE  spc' \in [Threads -> Stages] /\ spc'[t] = l
             /\ \A u \in Threads : u # t => spc'[u] = spc[u]
  BY <1>a, <1>h
<1>i. ASSUME UNCHANGED <<held, pool, failed>>, spc' = [spc EXCEPT ![t] = "cleanup"] \/ UNCHANGED spc
               \/ spc' = [spc EXCEPT ![t] = "capture"] \/ spc' = [spc EXCEPT ![t] = "joinReader"]
               \/ spc' = [spc EXCEPT ![t] = "release"] \/ spc[t] \notin Holding,
             \A u \in Threads : u # t => spc'[u] = spc[u]
      PROVE  Blocks'
  BY <1>a, <1>c, <1>i DEF Blocks, Holding, Stages
<1>j. ASSUME spc'[t] \notin {"none", "new", "done", "failed"} PROVE Announced'
  BY <1>j DEF Announced
<1>k. ASSUME Crash, GarbageIsFault', faults' \in 0..MaxFaults PROVE TypeInv'
  BY <1>k, <1>c DEF Crash, TypeInv, TypeOK, TimingsKnown, Blocks, Announced,
              switch, callers, stream, venc, hdmi
<1>0. CASE AssertFails(t)
  BY <1>0, <1>f, <1>k DEF AssertFails, GarbageIsFault
<1>1. CASE ThreadBegins(t)
  <2>1. spc' = [spc EXCEPT ![t] = "top"] /\ "top" \in Stages /\ stopped' = FALSE /\ spc[t] = "new"
    BY <1>1 DEF ThreadBegins, Stages
  <2>2. Blocks' /\ Announced'
    BY <1>1, <2>1, <1>h, <1>i, <1>j DEF ThreadBegins, Holding
  <2>3. GarbageIsFault'
    BY <1>1, <1>c DEF ThreadBegins, GarbageIsFault, venc
  <2> QED
    BY <1>1, <1>a, <1>g, <1>h, <2>1, <2>2, <2>3 DEF ThreadBegins, venc, hdmi
<1>2. CASE OpenDevice(t)
  <2>1. spc' = [spc EXCEPT ![t] = "buffers"] /\ "buffers" \in Stages /\ spc[t] = "top"
    BY <1>2 DEF OpenDevice, Stages
  <2>2. Blocks' /\ Announced'
    BY <1>2, <2>1, <1>h, <1>i, <1>j DEF OpenDevice, Holding
  <2>3. GarbageIsFault'
    BY <1>2, <1>c DEF OpenDevice, GarbageIsFault, venc
  <2>4. \A a \in Racing : a \in Formats
    BY <1>2, <1>c DEF OpenDevice, Racing, TimingsKnown
  <2>5. \A a, b \in Racing : [size |-> a.size, rate |-> b.rate] \in Formats
    BY <2>4 DEF Formats
  <2>6. fmt' \in [Threads -> Formats \cup {NoSource}]
    BY <1>2, <1>a, <2>5 DEF OpenDevice
  <2> QED
    BY <1>2, <1>a, <1>g, <1>h, <2>1, <2>2, <2>3, <2>6 DEF OpenDevice, switch, venc, hdmi
<1>3. CASE TakeBuffers(t)
  <2>0. /\ spc[t] = "buffers" /\ {"venc", "failed"} \subseteq Stages
        /\ UNCHANGED <<proc, switch, callers, fmt, venc, hdmi, asleep>>
    BY <1>3 DEF TakeBuffers, Stages
  <2>a. held[t] = 0
    BY <2>0, <1>c DEF Blocks, Holding
  <2>b. ASSUME Blocks', Announced', spc' \in [Threads -> Stages], held' \in [Threads -> 0..BufferCount],
               pool' \in 0..BufferCount, faults' \in 0..MaxFaults, failed' \in BOOLEAN, faults > 0 => faults' > 0
        PROVE  TypeInv'
    <3>1. GarbageIsFault'
      BY <2>0, <2>b, <1>c DEF GarbageIsFault, venc
    <3> QED
      BY <2>0, <2>b, <3>1, <1>a, <1>g DEF switch, venc, hdmi
  <2>1. CASE /\ pool >= BufferCount
             /\ held' = [held EXCEPT ![t] = BufferCount]
             /\ pool' = pool - BufferCount
             /\ spc' = [spc EXCEPT ![t] = "venc"]
             /\ UNCHANGED <<failed, faults>>
    <3>1. pool' = 0 /\ held' \in [Threads -> 0..BufferCount] /\ held'[t] = BufferCount
          /\ \A u \in Threads : u # t => held'[u] = held[u]
      BY <2>1, <1>a, <1>b
    <3>2. BufferCount # 0 => \A u \in Threads : held[u] = 0
      BY <2>1, <1>a, <1>b, <1>c DEF Blocks
    <3>3. BufferCount = 0 => \A u \in Threads : held[u] = 0
      BY <1>a, <1>b
    <3>4. Blocks'
      BY <2>0, <2>1, <3>1, <3>2, <3>3, <1>h, <1>c DEF Blocks, Holding
    <3>5. Announced'
      BY <2>0, <2>1, <1>h, <1>j
    <3> QED
      BY <2>0, <2>1, <2>b, <3>1, <3>4, <3>5, <1>h, <1>a, <1>b
  <2>2. CASE /\ spc' = [spc EXCEPT ![t] = "failed"] /\ failed' = TRUE /\ UNCHANGED held
             /\ pool' \in 0..BufferCount /\ (pool = 0 => pool' = 0)
             /\ faults' \in 0..MaxFaults /\ (faults > 0 => faults' > 0)
    <3>1. Blocks'
      BY <2>0, <2>2, <2>a, <1>h, <1>c, <1>a DEF Blocks, Holding
    <3>2. Announced'
      BY <2>2 DEF Announced
    <3> QED
      BY <2>0, <2>2, <2>b, <3>1, <3>2, <1>h, <1>a
  <2>3. CASE /\ pool < BufferCount
             /\ pool' = 0
             /\ spc' = [spc EXCEPT ![t] = "failed"]
             /\ failed' = TRUE
             /\ UNCHANGED <<held, faults>>
    BY <2>2, <2>3, <1>a, <1>b
  <2>4. CASE /\ Fault
             /\ \E n \in 0..BufferCount : n <= pool /\ pool' = pool - n
             /\ spc' = [spc EXCEPT ![t] = "failed"]
             /\ failed' = TRUE
             /\ UNCHANGED held
    <3>1. pool' \in 0..BufferCount /\ (pool = 0 => pool' = 0)
      BY <2>4, <1>a, <1>b
    <3> QED
      BY <2>2, <2>4, <3>1, <1>f
  <2> QED
    BY <1>3, <2>1, <2>3, <2>4 DEF TakeBuffers
<1>4. CASE VencStart(t)
  <2>1. /\ spc' \in [Threads -> Stages] /\ \A u \in Threads : u # t => spc'[u] = spc[u]
        /\ spc' = [spc EXCEPT ![t] = "capture"] \/ spc' = [spc EXCEPT ![t] = "cleanup"]
        /\ spc'[t] \in {"capture", "cleanup"}
    BY <1>4, <1>h DEF VencStart, Stages
  <2>2. Blocks' /\ Announced'
    BY <1>4, <2>1, <1>i, <1>j DEF VencStart
  <2>3. /\ channel' \in BOOLEAN /\ running' \in BOOLEAN /\ UNCHANGED encoded
        /\ reader' \in {"none", "run", "sending", "done", "broken"}
        /\ handle' \in {"null", "valid", "garbage"}
        /\ faults' \in 0..MaxFaults /\ GarbageIsFault'
    BY <1>4, <1>a, <1>c, <1>f DEF VencStart, GarbageIsFault
  <2> QED
    BY <1>4, <1>a, <1>g, <2>1, <2>2, <2>3 DEF VencStart, switch, hdmi
<1>5. CASE CaptureFrame(t)
  <2>1. Blocks' /\ Announced' /\ GarbageIsFault'
    BY <1>5, <1>c DEF CaptureFrame, Blocks, Announced, GarbageIsFault, stream, switch
  <2> QED
    BY <1>5, <1>a, <1>g, <2>1 DEF CaptureFrame, switch, stream, hdmi
<1>6. CASE CaptureEnds(t)
  <2>1. spc' = [spc EXCEPT ![t] = "cleanup"] /\ "cleanup" \in Stages
    BY <1>6 DEF CaptureEnds, Stages
  <2>2. Blocks' /\ Announced'
    BY <1>6, <2>1, <1>h, <1>i, <1>j DEF CaptureEnds
  <2>3. faults' \in 0..MaxFaults /\ event' \in BOOLEAN /\ asleep' \in BOOLEAN /\ GarbageIsFault'
    BY <1>6, <1>a, <1>c, <1>f DEF CaptureEnds, GarbageIsFault, ensure_sleep_mode_disabled, venc
  <2> QED
    BY <1>6, <1>a, <1>g, <1>h, <2>1, <2>2, <2>3 DEF CaptureEnds, switch, venc
<1>7. CASE VencStop(t)
  <2>1. /\ spc' \in [Threads -> Stages] /\ \A u \in Threads : u # t => spc'[u] = spc[u]
        /\ spc' = [spc EXCEPT ![t] = "joinReader"] \/ spc' = [spc EXCEPT ![t] = "release"]
        /\ spc'[t] \in {"joinReader", "release"}
    BY <1>7, <1>h DEF VencStop, Stages
  <2>2. Blocks' /\ Announced'
    BY <1>7, <2>1, <1>i, <1>j DEF VencStop
  <2>3. faults' \in 0..MaxFaults /\ GarbageIsFault'
    BY <1>7, <1>a, <1>c, <1>f DEF VencStop, GarbageIsFault
  <2> QED
    BY <1>7, <1>a, <1>g, <2>1, <2>2, <2>3 DEF VencStop, switch, hdmi
<1>8. CASE VencDestroy(t)
  <2>1. CASE handle = "garbage" /\ Crash /\ UNCHANGED faults
    BY <2>1, <1>a, <1>c, <1>k DEF GarbageIsFault, Crash, venc
  <2>2. CASE /\ handle = "valid" => reader \in {"done", "broken"}
             /\ reader' = IF handle = "valid" THEN "none" ELSE reader
             /\ handle' = "null"
             /\ \/ channel' = FALSE /\ encoded' = FALSE /\ UNCHANGED faults
                \/ Fault /\ UNCHANGED <<channel, encoded>>
             /\ spc' = [spc EXCEPT ![t] = "release"]
             /\ UNCHANGED <<proc, switch, callers, fmt, held, pool, failed, running, hdmi, asleep>>
    <3>1. "release" \in Stages
      BY DEF Stages
    <3>2. Blocks' /\ Announced'
      BY <2>2, <3>1, <1>h, <1>i, <1>j
    <3>3. /\ reader' \in {"none", "run", "sending", "done", "broken"}
          /\ handle' \in {"null", "valid", "garbage"} /\ GarbageIsFault'
          /\ channel' \in BOOLEAN /\ encoded' \in BOOLEAN /\ faults' \in 0..MaxFaults
      BY <2>2, <1>a, <1>f DEF GarbageIsFault
    <3> QED
      BY <2>2, <1>a, <1>g, <1>h, <3>1, <3>2, <3>3 DEF switch, hdmi
  <2> QED
    BY <1>8, <2>1, <2>2 DEF VencDestroy
<1>9. CASE ReleaseBuffers(t)
  <2>1. spc' = [spc EXCEPT ![t] = "top"] /\ "top" \in Stages
    BY <1>9 DEF ReleaseBuffers, Stages
  <2>2. /\ held' \in [Threads -> 0..BufferCount] /\ held'[t] = 0
        /\ \A u \in Threads : u # t => held'[u] = held[u]
        /\ fmt' \in [Threads -> Formats \cup {NoSource}]
    BY <1>9, <1>a, <1>b DEF ReleaseBuffers
  <2>3. pool' = IF held[t] = 0 THEN pool ELSE BufferCount
    BY <1>9, <1>a, <1>b, <1>c DEF ReleaseBuffers, Blocks
  <2>4. held[t] # 0 => \A u \in Threads : held'[u] = 0
    BY <2>2, <1>c DEF Blocks
  <2>5. failed' \/ pool' = BufferCount \/ \E u \in Threads : held'[u] = BufferCount
    BY <1>9, <2>2, <2>3, <1>a, <1>b, <1>c DEF Blocks, ReleaseBuffers
  <2>6. Blocks'
    BY <2>1, <2>2, <2>3, <2>4, <2>5, <1>a, <1>b, <1>c, <1>h DEF Blocks
  <2>7. Announced' /\ GarbageIsFault'
    BY <1>9, <2>1, <1>h, <1>j, <1>c DEF ReleaseBuffers, GarbageIsFault, venc
  <2> QED
    BY <1>9, <1>a, <1>b, <1>g, <1>h, <2>1, <2>2, <2>3, <2>6, <2>7
       DEF ReleaseBuffers, switch, venc, hdmi
<1>10. CASE LeaveLoop(t)
  <2>1. spc' = [spc EXCEPT ![t] = "exit"] /\ "exit" \in Stages /\ spc[t] = "top"
    BY <1>10 DEF LeaveLoop, Stages
  <2>2. Blocks' /\ Announced' /\ GarbageIsFault'
    BY <1>10, <2>1, <1>c, <1>h, <1>i, <1>j DEF LeaveLoop, Holding, GarbageIsFault, venc
  <2> QED
    BY <1>10, <1>a, <1>g, <1>h, <2>1, <2>2 DEF LeaveLoop, switch, venc, hdmi
<1>11. CASE ThreadEnds(t)
  <2>1. spc' = [spc EXCEPT ![t] = "done"] /\ "done" \in Stages /\ spc[t] = "exit" /\ stopped' = TRUE
    BY <1>11 DEF ThreadEnds, Stages
  <2>2. Blocks' /\ Announced' /\ GarbageIsFault'
    BY <1>11, <2>1, <1>c, <1>h, <1>i DEF ThreadEnds, Holding, GarbageIsFault, Announced, venc
  <2> QED
    BY <1>11, <1>a, <1>g, <1>h, <2>1, <2>2 DEF ThreadEnds, venc, hdmi
<1> QED
  BY <1>0, <1>1, <1>2, <1>3, <1>4, <1>5, <1>6, <1>7, <1>8, <1>9, <1>10, <1>11 DEF StreamStep

\* Every step keeps the types: calls of Go and of main, the detection thread, the
\* reader and the source.
LEMMA TypeStep == TypeInv /\ [VideoNext]_vars => TypeInv'
<1> SUFFICES ASSUME TypeInv, [VideoNext]_vars PROVE TypeInv'
  OBVIOUS
<1>a. CallerTypes
  BY DEF TypeInv, TypeOK, CallerTypes
<1>b. /\ flag \in BOOLEAN /\ freed \in BOOLEAN /\ asleep \in BOOLEAN /\ event \in BOOLEAN
      /\ thread \in Threads \cup {NoThread} /\ faults \in 0..MaxFaults
      /\ pc \in [Callers -> Locations] /\ "go" \in Callers /\ "detect" \in Callers
      /\ \A p \in Callers : cont[p] \in {"return", "restart", "sleep", "shutdown"}
                            /\ target[p] \in Threads \cup {NoThread}
  BY <1>a DEF TypeInv, TypeOK, CallerTypes, Callers
<1>c. ASSUME NEW p \in Callers, NEW l \in Locations \ {"apply"}, NEW c \in {"return", "restart", "sleep", "shutdown"},
             Proceed(p, l, c, NoThread) \/ Goto(p, l) \/ Return(p)
      PROVE  CallerTypes' /\ (pc'["detect"] = "apply" => pc["detect"] = "apply")
  BY <1>a, <1>b, <1>c, ProceedTypes DEF Goto, Return, Locations
<1>0. CASE UNCHANGED vars
  BY <1>0 DEF vars, TypeInv, TypeOK, TimingsKnown, Blocks, Announced, GarbageIsFault,
              switch, callers, stream, venc, hdmi
<1>1. CASE VideoStart
  <2>1. CallerTypes' /\ (pc'["detect"] = "apply" => pc["detect"] = "apply")
    BY <1>1, <1>b, <1>c DEF VideoStart, Locations
  <2>2. asleep' \in BOOLEAN /\ event' \in BOOLEAN
    BY <1>1, <1>b DEF VideoStart
  <2> QED
    BY <1>1, <2>1, <2>2 DEF VideoStart, TypeInv, TypeOK, CallerTypes, TimingsKnown, Blocks, Announced,
       GarbageIsFault, switch, stream, venc
<1>2. CASE VideoStop \/ MainStop
  <2>1. CallerTypes' /\ (pc'["detect"] = "apply" => pc["detect"] = "apply")
    BY <1>2, <1>b, <1>c DEF VideoStop, MainStop, Locations
  <2> QED
    BY <1>2, <1>b, <2>1, CallerMoves DEF VideoStop, MainStop, VideoLeft, switch
<1>3. CASE VideoSetQualityFactor \/ MainStart
  <2>1. CallerTypes' /\ (pc'["detect"] = "apply" => pc["detect"] = "apply")
    BY <1>3, <1>b, <1>c DEF VideoSetQualityFactor, MainStart, Locations
  <2> QED
    BY <1>3, <1>b, <2>1, CallerMoves DEF VideoSetQualityFactor, MainStart, VideoLeft, switch
<1>4. CASE VideoSleep
  <2>0. PICK l \in {"stop", "sleepWait", "sleepWrite"} : Proceed("go", l, "sleep", NoThread)
    BY <1>4 DEF VideoSleep
  <2>1. CallerTypes' /\ (pc'["detect"] = "apply" => pc["detect"] = "apply")
    BY <2>0, <1>b, <1>c DEF Locations
  <2> QED
    BY <1>4, <1>b, <2>1, CallerMoves DEF VideoSleep, switch
<1>5. CASE MainFault
  <2>1. faults' \in 0..MaxFaults /\ faults' > 0
    BY <1>5, <1>b, FaultTypes DEF MainFault
  <2> QED
    BY <1>5, <2>1 DEF MainFault, VideoAlone, VideoLeft, TypeInv, TypeOK, TimingsKnown, Blocks, Announced,
       GarbageIsFault, switch, callers, stream, venc, hdmi
<1>6. CASE \E p \in Callers : CallerStep(p)
  BY <1>6, CallerTypeStep
<1>7. CASE SleepWait
  <2>1. CallerTypes' /\ (pc'["detect"] = "apply" => pc["detect"] = "apply")
    BY <1>7, <1>b, <1>c DEF SleepWait, Locations
  <2>2. asleep' \in BOOLEAN /\ event' \in BOOLEAN
    BY <1>7, <1>b DEF SleepWait
  <2> QED
    BY <1>7, <2>1, <2>2 DEF SleepWait, TypeInv, TypeOK, CallerTypes, TimingsKnown, Blocks, Announced,
       GarbageIsFault, switch, stream, venc
<1>8. CASE Shutdown
  BY <1>8 DEF Shutdown, TypeInv, TypeOK, TimingsKnown, Blocks, Announced, GarbageIsFault,
              switch, callers, stream, venc, hdmi
<1>9. CASE QueryTimings
  <2>1. pc' \in [Callers -> Locations] /\ signal' \in BOOLEAN /\ incoming' \in Formats \cup {NoSource}
    BY <1>9, <1>b DEF QueryTimings, TypeInv, TypeOK, Locations
  <2>2. faults' \in 0..MaxFaults /\ (faults > 0 => faults' > 0)
    BY <1>9, <1>b, FaultTypes DEF QueryTimings
  <2>3. TimingsKnown'
    BY <1>9, <1>b DEF QueryTimings, TimingsKnown, TypeInv, TypeOK
  <2> QED
    BY <1>9, <2>1, <2>2, <2>3 DEF QueryTimings, TypeInv, TypeOK, Blocks, Announced, GarbageIsFault,
       switch, stream, venc
<1>10. CASE ApplyTimings
  <2>1. CallerTypes' /\ pc'["detect"] # "apply"
    <3>1. Goto("detect", "restart") \/ Return("detect")
      BY <1>10 DEF ApplyTimings
    <3> QED
      BY <3>1, <1>b, <1>c DEF Locations, Goto, Return, Proceed
  <2>2. incoming \in Formats
    BY <1>10 DEF ApplyTimings, TypeInv, TimingsKnown
  <2> QED
    BY <1>10, <2>1, <2>2 DEF ApplyTimings, TypeInv, TypeOK, CallerTypes, TimingsKnown, Blocks, Announced,
       GarbageIsFault, switch, stream, venc
<1>11. CASE DequeueEvent
  <2>1. pc' \in [Callers -> Locations] /\ pc'["detect"] # "apply" /\ event' \in BOOLEAN
    BY <1>11, <1>b DEF DequeueEvent, Locations
  <2>2. faults' \in 0..MaxFaults /\ (faults > 0 => faults' > 0)
    BY <1>11, <1>b, FaultTypes DEF DequeueEvent
  <2> QED
    BY <1>11, <2>1, <2>2 DEF DequeueEvent, TypeInv, TypeOK, TimingsKnown, Blocks, Announced, GarbageIsFault,
       switch, stream, venc
<1>12. CASE ReadStream
  <2>1. reader' \in {"none", "run", "sending", "done", "broken"} /\ encoded' \in BOOLEAN
    BY <1>12 DEF ReadStream, TypeInv, TypeOK
  <2>2. faults' \in 0..MaxFaults /\ (faults > 0 => faults' > 0)
    BY <1>12, <1>b, FaultTypes DEF ReadStream
  <2> QED
    BY <1>12, <2>1, <2>2 DEF ReadStream, TypeInv, TypeOK, TimingsKnown, Blocks, Announced, GarbageIsFault,
       switch, callers, stream, hdmi
<1>13. CASE SourceChanges
  BY <1>13 DEF SourceChanges, TypeInv, TypeOK, TimingsKnown, Blocks, Announced, GarbageIsFault,
              switch, callers, stream, venc
<1>14. CASE \E t \in Threads : StreamStep(t) \/ AssertFails(t)
  BY <1>14, StreamTypeStep
<1> QED
  BY <1>0, <1>1, <1>2, <1>3, <1>4, <1>5, <1>6, <1>7, <1>8, <1>9, <1>10, <1>11, <1>12, <1>13, <1>14
     DEF VideoNext, GoCalls, Machine, GoStep, DetectStep, Callers

\* The first states have their types.
LEMMA TypeInit == Init => TypeInv
<1> SUFFICES ASSUME Init PROVE TypeInv
  OBVIOUS
<1>1. BufferCount \in Nat /\ 0 \in 0..BufferCount /\ BufferCount \in 0..BufferCount /\ 0 \in 0..MaxFaults
  BY CountAssumption
<1>2. /\ pc \in [Callers -> Locations] /\ pc["detect"] # "apply"
      /\ cont \in [Callers -> {"return", "restart", "sleep", "shutdown"}]
      /\ target \in [Callers -> Threads \cup {NoThread}]
  BY DEF Init, Locations, Callers
<1>3. /\ spc \in [Threads -> Stages] /\ fmt \in [Threads -> Formats \cup {NoSource}]
      /\ held \in [Threads -> 0..BufferCount]
  BY <1>1 DEF Init, Stages
<1>4. TypeOK
  BY <1>1, <1>2, <1>3 DEF Init, TypeOK
<1>5. Blocks
  BY <1>1 DEF Init, Blocks
<1> QED
  BY <1>2, <1>4, <1>5 DEF Init, TypeInv, TimingsKnown, Announced, GarbageIsFault

\* In the native process and in the stand-alone program every variable of video.c
\* keeps its type; no more blocks are given back than were taken.
THEOREM TypeCorrect == DaemonSpec => []TypeOK
<1>1. DaemonInit => TypeInv
  BY TypeInit DEF DaemonInit
<1>2. TypeInv /\ [DaemonNext]_allVars => TypeInv'
  BY TypeStep, DaemonIsVideo
<1>3. TypeInv => TypeOK
  BY DEF TypeInv
<1> QED
  BY <1>1, <1>2, <1>3, PTL DEF DaemonSpec

-----------------------------------------------------------------------------
(***************************************************************************)
(* The thread handle.                                                      *)
(***************************************************************************)

\* The places outside the streaming functions.
Outside == {"idle", "query", "apply", "gone"}

\* Steps of anybody who is not in the streaming functions.
LEMMA HandleFrame ==
    ASSUME TypeInv, HandleInv,
           UNCHANGED <<flag, thread, freed, cont, target, overlap>>,
           \A p \in Callers : pc'[p] = pc[p] \/ (pc[p] \in Outside /\ pc'[p] \in Outside),
           \A t \in Threads : spc'[t] = "none" <=> spc[t] = "none",
           stopped' = stopped \/ \E t \in Threads : spc[t] # "none",
           asleep' => asleep
    PROVE  HandleInv'
<1> SUFFICES ASSUME ~overlap' PROVE HandleInv'
  BY DEF HandleInv
<1>1. Alone /\ (\A p \in Callers : Knows(p)) /\ FlagIsUsed /\ FreedIsShort /\ Stray /\ Asleep
  BY DEF HandleInv
<1>2. \A p \in Callers : /\ Inside(p)' <=> Inside(p)
                         /\ Inside(p) => pc'[p] = pc[p]
                         /\ pc'[p] # pc[p] => pc'[p] \in {"idle", "query", "apply", "gone"}
                                              /\ pc[p] \in {"idle", "query", "apply", "gone"}
  BY DEF Inside, Outside
<1>3. Alone'
  BY <1>1, <1>2 DEF Alone
<1>4. thread = NoThread /\ (\E t \in Threads : spc[t] # "none") => \E p \in Callers : pc[p] = "assign"
  BY <1>1, ThreadAssumption DEF Stray
<1>5. ASSUME NEW p \in Callers PROVE Knows(p)'
  <2>1. Knows(p)
    BY <1>1
  <2>2. pc[p] = "sleepWrite" => stopped'
    <3>1. ASSUME pc[p] = "sleepWrite" PROVE \A q \in Callers : pc[q] # "assign"
      BY <3>1, <1>1 DEF Alone, Inside, Callers
    <3> QED
      BY <1>4, <2>1, <3>1 DEF Knows
  <2>3. pc[p] \in {"free", "clear"} => NoneLive'
    BY <2>1 DEF Knows, NoneLive
  <2> QED
    BY <1>2, <2>1, <2>2, <2>3 DEF Knows
<1>6. FlagIsUsed' /\ FreedIsShort'
  BY <1>1, <1>2 DEF FlagIsUsed, FreedIsShort, Inside
<1>7. Stray'
  BY <1>1, <1>2 DEF Stray, Inside
<1>8. Asleep'
  BY <1>1, <1>2, <1>4 DEF Asleep
<1> QED
  BY <1>3, <1>5, <1>6, <1>7, <1>8 DEF HandleInv

\* A caller moves on without meeting the other one: it is alone.
LEMMA ProceedAlone ==
    ASSUME TypeInv, HandleInv, ~overlap', NEW p \in Callers, NEW l, NEW c, NEW t,
           Proceed(p, l, c, t), Inside(p) \/ l # "idle"
    PROVE  /\ ~overlap
           /\ \A q \in Callers : q # p => ~Inside(q) /\ ~Inside(q)' /\ pc'[q] = pc[q]
                                          /\ cont'[q] = cont[q] /\ target'[q] = target[q]
           /\ pc'[p] = l /\ cont'[p] = c /\ target'[p] = t
           /\ Alone'
<1>1. ~overlap /\ Alone
  BY DEF HandleInv, Proceed
<1>2. \A q \in Callers : q # p => ~Inside(q)
  BY <1>1 DEF Alone, Proceed
<1>3. /\ \A q \in Callers : q # p => pc'[q] = pc[q] /\ cont'[q] = cont[q] /\ target'[q] = target[q]
      /\ pc'[p] = l /\ cont'[p] = c /\ target'[p] = t
  BY DEF Proceed, TypeInv, TypeOK
<1>4. \A q \in Callers : q # p => ~Inside(q)'
  BY <1>2, <1>3 DEF Inside
<1> QED
  BY <1>1, <1>2, <1>3, <1>4 DEF Alone

\* What remains to be shown of a caller that is alone.
LEMMA HandleAlone ==
    ASSUME NEW p \in Callers, Alone', \A q \in Callers : q # p => ~Inside(q)',
           Knows(p)', FlagIsUsed', FreedIsShort', Stray',
           asleep' => /\ ~flag' /\ stopped' /\ thread' = NoThread
                      /\ pc'[p] \notin {"free", "clear", "restartWait", "start", "startFlag", "create", "assign"}
                      /\ pc'[p] = "stop" => cont'[p] # "restart"
    PROVE  HandleInv'
<1>1. ASSUME NEW q \in Callers, q # p PROVE pc'[q] \in {"idle", "query", "apply", "gone"}
  BY <1>1 DEF Inside
<1>2. \A q \in Callers : Knows(q)'
  BY <1>1 DEF Knows
<1>3. Asleep'
  BY <1>1 DEF Asleep
<1> QED
  BY <1>2, <1>3 DEF HandleInv

\* The steps of a caller in the streaming functions.
LEMMA CallerHandleStep ==
    ASSUME TypeInv, HandleInv, NEW p \in Callers, CallerStep(p)
    PROVE  HandleInv'
<1> SUFFICES ASSUME ~overlap' PROVE HandleInv'
  BY DEF HandleInv
<1>a. /\ pc \in [Callers -> Locations] /\ spc \in [Threads -> Stages]
      /\ thread \in Threads \cup {NoThread} /\ target[p] \in Threads \cup {NoThread}
      /\ flag \in BOOLEAN /\ stopped \in BOOLEAN /\ NoThread \notin Threads
  BY ThreadAssumption DEF TypeInv, TypeOK
<1>b. ASSUME Crash PROVE HandleInv'
  <2>1. UNCHANGED <<flag, thread, freed, cont, target, overlap, pc, spc, stopped, asleep>>
    BY <1>b DEF Crash, switch, callers, stream
  <2> QED
    BY <2>1, HandleFrame
<1>c. Inside(p)
  <2>1. RestartStatus(p) => pc[p] = "restart"
    BY DEF RestartStatus
  <2>2. StopCheck(p) => pc[p] = "stop"
    BY DEF StopCheck
  <2>3. StopFlag(p) => pc[p] = "stopFlag"
    BY DEF StopFlag
  <2>4. Join(p) => pc[p] = "join"
    BY DEF Join
  <2>5. Joined(p) => pc[p] = "joining"
    BY DEF Joined
  <2>6. Free(p) => pc[p] = "free"
    BY DEF Free
  <2>7. Clear(p) => pc[p] = "clear"
    BY DEF Clear
  <2>8. RestartWait(p) => pc[p] = "restartWait"
    BY DEF RestartWait
  <2>9. StartCheck(p) => pc[p] = "start"
    BY DEF StartCheck
  <2>10. StartFlag(p) => pc[p] = "startFlag"
    BY DEF StartFlag
  <2>11. Create(p) => pc[p] = "create"
    BY DEF Create
  <2>12. Assign(p) => pc[p] = "assign"
    BY DEF Assign
  <2> QED
    BY <2>1, <2>2, <2>3, <2>4, <2>5, <2>6, <2>7, <2>8, <2>9, <2>10, <2>11, <2>12 DEF CallerStep, Inside
<1>d. CASE Crash
  BY <1>b, <1>d
<1>e. CASE ~Crash
  <2>a. \E l, c, t : Proceed(p, l, c, t)
    <3>1. (\E l : Goto(p, l)) \/ Return(p) => \E l, c, t : Proceed(p, l, c, t)
      BY DEF Goto, Return
    <3>2. AfterStop(p) => (\E l : Goto(p, l)) \/ Return(p)
      BY DEF AfterStop
    <3>3. \/ AfterStop(p) \/ Return(p) \/ (\E l : Goto(p, l))
          \/ \E l, c, t : Proceed(p, l, c, t)
      BY <1>e DEF CallerStep, RestartStatus, StopCheck, StopFlag, Join, Joined, Free, Clear,
         RestartWait, StartCheck, StartFlag, Create, Assign
    <3> QED
      BY <3>1, <3>2, <3>3
  <2>b. /\ ~overlap /\ Alone'
        /\ \A q \in Callers : q # p => /\ ~Inside(q) /\ ~Inside(q)' /\ pc'[q] = pc[q]
                                       /\ pc[q] \in Outside
    BY <2>a, <1>c, ProceedAlone DEF Inside, Outside
  <2>c. Knows(p) /\ FlagIsUsed /\ FreedIsShort /\ Stray /\ Asleep
    BY <2>b DEF HandleInv
  <2>d. /\ thread # NoThread /\ ~flag => pc[p] \in {"join", "joining", "free", "clear"}
        /\ thread = NoThread /\ flag => pc[p] \in {"create", "assign"}
        /\ freed => pc[p] = "clear"
        /\ \A t \in Threads : spc[t] # "none" => thread = t \/ (pc[p] = "assign" /\ target[p] = t)
        /\ asleep => /\ ~flag /\ stopped /\ thread = NoThread
                     /\ pc[p] \notin {"free", "clear", "restartWait", "start", "startFlag", "create", "assign"}
                     /\ pc[p] = "stop" => cont[p] # "restart"
    BY <2>b, <2>c DEF FlagIsUsed, FreedIsShort, Stray, Asleep, Outside
  \* the same facts are left to show of the next state
  <2>e. ASSUME Knows(p)',
               thread' # NoThread /\ ~flag' => pc'[p] \in {"join", "joining", "free", "clear"},
               thread' = NoThread /\ flag' => pc'[p] \in {"create", "assign"},
               freed' => pc'[p] = "clear",
               \A t \in Threads : spc'[t] # "none" => thread' = t \/ (pc'[p] = "assign" /\ target'[p] = t),
               asleep' => /\ ~flag' /\ stopped' /\ thread' = NoThread
                          /\ pc'[p] \notin {"free", "clear", "restartWait", "start", "startFlag", "create", "assign"}
                          /\ pc'[p] = "stop" => cont'[p] # "restart"
        PROVE  HandleInv'
    <3>1. FlagIsUsed' /\ FreedIsShort' /\ Stray'
      BY <2>e DEF FlagIsUsed, FreedIsShort, Stray
    <3> QED
      BY <2>b, <2>e, <3>1, HandleAlone
  <2>f. ASSUME NEW l, NEW c, NEW t, Proceed(p, l, c, t) PROVE pc'[p] = l /\ cont'[p] = c /\ target'[p] = t
    BY <2>f, <1>c, ProceedAlone
  <2>g. ASSUME AfterStop(p)
        PROVE  /\ pc'[p] \in {"idle", "restartWait", "sleepWait", "shutdown"}
               /\ pc'[p] = "restartWait" => cont[p] = "restart"
    BY <2>f, <2>g DEF AfterStop, Goto, Return
  <2>1. CASE RestartStatus(p)
    <3>1. /\ UNCHANGED <<flag, stopped, thread, freed, spc, asleep>> /\ pc[p] = "restart"
          /\ \/ pc'[p] = "idle"
             \/ video_get_streaming_status # 0 /\ pc'[p] = "stop"
      BY <2>1, <2>f DEF RestartStatus, Return, switch, stream
    <3>2. pc'[p] = "stop" => ~asleep
      BY <3>1, <2>d DEF video_get_streaming_status
    <3>3. Knows(p)'
      BY <3>1 DEF Knows
    <3> QED
      BY <3>1, <3>2, <3>3, <2>c, <2>d, <2>e DEF Knows
  <2>2. CASE StopCheck(p)
    <3>1. /\ UNCHANGED <<flag, stopped, thread, freed, spc, asleep>> /\ pc[p] = "stop"
          /\ \/ thread = NoThread /\ pc'[p] \in {"idle", "restartWait", "sleepWait", "shutdown"}
                /\ (pc'[p] = "restartWait" => cont[p] = "restart")
             \/ thread # NoThread /\ pc'[p] = "stopFlag"
      BY <2>2, <2>f, <2>g DEF StopCheck, Goto, switch, stream
    <3>2. Knows(p)'
      BY <3>1 DEF Knows
    <3> QED
      BY <3>1, <3>2, <2>d, <2>e
  <2>3. CASE StopFlag(p)
    <3>1. UNCHANGED <<stopped, thread, freed, spc, asleep>> /\ pc[p] = "stopFlag" /\ pc'[p] = "join" /\ flag' = FALSE
      BY <2>3, <2>f DEF StopFlag, Goto, switch, stream
    <3>2. Knows(p)'
      BY <3>1, <2>c DEF Knows
    <3> QED
      BY <3>1, <3>2, <2>c, <2>d, <2>e DEF Knows
  <2>4. CASE Join(p)
    <3>1. pc[p] = "join" /\ ~BadJoin(p)
      <4>1. pc[p] = "join"
        BY <2>4 DEF Join
      <4>2. \A q \in Callers \ {p} : pc[q] \notin {"joining", "free", "clear"}
        BY <2>b DEF Outside
      <4> QED
        BY <4>1, <4>2, <2>c, <2>d DEF BadJoin, Knows
    <3>2. UNCHANGED <<flag, stopped, thread, freed, spc, asleep>> /\ pc'[p] = "joining" /\ target'[p] = thread
      BY <2>4, <3>1, <2>f DEF Join, switch, stream
    <3>3. Knows(p)'
      BY <3>1, <3>2, <2>c DEF Knows
    <3> QED
      BY <3>1, <3>2, <3>3, <2>c, <2>d, <2>e DEF Knows
  <2>5. CASE Joined(p)
    <3>1. UNCHANGED <<flag, stopped, thread, freed, asleep>> /\ pc[p] = "joining" /\ pc'[p] = "free"
      BY <2>5, <2>f DEF Joined, Goto, switch
    <3>2. target[p] = thread /\ thread # NoThread
      BY <3>1, <2>c DEF Knows
    <3>3. \A t \in Threads : spc'[t] = "none"
      BY <2>5, <3>1, <3>2, <2>d, <1>a DEF Joined
    <3>4. Knows(p)'
      BY <3>1, <3>3, <2>c DEF Knows, NoneLive
    <3> QED
      BY <3>1, <3>2, <3>3, <3>4, <2>d, <2>e
  <2>6. CASE Free(p)
    <3>1. /\ UNCHANGED <<flag, stopped, thread, spc, asleep>> /\ pc[p] = "free" /\ pc'[p] = "clear"
          /\ cont'[p] = cont[p]
      BY <2>6, <1>e, <2>f DEF Free, Goto, stream
    <3>2. Knows(p)'
      BY <3>1, <2>c DEF Knows, NoneLive
    <3>3. \A t \in Threads : spc'[t] = "none"
      BY <3>1, <2>c DEF Knows, NoneLive
    <3> QED
      BY <3>1, <3>2, <3>3, <2>d, <2>e
  <2>7. CASE Clear(p)
    <3>1. /\ UNCHANGED <<flag, stopped, spc, asleep>> /\ pc[p] = "clear" /\ thread' = NoThread /\ freed' = FALSE
          /\ pc'[p] \in {"idle", "restartWait", "sleepWait", "shutdown"}
          /\ pc'[p] = "restartWait" => cont[p] = "restart"
      BY <2>7, <2>g DEF Clear, stream
    <3>2. \A t \in Threads : spc'[t] = "none"
      BY <3>1, <2>c DEF Knows, NoneLive
    <3>3. Knows(p)'
      BY <3>1 DEF Knows
    <3> QED
      BY <3>1, <3>2, <3>3, <2>c, <2>d, <2>e DEF Knows
  <2>8. CASE RestartWait(p)
    <3>1. UNCHANGED <<flag, stopped, thread, freed, spc, asleep>> /\ pc[p] = "restartWait" /\ pc'[p] \in {"start", "idle"}
      BY <2>8, <2>f DEF RestartWait, Goto, Return, switch, stream
    <3>2. Knows(p)'
      BY <3>1 DEF Knows
    <3> QED
      BY <3>1, <3>2, <2>d, <2>e
  <2>9. CASE StartCheck(p)
    <3>1. /\ UNCHANGED <<flag, stopped, thread, freed, spc, asleep>> /\ pc[p] = "start"
          /\ pc'[p] = "idle" \/ (pc'[p] = "startFlag" /\ thread = NoThread)
      BY <2>9, <2>f DEF StartCheck, Goto, Return, switch, stream
    <3>2. Knows(p)'
      BY <3>1 DEF Knows
    <3> QED
      BY <3>1, <3>2, <2>d, <2>e
  <2>10. CASE StartFlag(p)
    <3>1. /\ UNCHANGED <<stopped, thread, freed, spc, asleep>> /\ pc[p] = "startFlag" /\ flag' = TRUE
          /\ pc'[p] = "create" /\ thread = NoThread
      BY <2>10, <2>c, <2>f DEF StartFlag, Goto, stream, Knows
    <3>2. Knows(p)'
      BY <3>1 DEF Knows
    <3> QED
      BY <3>1, <3>2, <2>d, <2>e
  <2>11. CASE Create(p)
    <3>1. UNCHANGED <<stopped, thread, freed, asleep>> /\ pc[p] = "create" /\ thread = NoThread
      BY <2>11, <2>c DEF Create, Knows
    <3>0. Unused # {} => NewThread \in Threads
      <4>1. Unused # {} => NewThread \in Unused
        BY DEF NewThread
      <4> QED
        BY <4>1 DEF Unused
    <3>2. \/ /\ pc'[p] = "assign" /\ target'[p] = NewThread /\ NewThread \in Threads /\ flag' = flag
             /\ \A u \in Threads : spc'[u] # "none" => u = NewThread \/ spc[u] # "none"
          \/ pc'[p] = "idle" /\ flag' = FALSE /\ spc' = spc
      BY <2>11, <2>f, <3>0, <1>a DEF Create, Return
    <3>3. Knows(p)'
      BY <3>1, <3>2, <2>c DEF Knows
    <3> QED
      BY <3>1, <3>2, <3>3, <2>d, <2>e, <1>a
  <2>12. CASE Assign(p)
    <3>1. /\ UNCHANGED <<flag, stopped, spc, asleep>> /\ pc[p] = "assign" /\ pc'[p] = "idle"
          /\ thread' = target[p] /\ target[p] \in Threads /\ thread = NoThread /\ freed' = FALSE
      BY <2>12, <2>c, <2>f DEF Assign, Return, stream, Knows
    <3>2. Knows(p)'
      BY <3>1 DEF Knows
    <3>3. \A t \in Threads : spc[t] # "none" => t = target[p]
      BY <3>1, <2>d, <1>a
    <3>4. flag
      BY <3>1, <2>c DEF Knows
    <3> QED
      BY <3>1, <3>2, <3>3, <3>4, <2>d, <2>e, <1>a
  <2> QED
    BY <2>1, <2>2, <2>3, <2>4, <2>5, <2>6, <2>7, <2>8, <2>9, <2>10, <2>11, <2>12 DEF CallerStep
<1> QED
  BY <1>d, <1>e

\* What a step of a stream thread leaves alone: the handle and the callers.  It is
\* a step of a thread that exists and goes on existing until it is joined.
LEMMA StreamEffect ==
    ASSUME TypeInv, NEW t \in Threads, StreamStep(t) \/ AssertFails(t)
    PROVE  /\ UNCHANGED <<flag, thread, freed, cont, target, overlap>>
           /\ \A p \in Callers : pc'[p] = pc[p]
           /\ \A u \in Threads : spc'[u] = "none" <=> spc[u] = "none"
           /\ \A u \in Threads : u # t => spc'[u] = spc[u] /\ fmt'[u] = fmt[u]
           /\ \E u \in Threads : spc[u] # "none"
           /\ spc[t] \notin {"none", "done", "failed"}
           /\ asleep' => asleep
<1>a. /\ spc \in [Threads -> Stages] /\ fmt \in [Threads -> Formats \cup {NoSource}]
      /\ asleep \in BOOLEAN
  BY DEF TypeInv, TypeOK
<1>b. ASSUME Crash, spc[t] \notin {"none", "done", "failed"}
      PROVE  /\ UNCHANGED <<flag, thread, freed, cont, target, overlap, pc, spc, fmt, asleep>>
  BY <1>b DEF Crash, switch, callers, stream
<1>c. ASSUME NEW l, spc' = [spc EXCEPT ![t] = l], l # "none", spc[t] \notin {"none", "done", "failed"}
      PROVE  /\ \A u \in Threads : spc'[u] = "none" <=> spc[u] = "none"
             /\ \A u \in Threads : u # t => spc'[u] = spc[u]
             /\ \E u \in Threads : spc[u] # "none"
  BY <1>a, <1>c
<1>0. CASE AssertFails(t)
  BY <1>0, <1>b DEF AssertFails
<1>1. CASE ThreadBegins(t)
  BY <1>1, <1>a, <1>c DEF ThreadBegins, switch, callers
<1>2. CASE OpenDevice(t)
  BY <1>2, <1>a, <1>c DEF OpenDevice, switch, callers
<1>3. CASE TakeBuffers(t)
  BY <1>3, <1>a, <1>c DEF TakeBuffers, switch, callers
<1>4. CASE VencStart(t)
  BY <1>4, <1>a, <1>c DEF VencStart, switch, callers
<1>5. CASE CaptureFrame(t)
  BY <1>5 DEF CaptureFrame, switch, callers, stream
<1>6. CASE CaptureEnds(t)
  BY <1>6, <1>a, <1>c DEF CaptureEnds, switch, callers, ensure_sleep_mode_disabled
<1>7. CASE VencStop(t)
  BY <1>7, <1>a, <1>c DEF VencStop, switch, callers
<1>8. CASE VencDestroy(t)
  <2>1. spc[t] = "joinReader"
    BY <1>8 DEF VencDestroy
  <2>2. CASE Crash
    BY <1>b, <2>1, <2>2
  <2>3. CASE ~Crash
    BY <1>8, <1>a, <1>c, <2>1, <2>3 DEF VencDestroy, switch, callers
  <2> QED
    BY <2>2, <2>3
<1>9. CASE ReleaseBuffers(t)
  BY <1>9, <1>a, <1>c DEF ReleaseBuffers, switch, callers
<1>10. CASE LeaveLoop(t)
  BY <1>10, <1>a, <1>c DEF LeaveLoop, switch, callers
<1>11. CASE ThreadEnds(t)
  BY <1>11, <1>a, <1>c DEF ThreadEnds, switch, callers
<1> QED
  BY <1>0, <1>1, <1>2, <1>3, <1>4, <1>5, <1>6, <1>7, <1>8, <1>9, <1>10, <1>11 DEF StreamStep

\* Every step keeps the handle and what the callers know about it; a chip that
\* sleeps is not given to the stand-alone program.
LEMMA HandleStep ==
    TypeInv /\ HandleInv /\ [VideoNext]_vars /\ (MainStart => ~asleep) => HandleInv'
<1> SUFFICES ASSUME TypeInv, HandleInv, [VideoNext]_vars, MainStart => ~asleep, ~overlap' PROVE HandleInv'
  BY DEF HandleInv
<1>a. /\ pc \in [Callers -> Locations] /\ "go" \in Callers /\ "detect" \in Callers
      /\ flag \in BOOLEAN /\ stopped \in BOOLEAN /\ NoThread \notin Threads /\ asleep \in BOOLEAN
  BY ThreadAssumption DEF TypeInv, TypeOK, Callers
<1>0. CASE UNCHANGED vars
  <2>1. UNCHANGED <<flag, thread, freed, cont, target, overlap, pc, spc, stopped, asleep>>
    BY <1>0 DEF vars, switch, callers, stream
  <2> QED
    BY <2>1, HandleFrame
\* a call from outside: the caller enters the functions alone
<1>b. ASSUME NEW p \in Callers, pc[p] \in Outside, NEW l, NEW c, NEW t, Proceed(p, l, c, t),
             l \in {"start", "stop", "restart", "sleepWait", "sleepWrite"},
             UNCHANGED <<flag, stopped, thread, freed, spc>>,
             l \in {"sleepWait", "sleepWrite"} => ~flag,
             l = "sleepWrite" => stopped,
             l = "start" => ~asleep',
             l = "stop" => c # "restart",
             asleep' => asleep
      PROVE  HandleInv'
  <2>1. /\ ~overlap /\ Alone' /\ pc'[p] = l /\ cont'[p] = c /\ target'[p] = t
        /\ \A q \in Callers : q # p => ~Inside(q) /\ ~Inside(q)' /\ pc'[q] = pc[q]
    BY <1>b, ProceedAlone
  <2>2. \A q \in Callers : pc[q] \in Outside
    BY <2>1, <1>b DEF Inside, Outside
  <2>3. FlagIsUsed /\ FreedIsShort /\ Stray /\ Asleep
    BY <2>1 DEF HandleInv
  <2>4. /\ flag <=> thread # NoThread
        /\ ~freed
        /\ \A u \in Threads : spc[u] # "none" => thread = u
    BY <2>2, <2>3 DEF FlagIsUsed, FreedIsShort, Stray, Outside
  <2>5. Knows(p)'
    BY <1>b, <2>1, <2>4 DEF Knows
  <2>6. FlagIsUsed' /\ FreedIsShort' /\ Stray'
    BY <1>b, <2>4 DEF FlagIsUsed, FreedIsShort, Stray
  <2> QED
    BY <1>b, <2>1, <2>3, <2>5, <2>6, HandleAlone DEF Asleep
<1>1. CASE VideoStart
  BY <1>1, <1>a, <1>b DEF VideoStart, Goto, Outside, switch, stream
<1>2. CASE VideoStop \/ MainStop
  <2>1. PICK c \in {"return", "shutdown"} : Proceed("go", "stop", c, NoThread)
    BY <1>2 DEF VideoStop, MainStop
  <2>2. UNCHANGED <<flag, stopped, thread, freed, spc, asleep>> /\ pc["go"] \in Outside
    BY <1>2 DEF VideoStop, MainStop, VideoLeft, switch, stream, Outside
  <2> QED
    BY <2>1, <2>2, <1>a, <1>b
<1>3. CASE VideoSetQualityFactor
  BY <1>3, <1>a, <1>b DEF VideoSetQualityFactor, Goto, Outside, switch, stream
<1>4. CASE MainStart
  BY <1>4, <1>a, <1>b DEF MainStart, Goto, VideoLeft, Outside, switch, stream
<1>5. CASE VideoSleep
  <2>1. PICK l \in {"stop", "sleepWait", "sleepWrite"} :
             /\ Proceed("go", l, "sleep", NoThread)
             /\ l \in {"sleepWait", "sleepWrite"} => ~flag
             /\ l = "sleepWrite" => stopped
    BY <1>5, <1>a DEF VideoSleep, video_get_streaming_status
  <2>2. UNCHANGED <<flag, stopped, thread, freed, spc, asleep>> /\ pc["go"] \in Outside
    BY <1>5 DEF VideoSleep, switch, stream, Outside
  <2> QED
    BY <2>1, <2>2, <1>a, <1>b
<1>6. CASE \E p \in Callers : CallerStep(p)
  BY <1>6, CallerHandleStep
\* the chip goes to sleep while its caller is alone and has seen the stream stopped
<1>7. CASE SleepWait
  <2>1. Proceed("go", "idle", "return", NoThread) /\ pc["go"] \in {"sleepWait", "sleepWrite"}
        /\ UNCHANGED <<flag, stopped, thread, freed, spc>>
    BY <1>7 DEF SleepWait, Return, switch, stream
  <2>2. Inside("go")
    BY <2>1 DEF Inside
  <2>3. /\ ~overlap /\ Alone' /\ pc'["go"] = "idle"
        /\ \A q \in Callers : q # "go" => ~Inside(q) /\ ~Inside(q)' /\ pc'[q] = pc[q]
    BY <2>1, <2>2, <1>a, ProceedAlone
  <2>4. Knows("go") /\ FlagIsUsed /\ FreedIsShort /\ Stray /\ Asleep
    BY <2>3, <1>a DEF HandleInv
  <2>5. \A q \in Callers : q # "go" => pc[q] \in Outside
    BY <2>3 DEF Inside, Outside
  <2>6. /\ thread = NoThread /\ ~flag /\ ~freed /\ \A u \in Threads : spc[u] = "none"
        /\ pc["go"] = "sleepWrite" => stopped
    BY <2>1, <2>4, <2>5, <1>a DEF Knows, FlagIsUsed, FreedIsShort, Stray, Outside
  <2>7. asleep' => stopped
    <3>1. video_get_streaming_status = 0 => stopped
      BY <1>a DEF video_get_streaming_status
    <3>2. asleep => stopped
      BY <2>4 DEF Asleep
    <3> QED
      BY <1>7, <2>6, <3>1, <3>2 DEF SleepWait
  <2>8. Knows("go")'
    BY <2>3 DEF Knows
  <2>9. FlagIsUsed' /\ FreedIsShort' /\ Stray'
    BY <2>1, <2>6 DEF FlagIsUsed, FreedIsShort, Stray
  <2> QED
    BY <2>1, <2>3, <2>6, <2>7, <2>8, <2>9, <1>a, HandleAlone
<1>8. CASE Shutdown \/ MainFault \/ ReadStream \/ SourceChanges
  <2>1. UNCHANGED <<flag, thread, freed, cont, target, overlap, pc, spc, stopped, asleep>>
    BY <1>8 DEF Shutdown, MainFault, ReadStream, SourceChanges, VideoAlone, VideoLeft, switch, callers, stream
  <2> QED
    BY <2>1, HandleFrame
<1>9. CASE QueryTimings \/ DequeueEvent
  <2>1. UNCHANGED <<flag, thread, freed, cont, target, overlap, spc, stopped, asleep>>
    BY <1>9 DEF QueryTimings, DequeueEvent, switch, stream
  <2>2. /\ pc["detect"] \in Outside /\ pc'["detect"] \in Outside
        /\ \A p \in Callers : p # "detect" => pc'[p] = pc[p]
    BY <1>9, <1>a DEF QueryTimings, DequeueEvent, Outside
  <2>3. \A p \in Callers : pc'[p] = pc[p] \/ (pc[p] \in Outside /\ pc'[p] \in Outside)
    BY <2>2
  <2> QED
    BY <2>1, <2>3, HandleFrame
<1>10. CASE ApplyTimings
  <2>1. UNCHANGED <<flag, thread, freed, spc, stopped, asleep>> /\ pc["detect"] = "apply"
    BY <1>10 DEF ApplyTimings, switch, stream
  <2>2. CASE Goto("detect", "restart")
    BY <2>1, <2>2, <1>a, <1>b DEF Goto, Outside
  <2>3. CASE Return("detect")
    <3>1. overlap' = overlap /\ pc' = [pc EXCEPT !["detect"] = "idle"]
          /\ cont' = [cont EXCEPT !["detect"] = "return"] /\ target' = [target EXCEPT !["detect"] = NoThread]
      BY <2>3, <1>a DEF Return, Proceed, TypeInv, TypeOK
    <3>2. /\ pc'["detect"] = "idle" /\ pc'["go"] = pc["go"] /\ cont'["go"] = cont["go"] /\ target'["go"] = target["go"]
      BY <3>1, <1>a DEF TypeInv, TypeOK
    <3>3. Alone /\ Knows("go") /\ FlagIsUsed /\ FreedIsShort /\ Stray /\ Asleep
      BY <3>1, <1>a DEF HandleInv
    <3>4. Alone'
      BY <3>2, <3>3 DEF Alone, Inside, Callers
    <3>5. Knows("go")'
      BY <3>2, <3>3, <2>1 DEF Knows, NoneLive
    <3>6. FlagIsUsed' /\ FreedIsShort' /\ Stray'
      BY <3>2, <3>3, <2>1 DEF FlagIsUsed, FreedIsShort, Stray, Callers
    <3> QED
      BY <3>2, <3>3, <3>4, <3>5, <3>6, <2>1, <1>a, HandleAlone DEF Asleep, Inside, Callers
  <2> QED
    BY <1>10, <2>2, <2>3 DEF ApplyTimings
<1>11. CASE \E t \in Threads : StreamStep(t) \/ AssertFails(t)
  <2>1. PICK t \in Threads : StreamStep(t) \/ AssertFails(t)
    BY <1>11
  <2> QED
    BY <2>1, StreamEffect, HandleFrame
<1> QED
  BY <1>0, <1>1, <1>2, <1>3, <1>4, <1>5, <1>6, <1>7, <1>8, <1>9, <1>10, <1>11
     DEF VideoNext, GoCalls, Machine, GoStep, DetectStep, Callers

\* What a step of a caller leaves alone, and where it may lead.
LEMMA CallerEffect ==
    ASSUME TypeInv, NEW p \in Callers, CallerStep(p)
    PROVE  /\ \A q \in Callers : q # p => pc'[q] = pc[q] /\ cont'[q] = cont[q]
           /\ cont'[p] \in {cont[p], "return", "restart"}
           /\ pc'[p] = "sleepWait" => pc[p] # "sleepWait" /\ cont[p] = "sleep"
           /\ pc'[p] # "sleepWrite"
           /\ proc' \in {proc, "crashed"}
           /\ UNCHANGED <<asleep, hdmi, venc>>
<1>a. pc \in [Callers -> Locations] /\ cont \in [Callers -> {"return", "restart", "sleep", "shutdown"}]
  BY DEF TypeInv, TypeOK
<1>b. ASSUME NEW l, NEW c, NEW t, Proceed(p, l, c, t)
      PROVE  /\ \A q \in Callers : q # p => pc'[q] = pc[q] /\ cont'[q] = cont[q]
             /\ pc'[p] = l /\ cont'[p] = c
  BY <1>a, <1>b DEF Proceed
<1>c. ASSUME AfterStop(p)
      PROVE  /\ \A q \in Callers : q # p => pc'[q] = pc[q] /\ cont'[q] = cont[q]
             /\ pc'[p] \in {"idle", "restartWait", "sleepWait", "shutdown"}
             /\ pc'[p] = "sleepWait" => cont[p] = "sleep"
             /\ cont'[p] \in {cont[p], "return"}
  BY <1>b, <1>c DEF AfterStop, Goto, Return
<1>d. ASSUME Crash, pc[p] # "sleepWait", pc[p] # "sleepWrite"
      PROVE  /\ \A q \in Callers : pc'[q] = pc[q] /\ cont'[q] = cont[q]
             /\ proc' = "crashed" /\ UNCHANGED <<asleep, hdmi, venc>>
  BY <1>d DEF Crash, callers
<1>1. CASE RestartStatus(p)
  BY <1>1, <1>b, <1>c DEF RestartStatus, Goto, Return
<1>2. CASE StopCheck(p)
  BY <1>2, <1>b, <1>c DEF StopCheck, Goto, Return
<1>3. CASE StopFlag(p)
  BY <1>3, <1>b, <1>c DEF StopFlag, Goto, Return
<1>4. CASE Join(p)
  <2>1. pc[p] = "join"
    BY <1>4 DEF Join
  <2>2. CASE Crash
    BY <1>d, <2>1, <2>2
  <2>3. CASE ~Crash
    BY <1>4, <1>b, <2>1, <2>3 DEF Join, Goto
  <2> QED
    BY <2>2, <2>3
<1>5. CASE Joined(p)
  BY <1>5, <1>b, <1>c DEF Joined, Goto, Return
<1>6. CASE Free(p)
  <2>1. pc[p] = "free"
    BY <1>6 DEF Free
  <2>2. CASE Crash
    BY <1>d, <2>1, <2>2
  <2>3. CASE ~Crash
    BY <1>6, <1>b, <2>1, <2>3 DEF Free, Goto
  <2> QED
    BY <2>2, <2>3
<1>7. CASE Clear(p)
  BY <1>7, <1>b, <1>c DEF Clear, Goto, Return
<1>8. CASE RestartWait(p)
  BY <1>8, <1>b, <1>c DEF RestartWait, Goto, Return
<1>9. CASE StartCheck(p)
  BY <1>9, <1>b, <1>c DEF StartCheck, Goto, Return
<1>10. CASE StartFlag(p)
  BY <1>10, <1>b, <1>c DEF StartFlag, Goto, Return
<1>11. CASE Create(p)
  BY <1>11, <1>b, <1>c DEF Create, Goto, Return
<1>12. CASE Assign(p)
  BY <1>12, <1>b, <1>c DEF Assign, Goto, Return
<1> QED
  BY <1>1, <1>2, <1>3, <1>4, <1>5, <1>6, <1>7, <1>8, <1>9, <1>10, <1>11, <1>12 DEF CallerStep

\* The stand-alone program never sleeps, and a program that has ended stays so.
LEMMA ModeStep == TypeInv /\ ModeInv /\ [DaemonNext]_allVars => ModeInv'
<1> SUFFICES ASSUME TypeInv, ModeInv, [DaemonNext]_allVars PROVE ModeInv'
  OBVIOUS
<1>a. /\ pc \in [Callers -> Locations] /\ cont \in [Callers -> {"return", "restart", "sleep", "shutdown"}]
      /\ "go" \in Callers /\ "detect" \in Callers
  BY DEF TypeInv, TypeOK, Callers
<1>0. CASE UNCHANGED allVars
  BY <1>0 DEF allVars, vars, daemon, callers, ModeInv
\* every other step is one of a running process
<1>b. ASSUME proc = "run", proc' \in {"run", "crashed"}, main # "off" => main' # "off", main' # "off" => main # "off",
             main # "off" => /\ asleep' => asleep
                             /\ cont'["go"] # "sleep"
                             /\ pc'["go"] \notin {"sleepWait", "sleepWrite"}
      PROVE  ModeInv'
  BY <1>b DEF ModeInv
<1>c. ASSUME NEW l, NEW c, NEW t, Proceed("go", l, c, t) PROVE pc'["go"] = l /\ cont'["go"] = c
  BY <1>a, <1>c DEF Proceed
<1>d. main # "off" => ~asleep /\ cont["go"] # "sleep" /\ pc["go"] \notin {"sleepWait", "sleepWrite"}
  BY DEF ModeInv
<1>1. CASE main = "off" /\ proc = "run" /\ GoCalls /\ UNCHANGED daemon
  <2>1. proc' = proc
    BY <1>1 DEF GoCalls, VideoStart, VideoStop, VideoSetQualityFactor, VideoSleep
  <2> QED
    BY <1>1, <2>1, <1>b DEF daemon
<1>2. CASE proc = "run" /\ Machine /\ UNCHANGED daemon
  <2>0. main' = main
    BY <1>2 DEF daemon
  <2>1. CASE \E p \in Callers : CallerStep(p)
    <3>1. PICK p \in Callers : CallerStep(p)
      BY <2>1
    <3>2. /\ proc' \in {"run", "crashed"} /\ asleep' = asleep
          /\ p # "go" => pc'["go"] = pc["go"] /\ cont'["go"] = cont["go"]
          /\ p = "go" => /\ cont'["go"] \in {cont["go"], "return", "restart"}
                         /\ pc'["go"] = "sleepWait" => cont["go"] = "sleep"
                         /\ pc'["go"] # "sleepWrite"
      BY <1>2, <3>1, <1>a, CallerEffect
    <3> QED
      BY <1>2, <2>0, <3>2, <1>b, <1>d
  <2>2. CASE SleepWait
    BY <1>2, <2>0, <2>2, <1>b, <1>c, <1>d DEF SleepWait, Return
  <2>3. CASE Shutdown
    <3>1. pc'["go"] = "shutdown" /\ UNCHANGED <<asleep, cont>>
      BY <2>3 DEF Shutdown, callers
    <3> QED
      BY <2>0, <3>1, <1>d DEF ModeInv
  <2>4. CASE QueryTimings \/ DequeueEvent
    <3>1. pc'["go"] = pc["go"] /\ UNCHANGED <<proc, cont, asleep>>
      BY <2>4, <1>a DEF QueryTimings, DequeueEvent
    <3> QED
      BY <1>2, <2>0, <3>1, <1>b, <1>d
  <2>5. CASE ApplyTimings
    <3>1. Goto("detect", "restart") \/ Return("detect")
      BY <2>5 DEF ApplyTimings
    <3>2. pc'["go"] = pc["go"] /\ cont'["go"] = cont["go"] /\ UNCHANGED <<proc, asleep>>
      BY <2>5, <3>1, <1>a DEF ApplyTimings, Goto, Return, Proceed
    <3> QED
      BY <1>2, <2>0, <3>2, <1>b, <1>d
  <2>6. CASE ReadStream \/ SourceChanges
    <3>1. UNCHANGED <<proc, pc, cont, asleep>>
      BY <2>6 DEF ReadStream, SourceChanges, callers
    <3> QED
      BY <1>2, <2>0, <3>1, <1>b, <1>d
  <2>7. CASE \E t \in Threads : StreamStep(t) \/ AssertFails(t)
    <3>1. PICK t \in Threads : StreamStep(t) \/ AssertFails(t)
      BY <2>7
    <3>2. pc'["go"] = pc["go"] /\ cont' = cont /\ (asleep' => asleep)
      BY <3>1, <1>a, StreamEffect
    <3>3. proc' \in {proc, "crashed"}
      BY <3>1 DEF StreamStep, AssertFails, ThreadBegins, OpenDevice, TakeBuffers, VencStart, CaptureFrame,
         CaptureEnds, VencStop, VencDestroy, ReleaseBuffers, LeaveLoop, ThreadEnds, Crash
    <3> QED
      BY <1>2, <2>0, <3>2, <3>3, <1>b, <1>d
  <2> QED
    BY <1>2, <2>1, <2>2, <2>3, <2>4, <2>5, <2>6, <2>7, <1>a DEF Machine, GoStep, DetectStep
<1>3. CASE proc = "run" /\ MainStep
  <2>1. main # "off" /\ main' # "off" /\ UNCHANGED <<proc, asleep>>
    BY <1>3 DEF MainStep, StartStream, OpenSocket, Select, Accept, Check, Read, StopStream, MainAt,
                VideoAlone, VideoLeft
  <2>2. CASE UNCHANGED callers
    BY <1>3, <2>1, <2>2, <1>b, <1>d DEF callers
  <2>3. CASE StartStream
    BY <1>3, <2>1, <2>3, <1>b, <1>c, <1>d DEF StartStream, Goto
  <2>4. CASE StopStream
    BY <1>3, <2>1, <2>4, <1>b, <1>c, <1>d DEF StopStream
  <2> QED
    BY <1>3, <2>2, <2>3, <2>4 DEF MainStep, OpenSocket, Select, Accept, Check, Read, VideoAlone
<1>4. CASE proc = "run" /\ ClientStep
  BY <1>4, <1>b, <1>d DEF ClientStep, VideoAlone, VideoLeft, callers
<1> QED
  BY <1>0, <1>1, <1>2, <1>3, <1>4 DEF DaemonNext

-----------------------------------------------------------------------------
(***************************************************************************)
(* Theorems about threads, sleep and memory.                               *)
(***************************************************************************)

\* The inductive invariant of both programs.
MainInv == TypeInv /\ HandleInv /\ ModeInv

\* The three parts hold together in every state of both programs.
LEMMA MainInductive == DaemonSpec => []MainInv
<1>1. DaemonInit => MainInv
  <2> SUFFICES ASSUME DaemonInit PROVE MainInv
    OBVIOUS
  <2>1. Init
    BY DEF DaemonInit
  <2>2. TypeInv
    BY <2>1, TypeInit
  <2>3. /\ \A p \in Callers : pc[p] \in Outside
        /\ \A t \in Threads : spc[t] = "none"
        /\ ~flag /\ stopped /\ thread = NoThread /\ ~freed /\ ~asleep /\ proc = "run"
        /\ pc["go"] = "idle" /\ cont["go"] = "return"
    BY <2>1 DEF Init, Outside, Callers
  <2>4. HandleInv
    BY <2>3 DEF HandleInv, Alone, Inside, Knows, FlagIsUsed, FreedIsShort, Stray, Asleep, Outside
  <2>5. ModeInv
    BY <2>3 DEF ModeInv
  <2> QED
    BY <2>2, <2>4, <2>5 DEF MainInv
<1>2. MainInv /\ [DaemonNext]_allVars => MainInv'
  <2> SUFFICES ASSUME MainInv, [DaemonNext]_allVars PROVE MainInv'
    OBVIOUS
  <2>1. [VideoNext]_vars
    BY DaemonIsVideo
  <2>2. MainStart => ~asleep
    BY DEF MainInv, ModeInv, MainStart
  <2> QED
    BY <2>1, <2>2, TypeStep, HandleStep, ModeStep DEF MainInv
<1> QED
  BY <1>1, <1>2, PTL DEF DaemonSpec

\* No stream thread is lost, in the native process and in the stand-alone program,
\* until the two callers of video.c meet.
THEOREM ThreadsAreKnown == DaemonSpec => []NoStrayThread
<1>1. MainInv => NoStrayThread
  BY DEF MainInv, HandleInv, Stray, NoStrayThread
<1> QED
  BY <1>1, MainInductive, PTL

\* The capture chip never sleeps under a stream thread.
THEOREM SleepsAlone == DaemonSpec => []SleepIsSafe
<1>1. MainInv => SleepIsSafe
  BY ThreadAssumption DEF MainInv, HandleInv, Stray, Asleep, SleepIsSafe
<1> QED
  BY <1>1, MainInductive, PTL

\* A stream that has been stopped has given its blocks back and says that it is over.
THEOREM StopsClean == DaemonSpec => []StoppedIsClean
<1>1. ASSUME MainInv, ~overlap, ~failed, Quiet, thread = NoThread
      PROVE  video_get_streaming_status = 0 /\ pool = BufferCount
  <2>1. FlagIsUsed /\ Stray /\ Blocks /\ Announced /\ stopped \in BOOLEAN /\ flag \in BOOLEAN
    BY <1>1 DEF MainInv, HandleInv, TypeInv, TypeOK
  <2>2. \A p \in Callers : pc[p] \in Outside
    BY <1>1 DEF Quiet, Inside, Outside
  <2>3. NoneLive /\ ~flag
    BY <1>1, <2>1, <2>2, ThreadAssumption DEF NoneLive, Stray, FlagIsUsed, Outside
  <2>4. stopped
    BY <1>1, <2>1, <2>3 DEF Announced, NoneLive
  <2>5. \A t \in Threads : held[t] = 0
    BY <2>1, <2>3 DEF Blocks, Holding, NoneLive
  <2>6. pool = BufferCount
    <3>1. CASE BufferCount = 0
      BY <1>1, <3>1, CountAssumption DEF MainInv, TypeInv, TypeOK
    <3>2. CASE BufferCount # 0
      BY <1>1, <2>1, <2>5, <3>2 DEF Blocks
    <3> QED
      BY <3>1, <3>2
  <2> QED
    BY <2>3, <2>4, <2>6 DEF video_get_streaming_status
<1>2. MainInv => StoppedIsClean
  BY <1>1 DEF StoppedIsClean
<1> QED
  BY <1>2, MainInductive, PTL

\* The stand-alone program ends without a thread and with all its blocks.
THEOREM EndsClean == DaemonSpec => []ShutdownIsClean
<1>1. ASSUME MainInv, proc = "exited", ~overlap
      PROVE  (\A t \in Threads : spc[t] = "none") /\ (~failed => pool = BufferCount)
  <2>1. /\ Stray /\ Blocks /\ Knows("go") /\ Alone /\ pc["go"] = "shutdown"
        /\ "go" \in Callers /\ "detect" \in Callers
    BY <1>1 DEF MainInv, HandleInv, TypeInv, ModeInv, Callers
  <2>2. thread = NoThread /\ \A p \in Callers : pc[p] # "assign"
    BY <2>1 DEF Knows, Alone, Inside
  <2>3. \A t \in Threads : spc[t] = "none"
    BY <2>1, <2>2, ThreadAssumption DEF Stray
  <2>4. \A t \in Threads : held[t] = 0
    BY <2>1, <2>3 DEF Blocks, Holding
  <2>5. ~failed => pool = BufferCount
    <3>1. CASE BufferCount = 0
      BY <1>1, <3>1, CountAssumption DEF MainInv, TypeInv, TypeOK
    <3>2. CASE BufferCount # 0
      BY <2>1, <2>4, <3>2 DEF Blocks
    <3> QED
      BY <3>1, <3>2
  <2> QED
    BY <2>3, <2>5
<1>2. MainInv => ShutdownIsClean
  BY <1>1 DEF ShutdownIsClean
<1> QED
  BY <1>2, MainInductive, PTL

-----------------------------------------------------------------------------
(***************************************************************************)
(* Crashes.                                                                *)
(***************************************************************************)

\* A crash takes a failure or a meeting of the two callers: the code itself never
\* joins or frees a handle twice.
THEOREM CrashesAreExplained == DaemonSpec => []CrashIsExplained
<1>1. DaemonInit => CrashIsExplained
  BY DEF DaemonInit, Init, CrashIsExplained
<1>2. MainInv /\ CrashIsExplained /\ [DaemonNext]_allVars => CrashIsExplained'
  <2> SUFFICES ASSUME MainInv, CrashIsExplained, [DaemonNext]_allVars, proc' = "crashed", ~overlap'
               PROVE  faults' > 0
    BY DEF CrashIsExplained
  <2>a. TypeInv /\ HandleInv /\ faults \in 0..MaxFaults
    BY DEF MainInv, TypeInv, TypeOK
  <2>0. CASE UNCHANGED vars
    BY <2>0 DEF vars, callers, CrashIsExplained
  <2>b. CASE proc = "run" /\ VideoNext
    <3>1. CASE \E p \in Callers : CallerStep(p)
      <4>1. PICK p \in Callers : CallerStep(p)
        BY <3>1
      <4>2. Crash /\ ((Join(p) /\ BadJoin(p)) \/ (Free(p) /\ freed))
        BY <2>b, <4>1 DEF CallerStep, RestartStatus, StopCheck, StopFlag, Join, Joined, Free, Clear,
           RestartWait, StartCheck, StartFlag, Create, Assign
      <4>3. ~overlap
        BY <4>2 DEF Crash, callers
      <4>4. Alone /\ Knows(p) /\ FreedIsShort
        BY <4>3, <2>a DEF HandleInv
      <4>5. pc[p] \in {"join", "free"} /\ (freed \/ BadJoin(p))
        BY <4>2 DEF Join, Free
      <4>6. \A q \in Callers \ {p} : pc[q] \notin {"joining", "free", "clear"}
        BY <4>4, <4>5 DEF Alone, Inside
      <4>7. ~freed
        BY <4>4, <4>5, <4>6 DEF FreedIsShort
      <4> QED
        BY <4>2, <4>4, <4>5, <4>6, <4>7 DEF BadJoin, Knows, Join
    <3>2. CASE \E t \in Threads : StreamStep(t) \/ AssertFails(t)
      <4>1. PICK t \in Threads : StreamStep(t) \/ AssertFails(t)
        BY <3>2
      <4>2. CASE AssertFails(t)
        BY <4>2, <2>a, FaultTypes DEF AssertFails
      <4>3. CASE VencDestroy(t)
        BY <2>a, <2>b, <4>3 DEF VencDestroy, TypeInv, GarbageIsFault
      <4> QED
        BY <2>b, <4>1, <4>2, <4>3 DEF StreamStep, ThreadBegins, OpenDevice, TakeBuffers, VencStart, CaptureFrame,
           CaptureEnds, VencStop, ReleaseBuffers, LeaveLoop, ThreadEnds
    <3>3. CASE GoCalls \/ MainStart \/ MainStop \/ MainFault
      BY <2>b, <3>3 DEF GoCalls, VideoStart, VideoStop, VideoSetQualityFactor, VideoSleep, MainStart, MainStop,
         MainFault, VideoAlone, VideoLeft
    <3>4. CASE SleepWait \/ Shutdown \/ QueryTimings \/ ApplyTimings \/ DequeueEvent \/ ReadStream \/ SourceChanges
      BY <2>b, <3>4 DEF SleepWait, Shutdown, QueryTimings, ApplyTimings, DequeueEvent, ReadStream, SourceChanges
    <3> QED
      BY <2>b, <3>1, <3>2, <3>3, <3>4 DEF VideoNext, Machine, GoStep, DetectStep, Callers
  <2> QED
    BY <2>0, <2>b, DaemonIsVideo
<1> QED
  BY <1>1, <1>2, MainInductive, PTL DEF DaemonSpec

-----------------------------------------------------------------------------
(***************************************************************************)
(* The format of the stream.                                               *)
(***************************************************************************)

\* A thread comes to use a format only by reading what the detection has stored,
\* or is storing.
LEMMA FormatRead ==
    ASSUME TypeInv, NEW t \in Threads, StreamStep(t) \/ AssertFails(t), spc'[t] \in Using
    PROVE  \/ spc[t] \in Using /\ fmt'[t] = fmt[t]
           \/ \E a \in Racing : fmt'[t].size = a.size
<1>a. spc \in [Threads -> Stages] /\ fmt \in [Threads -> Formats \cup {NoSource}]
  BY DEF TypeInv, TypeOK
<1>b. CASE Crash
  <2>1. UNCHANGED <<spc, fmt>>
    BY <1>b DEF Crash, stream
  <2> QED
    BY <2>1
<1>1. CASE OpenDevice(t)
  BY <1>1, <1>a DEF OpenDevice
<1>2. CASE ThreadBegins(t)
  BY <1>2, <1>a DEF ThreadBegins, Using, Holding
<1>3. CASE TakeBuffers(t)
  BY <1>3, <1>a DEF TakeBuffers, Using, Holding
<1>4. CASE VencStart(t)
  BY <1>4, <1>a DEF VencStart, Using, Holding
<1>5. CASE CaptureFrame(t)
  BY <1>5, <1>a DEF CaptureFrame, Using, Holding, stream
<1>6. CASE CaptureEnds(t)
  BY <1>6, <1>a DEF CaptureEnds, Using, Holding
<1>7. CASE VencStop(t)
  BY <1>7, <1>a DEF VencStop, Using, Holding
<1>8. CASE VencDestroy(t) /\ ~Crash
  BY <1>8, <1>a DEF VencDestroy, Using, Holding
<1>9. CASE ReleaseBuffers(t)
  BY <1>9, <1>a DEF ReleaseBuffers, Using, Holding
<1>10. CASE LeaveLoop(t)
  BY <1>10, <1>a DEF LeaveLoop, Using, Holding
<1>11. CASE ThreadEnds(t)
  BY <1>11, <1>a DEF ThreadEnds, Using, Holding
<1> QED
  BY <1>b, <1>1, <1>2, <1>3, <1>4, <1>5, <1>6, <1>7, <1>8, <1>9, <1>10, <1>11 DEF StreamStep, AssertFails

\* The part of the run in which the detection thread replaces the old stream.
Replacing == {"restart", "stop", "stopFlag", "join", "joining"}

\* A step of a caller changes no thread in use; when the detection thread has
\* replaced the old stream, none is left.
LEMMA CallerFormat ==
    ASSUME TypeInv, HandleInv, HandleInv', ~overlap', NEW p \in Callers, CallerStep(p)
    PROVE  /\ \A t \in Threads : spc'[t] \in Using => spc[t] \in Using /\ fmt'[t] = fmt[t]
           /\ pc[p] \in Replacing /\ pc'[p] \notin Replacing => NoneLive'
           /\ pc[p] # "apply" /\ pc'[p] # "apply"
<1>a. /\ spc \in [Threads -> Stages] /\ fmt \in [Threads -> Formats \cup {NoSource}]
      /\ pc \in [Callers -> Locations] /\ flag \in BOOLEAN
  BY DEF TypeInv, TypeOK
<1>b. ASSUME NEW l, NEW c, NEW t, Proceed(p, l, c, t) PROVE pc'[p] = l
  BY <1>a, <1>b DEF Proceed
<1>c. ASSUME AfterStop(p) PROVE pc'[p] \in {"idle", "restartWait", "sleepWait", "shutdown"}
  BY <1>b, <1>c DEF AfterStop, Goto, Return
<1>d. CASE Crash
  <2>1. UNCHANGED <<spc, fmt, pc>>
    BY <1>d DEF Crash, stream, callers
  <2>2. pc[p] # "apply"
    BY DEF CallerStep, RestartStatus, StopCheck, StopFlag, Join, Joined, Free, Clear,
         RestartWait, StartCheck, StartFlag, Create, Assign
  <2> QED
    BY <2>1, <2>2
<1>e. ASSUME pc[p] \in {"restart", "stop"}, ~overlap, thread = NoThread PROVE NoneLive
  <2>1. Alone /\ Stray
    BY <1>e DEF HandleInv
  <2>2. \A q \in Callers : pc[q] # "assign"
    BY <1>e, <2>1 DEF Alone, Inside
  <2> QED
    BY <1>e, <2>1, <2>2, ThreadAssumption DEF Stray, NoneLive
<1>1. CASE RestartStatus(p)
  <2>1. /\ UNCHANGED <<spc, fmt, thread, flag>> /\ pc[p] = "restart"
        /\ pc'[p] = "stop" \/ (pc'[p] = "idle" /\ video_get_streaming_status = 0)
    BY <1>1, <1>b DEF RestartStatus, Return, stream, switch
  <2>2. ASSUME pc'[p] = "idle" PROVE NoneLive
    <3>1. ~flag
      BY <2>1, <2>2, <1>a DEF video_get_streaming_status
    <3>2. ~overlap
      BY <1>1 DEF RestartStatus, Return, Proceed
    <3>3. Alone /\ FlagIsUsed
      BY <3>2 DEF HandleInv
    <3>4. thread = NoThread
      BY <2>1, <3>1, <3>3 DEF Alone, Inside, FlagIsUsed
    <3> QED
      BY <2>1, <3>2, <3>4, <1>e
  <2> QED
    BY <2>1, <2>2 DEF Replacing, NoneLive
<1>2. CASE StopCheck(p)
  <2>1. /\ UNCHANGED <<spc, fmt, thread>> /\ pc[p] = "stop"
        /\ pc'[p] = "stopFlag" \/ (pc'[p] \in {"idle", "restartWait", "sleepWait", "shutdown"} /\ thread = NoThread)
    BY <1>2, <1>b, <1>c DEF StopCheck, Goto, stream, switch
  <2>2. ~overlap
    BY <1>2 DEF StopCheck, AfterStop, Goto, Return, Proceed
  <2> QED
    BY <2>1, <2>2, <1>e DEF Replacing, NoneLive
<1>3. CASE StopFlag(p)
  BY <1>3, <1>b DEF StopFlag, Goto, stream, Replacing
<1>4. CASE Join(p) /\ ~Crash
  <2>1. UNCHANGED <<spc, fmt>> /\ pc[p] = "join" /\ pc'[p] \in {"joining", "free"}
    BY <1>4, <1>b DEF Join, Goto, stream
  <2> QED
    BY <2>1 DEF Replacing, HandleInv, Knows
<1>5. CASE Joined(p)
  <2>1. pc[p] = "joining" /\ pc'[p] = "free"
    BY <1>5, <1>b DEF Joined, Goto
  <2>2. NoneLive'
    BY <2>1 DEF HandleInv, Knows
  <2> QED
    BY <2>1, <2>2 DEF NoneLive, Using, Holding
<1>6. CASE Free(p) /\ ~Crash
  BY <1>6, <1>b DEF Free, Goto, stream, Replacing
<1>7. CASE Clear(p)
  BY <1>7, <1>c DEF Clear, stream, Replacing
<1>8. CASE RestartWait(p)
  BY <1>8, <1>b DEF RestartWait, Goto, Return, stream, Replacing
<1>9. CASE StartCheck(p)
  BY <1>9, <1>b DEF StartCheck, Goto, Return, stream, Replacing
<1>10. CASE StartFlag(p)
  BY <1>10, <1>b DEF StartFlag, Goto, stream, Replacing
<1>11. CASE Create(p)
  <2>1. pc[p] = "create" /\ pc'[p] \in {"assign", "idle"} /\ fmt' = fmt
    BY <1>11, <1>b DEF Create, Return
  <2>2. \A t \in Threads : spc'[t] = spc[t] \/ spc'[t] = "new"
    BY <1>11, <1>a DEF Create
  <2> QED
    BY <2>1, <2>2 DEF Using, Holding, Replacing
<1>12. CASE Assign(p)
  BY <1>12, <1>b DEF Assign, Return, stream, Replacing
<1> QED
  BY <1>d, <1>1, <1>2, <1>3, <1>4, <1>5, <1>6, <1>7, <1>8, <1>9, <1>10, <1>11, <1>12 DEF CallerStep

\* Every step keeps the formats of running threads and of the detection together.
LEMMA FormatStep ==
    MainInv /\ MainInv' /\ FormatInv /\ [DaemonNext]_allVars => FormatInv'
<1> SUFFICES ASSUME MainInv, MainInv', FormatInv, [DaemonNext]_allVars, ~overlap'
             PROVE  FormatInv'
  BY DEF FormatInv
<1>a. /\ TypeInv /\ HandleInv /\ HandleInv'
      /\ pc \in [Callers -> Locations] /\ "go" \in Callers /\ "detect" \in Callers
  BY DEF MainInv, TypeInv, TypeOK, Callers
<1>b. [VideoNext]_vars
  BY DaemonIsVideo
\* a step of others while the detection stays where it is
<1>c. ASSUME ~overlap, pc'["detect"] = pc["detect"], UNCHANGED <<detected, incoming>>,
             \A t \in Threads : spc'[t] \in Using => spc[t] \in Using /\ fmt'[t] = fmt[t]
      PROVE  FormatInv'
  BY <1>c DEF FormatInv
<1>d. ASSUME NEW l, NEW c, NEW t, Proceed("go", l, c, t) PROVE pc'["detect"] = pc["detect"] /\ ~overlap
  BY <1>a, <1>d DEF Proceed
<1>0. CASE UNCHANGED vars
  BY <1>0, <1>c DEF vars, callers, stream, hdmi
<1>1. CASE VideoStart \/ VideoStop \/ VideoSetQualityFactor \/ VideoSleep \/ MainStart \/ MainStop \/ SleepWait
  <2>1. UNCHANGED <<detected, incoming, spc, fmt>>
    BY <1>1 DEF VideoStart, VideoStop, VideoSetQualityFactor, VideoSleep, MainStart, MainStop, SleepWait,
                VideoLeft, hdmi, stream
  <2>2. \E l, c, t : Proceed("go", l, c, t)
    BY <1>1 DEF VideoStart, VideoStop, VideoSetQualityFactor, VideoSleep, MainStart, MainStop, SleepWait,
                Goto, Return
  <2> QED
    BY <2>1, <2>2, <1>c, <1>d
<1>2. CASE MainFault \/ Shutdown \/ ReadStream \/ SourceChanges
  <2>1. UNCHANGED <<detected, incoming, spc, fmt, pc, overlap>>
    BY <1>2 DEF MainFault, Shutdown, ReadStream, SourceChanges, VideoAlone, VideoLeft, hdmi, stream, callers
  <2> QED
    BY <2>1, <1>c
<1>3. CASE \E p \in Callers : CallerStep(p)
  <2>1. PICK p \in Callers : CallerStep(p)
    BY <1>3
  <2>2. /\ \A t \in Threads : spc'[t] \in Using => spc[t] \in Using /\ fmt'[t] = fmt[t]
        /\ pc[p] \in Replacing /\ pc'[p] \notin Replacing => NoneLive'
        /\ pc[p] # "apply" /\ pc'[p] # "apply"
    BY <2>1, <1>a, CallerFormat
  <2>3. UNCHANGED <<detected, incoming>> /\ \A q \in Callers : q # p => pc'[q] = pc[q]
    BY <2>1, <1>a, CallerEffect DEF hdmi
  <2>4. ~overlap
    <3>1. CASE Crash
      BY <3>1 DEF Crash, callers
    <3>2. CASE ~Crash
      <4>1. AfterStop(p) => (\E l : Goto(p, l)) \/ Return(p)
        BY DEF AfterStop
      <4>2. \/ AfterStop(p) \/ Return(p) \/ (\E l : Goto(p, l))
            \/ \E l, c, t : Proceed(p, l, c, t)
        BY <2>1, <3>2 DEF CallerStep, RestartStatus, StopCheck, StopFlag, Join, Joined, Free, Clear,
           RestartWait, StartCheck, StartFlag, Create, Assign
      <4> QED
        BY <4>1, <4>2 DEF Goto, Return, Proceed
    <3> QED
      BY <3>1, <3>2
  <2>5. CASE p = "go"
    BY <2>2, <2>3, <2>4, <2>5, <1>a, <1>c
  <2>6. CASE p = "detect" /\ pc[p] \in Replacing /\ pc'[p] \notin Replacing
    BY <2>2, <2>6 DEF NoneLive, FormatInv, Using, Holding
  <2>7. CASE p = "detect" /\ ~(pc[p] \in Replacing /\ pc'[p] \notin Replacing)
    BY <2>2, <2>3, <2>4, <2>7 DEF FormatInv, Replacing
  <2> QED
    BY <2>5, <2>6, <2>7 DEF Callers
<1>4. CASE QueryTimings \/ DequeueEvent
  <2>1. /\ UNCHANGED <<detected, spc, fmt, overlap>>
        /\ pc["detect"] \in {"idle", "query"} /\ pc'["detect"] \in {"idle", "query", "apply", "gone"}
    BY <1>4, <1>a DEF QueryTimings, DequeueEvent, stream
  <2> QED
    BY <2>1 DEF FormatInv
<1>5. CASE ApplyTimings
  <2>1. UNCHANGED <<spc, fmt>> /\ detected' = incoming /\ pc["detect"] = "apply"
    BY <1>5 DEF ApplyTimings, stream
  <2>2. CASE ShouldRestart
    <3>1. pc'["detect"] = "restart"
      BY <1>5, <2>2, <1>a DEF ApplyTimings, Goto, Proceed
    <3> QED
      BY <3>1 DEF FormatInv
  <2>3. CASE ~ShouldRestart
    <3>1. pc'["detect"] = "idle" /\ ~overlap
      BY <1>5, <2>3, <1>a DEF ApplyTimings, Return, Proceed
    <3>2. incoming.size = detected.size
      BY <2>3 DEF ShouldRestart
    <3> QED
      BY <2>1, <3>1, <3>2 DEF FormatInv
  <2> QED
    BY <2>2, <2>3
<1>6. CASE \E t \in Threads : StreamStep(t) \/ AssertFails(t)
  <2>1. PICK t \in Threads : StreamStep(t) \/ AssertFails(t)
    BY <1>6
  <2>2. /\ pc'["detect"] = pc["detect"] /\ ~overlap
        /\ \A u \in Threads : u # t => spc'[u] = spc[u] /\ fmt'[u] = fmt[u]
    BY <2>1, <1>a, StreamEffect
  <2>3. UNCHANGED <<detected, incoming>>
    BY <2>1 DEF StreamStep, AssertFails, ThreadBegins, OpenDevice, TakeBuffers, VencStart, CaptureFrame,
       CaptureEnds, VencStop, VencDestroy, ReleaseBuffers, LeaveLoop, ThreadEnds, Crash, hdmi
  <2>4. spc'[t] \in Using =>
           \/ spc[t] \in Using /\ fmt'[t] = fmt[t]
           \/ fmt'[t].size = detected.size
           \/ pc["detect"] = "apply" /\ fmt'[t].size = incoming.size
    BY <2>1, <1>a, FormatRead DEF Racing
  <2> QED
    BY <2>2, <2>3, <2>4 DEF FormatInv
<1> QED
  BY <1>b, <1>0, <1>1, <1>2, <1>3, <1>4, <1>5, <1>6 DEF VideoNext, GoCalls, Machine, GoStep, DetectStep, Callers

\* A stream that captures uses the resolution of the last detection, although it
\* reads it without a lock.
THEOREM FormatStaysCurrent == DaemonSpec => []FormatIsCurrent
<1>1. DaemonInit => FormatInv
  BY DEF DaemonInit, Init, FormatInv, Using, Holding
<1>2. FormatInv => FormatIsCurrent
  BY DEF FormatInv, FormatIsCurrent, Inside, Using, Holding
<1> QED
  BY <1>1, <1>2, FormatStep, MainInductive, PTL DEF DaemonSpec

-----------------------------------------------------------------------------
(***************************************************************************)
(* The capture service.                                                    *)
(***************************************************************************)

\* At most one thread may touch the device, and it is the user.
LEMMA OneUser ==
    ASSUME MainInv, ~overlap
    PROVE  /\ \A t \in InUse : InUse = {t} /\ User = t
           /\ InUse = {} => User = NoThread
           /\ asleep => InUse = {}
<1>1. Alone /\ Stray /\ Asleep /\ (\A p \in Callers : Knows(p)) /\ NoThread \notin Threads
  BY ThreadAssumption DEF MainInv, HandleInv
<1>2. \A t, u \in Threads : spc[t] # "none" /\ spc[u] # "none" => t = u
  BY <1>1 DEF Alone, Inside, Stray, Knows
<1>3. \A t \in InUse : InUse = {t}
  BY <1>2 DEF InUse
<1>4. \A t \in InUse : User = t
  BY <1>3 DEF User
<1>5. asleep => InUse = {}
  BY <1>1 DEF Asleep, Stray, InUse
<1> QED
  BY <1>3, <1>4, <1>5 DEF User

\* Which threads may touch the device after a step: the same, one more that has
\* just been created, or one fewer.
LEMMA UseChanges ==
    ASSUME MainInv, [DaemonNext]_allVars, ~overlap'
    PROVE  /\ ~overlap
           /\ \/ InUse' = InUse
              \/ InUse = {} /\ ~asleep /\ ~asleep' /\ \E t \in Threads : InUse' = {t}
              \/ InUse' = {} /\ InUse # {} /\ ~asleep /\ ~asleep'
<1>a. /\ TypeInv /\ HandleInv /\ spc \in [Threads -> Stages] /\ asleep \in BOOLEAN
      /\ pc \in [Callers -> Locations]
  BY DEF MainInv, TypeInv, TypeOK
<1>b. [VideoNext]_vars
  BY DaemonIsVideo
<1>c. ASSUME NEW p, NEW l, NEW c, NEW t, Proceed(p, l, c, t) PROVE ~overlap
  BY <1>c DEF Proceed
<1>d. ASSUME UNCHANGED spc PROVE InUse' = InUse
  BY <1>d DEF InUse
<1>0. CASE UNCHANGED vars
  BY <1>0, <1>d DEF vars, callers, stream
<1>1. CASE VideoStart \/ VideoStop \/ VideoSetQualityFactor \/ VideoSleep \/ MainStart \/ MainStop \/ SleepWait
           \/ ApplyTimings
  <2>1. UNCHANGED spc
    BY <1>1 DEF VideoStart, VideoStop, VideoSetQualityFactor, VideoSleep, MainStart, MainStop, SleepWait,
                ApplyTimings, VideoLeft, stream
  <2>2. \E p, l, c, t : Proceed(p, l, c, t)
    BY <1>1 DEF VideoStart, VideoStop, VideoSetQualityFactor, VideoSleep, MainStart, MainStop, SleepWait,
                ApplyTimings, Goto, Return
  <2> QED
    BY <2>1, <2>2, <1>c, <1>d
<1>2. CASE MainFault \/ Shutdown \/ ReadStream \/ SourceChanges \/ QueryTimings \/ DequeueEvent
  <2>1. UNCHANGED <<spc, overlap>>
    BY <1>2 DEF MainFault, Shutdown, ReadStream, SourceChanges, QueryTimings, DequeueEvent, VideoAlone,
                VideoLeft, stream, callers
  <2> QED
    BY <2>1, <1>d
<1>3. CASE \E p \in Callers : CallerStep(p)
  <2>1. PICK p \in Callers : CallerStep(p)
    BY <1>3
  <2>2. ~overlap /\ asleep' = asleep
    <3>1. CASE Crash
      BY <3>1 DEF Crash, callers
    <3>2. CASE ~Crash
      <4>1. AfterStop(p) => (\E l : Goto(p, l)) \/ Return(p)
        BY DEF AfterStop
      <4>2. \/ AfterStop(p) \/ Return(p) \/ (\E l : Goto(p, l))
            \/ \E l, c, t : Proceed(p, l, c, t)
        BY <2>1, <3>2 DEF CallerStep, RestartStatus, StopCheck, StopFlag, Join, Joined, Free, Clear,
           RestartWait, StartCheck, StartFlag, Create, Assign
      <4> QED
        BY <2>1, <4>1, <4>2, <1>a, CallerEffect DEF Goto, Return, Proceed
    <3> QED
      BY <3>1, <3>2
  <2>3. CASE Joined(p)
    <3>1. \A u \in Threads : spc'[u] = spc[u] \/ (spc[u] \in {"done", "failed"} /\ spc'[u] = "none")
      BY <2>3, <1>a DEF Joined
    <3>2. InUse' = InUse
      BY <3>1 DEF InUse
    <3> QED
      BY <2>2, <3>2
  <2>4. CASE Create(p)
    <3>1. /\ Alone /\ Stray /\ Asleep /\ Knows(p) /\ pc[p] = "create" /\ NoThread \notin Threads
      BY <2>2, <2>4, <1>a, ThreadAssumption DEF HandleInv, Create
    <3>2. thread = NoThread /\ ~asleep /\ \A q \in Callers : pc[q] # "assign"
      BY <3>1, <2>1 DEF Alone, Inside, Knows, Asleep
    <3>3. \A u \in Threads : spc[u] = "none"
      BY <3>1, <3>2 DEF Stray
    <3>4. InUse = {}
      BY <3>3 DEF InUse
    <3>5. CASE UNCHANGED spc
      BY <3>5, <2>2, <1>d
    <3>6. CASE Unused # {} /\ spc' = [spc EXCEPT ![NewThread] = "new"]
      <4>1. NewThread \in Threads
        <5>1. NewThread \in Unused
          BY <3>6 DEF NewThread
        <5> QED
          BY <5>1 DEF Unused
      <4>2. spc'[NewThread] = "new" /\ \A u \in Threads : u # NewThread => spc'[u] = "none"
        BY <3>3, <3>6, <4>1, <1>a
      <4>3. InUse' = {NewThread}
        BY <4>1, <4>2 DEF InUse
      <4> QED
        BY <2>2, <3>2, <3>4, <4>1, <4>3
    <3> QED
      BY <2>4, <3>5, <3>6 DEF Create
  <2>5. CASE ~Joined(p) /\ ~Create(p)
    <3>1. UNCHANGED spc
      BY <2>1, <2>5 DEF CallerStep, RestartStatus, StopCheck, StopFlag, Join, Free, Clear,
           RestartWait, StartCheck, StartFlag, Assign, Crash, stream
    <3> QED
      BY <2>2, <3>1, <1>d
  <2> QED
    BY <2>3, <2>4, <2>5
<1>4. CASE \E t \in Threads : StreamStep(t) \/ AssertFails(t)
  <2>1. PICK t \in Threads : StreamStep(t) \/ AssertFails(t)
    BY <1>4
  <2>2. /\ ~overlap /\ (asleep' => asleep) /\ spc[t] \notin {"none", "done", "failed"}
        /\ \A u \in Threads : u # t => spc'[u] = spc[u]
    BY <2>1, <1>a, StreamEffect
  <2>3. t \in InUse
    BY <2>2 DEF InUse
  <2>4. InUse = {t} /\ ~asleep /\ ~asleep'
    BY <2>2, <2>3, OneUser
  <2>5. InUse' = InUse \/ InUse' = {}
    BY <2>2, <2>4 DEF InUse
  <2> QED
    BY <2>2, <2>4, <2>5
<1> QED
  BY <1>b, <1>0, <1>1, <1>2, <1>3, <1>4 DEF VideoNext, GoCalls, Machine, GoStep, DetectStep, Callers

\* The video code implements the capture service, in the native process and in the
\* stand-alone program: the chip has one user at a time and sleeps only without one,
\* until the two callers of video.c meet.
THEOREM CaptureIsImplemented == DaemonSpec => ImplementsCapture
<1>1. DaemonInit => Capture!Init
  <2> SUFFICES ASSUME DaemonInit PROVE Capture!Init
    OBVIOUS
  <2>1. Init
    BY DEF DaemonInit
  <2>2. InUse = {} /\ ~overlap /\ ~asleep
    BY <2>1 DEF Init, InUse
  <2> QED
    BY <2>2 DEF Capture!Init, User
<1>2. MainInv /\ MainInv' /\ [DaemonNext]_allVars => [Capture!Next]_(Capture!vars)
  <2> SUFFICES ASSUME MainInv, MainInv', [DaemonNext]_allVars PROVE [Capture!Next]_(Capture!vars)
    OBVIOUS
  <2>a. asleep \in BOOLEAN /\ overlap \in BOOLEAN /\ asleep' \in BOOLEAN /\ overlap' \in BOOLEAN
        /\ NoThread \notin Threads
    BY ThreadAssumption DEF MainInv, TypeInv, TypeOK
  <2>1. CASE overlap'
    <3>1. User' = NoThread
      BY <2>1 DEF User
    <3>2. CASE overlap
      BY <2>1, <3>1, <3>2 DEF Capture!vars, User
    <3>3. CASE ~overlap
      BY <2>1, <3>1, <3>3 DEF Capture!Next, Capture!Break
    <3> QED
      BY <3>2, <3>3
  <2>2. CASE ~overlap'
    <3>1. ~overlap
      BY <2>2, UseChanges
    <3>2. CASE InUse' = InUse
      <4>1. User' = User
        BY <2>2, <3>1, <3>2 DEF User
      <4>2. CASE asleep' = asleep
        BY <4>1, <4>2, <2>2, <3>1 DEF Capture!vars
      <4>3. CASE asleep' /\ ~asleep
        <5>1. InUse' = {}
          <6>1. asleep' => (InUse = {})'
            BY <2>2, OneUser, PTL
          <6> QED
            BY <4>3, <6>1
        <5>2. User = NoThread
          BY <5>1, <3>2 DEF User
        <5> QED
          BY <4>1, <4>3, <5>2, <2>2, <3>1 DEF Capture!Next, Capture!Sleep
      <4>4. CASE ~asleep' /\ asleep
        BY <4>1, <4>4, <2>2, <3>1 DEF Capture!Next, Capture!Wake
      <4> QED
        BY <4>2, <4>3, <4>4, <2>a
    <3>3. CASE InUse = {} /\ ~asleep /\ ~asleep' /\ \E t \in Threads : InUse' = {t}
      <4>1. PICK t \in Threads : InUse' = {t}
        BY <3>3
      <4>2. User' = t /\ User = NoThread
        BY <4>1, <2>2, <3>1, <3>3 DEF User
      <4> QED
        BY <4>1, <4>2, <2>2, <3>1, <3>3 DEF Capture!Next, Capture!Begin
    <3>4. CASE InUse' = {} /\ InUse # {} /\ ~asleep /\ ~asleep'
      <4>1. User' = NoThread
        BY <3>4 DEF User
      <4>2. User # NoThread
        <5>1. PICK t \in InUse : TRUE
          BY <3>4
        <5>2. t \in Threads /\ User = t
          BY <5>1, <3>1, OneUser DEF InUse
        <5> QED
          BY <5>2, <2>a
      <4> QED
        BY <4>1, <4>2, <2>2, <3>1, <3>4 DEF Capture!Next, Capture!End
    <3> QED
      BY <2>2, <3>2, <3>3, <3>4, UseChanges
  <2> QED
    BY <2>1, <2>2, <2>a
<1> QED
  BY <1>1, <1>2, MainInductive, PTL DEF DaemonSpec, ImplementsCapture, Capture!Spec

-----------------------------------------------------------------------------
(***************************************************************************)
(* The clients of the stand-alone program.                                 *)
(***************************************************************************)

\* What the next descriptor is: one of those that are free.
LEMMA LowestIsMember ==
    ASSUME NEW S, S \subseteq Nat, S # {}
    PROVE  Lowest(S) \in S
<1> DEFINE Less == {ss \in Nat \X Nat : ss[1] < ss[2]}
<1>0. IsWellFoundedOn(Less, Nat)
  BY NatLessThanWellFounded DEF OpToRel
<1>1. \E s \in S : \A r \in S : ~(<<r, s>> \in Less)
  <2> HIDE DEF Less
  <2> QED
    BY <1>0, WFMin
<1>2. \A r, s \in Nat : <<r, s>> \in Less <=> r < s
  OBVIOUS
<1> HIDE DEF Less
<1>3. \E s \in S : \A r \in S : s <= r
  <2>1. PICK s \in S : \A r \in S : ~(<<r, s>> \in Less)
    BY <1>1
  <2>2. \A r \in S : r \in Nat /\ s \in Nat /\ ~(r < s)
    BY <1>2, <2>1
  <2> QED
    BY <2>1, <2>2
<1> QED
  BY <1>3 DEF Lowest

\* Between select and read the sets of this round speak of the old client only, and
\* a client that was readable stays so.
ClientInv ==
    /\ client \in Sockets \cup {NoClient}
    /\ peer \in [Sockets -> {"idle", "sent", "closed"}]
    /\ ready \subseteq {Server} \cup Sockets
    /\ main \in {"accept", "check"} => \A s \in ready \cap Sockets :
            s = client => peer[s] # "idle"
    /\ main = "accept" => ready \cap Sockets \subseteq {client}
    /\ ReadIsReady

\* Every step of main, and every step of a client, keeps this.
LEMMA ClientInvStep == ClientInv /\ [DaemonNext]_allVars => ClientInv'
<1> SUFFICES ASSUME ClientInv, [DaemonNext]_allVars PROVE ClientInv'
  OBVIOUS
<1> USE DEF ClientInv, ReadIsReady
<1>a. NoClient \notin Sockets /\ NoClient # Server /\ Server \notin Sockets /\ Sockets \subseteq Nat
  BY SocketAssumption DEF NoClient, Server
<1>0. CASE UNCHANGED daemon
  BY <1>0 DEF daemon
<1>1. CASE StartStream \/ OpenSocket \/ StopStream
  BY <1>1 DEF StartStream, OpenSocket, StopStream, MainAt
<1>2. CASE Select
  <2>1. Readable \subseteq {Server} \cup Sockets /\ \A s \in Readable \cap Sockets : s = client /\ peer[s] # "idle"
    BY <1>a DEF Readable
  <2> QED
    BY <1>2, <2>1 DEF Select, MainAt
<1>3. CASE Accept
  <2>1. CASE UNCHANGED <<client, peer>>
    BY <1>3, <2>1 DEF Accept, MainAt
  <2>2. CASE /\ client' = Lowest(Sockets \ {client})
             /\ peer' = [s \in Sockets |-> IF s = client THEN "idle" ELSE peer[s]]
    <3>1. Sockets \ {client} # {} /\ Sockets \ {client} \subseteq Nat
      BY SocketAssumption
    <3>2. client' \in Sockets /\ client' # client
      BY <2>2, <3>1, LowestIsMember
    <3>3. peer' \in [Sockets -> {"idle", "sent", "closed"}]
      BY <2>2
    <3>4. main = "accept" /\ main' = "check" /\ ready' = ready
      BY <1>3 DEF Accept, MainAt
    <3> QED
      BY <3>2, <3>3, <3>4
  <2> QED
    BY <1>3, <2>1, <2>2 DEF Accept
<1>4. CASE Check
  BY <1>4, <1>a DEF Check, MainAt
<1>5. CASE Read
  BY <1>5 DEF Read, MainAt
<1>6. CASE ClientStep
  <2>1. CASE UNCHANGED peer
    BY <1>6, <2>1 DEF ClientStep
  <2>2. CASE client # NoClient /\ \/ peer' = [peer EXCEPT ![client] = "sent"]
                                  \/ peer' = [peer EXCEPT ![client] = "closed"]
    <3>1. /\ peer' \in [Sockets -> {"idle", "sent", "closed"}]
          /\ \A s \in Sockets : peer[s] # "idle" => peer'[s] # "idle"
      BY <2>2
    <3>2. UNCHANGED <<main, client, ready>>
      BY <1>6 DEF ClientStep
    <3> QED
      BY <3>1, <3>2
  <2> QED
    BY <1>6, <2>1, <2>2 DEF ClientStep
<1> QED
  BY <1>0, <1>1, <1>2, <1>3, <1>4, <1>5, <1>6 DEF DaemonNext, MainStep, allVars

\* main.c never waits in read for a client that has said nothing.
THEOREM ReadsAreReady == DaemonSpec => []ReadIsReady
<1>1. DaemonInit => ClientInv
  BY DEF DaemonInit, ClientInv, ReadIsReady
<1>2. ClientInv => ReadIsReady
  BY DEF ClientInv
<1> QED
  BY <1>1, <1>2, ClientInvStep, PTL DEF DaemonSpec
=============================================================================

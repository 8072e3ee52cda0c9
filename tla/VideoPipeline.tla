--------------------------- MODULE VideoPipeline ---------------------------
(***************************************************************************)
(* The video stream of the native process: internal/native/cgo/video.c and *)
(* the lock and sleep handling around it in internal/native/video.go.      *)
(*                                                                         *)
(* Four kinds of threads meet here.  A caller from Go, one at a time under *)
(* videoLock, starts, stops and restarts the stream and puts the capture   *)
(* chip to sleep.  The detection thread waits for changes of the source    *)
(* and restarts the stream too, with no lock at all.  A stream thread      *)
(* takes frames from the device to the encoder, a reader thread takes them *)
(* from the encoder to Go.  The device and the encoder may fail at any     *)
(* call.  Where two callers use the thread handle at once the behaviour is *)
(* undefined: the process ends, or the call has no effect.                 *)
(***************************************************************************)
EXTENDS Integers

CONSTANTS
    Threads,      \* bound: stream threads that exist at the same time
    NoThread,     \* streaming_thread == NULL
    Sizes,        \* resolutions of the source
    Rates,        \* its frame rates, rounded (fps_int)
    NoSource,     \* nothing plugged in
    BufferCount,  \* input_buffer_count, also the blocks of memPool
    MaxFaults     \* bound: failures of a device, the encoder or the system

ASSUME ThreadAssumption == NoThread \notin Threads
ASSUME RateAssumption   == Rates \subseteq Nat
ASSUME CountAssumption  == BufferCount \in Nat /\ MaxFaults \in Nat

VARIABLES
    proc,      \* the native process: "run", "crashed" or "exited"
    flag,      \* streaming_flag
    stopped,   \* streaming_stopped
    thread,    \* streaming_thread
    freed,     \* the handle in streaming_thread has been freed
    pc,        \* the two callers
    cont,      \* what a caller does after video_stop_streaming
    target,    \* the thread a caller created or joins
    spc,       \* the stream threads
    fmt,       \* width, height and fps a stream thread has read
    held,      \* blocks of memPool in buffers[]
    pool,      \* free blocks of memPool
    channel,   \* VENC_CHANNEL exists
    running,   \* venc_running
    reader,    \* the reader thread
    handle,    \* venc_read_thread: "null", "valid" or "garbage"
    encoded,   \* the encoder has a frame
    detected,  \* detected_width, detected_height, detected_fps
    signal,    \* detected_signal
    incoming,  \* the timings run_detect_format has just read
    source,    \* what is plugged in
    event,     \* a source change waits for VIDIOC_DQEVENT
    asleep,    \* the sleep mode file holds 1
    faults,    \* failures so far
    overlap,   \* history: both callers were in the streaming code at once
    failed     \* history: a stream thread has ended on an error

stream  == <<spc, fmt, held, pool, failed>>
venc    == <<channel, running, reader, handle, encoded>>
hdmi    == <<detected, signal, incoming, source, event>>
switch  == <<flag, stopped, thread, freed>>
callers == <<pc, cont, target, overlap>>
vars    == <<proc, switch, callers, stream, venc, hdmi, asleep, faults>>

Callers == {"go", "detect"}
Formats == [size : Sizes, rate : Rates]

Init ==
    /\ proc = "run"
    /\ flag = FALSE
    /\ stopped = TRUE
    /\ thread = NoThread
    /\ freed = FALSE
    /\ \E l \in {"query", "gone"} :   \* VIDIOC_SUBSCRIBE_EVENT may fail
         pc = [p \in Callers |-> IF p = "go" THEN "idle" ELSE l]
    /\ cont = [p \in Callers |-> "return"]
    /\ target = [p \in Callers |-> NoThread]
    /\ spc = [t \in Threads |-> "none"]
    /\ fmt = [t \in Threads |-> NoSource]
    /\ held = [t \in Threads |-> 0]
    /\ pool = BufferCount
    /\ channel = FALSE
    /\ running = FALSE
    /\ reader = "none"
    /\ handle = "null"
    /\ encoded = FALSE
    /\ detected = NoSource
    /\ signal = FALSE
    /\ incoming = NoSource
    /\ source \in Formats \cup {NoSource}
    /\ event = FALSE
    /\ asleep = FALSE
    /\ faults = 0
    /\ overlap = FALSE
    /\ failed = FALSE

(***************************************************************************)
(* Failures and undefined behaviour.                                       *)
(***************************************************************************)

\* a call of the kernel, of the encoder library or of libc fails
Fault == faults < MaxFaults /\ faults' = faults + 1

\* the process ends: a segmentation fault, an abort or a failed assertion
Crash ==
    /\ proc' = "crashed"
    /\ UNCHANGED <<switch, callers, stream, venc, hdmi, asleep>>

(***************************************************************************)
(* The callers: video_start_streaming, video_stop_streaming and            *)
(* video_restart_streaming, one step for each access to what they share.   *)
(***************************************************************************)

\* a caller is somewhere in these functions, or waits for their effect
Inside(p) == pc[p] \notin {"idle", "query", "apply", "gone"}

video_get_streaming_status == IF flag THEN 1 ELSE IF ~stopped THEN 2 ELSE 0

\* p goes on at step l with its local state c and t, and the history notes
\* whether the other caller is inside
Proceed(p, l, c, t) ==
    /\ pc' = [pc EXCEPT ![p] = l]
    /\ cont' = [cont EXCEPT ![p] = c]
    /\ target' = [target EXCEPT ![p] = t]
    /\ overlap' = (overlap \/ (l # "idle" /\ \E q \in Callers \ {p} : Inside(q)))

Goto(p, l) == Proceed(p, l, cont[p], target[p])

Return(p) == Proceed(p, "idle", "return", NoThread)

\* what the caller of video_stop_streaming does next
AfterStop(p) ==
    CASE cont[p] = "restart"  -> Goto(p, "restartWait")
      [] cont[p] = "sleep"    -> Goto(p, "sleepWait")
      [] cont[p] = "shutdown" -> Goto(p, "shutdown")
      [] OTHER                -> Return(p)

RestartStatus(p) ==
    /\ pc[p] = "restart"
    /\ \/ video_get_streaming_status = 0 /\ Return(p)
       \/ video_get_streaming_status # 0 /\ Proceed(p, "stop", "restart", NoThread)
    /\ UNCHANGED <<proc, switch, stream, venc, hdmi, asleep, faults>>

StopCheck(p) ==
    /\ pc[p] = "stop"
    /\ \/ thread = NoThread /\ AfterStop(p)
       \/ thread # NoThread /\ Goto(p, "stopFlag")
    /\ UNCHANGED <<proc, switch, stream, venc, hdmi, asleep, faults>>

\* set_streaming_flag(false); wait_for_streaming_stopped only delays the join,
\* its result is not used
StopFlag(p) ==
    /\ pc[p] = "stopFlag"
    /\ flag' = FALSE
    /\ Goto(p, "join")
    /\ UNCHANGED <<proc, stopped, thread, freed, stream, venc, hdmi, asleep, faults>>

\* a thread may be joined once, through a handle that is still allocated
BadJoin(p) ==
    \/ thread = NoThread
    \/ freed
    \/ \E q \in Callers \ {p} : pc[q] \in {"joining", "free", "clear"} /\ target[q] = thread

\* mutant: the thread is not waited for
JoinSkipped(p) ==
    /\ pc[p] = "join"
    /\ Goto(p, "free")
    /\ UNCHANGED <<proc, switch, stream, venc, hdmi, asleep, faults>>

\* pthread_join(*streaming_thread, NULL)
Join(p) ==
    /\ pc[p] = "join"
    /\ \/ /\ ~BadJoin(p)
          /\ Proceed(p, "joining", cont[p], thread)
          /\ UNCHANGED <<proc, switch, stream, venc, hdmi, asleep>>
       \/ BadJoin(p) /\ Crash
       \/ /\ BadJoin(p)
          /\ thread # NoThread
          /\ Goto(p, "free")
          /\ UNCHANGED <<proc, switch, stream, venc, hdmi, asleep>>
    /\ UNCHANGED faults

\* the join returns when the thread has ended; its number may be used again
Joined(p) ==
    /\ pc[p] = "joining"
    /\ spc[target[p]] \in {"done", "failed"}
    /\ spc' = [spc EXCEPT ![target[p]] = "none"]
    /\ fmt' = [fmt EXCEPT ![target[p]] = NoSource]
    /\ Goto(p, "free")
    /\ UNCHANGED <<proc, switch, held, pool, failed, venc, hdmi, asleep, faults>>

\* free(streaming_thread): the variable is read again
Free(p) ==
    /\ pc[p] = "free"
    /\ \/ freed /\ Crash
       \/ /\ freed' = (thread # NoThread)
          /\ Goto(p, "clear")
          /\ UNCHANGED <<proc, flag, stopped, thread, stream, venc, hdmi, asleep>>
    /\ UNCHANGED faults

Clear(p) ==
    /\ pc[p] = "clear"
    /\ thread' = NoThread
    /\ freed' = FALSE
    /\ AfterStop(p)
    /\ UNCHANGED <<proc, flag, stopped, stream, venc, hdmi, asleep, faults>>

\* video_restart_streaming gives up when the stream has not stopped after 3 s
RestartWait(p) ==
    /\ pc[p] = "restartWait"
    /\ \/ stopped /\ Goto(p, "start")
       \/ ~stopped /\ Return(p)
    /\ UNCHANGED <<proc, switch, stream, venc, hdmi, asleep, faults>>

\* mutant: a stream is started although there is one
StartUnchecked(p) ==
    /\ pc[p] = "start"
    /\ Goto(p, "startFlag")
    /\ UNCHANGED <<proc, switch, stream, venc, hdmi, asleep, faults>>

StartCheck(p) ==
    /\ pc[p] = "start"
    /\ \/ thread # NoThread /\ Return(p) /\ UNCHANGED faults
       \/ thread = NoThread /\ Goto(p, "startFlag") /\ UNCHANGED faults
       \/ thread = NoThread /\ Fault /\ Return(p)
    /\ UNCHANGED <<proc, switch, stream, venc, hdmi, asleep>>

StartFlag(p) ==
    /\ pc[p] = "startFlag"
    /\ flag' = TRUE
    /\ Goto(p, "create")
    /\ UNCHANGED <<proc, stopped, thread, freed, stream, venc, hdmi, asleep, faults>>

\* numbers of threads that can be given to a new one
Unused    == {t \in Threads : spc[t] = "none"}
NewThread == CHOOSE t \in Unused : TRUE

Create(p) ==
    /\ pc[p] = "create"
    /\ \/ /\ Unused # {}
          /\ spc' = [spc EXCEPT ![NewThread] = "new"]
          /\ Proceed(p, "assign", cont[p], NewThread)
          /\ UNCHANGED <<flag, faults>>
       \/ Fault /\ flag' = FALSE /\ Return(p) /\ UNCHANGED spc
    /\ UNCHANGED <<proc, stopped, thread, freed, fmt, held, pool, failed, venc, hdmi, asleep>>

\* streaming_thread = new_thread, after the thread has begun to run
Assign(p) ==
    /\ pc[p] = "assign"
    /\ thread' = target[p]
    /\ freed' = FALSE
    /\ Return(p)
    /\ UNCHANGED <<proc, flag, stopped, stream, venc, hdmi, asleep, faults>>

CallerStep(p) ==
    \/ RestartStatus(p) \/ StopCheck(p) \/ StopFlag(p) \/ Join(p) \/ Joined(p)
    \/ Free(p) \/ Clear(p) \/ RestartWait(p) \/ StartCheck(p) \/ StartFlag(p)
    \/ Create(p) \/ Assign(p)

(***************************************************************************)
(* Calls from Go, under videoLock.                                         *)
(***************************************************************************)

\* VideoStart: the chip is woken first, and changes its signal when it was asleep
VideoStart ==
    /\ pc["go"] = "idle"
    /\ asleep' = FALSE
    /\ event' = (event \/ asleep)
    /\ Goto("go", "start")
    /\ UNCHANGED <<proc, switch, stream, venc, detected, signal, incoming, source, faults>>

VideoStop ==
    /\ pc["go"] = "idle"
    /\ Proceed("go", "stop", "return", NoThread)
    /\ UNCHANGED <<proc, switch, stream, venc, hdmi, asleep, faults>>

\* VideoSetQualityFactor with a positive factor restarts the stream
VideoSetQualityFactor ==
    /\ pc["go"] = "idle"
    /\ Goto("go", "restart")
    /\ UNCHANGED <<proc, switch, stream, venc, hdmi, asleep, faults>>

\* VideoSetSleepMode(true): an active stream is stopped and a stopping one is
\* waited for; otherwise the file is written at once
VideoSleep ==
    /\ pc["go"] = "idle"
    /\ Proceed("go", CASE video_get_streaming_status = 1 -> "stop"
                       [] video_get_streaming_status = 2 -> "sleepWait"
                       [] OTHER                          -> "sleepWrite", "sleep", NoThread)
    /\ UNCHANGED <<proc, switch, stream, venc, hdmi, asleep, faults>>

\* waitForVideoStreamingStatus(Inactive) for up to 3 s, then the file is written
SleepWait ==
    /\ \/ /\ \/ pc["go"] = "sleepWrite"
             \/ pc["go"] = "sleepWait" /\ video_get_streaming_status = 0
          /\ asleep' = TRUE
          /\ event' = (event \/ ~asleep)
       \/ /\ pc["go"] = "sleepWait" /\ video_get_streaming_status # 0
          /\ UNCHANGED <<asleep, event>>
    /\ Return("go")
    /\ UNCHANGED <<proc, switch, stream, venc, detected, signal, incoming, source, faults>>

\* the rest of video_shutdown, after its video_stop_streaming: only the stand-alone
\* program calls it (StreamDaemon), and ends
Shutdown ==
    /\ pc["go"] = "shutdown"
    /\ proc' = "exited"
    /\ UNCHANGED <<switch, callers, stream, venc, hdmi, asleep, faults>>

GoStep == CallerStep("go") \/ SleepWait \/ Shutdown

(***************************************************************************)
(* run_detect_format.                                                      *)
(***************************************************************************)

\* VIDIOC_QUERY_DV_TIMINGS; a sleeping chip has no signal
QueryTimings ==
    /\ pc["detect"] = "query"
    /\ \/ /\ source # NoSource /\ ~asleep
          /\ incoming' = source
          /\ pc' = [pc EXCEPT !["detect"] = "apply"]
          /\ UNCHANGED <<signal, faults>>
       \/ /\ source = NoSource \/ asleep
          /\ signal' = FALSE
          /\ pc' = [pc EXCEPT !["detect"] = "idle"]
          /\ UNCHANGED <<incoming, faults>>
       \/ Fault /\ signal' = FALSE /\ UNCHANGED <<pc, incoming>>
    /\ UNCHANGED <<proc, switch, cont, target, overlap, stream, venc, detected, source, event, asleep>>

\* a change of one frame per second is not worth a restart
FpsChanged ==
    \/ incoming.rate > detected.rate + 1
    \/ incoming.rate + 1 < detected.rate

\* mutant: a new resolution alone does not restart the stream
ShouldRestartOnSignal == detected = NoSource \/ FpsChanged \/ ~signal

ShouldRestart ==
    \/ detected = NoSource
    \/ incoming.size # detected.size
    \/ FpsChanged
    \/ ~signal

ApplyTimings ==
    /\ pc["detect"] = "apply"
    /\ detected' = incoming
    /\ incoming' = NoSource
    /\ signal' = TRUE
    /\ IF ShouldRestart THEN Goto("detect", "restart") ELSE Return("detect")
    /\ UNCHANGED <<proc, switch, stream, venc, source, event, asleep, faults>>

\* VIDIOC_DQEVENT; an event of another type leads to the query as well
DequeueEvent ==
    /\ pc["detect"] = "idle"
    /\ \/ event /\ event' = FALSE /\ pc' = [pc EXCEPT !["detect"] = "query"] /\ UNCHANGED faults
       \/ Fault /\ pc' = [pc EXCEPT !["detect"] = "gone"] /\ UNCHANGED event
    /\ UNCHANGED <<proc, switch, cont, target, overlap, stream, venc, detected, signal, incoming, source, asleep>>

DetectStep == CallerStep("detect") \/ QueryTimings \/ ApplyTimings \/ DequeueEvent

(***************************************************************************)
(* run_video_stream.                                                       *)
(***************************************************************************)

ThreadBegins(t) ==
    /\ spc[t] = "new"
    /\ stopped' = FALSE
    /\ spc' = [spc EXCEPT ![t] = "top"]
    /\ UNCHANGED <<proc, flag, thread, freed, callers, fmt, held, pool, failed, venc, hdmi, asleep, faults>>

\* what a read of a variable that run_detect_format is writing may give
Racing == {detected} \cup (IF pc["detect"] = "apply" THEN {incoming} ELSE {})

\* the top of the outer loop: without a signal, or when the device cannot be
\* opened or takes no format, it tries again
OpenDevice(t) ==
    /\ spc[t] = "top"
    /\ flag /\ signal
    /\ \E a, b \in Racing : fmt' = [fmt EXCEPT ![t] = [size |-> a.size, rate |-> b.rate]]
    /\ spc' = [spc EXCEPT ![t] = "buffers"]
    /\ UNCHANGED <<proc, switch, callers, held, pool, failed, venc, hdmi, asleep, faults>>

\* VIDIOC_REQBUFS to VIDIOC_STREAMON: every error ends the thread, with the
\* blocks it has taken and without set_streaming_stopped(true)
TakeBuffers(t) ==
    /\ spc[t] = "buffers"
    /\ \/ /\ pool >= BufferCount
          /\ held' = [held EXCEPT ![t] = BufferCount]
          /\ pool' = pool - BufferCount
          /\ spc' = [spc EXCEPT ![t] = "venc"]
          /\ UNCHANGED <<failed, faults>>
       \/ /\ pool < BufferCount
          /\ pool' = 0
          /\ spc' = [spc EXCEPT ![t] = "failed"]
          /\ failed' = TRUE
          /\ UNCHANGED <<held, faults>>
       \/ /\ Fault
          /\ \E n \in 0..BufferCount : n <= pool /\ pool' = pool - n
          /\ spc' = [spc EXCEPT ![t] = "failed"]
          /\ failed' = TRUE
          /\ UNCHANGED held
    /\ UNCHANGED <<proc, switch, callers, fmt, venc, hdmi, asleep>>

\* venc_start: the channel, its receiver, then the reader thread
VencStart(t) ==
    /\ spc[t] = "venc"
    /\ \/ /\ ~channel
          /\ channel' = TRUE
          /\ running' = TRUE
          /\ reader' = "run"
          /\ handle' = "valid"
          /\ spc' = [spc EXCEPT ![t] = "capture"]
          /\ UNCHANGED faults
       \/ /\ channel
          /\ spc' = [spc EXCEPT ![t] = "cleanup"]
          /\ UNCHANGED <<channel, running, reader, handle, faults>>
       \/ /\ Fault
          /\ channel' \in {channel, TRUE}
          /\ spc' = [spc EXCEPT ![t] = "cleanup"]
          /\ UNCHANGED <<running, reader, handle>>
       \/ /\ Fault
          /\ ~channel
          /\ channel' = TRUE
          /\ running' = TRUE
          /\ handle' = "garbage"
          /\ spc' = [spc EXCEPT ![t] = "cleanup"]
          /\ UNCHANGED reader
    /\ UNCHANGED <<proc, switch, callers, fmt, held, pool, failed, encoded, hdmi, asleep>>

\* the source sends frames in the format the device was set to
FramesArrive(t) == source # NoSource /\ ~asleep /\ source.size = fmt[t].size

\* a frame goes to the encoder; one that is refused twice is dropped
CaptureFrame(t) ==
    /\ spc[t] = "capture"
    /\ flag
    /\ FramesArrive(t)
    /\ encoded' = channel
    /\ UNCHANGED <<proc, switch, callers, stream, channel, running, reader, handle, hdmi, asleep, faults>>

\* the sleep mode file is written with 0; a chip that wakes changes its signal
ensure_sleep_mode_disabled == asleep' = FALSE /\ event' = (event \/ asleep)

\* mutant: the inner loop does not look at streaming_flag
CaptureUntilSilent(t) ==
    /\ spc[t] = "capture"
    /\ ~FramesArrive(t)
    /\ ensure_sleep_mode_disabled
    /\ spc' = [spc EXCEPT ![t] = "cleanup"]
    /\ UNCHANGED <<proc, switch, callers, fmt, held, pool, failed, venc, detected, signal, incoming, source, faults>>

\* the inner loop ends: told to stop, no frame for a second (and the chip is
\* woken), or an error of select or VIDIOC_DQBUF
CaptureEnds(t) ==
    /\ spc[t] = "capture"
    /\ \/ ~flag /\ UNCHANGED <<asleep, event, faults>>
       \/ flag /\ ~FramesArrive(t) /\ ensure_sleep_mode_disabled /\ UNCHANGED faults
       \/ flag /\ Fault /\ UNCHANGED <<asleep, event>>
    /\ spc' = [spc EXCEPT ![t] = "cleanup"]
    /\ UNCHANGED <<proc, switch, callers, fmt, held, pool, failed, venc, detected, signal, incoming, source>>

\* assert(blk != RK_NULL)
AssertFails(t) == spc[t] = "capture" /\ flag /\ Fault /\ Crash

\* venc_stop up to the join; StopRecvFrame fails without a channel
VencStop(t) ==
    /\ spc[t] = "cleanup"
    /\ running' = FALSE
    /\ \/ channel /\ spc' = [spc EXCEPT ![t] = "joinReader"] /\ UNCHANGED faults
       \/ ~channel /\ spc' = [spc EXCEPT ![t] = "release"] /\ UNCHANGED faults
       \/ channel /\ Fault /\ spc' = [spc EXCEPT ![t] = "release"]
    /\ UNCHANGED <<proc, switch, callers, fmt, held, pool, failed, channel, reader, handle, encoded, hdmi, asleep>>

\* mutant: the channel is not destroyed
VencKept(t) ==
    /\ spc[t] = "joinReader"
    /\ handle = "valid" => reader \in {"done", "broken"}
    /\ reader' = IF handle = "valid" THEN "none" ELSE reader
    /\ handle' = "null"
    /\ spc' = [spc EXCEPT ![t] = "release"]
    /\ UNCHANGED <<proc, switch, callers, fmt, held, pool, failed, channel, running, encoded, hdmi, asleep, faults>>

\* the join of the reader and DestroyChn
VencDestroy(t) ==
    /\ spc[t] = "joinReader"
    /\ \/ handle = "garbage" /\ Crash /\ UNCHANGED faults
       \/ /\ handle = "valid" => reader \in {"done", "broken"}
          /\ reader' = IF handle = "valid" THEN "none" ELSE reader
          /\ handle' = "null"
          /\ \/ channel' = FALSE /\ encoded' = FALSE /\ UNCHANGED faults
             \/ Fault /\ UNCHANGED <<channel, encoded>>
          /\ spc' = [spc EXCEPT ![t] = "release"]
          /\ UNCHANGED <<proc, switch, callers, fmt, held, pool, failed, running, hdmi, asleep>>

ReleaseBuffers(t) ==
    /\ spc[t] = "release"
    /\ pool' = pool + held[t]
    /\ held' = [held EXCEPT ![t] = 0]
    /\ fmt' = [fmt EXCEPT ![t] = NoSource]
    /\ spc' = [spc EXCEPT ![t] = "top"]
    /\ UNCHANGED <<proc, switch, callers, failed, venc, hdmi, asleep, faults>>

LeaveLoop(t) ==
    /\ spc[t] = "top"
    /\ ~flag
    /\ spc' = [spc EXCEPT ![t] = "exit"]
    /\ UNCHANGED <<proc, switch, callers, fmt, held, pool, failed, venc, hdmi, asleep, faults>>

ThreadEnds(t) ==
    /\ spc[t] = "exit"
    /\ stopped' = TRUE
    /\ spc' = [spc EXCEPT ![t] = "done"]
    /\ UNCHANGED <<proc, flag, thread, freed, callers, fmt, held, pool, failed, venc, hdmi, asleep, faults>>

StreamStep(t) ==
    \/ ThreadBegins(t) \/ OpenDevice(t) \/ TakeBuffers(t) \/ VencStart(t) \/ CaptureFrame(t)
    \/ CaptureEnds(t) \/ VencStop(t) \/ VencDestroy(t) \/ ReleaseBuffers(t) \/ LeaveLoop(t)
    \/ ThreadEnds(t)

(***************************************************************************)
(* venc_read_stream, and the source.                                       *)
(***************************************************************************)

\* GetStream gives a frame, nothing for 200 ms, or an error that ends the thread;
\* video_send_frame waits until Go takes the frame
ReadStream ==
    /\ \/ /\ reader = "run" /\ running /\ encoded
          /\ reader' = "sending"
          /\ encoded' = FALSE
          /\ UNCHANGED faults
       \/ reader = "sending" /\ reader' = "run" /\ UNCHANGED <<encoded, faults>>
       \/ reader = "run" /\ ~running /\ reader' = "done" /\ UNCHANGED <<encoded, faults>>
       \/ reader = "run" /\ running /\ Fault /\ reader' = "broken" /\ UNCHANGED encoded
    /\ UNCHANGED <<proc, switch, callers, stream, channel, running, handle, hdmi, asleep>>

\* the cable or the mode of the attached computer changes
SourceChanges ==
    /\ source' \in (Formats \cup {NoSource}) \ {source}
    /\ event' = TRUE
    /\ UNCHANGED <<proc, switch, callers, stream, venc, detected, signal, incoming, asleep, faults>>

\* what Go may ask for
GoCalls == VideoStart \/ VideoStop \/ VideoSetQualityFactor \/ VideoSleep

\* what the threads and the source do by themselves
Machine ==
    \/ GoStep \/ DetectStep
    \/ \E t \in Threads : StreamStep(t) \/ AssertFails(t)
    \/ ReadStream
    \/ SourceChanges

Next == proc = "run" /\ (GoCalls \/ Machine)

Spec == Init /\ [][Next]_vars

\* threads are scheduled, frames of a live source arrive and Go takes them;
\* nothing has to fail
Fairness ==
    /\ WF_vars(proc = "run" /\ GoStep /\ UNCHANGED faults)
    /\ WF_vars(proc = "run" /\ DetectStep /\ UNCHANGED faults)
    /\ \A t \in Threads : WF_vars(proc = "run" /\ StreamStep(t) /\ UNCHANGED faults)
    /\ WF_vars(proc = "run" /\ ReadStream /\ UNCHANGED faults)

FairSpec == Spec /\ Fairness

(***************************************************************************)
(* Properties.                                                             *)
(***************************************************************************)

Locations == {"idle", "query", "apply", "gone", "restart", "stop", "stopFlag", "join", "joining",
              "free", "clear", "restartWait", "sleepWait", "sleepWrite", "shutdown", "start",
              "startFlag", "create", "assign"}
Stages == {"none", "new", "top", "buffers", "venc", "capture", "cleanup", "joinReader", "release",
           "exit", "done", "failed"}

\* Type correctness: every variable of video.c stays in its range, the blocks of
\* memPool included.
TypeOK ==
    /\ proc \in {"run", "crashed", "exited"}
    /\ flag \in BOOLEAN /\ stopped \in BOOLEAN /\ freed \in BOOLEAN
    /\ thread \in Threads \cup {NoThread}
    /\ pc \in [Callers -> Locations]
    /\ cont \in [Callers -> {"return", "restart", "sleep", "shutdown"}]
    /\ target \in [Callers -> Threads \cup {NoThread}]
    /\ spc \in [Threads -> Stages]
    /\ fmt \in [Threads -> Formats \cup {NoSource}]
    /\ held \in [Threads -> 0..BufferCount]
    /\ pool \in 0..BufferCount
    /\ channel \in BOOLEAN /\ running \in BOOLEAN /\ encoded \in BOOLEAN
    /\ reader \in {"none", "run", "sending", "done", "broken"}
    /\ handle \in {"null", "valid", "garbage"}
    /\ detected \in Formats \cup {NoSource}
    /\ incoming \in Formats \cup {NoSource}
    /\ source \in Formats \cup {NoSource}
    /\ signal \in BOOLEAN /\ event \in BOOLEAN /\ asleep \in BOOLEAN
    /\ faults \in 0..MaxFaults
    /\ overlap \in BOOLEAN /\ failed \in BOOLEAN

Quiet == \A p \in Callers : ~Inside(p)

\* As long as the two callers of the unlocked functions of video.c have not met,
\* every stream thread that exists is the one streaming_thread refers to, or the
\* one video_start_streaming is about to store there: no thread is lost, and two
\* threads never share the capture device.
NoStrayThread ==
    ~overlap => \A t \in Threads : spc[t] # "none" =>
        thread = t \/ \E p \in Callers : pc[p] = "assign" /\ target[p] = t

\* The process ends on a bad handle or a failed assertion only when the callers
\* have met or a device has failed: nothing else in video.c joins or frees a
\* handle twice.
CrashIsExplained == proc = "crashed" => overlap \/ faults > 0

\* When nobody is in the streaming code and there is no stream thread, the status
\* video_get_streaming_status gives is 0 and every block is back in memPool,
\* unless a stream thread has ended on an error.
StoppedIsClean ==
    /\ ~overlap /\ ~failed /\ Quiet /\ thread = NoThread
    => video_get_streaming_status = 0 /\ pool = BufferCount

\* A stream that is capturing uses the resolution of the last detection, although
\* it reads it while run_detect_format may be writing it.
FormatIsCurrent ==
    ~overlap /\ ~Inside("detect") /\ pc["detect"] # "apply"
    => \A t \in Threads : spc[t] = "capture" => fmt[t].size = detected.size

\* The capture chip is put to sleep (setSleepMode in video.go) only when no
\* stream thread exists.
SleepIsSafe == ~overlap /\ asleep => \A t \in Threads : spc[t] = "none"

\* video.h on video_get_streaming_status: 1 if the video streaming is active. A
\* status of 1 means that a stream thread is there to send frames.
StatusIsTruthful ==
    proc = "run" /\ Quiet /\ video_get_streaming_status = 1
    => \E t \in Threads : spc[t] \notin {"none", "done", "failed"}

\* Start, stop and restart return, as long as the callers have not met: the wait
\* and the join in video_stop_streaming end.
CallsReturn ==
    \A p \in Callers : Inside(p) ~> (~Inside(p) \/ overlap \/ proc # "run")

\* Nothing that ends the flow of frames for good has happened.
Healthy ==
    proc = "run" /\ ~overlap /\ ~failed /\ reader # "broken" /\ pc["detect"] # "gone"

\* A stream that is wanted, of a source that stays, delivers frames again and
\* again, whatever errors of the encoder and of the device came before.
StreamDelivers ==
    \A f \in Formats : <>[](flag /\ source = f /\ Healthy) => []<>(reader = "sending")

\* The stream threads that may touch the device, and the promise of video.go and
\* video.c to everybody above them (CaptureService): one user at a time, asleep only
\* without one, as long as the two callers have not met.
InUse == {t \in Threads : spc[t] \notin {"none", "done", "failed"}}

User == IF overlap \/ InUse = {} THEN NoThread ELSE CHOOSE t \in InUse : TRUE

Capture == INSTANCE CaptureService WITH user <- User, asleep <- asleep /\ ~overlap, sound <- ~overlap

\* The video code implements the capture service: threads, joins, restarts and sleep
\* take many steps, of which the service shows four.
ImplementsCapture == Capture!Spec
=============================================================================

--------------------------- MODULE AudioPipeline ---------------------------
(***************************************************************************)
(* The sound of the device: the C functions of internal/audio/c/audio.c,   *)
(* the source and the relay that drive them (cgo_source.go, relay.go) and  *)
(* the control of audio.go.                                                *)
(*                                                                         *)
(* Control operations (a session connects or disconnects, output is        *)
(* enabled or disabled, USB is reconfigured) run in goroutines of their    *)
(* own: an atomic counter or flag first, then audioMutex.  Every start     *)
(* makes a new source and a new relay, but the C state behind the sources  *)
(* is one set of globals per direction, and each source has its own mutex. *)
(* The input direction has no caller in this fork; its client here is the  *)
(* loop of handleInputTrackForSession, which the code keeps.               *)
(*                                                                         *)
(* A device may fail at any call.  Sleeping takes no step.                 *)
(***************************************************************************)
EXTENDS Integers, FiniteSets

CONSTANTS
    Controllers,   \* goroutines that run control operations
    Relays,        \* bound: output relays that exist at the same time
    Mic,           \* the client of the input direction
    None,          \* nil
    FrameSize,     \* frame_size
    ShortReads,    \* frames a short read may return
    MaxOperations, \* bound: control operations
    MaxFaults      \* bound: calls of a device or a codec that fail

ASSUME UserAssumption  == Mic \notin Relays /\ None \notin Relays \cup {Mic} \cup Controllers
ASSUME FrameAssumption == FrameSize \in Nat /\ ShortReads \subseteq 0..(FrameSize - 1)
ASSUME BoundAssumption == MaxOperations \in Nat /\ MaxFaults \in Nat

VARIABLES
    conns,      \* activeConnections
    enabled,    \* audioOutputEnabled
    mutex,      \* audioMutex
    source,     \* outputSource with its outputRelay
    op,         \* where each controller is
    running,    \* running of each relay
    connected,  \* connected of each source
    at,         \* where each relay loop and the input handler are
    tries,      \* attempt of an open, recovery_attempts of a read or a write
    c,          \* the C globals of each direction
    opened,     \* PCM handles that are open in ALSA
    codecs,     \* Opus encoders and decoders that exist
    stale,      \* samples of an older frame in the frame handed to the encoder
    operations, \* control operations so far
    faults,     \* failures so far
    crossed     \* history: two control operations overlapped

control == <<conns, enabled, mutex, source, op, running, operations, crossed>>
cstate  == <<c, opened, codecs>>
vars    == <<control, connected, at, tries, cstate, stale, faults>>

Users      == Relays \cup {Mic}
Directions == {"output", "input"}
Dir(t)     == IF t = Mic THEN "input" ELSE "output"
Channels   == 2
Device     == "hw:1,0"

ASSUME HandleAssumption == None \notin {Device, "default"}

\* max_attempts_global and max_recovery_attempts
MaxAttempts == 5
MaxRecovery == 3

Closed == [initializing |-> FALSE, initialized |-> FALSE, handle |-> None, codec |-> FALSE]

Init ==
    /\ conns = 0 /\ enabled \in BOOLEAN
    /\ mutex = None /\ source = None
    /\ op = [p \in Controllers |-> "idle"]
    /\ running = [r \in Relays |-> FALSE]
    /\ connected = [t \in Users |-> FALSE]
    /\ \E heard \in {"none", "top"} :      \* whether the browser sends a microphone track
         at = [t \in Users |-> IF t = Mic THEN heard ELSE "none"]
    /\ tries = [t \in Users |-> 0]
    /\ c = [d \in Directions |-> Closed]
    /\ opened = [d \in Directions |-> 0]
    /\ codecs = [d \in Directions |-> 0]
    /\ stale = {}
    /\ operations = 0 /\ faults = 0 /\ crossed = FALSE

Fault == faults < MaxFaults /\ faults' = faults + 1
-----------------------------------------------------------------------------
\* Control, in Go.

Goto(p, where) == op' = [op EXCEPT ![p] = where]

Begin(p) ==
    /\ op[p] = "idle"
    /\ operations < MaxOperations /\ operations' = operations + 1
    /\ crossed' = (crossed \/ \E q \in Controllers : op[q] # "idle")

Quietly == UNCHANGED <<connected, at, tries, cstate, stale, faults>>

\* onWebRTCConnect and onWebRTCDisconnect: the counter
Connect(p) ==
    /\ Begin(p)
    /\ conns' = conns + 1
    /\ Goto(p, IF conns = 0 THEN "start" ELSE "idle")
    /\ UNCHANGED <<enabled, mutex, source, running>> /\ Quietly

Disconnect(p) ==
    /\ Begin(p)
    /\ conns > 0 /\ conns' = conns - 1
    /\ Goto(p, IF conns = 1 THEN "stop" ELSE "idle")
    /\ UNCHANGED <<enabled, mutex, source, running>> /\ Quietly

\* SetAudioOutputEnabled: Swap; the same value returns
SetAudioOutputEnabled(p, on) ==
    /\ Begin(p)
    /\ on # enabled /\ enabled' = on
    /\ Goto(p, IF on THEN "check" ELSE "stop")
    /\ UNCHANGED <<conns, mutex, source, running>> /\ Quietly

\* updateUsbRelatedConfig with USB audio on (stopInputLocked finds no source)
UsbReconfigured(p) ==
    /\ Begin(p)
    /\ Goto(p, "check")
    /\ UNCHANGED <<conns, enabled, mutex, source, running>> /\ Quietly

\* mutant: output is started for nobody
CheckNothing(p) ==
    /\ op[p] = "check"
    /\ Goto(p, "start")
    /\ UNCHANGED <<conns, enabled, mutex, source, running, operations, crossed>> /\ Quietly

\* activeConnections.Load() > 0
CheckConnections(p) ==
    /\ op[p] = "check"
    /\ Goto(p, IF conns > 0 THEN "start" ELSE "idle")
    /\ UNCHANGED <<conns, enabled, mutex, source, running, operations, crossed>> /\ Quietly

\* NewCgoOutputSource, NewOutputRelay, Start
NewRelay ==
    LET free == {r \in Relays : at[r] = "none"}
        new  == CHOOSE r \in free : TRUE
    IN  /\ free # {}
        /\ source' = new
        /\ running' = [running EXCEPT ![new] = TRUE]
        /\ at' = [at EXCEPT ![new] = "top"]

\* mutant: startAudio does not look for a source that is already there
StartAudioAgain(p) ==
    /\ op[p] = "start" /\ mutex = None
    /\ Goto(p, "idle")
    /\ NewRelay
    /\ UNCHANGED <<conns, enabled, mutex, operations, crossed, connected, tries,
                   cstate, stale, faults>>

\* startAudio under audioMutex; nothing in it blocks
StartAudio(p) ==
    /\ op[p] = "start" /\ mutex = None
    /\ Goto(p, "idle")
    /\ IF source = None /\ enabled
       THEN NewRelay
       ELSE UNCHANGED <<source, running, at>>
    /\ UNCHANGED <<conns, enabled, mutex, operations, crossed, connected, tries,
                   cstate, stale, faults>>

\* stopOutputLocked: OutputRelay.Stop clears running ...
StopRelay(p) ==
    /\ op[p] = "stop" /\ mutex = None
    /\ IF source = None
       THEN Goto(p, "idle") /\ UNCHANGED <<mutex, running>>
       ELSE /\ Goto(p, "wait")
            /\ mutex' = p
            /\ running' = [running EXCEPT ![source] = FALSE]
    /\ UNCHANGED <<conns, enabled, source, operations, crossed>> /\ Quietly

\* ... and waits for the end of the loop; ...
StopWaits(p) ==
    /\ op[p] = "wait"
    /\ at[source] = "exited"
    /\ Goto(p, "disconnect")
    /\ UNCHANGED <<conns, enabled, mutex, source, running, operations, crossed>> /\ Quietly

Inside == {"init", "open", "fallback", "configure", "codec", "io", "close"}

\* capture_close and playback_close: wait for an initialization, swap initialized
CloseEntered(d) == ~ c[d].initializing

CloseWanted(d) == c[d].initialized

\* mutant: the handle is dropped and not closed
HandleForgotten(d) == UNCHANGED opened

\* destroy the codec, drain and close the handle
CodecDestroyed(d) == codecs' = [codecs EXCEPT ![d] = IF c[d].codec THEN @ - 1 ELSE @]
HandleClosed(d) == opened' = [opened EXCEPT ![d] = IF c[d].handle # None THEN @ - 1 ELSE @]

Destroy(d) ==
    /\ CodecDestroyed(d) /\ HandleClosed(d)
    /\ c' = [c EXCEPT ![d] = [@ EXCEPT !.handle = None, !.codec = FALSE]]

\* ... Disconnect takes the mutex of the source, so no call of it is running; ...
StopDisconnects(p) ==
    /\ op[p] = "disconnect"
    /\ at[source] \notin Inside
    /\ IF connected[source]
       THEN /\ CloseEntered("output")
            /\ c' = [c EXCEPT !["output"].initialized = FALSE]
            /\ Goto(p, IF CloseWanted("output") THEN "close" ELSE "release")
       ELSE Goto(p, "release") /\ UNCHANGED c
    /\ UNCHANGED <<conns, enabled, mutex, source, running, operations, crossed,
                   connected, at, tries, opened, codecs, stale, faults>>

StopCloses(p) ==
    /\ op[p] = "close"
    /\ Destroy("output")
    /\ Goto(p, "release")
    /\ UNCHANGED <<conns, enabled, mutex, source, running, operations, crossed,
                   connected, at, tries, stale, faults>>

\* ... the source and the relay are dropped and audioMutex is released
StopReturns(p) ==
    /\ op[p] = "release"
    /\ connected' = [connected EXCEPT ![source] = FALSE]
    /\ at' = [at EXCEPT ![source] = IF @ = "exited" THEN "none" ELSE @]
    /\ source' = None /\ mutex' = None
    /\ Goto(p, "idle")
    /\ UNCHANGED <<conns, enabled, running, operations, crossed, tries, cstate, stale, faults>>
-----------------------------------------------------------------------------
\* The loop of a relay (relayLoop) and of the input handler.

Move(t, where) == at' = [at EXCEPT ![t] = where]

\* mutant: the loop does not look at running
TopForever(t) ==
    /\ t # Mic
    /\ at[t] = "top"
    /\ Move(t, IF connected[t] THEN "read" ELSE "init")
    /\ UNCHANGED <<control, connected, tries, cstate, stale, faults>>

Top(t) ==
    /\ t # Mic
    /\ at[t] = "top"
    /\ Move(t, IF ~ running[t] THEN "exited"
               ELSE IF connected[t] THEN "read" ELSE "init")
    /\ UNCHANGED <<control, connected, tries, cstate, stale, faults>>

\* A packet of the browser's microphone is written to the source, which is connected
\* first.  Packets that are dropped (disabled, no source) or never come change nothing.
handleInputTrackForSession(t) ==
    /\ t = Mic
    /\ at[t] = "top"
    /\ Move(t, IF connected[t] THEN "read" ELSE "init")
    /\ UNCHANGED <<control, connected, tries, cstate, stale, faults>>

\* capture_init and playback_init: swap initializing; an initialized direction is done;
\* what an earlier failure left is destroyed
InitEnters(t) ==
    LET d == Dir(t) IN
    /\ at[t] = "init"
    /\ IF c[d].initializing
       THEN Move(t, "top") /\ UNCHANGED <<connected, cstate, tries>>
       ELSE IF c[d].initialized
       THEN /\ connected' = [connected EXCEPT ![t] = TRUE]
            /\ Move(t, "read") /\ UNCHANGED <<cstate, tries>>
       ELSE /\ CodecDestroyed(d) /\ HandleClosed(d)
            /\ c' = [c EXCEPT ![d] = [Closed EXCEPT !.initializing = TRUE]]
            /\ tries' = [tries EXCEPT ![t] = 0]
            /\ Move(t, "open") /\ UNCHANGED connected
    /\ UNCHANGED <<control, stale, faults>>

\* init returns an error: the relay tries again a second later, the handler with
\* the next packet
InitFails(t) == /\ Move(t, "top")
                /\ tries' = [tries EXCEPT ![t] = 0]
                /\ UNCHANGED connected

\* mutant: an error of init leaves initializing set
KeepInitializing(d) == c' = [c EXCEPT ![d].handle = None]

ClearInitializing(d) == c' = [c EXCEPT ![d].handle = None, ![d].initializing = FALSE]

\* safe_alsa_open: up to MaxAttempts calls of snd_pcm_open
Opens(t, device) ==
    LET d == Dir(t) IN
    /\ c' = [c EXCEPT ![d].handle = device]
    /\ opened' = [opened EXCEPT ![d] = @ + 1]
    /\ Move(t, "configure")
    /\ tries' = [tries EXCEPT ![t] = 0]
    /\ UNCHANGED <<codecs, connected, faults>>

\* mutant: one attempt more than allowed
OpenRefusedOnceMore(t, last) ==
    /\ Fault
    /\ IF tries[t] < MaxAttempts
       THEN tries' = [tries EXCEPT ![t] = @ + 1] /\ UNCHANGED <<at, c, connected>>
       ELSE last
    /\ UNCHANGED <<opened, codecs>>

OpenRefused(t, last) ==
    /\ Fault
    /\ IF tries[t] + 1 < MaxAttempts
       THEN tries' = [tries EXCEPT ![t] = @ + 1] /\ UNCHANGED <<at, c, connected>>
       ELSE last
    /\ UNCHANGED <<opened, codecs>>

Open(t) ==
    /\ at[t] = "open"
    /\ \/ Opens(t, Device)
       \/ OpenRefused(t, IF t = Mic
                         THEN /\ Move(t, "fallback")
                              /\ tries' = [tries EXCEPT ![t] = 0]
                              /\ UNCHANGED <<c, connected>>
                         ELSE ClearInitializing(Dir(t)) /\ InitFails(t))
    /\ UNCHANGED <<control, stale>>

\* playback_init tries the default device as well
OpenDefault(t) ==
    /\ at[t] = "fallback"
    /\ \/ Opens(t, "default")
       \/ OpenRefused(t, ClearInitializing(Dir(t)) /\ InitFails(t))
    /\ UNCHANGED <<control, stale>>

\* configure_alsa_device
Configure(t) ==
    LET d == Dir(t) IN
    /\ at[t] = "configure"
    /\ \/ Move(t, "codec") /\ UNCHANGED <<cstate, connected, faults, tries>>
       \/ Fault /\ HandleClosed(d) /\ ClearInitializing(d) /\ InitFails(t) /\ UNCHANGED codecs
    /\ UNCHANGED <<control, stale>>

\* opus_encoder_create with its settings, opus_decoder_create
CreateCodec(t) ==
    LET d == Dir(t) IN
    /\ at[t] = "codec"
    /\ \/ /\ c' = [c EXCEPT ![d].codec = TRUE, ![d].initialized = TRUE, ![d].initializing = FALSE]
          /\ codecs' = [codecs EXCEPT ![d] = @ + 1]
          /\ connected' = [connected EXCEPT ![t] = TRUE]
          /\ Move(t, "read")
          /\ UNCHANGED <<opened, faults, tries>>
       \/ Fault /\ HandleClosed(d) /\ ClearInitializing(d) /\ InitFails(t) /\ UNCHANGED codecs
    /\ UNCHANGED <<control, stale>>
-----------------------------------------------------------------------------
\* ReadMessage with read_encode, WriteMessage with decode_write.

\* decode_write decodes first: the packet is too large, or neither it nor the
\* concealment can be decoded
Undecodable(t) == t = Mic /\ Fault /\ Move(t, "failed")

\* the checks at the entry
CallEnters(t) ==
    LET d == Dir(t) IN
    /\ at[t] = "read"
    /\ tries' = [tries EXCEPT ![t] = 0]
    /\ IF ~ connected[t] \/ ~ c[d].initialized \/ c[d].handle = None \/ ~ c[d].codec
       THEN Move(t, "failed") /\ UNCHANGED faults
       ELSE \/ Move(t, "io") /\ UNCHANGED faults
            \/ Undecodable(t)
    /\ UNCHANGED <<control, connected, cstate, stale>>

\* mutant: only whole blocks are cleared
clear_blocks_only(start, samples) ==
    LET simd == samples - (samples % 16)
    IN  {start + i : i \in 0..(simd - 1)}

\* the samples that simd_clear_samples_s16 clears: blocks of 16, then 8, then one by one
simd_clear_samples_s16(start, samples) ==
    LET simd == samples - (samples % 16)
        half == IF simd + 8 <= samples THEN simd + 8 ELSE simd
    IN  {start + i : i \in 0..(simd - 1) \cup simd..(half - 1) \cup half..(samples - 1)}

PaddedWith(n) == simd_clear_samples_s16(n * Channels, (FrameSize - n) * Channels)

\* the device takes or gives the frame; a short read is padded with silence, and
\* opus_encode may fail
Transfer(t) ==
    /\ at[t] = "io"
    /\ IF t = Mic
       THEN Move(t, "top") /\ UNCHANGED <<stale, faults>>
       ELSE /\ \/ Move(t, "deliver") /\ UNCHANGED faults
               \/ Move(t, "failed") /\ Fault
            /\ \E n \in ShortReads \cup {FrameSize} :
                 stale' = (n * Channels)..(FrameSize * Channels - 1) \ PaddedWith(n)
    /\ UNCHANGED <<control, connected, tries, cstate>>

\* one more recovery; beyond limit the call fails
Recover(t, limit) ==
    /\ tries[t] < limit
    /\ tries' = [tries EXCEPT ![t] = @ + 1]
    /\ UNCHANGED at

GiveUp(t) == Move(t, "failed") /\ UNCHANGED tries

\* -EPIPE and -EIO: prepare the device and try again
Broken(t) ==
    \/ Recover(t, MaxRecovery)
    \/ GiveUp(t)                        \* the fourth time, or prepare fails

\* -ESTRPIPE: resume the device and drop the frame
Suspended(t) ==
    \/ /\ tries[t] < MaxRecovery
       /\ Move(t, "top") /\ UNCHANGED tries
    \/ GiveUp(t)                        \* the fourth time, or resume and prepare fail

\* -EAGAIN: a read waits as often as it takes, a write three times
NotReady(t) ==
    IF t = Mic
    THEN Recover(t, MaxRecovery) \/ (tries[t] = MaxRecovery /\ GiveUp(t))
    ELSE UNCHANGED <<at, tries>>

\* -EINTR and -EBUSY: once; -ENODEV and anything else: never
Transient(t) == Recover(t, 1) \/ GiveUp(t)

TransferFails(t) ==
    /\ at[t] = "io"
    /\ Fault
    /\ Broken(t) \/ Suspended(t) \/ NotReady(t) \/ Transient(t)
    /\ UNCHANGED <<control, connected, cstate, stale>>

\* the fan-out of the packet
Deliver(t) ==
    /\ at[t] = "deliver"
    /\ Move(t, "top")
    /\ UNCHANGED <<control, connected, tries, cstate, stale, faults>>

\* an error: the source is disconnected, unless the relay has been stopped
CallFails(t) ==
    /\ at[t] = "failed"
    /\ Move(t, IF t # Mic /\ ~ running[t] THEN "top" ELSE "disconnect")
    /\ UNCHANGED <<control, connected, tries, cstate, stale, faults>>

LoopDisconnects(t) ==
    LET d == Dir(t) IN
    /\ at[t] = "disconnect"
    /\ IF connected[t]
       THEN /\ CloseEntered(d)
            /\ c' = [c EXCEPT ![d].initialized = FALSE]
            /\ connected' = [connected EXCEPT ![t] = CloseWanted(d)]
            /\ Move(t, IF CloseWanted(d) THEN "close" ELSE "top")
       ELSE Move(t, "top") /\ UNCHANGED <<c, connected>>
    /\ UNCHANGED <<control, tries, opened, codecs, stale, faults>>

LoopCloses(t) ==
    LET d == Dir(t) IN
    /\ at[t] = "close"
    /\ Destroy(d)
    /\ connected' = [connected EXCEPT ![t] = FALSE]
    /\ Move(t, "top")
    /\ UNCHANGED <<control, tries, stale, faults>>
-----------------------------------------------------------------------------
Operation(p) == \/ Connect(p) \/ Disconnect(p) \/ UsbReconfigured(p)
                \/ \E on \in BOOLEAN : SetAudioOutputEnabled(p, on)

ControlStep(p) == \/ CheckConnections(p) \/ StartAudio(p) \/ StopRelay(p) \/ StopWaits(p)
                  \/ StopDisconnects(p) \/ StopCloses(p) \/ StopReturns(p)

LoopStep(t) == \/ Top(t) \/ handleInputTrackForSession(t)
               \/ InitEnters(t) \/ Open(t) \/ OpenDefault(t) \/ Configure(t) \/ CreateCodec(t)
               \/ CallEnters(t) \/ Transfer(t) \/ TransferFails(t) \/ Deliver(t)
               \/ CallFails(t) \/ LoopDisconnects(t) \/ LoopCloses(t)

Next == \/ \E p \in Controllers : Operation(p) \/ ControlStep(p)
        \/ \E t \in Users : LoopStep(t)

Spec == Init /\ [][Next]_vars

\* Goroutines keep running, sync.Mutex hands over to every waiter in turn, and
\* ALSA calls return (a blocking read ends with the data or with the driver's error).
\* Nothing is assumed of the input handler, whose packets may stop coming.
FairSpec ==
    /\ Spec
    /\ \A p \in Controllers : SF_vars(ControlStep(p))
    /\ \A t \in Relays : WF_vars(LoopStep(t))
-----------------------------------------------------------------------------
\* Type correctness: counters, handles and the state of every loop stay in range.
TypeOK ==
    /\ conns \in 0..MaxOperations /\ enabled \in BOOLEAN
    /\ mutex \in Controllers \cup {None} /\ source \in Relays \cup {None}
    /\ op \in [Controllers -> {"idle", "check", "start", "stop", "wait", "disconnect",
                               "close", "release"}]
    /\ running \in [Relays -> BOOLEAN] /\ connected \in [Users -> BOOLEAN]
    /\ at \in [Users -> {"none", "top", "init", "open", "fallback", "configure", "codec",
                         "read", "io", "deliver", "failed", "disconnect", "close", "exited"}]
    /\ tries \in [Users -> 0..(MaxAttempts - 1)]
    /\ c \in [Directions -> [initializing : BOOLEAN, initialized : BOOLEAN,
                             handle : {None, Device, "default"}, codec : BOOLEAN]]
    /\ opened \in [Directions -> Nat] /\ codecs \in [Directions -> Nat]
    /\ operations \in 0..MaxOperations /\ faults \in 0..MaxFaults /\ crossed \in BOOLEAN

\* The C functions of a direction serve one caller at a time although every source
\* locks a mutex of its own: a relay is gone before the next source exists.
Calling(d) == {t \in Users : Dir(t) = d /\ at[t] \in Inside}
              \cup {p \in Controllers : d = "output" /\ op[p] = "close"}

OneCaller == \A d \in Directions : Cardinality(Calling(d)) <= 1

\* Every handle and codec that exists is the one the globals point to, and a
\* transfer under way has both: nothing is leaked, closed twice or used after it
\* is closed, whichever call fails.  When the output has been stopped the capture
\* device is released: no source means no relay loop and no handle.
HandlesBalance ==
    /\ \A d \in Directions : /\ opened[d] = IF c[d].handle = None THEN 0 ELSE 1
                             /\ codecs[d] = IF c[d].codec THEN 1 ELSE 0
    /\ \A t \in Users : at[t] = "io" => /\ c[Dir(t)].initialized /\ c[Dir(t)].codec
                                        /\ c[Dir(t)].handle # None
    /\ source = None => (\A r \in Relays : at[r] = "none") /\ c["output"] = Closed

\* Once all operations have ended, output runs exactly if it is enabled and somebody
\* is connected, unless operations overlapped (see crossed: a stop that overtakes
\* the start of an earlier connect, or follows the start of a later enable).
Wanted == enabled /\ conns > 0

OutputAsWanted ==
    (\A p \in Controllers : op[p] = "idle") /\ ~ crossed => (source # None) = Wanted

\* A short read never lets samples of the frame before through.
PaddedWithSilence == stale = {}

\* Every operation returns: a stop waits for its relay, which may be opening a
\* device, recovering a read or closing after an error, and always comes to an end.
OperationsReturn == \A p \in Controllers : op[p] # "idle" ~> op[p] = "idle"

\* Whatever fails, a relay that is not stopped opens the device again and delivers.
OutputRecovers ==
    \A r \in Relays : running[r] ~> (at[r] = "deliver" \/ ~ running[r])
=============================================================================

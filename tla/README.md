# Verification of the JetKVM device application

This directory holds TLA+ models of the program that runs on the KVM device: the
Go application (the root package and `internal/`) and the C code below it (video,
audio, the device's own screen). TLC configurations check them on small instances,
TLAPS proofs cover every value of the constants. The program turns messages of
browser sessions into USB reports for the attached host, and fans one captured
video and audio stream out to all sessions. Its difficulty is concurrency: one
goroutine per HID queue per session, ICE callbacks, timers, a macro runner, C
threads that capture, encode and detect, and pollers of the hardware, with state
shared under several small locks or none.

## 1. Inventory

| Part | State it keeps | Operations | What makes it hard | What correct means |
|---|---|---|---|---|
| USB keyboard (`internal/usbgadget/hid_keyboard.go`) | `keysDownState`, `kbdAutoReleaseTimers`, the HID file | keypress, whole report, keep-alive, timer callback, cancel all | two locks taken one after the other; callbacks find their timer by key; a lost write reports success | buffer without gaps or duplicates; host and buffer agree; a key of a vanished client comes up |
| HID requests (`hidrpc.go`, `usb.go`, `internal/hidrpc`) | per-session queues | decode, route, guard by USB state | queues of different kinds are independent; the USB state is polled | messages of one kind are applied in order |
| Macros (`jsonrpc.go`) | one cancel function | execute, cancel | a second writer of the keyboard; cancel and start overlap | a macro never leaves keys down, cancel stops the running one |
| WebRTC sessions (`webrtc.go`) | handler locals, HID queues, the session counter | accept an offer, connected, closed, receive and handle a message | handlers of different sessions overlap between any two calls | first and last session are recognised; no input survives the last session |
| Registry (`webrtc_registry.go`) | `byID`, `primary` | Add, Remove, Count, fan-out | acceptance may fail after Add | `primary` is registered |
| Gamepad slots (`gamepad_slots.go`) | `occupied` | claim, release | reports of a closing session are still queued | one slot per session |
| Video control (`video.go`, `internal/native/video.go`) | stream state, sleep ticker, `videoLock`, `extraLock` | start, stop, sleep, EDID, quality, codec, status | decided by a counter, acted on later; the C code has a caller without the lock | stream off when idle, chip asleep only without a stream |
| Video C code (`internal/native/cgo/video.c`, `ctrl.c`, `edid.c`) | thread handle, flags, buffer pool, encoder channel, detected timings | start, stop, restart, detect, capture, encode, read | two callers, one of them unlocked; joins with time limits; errors that leave by different ways | one stream thread, every block returned, frames again after errors |
| Stream program (`internal/native/cgo/main.c`) | one client, the sets of `select` | accept, read, stop | the client changes within a round | never blocked in `read`; ends clean |
| Audio (`audio.go`, `internal/audio`, `internal/audio/c/audio.c`) | connection count, source and relay; C globals per direction | connect, enable, reconfigure; open, read, write, recover, close | each source has a mutex of its own, the C state is shared; every ALSA call may fail | one caller, no handle lost, sound again after failures |
| Device screens (`internal/native/eez/src/ui`, `cgo/screen.c`, `display.go`, `hw.go`) | widgets, current screen, locks of held buttons, panel; update requests | touch, tick, update, rotate, reboot | updates overlap, the child restarts, a finger holds while screens change | the right screen in the end, a way out of each page |
| Software update (`internal/ota`, `ota.go`) | per-component status, files on disk | check, download, verify, install, reboot | partial failure, crash between steps, concurrent requests | an image is installed only after its hash and its signature are verified |
| Native process (`internal/native`, `failsafe.go`, `cmd/main.go`) | child process, gRPC client, restart count | start, monitor, restart | crash at any time, handshake timeout | calls reach the current child; repeated crashes end in failsafe |
| Cloud (`cloud.go`) | websocket, connection state | connect, ping, adopt, disconnect | reconnect while a config change disconnects | at most one connection |
| Rate limiter, sharing password (`ratelimit.go`, `sharing_auth.go`) | attempts per address, token | check, record, reset | check and record around a slow hash | lock-out after the limit |
| USB gadget config (`internal/usbgadget/config*.go`, `changeset*.go`) | configfs | transaction, rebind | order of file changes | dependencies before dependants |
| Networking, time, MQTT, media, serial, TLS, logging, web interface | | | I/O, formatting, the kernel | not modelled |

Interactions. `webrtc.go` receives a message in a data channel callback and
queues it; a goroutine of the session takes it out and calls `hidrpc.go`, which
calls `usb.go` and the gadget. The ICE handler of a session calls the registry,
the gamepad slots, the gadget (clear), the video, the audio and the ticker, in
that order. Video calls cross a gRPC connection to the native child, where Go calls
`video.c` under `videoLock` while the detection thread of `video.c` restarts the
same stream without it; the display is drawn by the same child. The auto-release timers and the macro runner call the gadget from
goroutines of their own. `PROJECT.json` lists every part, and the hazards with
their lines.

## 2. Plan

| Module | Part | Composes | State of the work |
|---|---|---|---|
| `HidKeyboard` | keyboard and all its writers | | checked, proved |
| `SessionLifecycle` | sessions, registry, slots, media switches | | checked, proved |
| `OtaUpdate` | software update | | checked, proved |
| `NativeProxy` | child process, restarts, supervisor, failsafe | | checked, proved |
| `VideoPipeline` | the stream in `video.c` and its callers | refines `CaptureService` | checked, proved |
| `StreamDaemon` | `main.c` | extends `VideoPipeline` | checked, proved |
| `VideoSettings` | EDID, encoder attributes, settings, status log | | checked, proved |
| `AudioPipeline` | audio control, relays, C code | | checked, proved |
| `DeviceUi` | the screen and the goroutines behind it | extends `ScreenTree` | checked, proved |

Each has an `MC...` module and one or two configurations, and a `...Proofs` module
(`VideoPipeline` and `StreamDaemon` share one). Every safety property that a run checks
is also a theorem; the liveness properties are only checked. Next: an abstract
specification of the audio output and of the session counter, and their refinement.

## 3. HidKeyboard

State. `keysDown` is `keysDownState` (modifiers as a set, the buffer as a
function on slots), `report` what the host last received, `timers` the map of
auto-release timers (absent, armed, expired but still in the map), `waiting`,
`taken` and `releasing` count the goroutines of `performAutoRelease` at its three
stages, `pc` holds for each worker the timer operation that `KeypressReport`
still owes after it has given up `keyboardMutex`. `typed` is history: the keys in
the buffer that a keypress put there.

Steps. One step per critical section. `Keypress` is `keypressReport` under
`keyboardMutex`, `SetTimer` the `scheduleAutoRelease` or `cancelAutoRelease` that
follows under `kbdAutoReleaseLock`. `AutoReleaseTake`, `AutoReleaseCheck` and
`AutoReleaseReport` are the three parts of `performAutoRelease`.
`CloseCancelTimers` and `CloseClear` are the disconnect of the last session,
`MacroReport` and `MacroNotify` a macro. `WriteReport` loses the write
nondeterministically (if `CanLose`): the code updates `keysDownState` whether or not the write
arrived, and `writeWithTimeout` reports a timed-out write as a success.

Abstractions. Time: an armed timer may fire at any moment, so keep-alive
durations do not matter. Key codes are small numbers, modifiers a set. LED
output reports are not modelled.

Properties.

* `BufferWellFormed`: distinct keys, then zeros. `keypressReport` stops at the
  first empty slot, so a gap would hide a key from its release.
* `HostInSync`: while the last write is known to have arrived, host and buffer
  agree. It holds without macros, for any number of sessions, and fails with a
  macro (`kbd_macro_unlocked`): `rpcDoExecuteKeyboardMacro` updates the state
  outside `keyboardMutex`.
* `NoOrphanKey`: every typed key has a timer, an unfinished callback, a worker
  about to arm the timer, or a clear under way. It holds for one session on a
  link that stays up, and not for two (section 12).
* `SilentReleases`: when clients fall silent, every typed key comes up.

`NoOrphanKey` needs the link to stay up because `rpcHidReport` skips the
disconnect clear while USB is not ready, after the timers have been cancelled:
the keys stay in `keysDownState` and return with the first report after the cable
is back.

## 4. SessionLifecycle

State. `phase` is how far acceptance has come, `pc` the next call of the ICE
handler of each session, `isConnected` the handler's local, `actionSessions` the
counter, `byID` and `primary` the registry, `occupied` the slots, `queued`,
`receiving` and `queueOpen` the HID queues with the receive callbacks blocked on
them, `held` the sessions whose modifier the host sees down, `streaming`,
`audio`, `ticker` and `sleeper` the media. `late` is history.

Steps. One step per call of the handlers, in the order of the code: on connect
increment, start video, count and start audio, stop the ticker; on close remove
from the registry, release the slot, count, clear the keys if none is left, drop
`currentSession`, close the queues, decrement, and for the last one clear again,
stop video and audio, start the ticker. Messages take three steps: read the
queue, send, handle (`Handle`, of whose message types only keys and gamepad reports
change this state). A closed Go channel still delivers what it holds, so
`HandleKey` and `HandlePad` stay enabled after `CloseQueues`.

Properties. `BooksAgree` (the counter of active sessions is exact and the registry's
primary session is one that is registered), `IdleIsOff` (after the last
session has gone, encoder and audio are off), `OnlyLateKeysHeld` (the clears
cover all messages handled before the close). `OneSlotEach` (no session has two gamepad
slots) needs a session that claims twice, whatever the number of slots and messages: it
is proved (section 13) and not left to an instance. `StreamWhileActive` and `NoPanic` do
not hold (section 12).

Behaviours of the code the model shows and that no property forbids:

* messages left in a closed queue are handled after the clears and the slot
  release, so a modifier can stay down and a slot can be claimed for a session
  that has gone (hence `OnlyLateKeysHeld` and not "no key held");
* an offer that fails after `sessions.Add` leaves its session registered
  (`OfferFails`), `Count()` then never returns to 0 and the first clear is skipped;
* when the most recent session leaves, `currentSession` becomes nil although an
  older one is connected;
* the sleep ticker checks the count and then sleeps, so it can stop the stream of
  a session that connects in between, and after a check that found a session its
  one-shot timer never fires again.

## 5. OtaUpdate

State. In memory: `pc`, `comp`, `request` and `signature` are the locals of
`doUpdate`, `pc = "idle"` meaning that `s.mu` is free; `updating`, `status`
(`pending`, `customVersionUpdate`), `release` (what the last check found) and
`rebootNeeded` are fields of `State`; `rebooting` says that `hwReboot` has been
started. On disk: `unverified` and `staged` are the files before and after the
rename, `slot` the inactive system partition, `autoUpdate` the configuration.
`local` is what the device runs. `healthy` is the environment: while it is
`FALSE` anything may fail and users interfere. `named` is history: the components
that users have asked for by version since the process started.

Steps. One step per call of `doUpdate` after which failure leaves something
different behind: check, signature, download (which first deletes the old
files), transfer, verify with the rename, `rk_ota`, finish. `StepFails` is the
error return of any of them, `Crash` the end of the process, `Boot` a restart of
the device. The boot script that moves the app image, and the boot loader, are
external.

Abstractions. Versions are numbers in semver order. An image is its version,
whether its hash is the announced one, and whether its signature was checked.
Key servers and OpenPGP are the choice between a valid and an invalid signature.
`rk_ota` is atomic: a power cut during it leaves the old partition active.
`SaveConfig` succeeds (the code only logs its failure). Progress and error
strings are left out.

Properties.

* `StagedVerified`: an image is put in place (renamed, or written to the partition) only
  with the announced hash and with a verified signature, unless it is a pre-release and
  the running request takes pre-releases, or a user has asked for a version of this
  component since the process started. Any failure, crash or retry may come between
  download, verification and rename; the waiver never outlives the process.
* `WaivedAsAsked` is what the comment on `shouldBypassSignatureCheck` promises: only the
  version the running request names goes unchecked. It does not hold (run `ota_waiver`).
* `NeverStuck`: `updating`, which refuses all later updates, is never left set.
* `RebootIsComplete`: from the decision to reboot until the boot, each pending
  component is in place in the announced version. The mutex is free in that window;
  only `updating` keeps a second request from deleting the image.
* `EventuallyCurrent`: once nothing fails, auto-update reaches the newest version.

Behaviours the model shows: `pending` and `customVersionUpdate` outlive a failed
update (`getUpdateStatus` starts from the stored status). Because of the first, a
request that names one component can install the other (section 12). Because
of the second, a later automatic update of that component skips the signature
until the process restarts, which is why `named` is cleared by nothing else. A custom
version together with `resetConfig` ends with auto-update on, since the default
configuration replaces the one in which it was disabled.

## 6. NativeProxy

State. `app` is the application process (off, failsafe, normal), `dump` the log of
one that crashed, first with the supervisor, then behind `last-crash.log`. `pc` is the
goroutine of `Start` and `monitorProcess`, `restarts`, `cmd`, `client` and `handshake`
are fields of `NativeProxy`, children being numbered. `child` is what the processes
do, `waited` whether `cmd.Wait` still has something to wait for, `call` the client a
caller uses under `clientMu.RLock`. `late` is history: a live child has missed the
ten seconds of its handshake.

Steps. One step per point where another goroutine or process can come between: spawn,
handshake or timeout, readiness, failure, the return of `Wait`, the count of restarts
(or the fatal exit), the close of the client. `ChildReady` and `ChildDies` are the
child, `Forward` (`BeginCall`, `EndCall`) all methods that the proxy forwards, `StartApp` and
`SaveDump` the start-up check of `failsafe.go` and the supervisor.

Abstractions. Deadlines may pass at any time. The end of the application takes the
child with it (`Pdeathsig`). A saved dump is always a readable link; a dump that cannot
be saved counts as a power cut. `Stop`, which the application never calls, the frames
and the event stream are left out.

Properties.

* `OneChild`: never two native processes. A timed-out start leaves its child running,
  and only the `Wait` before the next attempt keeps them apart.
* `CallsAreCurrent`: no client is closed or replaced under a call.
* `Recovers`: over and over, a child is served or the device is in failsafe mode, as
  long as no handshake is late.
* `CrashRestarts` fails (`native_late`): a handshake after the timeout blocks the copier
  of stdout on an unbuffered channel, and `cmd.Wait` waits for the copier.

Behaviours the model shows: `restarts` is never reset, so the limit counts crashes over
the life of the application and not in a row; a child that comes up late serves nobody,
since no client is ever made for it. Nothing starts the video stream again in a new
child.

## 7. VideoPipeline, StreamDaemon and CaptureService

State. `flag`, `stopped`, `thread` and `freed` are `streaming_flag`,
`streaming_stopped`, `streaming_thread` and whether the memory behind the last has been
freed. There are two callers: Go, one call at a time under `videoLock`, and the detection
thread, under no lock; `pc`, `cont` and `target` say where each is in start, stop and
restart, what it does after a stop, and which thread it made or joins. `spc`, `fmt` and
`held` belong to the stream threads, `pool` is `memPool`, `channel`, `running`, `reader`,
`handle` and `encoded` the encoder and its reader thread. `detected`, `signal` and
`incoming` are what detection knows and is storing, `source` and `event` the cable,
`asleep` the sleep file. `overlap` and `failed` are history.

Steps. One step per access to what the callers share (look at the handle, write the
flag, join, free, clear, look at `stopped`, create, store the handle), one per stage of
`run_video_stream` after which a failure leaves something different behind, one per
event of reader, detection and source. `Fault` lets a call of the kernel, the encoder or
libc fail, up to `MaxFaults` times. Undefined behaviour is a choice: a join or a free of
a bad handle crashes the process or does nothing; a read that races with the detection
thread gets the old or the new value, member by member.

`StreamDaemon` adds `main.c`: with `main = "off"` the module is the native process,
otherwise the stand-alone program makes the calls, keeps one client on a socket, and
stops and shuts down after an error of the socket.

`CaptureService` is the promise to the layers above: the chip has one user at a time and
sleeps only without one, until the two callers meet. `ImplementsCapture` maps the stream
thread that may touch the device to the user.

Properties. The run checks `NoStrayThread`, `FormatIsCurrent`, the two about liveness and
`ImplementsCapture`; the others are proved for every instance (section 13).

* `NoStrayThread`, `CrashIsExplained`, `StoppedIsClean`, `SleepIsSafe`: handle, threads,
  blocks and sleep file stay together while the callers do not meet, whatever fails.
* `FormatIsCurrent`: a capturing thread has the resolution of the last detection,
  although it reads it without a lock.
* `CallsReturn`: the join inside a stop ends; `StreamDelivers`: a stream that is wanted,
  of a source that stays, sends frames again and again.
* `ReadIsReady`: `main.c` reads only from a client that has something to say, although
  the client may be replaced between `select` and `read`. The reason is subtle: the
  new client is accepted before the old one is closed, so it has another descriptor.
* `ShutdownIsClean`: when the pool is destroyed nobody uses it.

## 8. VideoSettings

State. `videoLock` and `extraLock`, the callers with their calls, the EDID in the chip
and the text last accepted, quality, codec and the attributes of the last channel.

Abstractions. Text is a sequence of hexadecimal digits and of the kinds of
characters `strtol` treats differently (blank, plus, minus, anything else); blocks have `BlockSize` bytes (128 in `edid.c`,
2 in the run; checksum and conversion treat all bytes alike). A quality factor is counted
in hundredths. `int32_t` is -`MaxInt`-1 to `MaxInt`: products and sums wrap (`Wrap`), a
floating-point value out of range becomes one of the ends (`Cast`), and a negative rate
becomes a large one in the unsigned fields of the encoder (`Unsigned`). `MaxInt` is 32767 in
the run, with bit rates in kbit/s, so that large factors do overflow; the proofs need no more
than that it is large enough for the bit rates of the factors the web interface offers. The kernel log is a
sequence of tokens: marks, the text that begins a status, other text.

Properties. `ReadsBack`: for every text that is accepted the EDID reads back as sent, but
for the last byte of each block, which makes the block add up;
`EncoderAccepts`: for every factor and timing, a source below one frame per second
included, `populate_venc_attr` gives the GOP, the strides and the codec the encoder asks for,
and for factors up to 1, which are all the web interface offers, its three rates are in order
and none has overflowed. `RatesOrdered` for every factor does not hold (section 12);
`NeverRefused`: the `TryLock` of
`useExtraLock` never fails, because everybody who takes it holds `videoLock`;
`StatusIsNewest` for the search of the log from its end.

## 9. AudioPipeline

State. `conns`, `enabled`, `mutex`, `source` and `op` are `audio.go`, `running`,
`connected` and `at` the relays and sources, `c` the C globals of each direction (flags,
handle, codec), `opened` and `codecs` what exists in ALSA and Opus, `stale` the samples
of an older frame in the buffer. `handleInputTrackForSession` is the input handler's step for a
packet. The input direction has no caller in this fork; its
client is the loop the code keeps for it.

Steps. One step per critical section of `audio.go`, per call of a source, and per C call
with its recovery: `-EPIPE`, `-ESTRPIPE`, `-EAGAIN` and the others are told apart, with
the limits the code has for each.

Properties. `OneCaller`: the C functions have one caller per direction although every
source locks its own mutex. `HandlesBalance`: no handle or codec is lost, closed twice or
used after its close, whichever call fails, and after a stop the device is free. `OutputAsWanted`: output runs exactly if it is enabled and somebody is
connected, unless operations overlapped (section 12). `PaddedWithSilence`: the blocks of
16, 8 and 1 that `simd_clear_samples_s16` clears leave nothing of the frame before.
`OperationsReturn`, `OutputRecovers`.

## 10. ScreenTree and DeviceUi

`ScreenTree` is the widget tree of `screens.c`: for every widget its parent, class,
style, whether it starts hidden or takes touches, and its handlers. `DeviceUi` has the
state of the native child (shown screen, hidden widgets, `main_screen`, version texts,
status labels, locks of the three held actions, panel and touch) and of the goroutines
that drive it (network state, `displayInited`, pending requests, up to two
`updateDisplay` at once, `hwReboot`). Every call into C runs under `cgoLock`, so a call
is one step; sequences of calls interleave. Time is counted in units of five seconds,
the shorter hold.

Properties. `NeverStuck` (every page has a way to the menu and to the main screen),
`OncePerHold` (a held action is sent once per press, and its lock ends with the press),
`DisplaySettles` (after an update that ran alone the
display shows what is the case), `CalibrationFollows` (calibration and padding are those
the code has for the rotation, in whichever order rotation and touch screen come; that
they are the right ones is another matter, section 12), `VersionShown` and `BootEnds`
(liveness). A hold of the DHCP button asks for a reboot only if the configuration could be
saved (`rpcToggleDHCPClient`).

## 11. Runs

| Run | Instance | What it shows |
|---|---|---|
| `kbd_unplug` | 2 sessions, 2 keys, 1 modifier, 1 slot, reports may be lost, the cable comes and goes | `HostInSync`; the buffer overflows |
| `kbd_silent` | 1 session, 2 keys, 2 slots, 1 macro, reports may be lost, fairness | `BufferWellFormed`, `NoOrphanKey`, `SilentReleases`; the buffer fills and shifts |
| `kbd_macro_unlocked` | 1 session, 1 macro | `HostInSync` fails |
| `session_handlers` | 2 sessions, both queues of capacity 1, 1 slot, sleep mode | registry, counter, media off when idle, keys |
| `ota_update` | 2 versions, the second a pre-release; auto-update, a custom app version with pre-releases and reset, an unknown name | the properties of `OtaUpdate`, with failures and restarts at every step |
| `ota_waiver` | the instance of `ota_update` | `WaivedAsAsked` fails |
| `native_restart` | 5 attempts (the default), 2 callers, 2 power cuts | the properties of `NativeProxy` |
| `native_late` | 3 attempts, 1 caller | `CrashRestarts` fails |
| `video_stream` | 2 threads, 2 sizes, 1 rate, 2 buffers, 1 fault, 2 descriptors, 2 connections | threads, formats and liveness of `VideoPipeline` under `StreamDaemon`, and the refinement of `CaptureService` |
| `video_settings` | 2 callers, EDIDs of every length and alphabet, signs included, 4 factors (0, 0.1, 8, 20), 3 timings, 4 logs | all properties of `VideoSettings` |
| `audio_output` | 2 controllers, 2 relays, 4 operations, 10 faults, frames of 13 samples | all properties of `AudioPipeline` |
| `ui_screens` | 2 updaters, one finger on each kind of widget, 2 states of the network, 2 rotations, 1 change, 1 other event | all properties of `DeviceUi` |

The type invariants of all modules are proved (section 13); those of `SessionLifecycle`,
`VideoSettings`, `AudioPipeline` and `DeviceUi` are checked by their runs too.

Bounds. One slot and two keys overflow the buffer, two slots shift past the last one
and refill; the buffer code treats all slots alike and the proofs cover every size. `MaxCallbacks` bounds
the callbacks of one key alive at once: with one, a callback of a replaced timer
still meets its armed successor, and the proofs cover any number. Two versions give
an older and a newer one, two attempts differ by what the first left behind. Two sessions give a first and a last one at every
handler step, and a middle one differs from them in no branch (the code asks only whether
the count has become 1 or 0); the proofs cover any number; a queue of capacity one is full with one message, so a sender that
blocks is reached. Two stream threads are as many as one caller can leave behind before
the callers meet, two sizes make a change, one fault is tried at every call of every
path. Ten audio faults exhaust each of the retry limits of `audio.c` and
leave some for the next call. A frame of 13 samples per channel makes
short reads leave whole blocks, half blocks and single samples. Of the four quality factors
0 is refused, 0.1 is one the web interface offers, and 8 and 20 overflow at different steps.

Constraints. `OverlapEnds` explores the first meeting of the callers of `video.c` without
a fault and only as long as both are inside: what follows a meeting is undefined
behaviour, which no property speaks of. `DaemonSource` fixes the source under the
stand-alone program, since detection is explored with `main = "off"`. `OneDirection`
explores the two audio directions one at a time: they share no state.

The fingers of `ui_screens` stand on one widget of each kind, since the items of a menu
differ in their target only; one indicator (`MCLinks`) stands for the three, which are
written by the same helper.

Fairness (`FairSpec` of `HidKeyboard`): weak fairness of every goroutine step
(the Go scheduler runs a runnable goroutine, the locks are held for bounded time)
and of timers once nobody resets them (`silent /\ TimerFires`). Clients owe
nothing: the environment may do anything, and `GoSilent` is never forced.

`FairSpec` of `OtaUpdate`: weak fairness of the update goroutine, of the auto-update
loop of `main.go` and of a reboot once started. Fairness of the goroutine assumes that
every call it makes returns. For a peer that has gone TCP keep-alive sees to that; the
HTTP client of `ota.go` has no timeout, so a server that keeps a connection open and
sends nothing would hold `s.mu` for ever, and the model excludes it. `healthy`, once set, stands for an environment in which
nothing fails any more; it is never forced. Deadlock checking is off: with
auto-update off and nobody asking, nothing happens.

`FairSpec` of `NativeProxy`: weak fairness of the monitor, of the supervisor and the
next start of the application (the boot scripts start it), of calls (the child answers
or the connection breaks), and of a starting child, which becomes ready or dies. A
child that hangs for ever before its handshake is thereby excluded: the code would wait
for it.

`DaemonFairSpec`: weak fairness of each thread of `video.c` and of `main` (the kernel
schedules them, and Go takes the frames it is sent). A step that is a failure is never
forced. Calls of Go, clients and changes of the source owe nothing.

`FairSpec` of `AudioPipeline`: strong fairness of callers, because a
`sync.Mutex` in starvation mode hands the lock to the one that waits longest; weak
fairness of the relay loops, since ALSA calls return; the input handler owes nothing. `FairSpec` of `DeviceUi`: weak
fairness of the timer handler, of the discovery of the touch screen, of `InitDisplay`
and of the goroutines once started. Fingers, network and reboots owe nothing.

Deadlock checking is off for `SessionLifecycle` (session identifiers are used once, so
the model ends when all have come and gone), for the video stream (a process that has
crashed or ended takes no step) and for the audio (the bounded operations end).

## 12. Departures

Where the code does not do what its comments, tests or documents say, or what one would
expect. Three are runs of their own (`kbd_macro_unlocked`, `ota_waiver`, `native_late`); TLC found the
others by checking the named definition, which stays in its module.

* Two sessions (`NoOrphanKey`): the timer operation of a keypress follows its buffer
  operation under another lock, so the cancel of one session's release can follow the
  schedule of another session's press. The key then has no timer.
* `StreamWhileActive` (`SessionLifecycle`): a session that connects between the decrement
  and the `VideoStop` of the last one, or between the check and the action of the sleep
  ticker, has its stream stopped.
* `NoPanic` (`SessionLifecycle`): a queue is closed under a receive callback that is about
  to send on it; a send on a closed channel ends the process.
* `OnlyRequested` (`OtaUpdate`): a component left pending by a failed update is installed
  by a later request that names only the other one.
* `WaivedAsAsked` (`OtaUpdate`, run `ota_waiver`): `internal/ota/utils.go:267` says that the
  signature may be skipped for a version the user explicitly requested, which a server
  cannot bring about. `rpc.go:161` only ever sets `customVersionUpdate`: after a
  custom request that failed, the next automatic update of that component, to whatever
  version the server announces, is installed without its signature.
* `RatesOrdered` (`VideoSettings`): the RPC accepts every positive quality factor and
  `jetkvm_video_set_quality_factor` refuses only those that are not positive. Above a bound far from the
  factors the web interface offers, the casts to `int32_t` at `video.c:106` and the product
  `bitrate * 3 / 2` at `video.c:573` overflow, and the maximum rate falls below the target.
* `ShiftedBothWays` (`DeviceUi`): the comment at `screen.c:33` says that touch is shifted
  by `-TOUCH_Y_OFFSET` at 270 degrees too, so that it is aligned at both orientations. The
  code shifts at 90 degrees only.
* `StatusIsTruthful` (`VideoPipeline`): `video.h` says that a status of 1 means active
  streaming. After an error of `VIDIOC_REQBUFS` to `VIDIOC_STREAMON` the stream thread
  ends with its blocks, without `set_streaming_stopped(true)` and with the flag still up:
  the status stays 1 and nothing is sent until the next stop.
* Two callers inside `video.c` at once may join or free a handle twice. `videoLock` does
  not cover the detection thread.
* `RotationSurvives` (`DeviceUi`): a comment in `display.go` says that the set-up after a
  restart of the child restores the display. A rotation changed at run time is lost: the
  child starts with the rotation of the start of the application.
* Overlapping audio operations (`crossed` in `AudioPipeline`): the counter and the flag are
  changed before `audioMutex` is taken, so a stop can overtake the start of an earlier
  connect, and output stays silent, or running for nobody.

## 13. Proofs

`HidKeyboardProofs` proves, for every set of keys, buffer size, number of
sessions, macros and callbacks (assumptions `KeyAssumption` and
`BoundAssumption` of `HidKeyboard`):

* `TypeCorrect`: `Spec => []TypeOK`;
* `BufferAlwaysWellFormed`: `Spec => []BufferWellFormed`. The argument is that
  `PlaceKey` writes at the first match or empty slot and `RemoveKey` shifts from
  it, so distinct keys followed by zeros stay so; roll-over never reaches the
  state because `UpdateKeysDown` empties the buffer;
* `SyncWithoutMacros`: if there are no macros, `Spec => []HostInSync`. Every
  writer changes buffer and report in one critical section, so it needs only the
  type invariant;
* `NoOrphans`: with one session and a link that stays up, `Spec => []NoOrphanKey`.
  `NoOrphanKey` is not inductive alone: a callback that takes the timer or finds
  the key absent must not lose it. The strengthening adds that typed keys are in
  the buffer (`TypedDown`), that a pending cancel has no typed key (`CancelIsUp`),
  and that the link is up.

`OtaUpdateProofs` proves, for every number of versions, set of pre-releases and
set of requests (`VersionAssumption`, `RequestAssumption` of `OtaUpdate`):

* `TypeCorrect`: `Spec => []TypeOK`. It needs `Announced`: while a component is
  worked on the version found by the check is known;
* `FlagIsReleased`: `Spec => []NeverStuck`. It needs `FinishReboots`: `doUpdate`
  reaches its end only with `rebootNeeded`, so the one path that keeps the flag
  starts a reboot;
* `OnlyVerifiedBoots`: `Spec => StagedVerified`, an action property. The invariant `Safe`
  follows the reasons for not checking a signature from the request into the marks in
  memory (`Reasons`, `Waived`) and to the verified file of the system between its rename
  and `rk_ota` (`FileTrusted`); `InstallStep` then looks at the two steps that put an image
  in place;
* `RebootsComplete`: `Spec => []RebootIsComplete`. `OrderInv` says at each step
  which pending components are already in place, and that nothing is touched once
  the reboot is under way.

`NativeProxyProofs` proves, for every limit on restarts, set of callers and number
of power cuts (`AttemptAssumption`, `CutAssumption` of `NativeProxy`):

* `TypeCorrect`: `Spec => []TypeOK`, which includes that the application ends before
  `restarts` reaches its limit;
* `AtMostOneChild`: `Spec => []OneChild`. The strengthening `ChildInv` says that
  nobody is alive between the end of `Wait` and the next spawn, that a child waited
  for is dead, and that without a normal application there is no monitor;
* `CallsKeepTheirClient`: `Spec => []CallsAreCurrent`. It needs `NoClient`: from the
  close to the next handshake there is no client, so the assignment of `p.client`
  outside `clientMu` meets no call.

`StreamDaemonProofs` proves about `DaemonSpec`, so for the native process and the
stand-alone program at once, and for every number of threads, formats, buffers, failures
and descriptors (`ThreadAssumption`, `RateAssumption`, `CountAssumption` of
`VideoPipeline`, `SocketAssumption` of `StreamDaemon`):

* `TypeCorrect`: `[]TypeOK`. It needs `Blocks` (all blocks are held by one thread, so that
  none is given back twice), `TimingsKnown` (a signal has known timings), `Announced` and
  `GarbageIsFault`;
* `ThreadsAreKnown`, `SleepsAlone`, `StopsClean`, `EndsClean`: `[]NoStrayThread`,
  `[]SleepIsSafe`, `[]StoppedIsClean`, `[]ShutdownIsClean`. They share `HandleInv`: as
  long as the callers have not met, only one of them is inside (`Alone`), it knows at
  each place whether there is a thread and whether the flag is up (`Knows`,
  `FlagIsUsed`), the handle is freed for one step only (`FreedIsShort`), and while the chip
  sleeps nobody is on the way to a start (`Asleep`). `ModeInv` adds that the stand-alone
  program never sleeps;
* `CrashesAreExplained`: `[]CrashIsExplained`, from the same invariant;
* `FormatStaysCurrent`: `[]FormatIsCurrent`. `FormatInv` follows the detection thread: while
  it stores new timings a thread may have read old or new ones, a change of size
  makes it replace the stream, and at the end of the join no thread is left that has
  read the old ones;
* `ReadsAreReady`: `[]ReadIsReady`, from `ClientInv` on the sets of the current round;
* `CaptureIsImplemented`: `DaemonSpec => ImplementsCapture`. `OneUser` makes the mapping of
  the user unique, `UseChanges` says how a step can change it.

`SessionLifecycleProofs` proves, for every set of sessions, number of slots and messages
and queue capacity (`SessionAssumption`, `CapAssumption` of `SessionLifecycle`):

* `TypeCorrect`, `BooksAlwaysAgree`, `SlotsStayApart`, `NothingRunsIdle`, `NoKeyLeftDown`:
  `[]TypeOK`, `[]BooksAgree`, `[]OneSlotEach`, `[]IdleIsOff`, `[]OnlyLateKeysHeld`, all from
  one inductive invariant `IInv`. `IdleIsOff` speaks of the end only, so `IInv` follows the
  handlers on the way there: `Where` (what a handler has done at each place), `OneStarts`
  (one first session at a time), `StreamEnds` and `AudioEnds` (with nobody counted the media
  run only while a handler is about to stop them), and `AudioBooks`, the exact account of
  the audio counter: the number of handlers that owe a disconnect, plus one if a session is
  counted and no handler owes the connect. `KeysEnd` does the same for keys that are down:
  somebody is counted, or about to be, or about to clear them.

`AudioPipelineProofs` proves, for every set of controllers and relays, number of operations
and failures, frame size and length of a short read (`UserAssumption`, `FrameAssumption`,
`BoundAssumption`, `HandleAssumption` of `AudioPipeline`):

* `TypeCorrect`, `OneCallerEach`, `NothingLeaked`, `OutputFollows`, `PaddingComplete`:
  `[]TypeOK`, `[]OneCaller`, `[]HandlesBalance`, `[]OutputAsWanted`, `[]PaddedWithSilence`.
  The core is `Resources`: at each place of a loop the C globals of its direction are closed,
  opening, opened, ready or ending, and the field `connected` of the source agrees with them
  except during a close. `LockInv` says who holds `audioMutex` and that the loop of a source
  has ended before it is disconnected, `OneRelay` that a dropped source has no loop, so that
  the two mutexes of two sources never protect the same globals at once. `Alone` follows an
  operation that overlaps with no other.

`VideoSettingsProofs` proves, for every set of callers, texts, qualities, timings and kernel
logs and every block size (`CallerAssumption` to `LogAssumption` of `VideoSettings`):

* `TypeCorrect`, `TryLockSucceeds`, `EncoderAlwaysAccepts`, `EdidReadsBack`,
  `StatusAlwaysNewest`: `[]TypeOK`, `[]NeverRefused`, `[]EncoderAccepts`, `[]ReadsBack`,
  `[]StatusIsNewest`. `LockInv` ties the two locks to the places of the callers. `EdidInv`
  says that what the chip holds is the conversion of the last accepted text with its
  checksums mended; that two hexadecimal digits read back (`HexRoundTrip`) and that a mended
  block adds up (`ChecksumMends`) are lemmas about the operators. The sum of a block is a
  recursive function of the position, and an induction theorem cannot be instantiated;
  its place is taken by the least counterexample (`LeastMember`), which shows that the
  function exists (`SumsExist`) and that blocks with the same bytes have the same sum
  (`BlockSumAgrees`). `EncoderAlwaysAccepts` rests on the
  bounds `OfferedRate` and `InRange` of the bit rate, under which no cast and no product
  leaves `int32_t`, and on `AttributesFit`, which bounds what `populate_venc_attr`
  computes, `LogIsCut` describes the search from the end of the log.

`DeviceUiProofs` proves, for every set of updating goroutines, touched widgets, networks,
links and rotations and every bound (`UiAssumption`, `RotationAssumption`,
`VersionAssumption` of `DeviceUi`):

* `TypeCorrect`: `[]TypeOK`. `CountInv` accounts for the pending updates: a display not yet
  initialised and a child not yet announced each owe one;
* `HoldsFireOnce`: `[]OncePerHold`. `HoldInv` adds that an action that fired during this press
  still holds its lock and that after `wait_release` every lock belongs to a finger that
  was swiped away;
* `UpdateSettles`: `[]DisplaySettles`. `SettleInv` says what an update that is alone has
  achieved at each of its steps (`AloneInv`), and that once the last change has been seen
  nobody can act on an older state of the network (`SeenInv`): no other update, no failed
  reboot, and no child whose restart is not yet announced;
* `CalibrationAlwaysFollows`: `[]CalibrationFollows`, from `PanelInv`;
* `AlwaysAWayOut`: `[]NeverStuck`, from the types.

The table of widgets of `ScreenTree` is a fixed value put together with string operations
that the provers cannot evaluate. What the proofs need of it is assumed by name
(`OneHandlerEach`, `PaddedStyles`, `NamedWidgets`, `OwnContainers`, `BareAddress`,
`HoldsAreReleased`, `SwipesLeave`), and these assumptions have no parameters: TLC evaluates
them completely at the start of `ui_screens`. They fail if a generated screen loses its
gesture handler, a held button its release handler or a container its name.

The inductive invariants were checked by TLC on the instances of the runs before they were
proved.

Left to TLC: the liveness properties (`SilentReleases`, `EventuallyCurrent`, `Recovers`,
`CallsReturn`, `StreamDelivers`, `OperationsReturn`, `OutputRecovers`, `VersionShown`,
`BootEnds`), because the prover reasons neither about fairness nor about `ENABLED`; and the
departures of section 12, which are not theorems.

## 14. Not modelled

Encodings of messages, LED reports, mouse reports (stateless), byte streams
(terminal, serial, disk), HTTP routing, configuration files, networking, time
synchronisation, MQTT, the set-up of the USB gadget, the rate limiter, the cloud
websocket, which macro a cancel reaches, and the web interface except for the reports it
can send. Of the native child: fonts and images (data), the event stream to Go, the
backlight, the log bridge, `audio_common.*` (not built) and the blinking of the
cloud icon. More than half of the lines of C in the
repository are font tables. `PROJECT.json` gives the reason for each part.

Hazards that no property covers, beside those `PROJECT.json` notes:

* `usb.go:53`: the disconnect handler cancels all timers, and its clear report is skipped
  when USB is not ready. The keys come back with the first report after the cable is
  plugged in again; `NoOrphanKey` is therefore about a link that stays up.
* `usb.go:39`: `currentSession` is tested for nil and used afterwards without a lock.
* `internal/ota/rpc.go:97`: the status map is iterated while the update goroutine writes it.
* `ota.go:27`: the HTTP client has no timeout (section 11, fairness).
* `display.go:243`: after a restart of the child nothing starts the stream again.
* `jsonrpc.go:1271`: of two macros the first to end clears the cancel function of the other.
* `ratelimit.go:121` and `158`: check and record are two critical sections; the window of
  failures may end while the lock lasts.
* `cloud.go:305`: the channel of the disconnect is set to nil without its lock.
* `video.c:887` and `373`: a frame rate that creeps by one is never noticed; a reader that
  ends on an error is not started again before the stream is.
* `audio.c:433`: `-EAGAIN` is retried without a limit; the fault budget ends such a series.
* `display.go:303`: waking and switching off share `backlightState` without a lock.

------------------------- MODULE SessionLifecycle --------------------------
(***************************************************************************)
(* WebRTC sessions: webrtc.go, the registry of webrtc_registry.go, the     *)
(* gamepad slots of gamepad_slots.go, the two places that accept a session *)
(* (handleWebRTCSession of web.go, handleSessionRequest of cloud.go), and  *)
(* what the first and the last session switch on and off: the video stream *)
(* and the sleep-mode ticker of video.go, the audio of audio.go.           *)
(*                                                                         *)
(* Every session has its own ICE state handler.  The handlers of different *)
(* sessions run concurrently and interleave between any two calls they     *)
(* make; the calls of one session's handler are sequential.  Each session  *)
(* also has goroutines that receive HID messages into its queues and       *)
(* goroutines that take them out.                                          *)
(*                                                                         *)
(* The host keyboard is the set of sessions whose modifier is down; the    *)
(* key buffer itself is the subject of HidKeyboard.  Multi-player gamepad  *)
(* mode is on and audio output is enabled.                                 *)
(***************************************************************************)
EXTENDS Integers, FiniteSets

CONSTANTS
    Sessions,      \* session IDs; each is used once (uuid.NewString)
    None,          \* the nil session, and a free gamepad slot
    MaxGamepads,   \* gamepad slots of the gadget
    SleepMode,     \* VideoSleepModeSupported(), and not disabled in the config
    Kinds,         \* queues of hidQueue in use: "kbd" (index 1), "pad" (index 2)
    QueueCap,      \* capacity of a HID queue, 256 in the code
    MaxMessages    \* bound: HID messages a session receives on each queue

ASSUME SessionAssumption == None \notin Sessions /\ IsFiniteSet(Sessions)
ASSUME CapAssumption ==
    /\ SleepMode \in BOOLEAN
    /\ Kinds \subseteq {"kbd", "pad"}
    /\ MaxGamepads \in Nat \ {0}
    /\ QueueCap \in Nat \ {0}
    /\ MaxMessages \in [Kinds -> Nat]

VARIABLES
    phase,            \* how far the acceptance of a session has come
    byID, primary,    \* sessionRegistry
    currentSession,   \* the legacy global of web.go
    pc,               \* the ICE state handler of each session
    isConnected,      \* local of the handler: this session is counted
    actionSessions,   \* the counter under activeSessionsMutex
    occupied,         \* gamepadSlotManager.occupied
    queueOpen,        \* session.hidQueue not yet closed and set to nil
    queued,           \* messages in the queues
    receiving,        \* receive callbacks between reading session.hidQueue and the send
    received,         \* messages received so far
    held,             \* sessions whose modifier the host sees down
    late,             \* history: sessions with a key message handled after the close
    streaming,        \* the capture pipeline runs
    audioConns,       \* activeConnections of audio.go
    audio,            \* the audio output runs
    ticker,           \* the sleep-mode timer
    sleeper           \* ticker goroutines past their getActiveSessions check

registry == <<byID, primary>>
media    == <<streaming, audioConns, audio, ticker, sleeper>>
input    == <<queueOpen, queued, receiving, received, held, late>>
vars     == <<phase, registry, currentSession, pc, isConnected, actionSessions,
              occupied, input, media>>

Slots == 0..(MaxGamepads - 1)

\* program counters of the handler of a session
Connecting == {"incr", "videoStart", "audioConnect", "audioStart", "stopTicker"}
Closing    == {"remove", "release", "count", "clear", "current", "closeQueues",
               "decr", "lastClear", "videoStop", "audioDisconnect", "audioStop",
               "startTicker"}
Handler    == Connecting \cup Closing \cup {"idle", "connected", "closed"}

Init ==
    /\ phase = [s \in Sessions |-> "new"]
    /\ byID = {}
    /\ primary = None
    /\ currentSession = None
    /\ pc = [s \in Sessions |-> "idle"]
    /\ isConnected = [s \in Sessions |-> FALSE]
    /\ actionSessions = 0
    /\ occupied = [i \in Slots |-> None]
    /\ queueOpen = [s \in Sessions |-> TRUE]
    /\ queued = [s \in Sessions |-> [q \in Kinds |-> 0]]
    /\ receiving = [s \in Sessions |-> {}]
    /\ received = [s \in Sessions |-> [q \in Kinds |-> 0]]
    /\ held = {}
    /\ late = {}
    /\ streaming = FALSE
    /\ audioConns = 0
    /\ audio = FALSE
    /\ ticker = IF SleepMode THEN "armed" ELSE "off"   \* main.go, at boot
    /\ sleeper = 0

(***************************************************************************)
(* Accepting a session.                                                    *)
(***************************************************************************)

\* newSession, and ExchangeOffer up to sessions.Add(s)
Register(s) ==
    /\ phase[s] = "new"
    /\ phase' = [phase EXCEPT ![s] = "registered"]
    /\ byID' = byID \cup {s}
    /\ primary' = s
    /\ UNCHANGED <<currentSession, pc, isConnected, actionSessions, occupied,
                   input, media>>

\* the rest of ExchangeOffer returns an error and the session stays in the
\* registry: rpcKickAllClients may still close its peer connection, but ICE
\* that never started reports nothing to the handler that would remove it
OfferFails(s) ==
    /\ phase[s] = "registered"
    /\ phase' = [phase EXCEPT ![s] = "failed"]
    /\ UNCHANGED <<registry, currentSession, pc, isConnected, actionSessions,
                   occupied, input, media>>

\* SetLocalDescription has started ICE
Describe(s) ==
    /\ phase[s] = "registered"
    /\ phase' = [phase EXCEPT ![s] = "described"]
    /\ UNCHANGED <<registry, currentSession, pc, isConnected, actionSessions,
                   occupied, input, media>>

\* the caller of ExchangeOffer: currentSession = session, then the answer
Answer(s) ==
    /\ phase[s] = "described"
    /\ phase' = [phase EXCEPT ![s] = "answered"]
    /\ currentSession' = s
    /\ UNCHANGED <<registry, pc, isConnected, actionSessions, occupied, input,
                   media>>

(***************************************************************************)
(* The ICE state handler: connected.                                       *)
(***************************************************************************)
Goto(s, l) == pc' = [pc EXCEPT ![s] = l]

\* mutant: a repeated connected event counts the session again
IceConnectedAgain(s) ==
    /\ phase[s] \in {"described", "answered"}
    /\ pc[s] \in {"idle", "connected"}
    /\ isConnected' = [isConnected EXCEPT ![s] = TRUE]
    /\ Goto(s, "incr")
    /\ UNCHANGED <<phase, registry, currentSession, actionSessions, occupied,
                   input, media>>

\* ICE reports connected; a repeated event finds isConnected set and does
\* nothing; onActiveSessionsChanged only notifies
IceConnected(s) ==
    /\ phase[s] \in {"described", "answered"}
    /\ pc[s] = "idle"
    /\ isConnected' = [isConnected EXCEPT ![s] = TRUE]
    /\ Goto(s, "incr")
    /\ UNCHANGED <<phase, registry, currentSession, actionSessions, occupied,
                   input, media>>

IncrActiveSessions(s) ==
    /\ pc[s] = "incr"
    /\ actionSessions' = actionSessions + 1
    /\ Goto(s, IF actionSessions + 1 = 1 THEN "videoStart" ELSE "connected")
    /\ UNCHANGED <<phase, registry, currentSession, isConnected, occupied, input,
                   media>>

\* onFirstSessionConnected: VideoStart leaves sleep mode first
VideoStart(s) ==
    /\ pc[s] = "videoStart"
    /\ streaming' = TRUE
    /\ Goto(s, "audioConnect")
    /\ UNCHANGED <<phase, registry, currentSession, isConnected, actionSessions,
                   occupied, input, audioConns, audio, ticker, sleeper>>

\* onWebRTCConnect: the atomic counter, then startAudio under audioMutex
AudioConnect(s) ==
    /\ pc[s] = "audioConnect"
    /\ audioConns' = audioConns + 1
    /\ Goto(s, IF audioConns + 1 = 1 THEN "audioStart" ELSE "stopTicker")
    /\ UNCHANGED <<phase, registry, currentSession, isConnected, actionSessions,
                   occupied, input, streaming, audio, ticker, sleeper>>

AudioStart(s) ==
    /\ pc[s] = "audioStart"
    /\ audio' = TRUE
    /\ Goto(s, "stopTicker")
    /\ UNCHANGED <<phase, registry, currentSession, isConnected, actionSessions,
                   occupied, input, streaming, audioConns, ticker, sleeper>>

StopTicker(s) ==
    /\ pc[s] = "stopTicker"
    /\ ticker' = "off"
    /\ Goto(s, "connected")
    /\ UNCHANGED <<phase, registry, currentSession, isConnected, actionSessions,
                   occupied, input, streaming, audioConns, audio, sleeper>>

(***************************************************************************)
(* The ICE state handler: closed, after the peer left, ICE failed or       *)
(* rpcKickAllClients closed the peer connection.                           *)
(***************************************************************************)
IceClosed(s) ==
    /\ phase[s] \in {"described", "answered"}
    /\ pc[s] \in {"idle", "connected"}
    /\ Goto(s, "remove")
    /\ UNCHANGED <<phase, registry, currentSession, isConnected, actionSessions,
                   occupied, input, media>>

\* sessions.Remove: any remaining session becomes primary
Remove(s) ==
    /\ pc[s] = "remove"
    /\ byID' = byID \ {s}
    /\ IF primary = s
       THEN primary' \in IF byID = {s} THEN {None} ELSE byID \ {s}
       ELSE primary' = primary
    /\ Goto(s, "release")
    /\ UNCHANGED <<phase, currentSession, isConnected, actionSessions, occupied,
                   input, media>>

\* gamepadSlots.release
Release(s) ==
    /\ pc[s] = "release"
    /\ occupied' = [i \in Slots |-> IF occupied[i] = s THEN None ELSE occupied[i]]
    /\ Goto(s, "count")
    /\ UNCHANGED <<phase, registry, currentSession, isConnected, actionSessions,
                   input, media>>

\* sessions.Count() == 0
CountSessions(s) ==
    /\ pc[s] = "count"
    /\ Goto(s, IF byID = {} THEN "clear" ELSE "current")
    /\ UNCHANGED <<phase, registry, currentSession, isConnected, actionSessions,
                   occupied, input, media>>

\* mutant: no safety net in onLastSessionDisconnected
ClearKeysOnce(s) ==
    /\ pc[s] \in {"clear", "lastClear"}
    /\ held' = IF pc[s] = "clear" THEN {} ELSE held
    /\ Goto(s, IF pc[s] = "clear" THEN "current" ELSE "videoStop")
    /\ UNCHANGED <<phase, registry, currentSession, isConnected, actionSessions,
                   occupied, queueOpen, queued, receiving, received, late, media>>

\* cancelKeyboardMacro, CancelAllAutoReleaseTimers, the clear report; and the
\* safety net of onLastSessionDisconnected
ClearKeys(s) ==
    /\ pc[s] \in {"clear", "lastClear"}
    /\ held' = {}
    /\ Goto(s, IF pc[s] = "clear" THEN "current" ELSE "videoStop")
    /\ UNCHANGED <<phase, registry, currentSession, isConnected, actionSessions,
                   occupied, queueOpen, queued, receiving, received, late, media>>

DropCurrent(s) ==
    /\ pc[s] = "current"
    /\ currentSession' = IF currentSession = s THEN None ELSE currentSession
    /\ Goto(s, "closeQueues")
    /\ UNCHANGED <<phase, registry, isConnected, actionSessions, occupied, input,
                   media>>

\* mutant: a session that never connected is counted out too
CloseQueuesAlwaysDecr(s) ==
    /\ pc[s] = "closeQueues"
    /\ queueOpen' = [queueOpen EXCEPT ![s] = FALSE]
    /\ Goto(s, "decr")
    /\ UNCHANGED <<phase, registry, currentSession, isConnected, actionSessions,
                   occupied, queued, receiving, received, held, late, media>>

\* close(session.hidQueue[i]) leaves the messages in it to be received
CloseQueues(s) ==
    /\ pc[s] = "closeQueues"
    /\ queueOpen' = [queueOpen EXCEPT ![s] = FALSE]
    /\ Goto(s, IF isConnected[s] THEN "decr" ELSE "closed")
    /\ UNCHANGED <<phase, registry, currentSession, isConnected, actionSessions,
                   occupied, queued, receiving, received, held, late, media>>

\* mutant: the count before the decrement is compared with zero
DecrReturnsOld(s) ==
    /\ pc[s] = "decr"
    /\ isConnected' = [isConnected EXCEPT ![s] = FALSE]
    /\ actionSessions' = actionSessions - 1
    /\ Goto(s, IF actionSessions = 0 THEN "lastClear" ELSE "closed")
    /\ UNCHANGED <<phase, registry, currentSession, occupied, input, media>>

DecrActiveSessions(s) ==
    /\ pc[s] = "decr"
    /\ isConnected' = [isConnected EXCEPT ![s] = FALSE]
    /\ actionSessions' = actionSessions - 1
    /\ Goto(s, IF actionSessions - 1 = 0 THEN "lastClear" ELSE "closed")
    /\ UNCHANGED <<phase, registry, currentSession, occupied, input, media>>

VideoStop(s) ==
    /\ pc[s] = "videoStop"
    /\ streaming' = FALSE
    /\ Goto(s, "audioDisconnect")
    /\ UNCHANGED <<phase, registry, currentSession, isConnected, actionSessions,
                   occupied, input, audioConns, audio, ticker, sleeper>>

\* onWebRTCDisconnect: the atomic counter, then stopAudio under audioMutex
AudioDisconnect(s) ==
    /\ pc[s] = "audioDisconnect"
    /\ audioConns' = audioConns - 1
    /\ Goto(s, IF audioConns - 1 = 0 THEN "audioStop" ELSE "startTicker")
    /\ UNCHANGED <<phase, registry, currentSession, isConnected, actionSessions,
                   occupied, input, streaming, audio, ticker, sleeper>>

AudioStop(s) ==
    /\ pc[s] = "audioStop"
    /\ audio' = FALSE
    /\ Goto(s, "startTicker")
    /\ UNCHANGED <<phase, registry, currentSession, isConnected, actionSessions,
                   occupied, input, streaming, audioConns, ticker, sleeper>>

\* startVideoSleepModeTicker replaces a ticker that still runs
StartTicker(s) ==
    /\ pc[s] = "startTicker"
    /\ ticker' = IF SleepMode THEN "armed" ELSE ticker
    /\ Goto(s, "closed")
    /\ UNCHANGED <<phase, registry, currentSession, isConnected, actionSessions,
                   occupied, input, streaming, audioConns, audio, sleeper>>

(***************************************************************************)
(* The sleep-mode ticker: a one-shot timer in a loop.                      *)
(***************************************************************************)

\* getActiveSessions() > 0: continue, and the spent timer never fires again
TickerFires ==
    /\ ticker = "armed"
    /\ ticker' = "spent"
    /\ sleeper' = IF actionSessions > 0 THEN sleeper ELSE sleeper + 1
    /\ UNCHANGED <<phase, registry, currentSession, pc, isConnected,
                   actionSessions, occupied, input, streaming, audioConns, audio>>

\* VideoSetSleepMode(true) stops the stream and then puts the chip to sleep
EnterSleep ==
    /\ sleeper > 0
    /\ sleeper' = sleeper - 1
    /\ streaming' = FALSE
    /\ UNCHANGED <<phase, registry, currentSession, pc, isConnected,
                   actionSessions, occupied, input, audioConns, audio, ticker>>

(***************************************************************************)
(* HID messages.                                                           *)
(***************************************************************************)

\* getOnHidMessageHandler reads session.hidQueue[i]; a nil queue drops the
\* message.  A data channel exists once the session has connected.
Receive(s, q) ==
    /\ isConnected[s]
    /\ queueOpen[s]
    /\ q \notin receiving[s]
    /\ received[s][q] < MaxMessages[q]
    /\ received' = [received EXCEPT ![s][q] = @ + 1]
    /\ receiving' = [receiving EXCEPT ![s] = @ \cup {q}]
    /\ UNCHANGED <<phase, registry, currentSession, pc, isConnected,
                   actionSessions, occupied, queueOpen, queued, held, late, media>>

\* The send blocks while the queue is full.  A callback that reaches it after
\* the close, or is blocked in it at the close, panics: see NoPanic.
Enqueue(s, q) ==
    /\ q \in receiving[s]
    /\ queueOpen[s]
    /\ queued[s][q] < QueueCap
    /\ queued' = [queued EXCEPT ![s][q] = @ + 1]
    /\ receiving' = [receiving EXCEPT ![s] = @ \ {q}]
    /\ UNCHANGED <<phase, registry, currentSession, pc, isConnected,
                   actionSessions, occupied, queueOpen, received, held, late, media>>

\* handleQueues(1): a press or a release of a modifier, by a session whose
\* queue may have been closed meanwhile
HandleKey(s) ==
    /\ "kbd" \in Kinds
    /\ queued[s]["kbd"] > 0
    /\ queued' = [queued EXCEPT ![s]["kbd"] = @ - 1]
    /\ held' \in {held \cup {s}, held \ {s}}
    /\ late' = IF queueOpen[s] THEN late ELSE late \cup {s}
    /\ UNCHANGED <<phase, registry, currentSession, pc, isConnected,
                   actionSessions, occupied, queueOpen, receiving, received, media>>

\* claim: the slot the session holds, or else the first free one, if any
Claim(s) ==
    IF \/ \E i \in Slots : occupied[i] = s
       \/ \A i \in Slots : occupied[i] # None
    THEN occupied
    ELSE [i \in Slots |->
            IF occupied[i] = None /\ \A j \in Slots : j < i => occupied[j] # None
            THEN s ELSE occupied[i]]

\* handleQueues(2): resolveGamepadSlot, then the report, which is dropped
\* when there is no slot; a message that cannot be read is dropped before
HandlePad(s) ==
    /\ "pad" \in Kinds
    /\ queued[s]["pad"] > 0
    /\ queued' = [queued EXCEPT ![s]["pad"] = @ - 1]
    /\ occupied' \in {Claim(s), occupied}
    /\ UNCHANGED <<phase, registry, currentSession, pc, isConnected,
                   actionSessions, queueOpen, receiving, received, held, late,
                   media>>

Accept(s)  == Register(s) \/ OfferFails(s) \/ Describe(s) \/ Answer(s)
Connect(s) == \/ IceConnected(s) \/ IncrActiveSessions(s) \/ VideoStart(s)
              \/ AudioConnect(s) \/ AudioStart(s) \/ StopTicker(s)
Close(s)   == \/ IceClosed(s) \/ Remove(s) \/ Release(s) \/ CountSessions(s)
              \/ ClearKeys(s) \/ DropCurrent(s) \/ CloseQueues(s)
              \/ DecrActiveSessions(s) \/ VideoStop(s) \/ AudioDisconnect(s)
              \/ AudioStop(s) \/ StartTicker(s)

\* onHidMessage and handleHidRPCMessage: of the message types only these two
\* change the state kept here
Handle(s)   == HandleKey(s) \/ HandlePad(s)
Messages(s) == (\E q \in Kinds : Receive(s, q) \/ Enqueue(s, q)) \/ Handle(s)

Next ==
    \/ \E s \in Sessions : Accept(s) \/ Connect(s) \/ Close(s) \/ Messages(s)
    \/ TickerFires
    \/ EnterSleep

Spec == Init /\ [][Next]_vars

-----------------------------------------------------------------------------
(***************************************************************************)
(* Properties.                                                             *)
(***************************************************************************)

\* Every variable has its type.
TypeOK ==
    /\ phase \in [Sessions -> {"new", "registered", "failed", "described", "answered"}]
    /\ byID \subseteq Sessions
    /\ primary \in Sessions \cup {None}
    /\ currentSession \in Sessions \cup {None}
    /\ pc \in [Sessions -> Handler]
    /\ isConnected \in [Sessions -> BOOLEAN]
    /\ actionSessions \in Nat
    /\ occupied \in [Slots -> Sessions \cup {None}]
    /\ queueOpen \in [Sessions -> BOOLEAN]
    /\ queued \in [Sessions -> [Kinds -> 0..QueueCap]]
    /\ receiving \in [Sessions -> SUBSET Kinds]
    /\ received \in [Sessions -> [Kinds -> Nat]]
    /\ \A s \in Sessions, q \in Kinds : received[s][q] <= MaxMessages[q]
    /\ held \subseteq Sessions
    /\ late \subseteq Sessions
    /\ streaming \in BOOLEAN
    /\ audioConns \in Int
    /\ audio \in BOOLEAN
    /\ ticker \in {"off", "armed", "spent"}
    /\ sleeper \in Nat

\* The counter that decides who is first and who is last equals the number of
\* sessions between their increment and their decrement, so it is neither
\* negative nor stuck above zero after everyone has left; and the registry has a
\* primary session to notify while it has any, never one that has left.  Both
\* books agree with the sessions in every order in which these come and go.
Counted(s) == isConnected[s] /\ pc[s] # "incr"
BooksAgree ==
    /\ actionSessions = Cardinality({s \in Sessions : Counted(s)})
    /\ primary \in IF byID = {} THEN {None} ELSE byID

\* No session ever holds two gamepad slots, so no player takes the slot that
\* the next one needs.
OneSlotEach ==
    \A i, j \in Slots : occupied[i] = occupied[j] /\ occupied[i] # None => i = j

\* No handler is in the middle of its work.
Quiet == \A s \in Sessions : pc[s] \in {"idle", "connected", "closed"}

\* Once every session has left and every handler has finished, the encoder
\* and the audio capture are off: a VideoStart or startAudio of a session
\* that came and went never lands after the last VideoStop or stopAudio.
IdleIsOff == Quiet /\ actionSessions = 0 => ~streaming /\ ~audio

\* Once every session has left and every handler has finished, only keys from
\* messages handled after their session's queues were closed are still down:
\* the two clears of the disconnect path cover everything handled before.
OnlyLateKeysHeld == Quiet /\ actionSessions = 0 => held \subseteq late

\* While a session is connected and no handler is at work, the encoder runs.
StreamWhileActive == Quiet /\ actionSessions > 0 => streaming

\* A receive callback never sends on a queue that has been closed: Go panics,
\* in a goroutine that recovers nothing, and the process ends.
NoPanic == \A s \in Sessions : receiving[s] # {} => queueOpen[s]
=============================================================================

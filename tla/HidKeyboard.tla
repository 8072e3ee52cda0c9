---------------------------- MODULE HidKeyboard ----------------------------
(***************************************************************************)
(* The USB keyboard of the gadget: internal/usbgadget/hid_keyboard.go, the *)
(* guard of usb.go in front of it, and the two callers of the root package *)
(* that forcibly change its state (the disconnect clear of webrtc.go and   *)
(* the macro runner of jsonrpc.go).                                        *)
(*                                                                         *)
(* Every session has one goroutine that applies its keyboard messages in   *)
(* order (queue 1 of Session.hidQueue): a worker.  A worker that handles a *)
(* keypress takes two critical sections in a row: keyboardMutex for the    *)
(* read-compute-write-update of the key buffer, then kbdAutoReleaseLock    *)
(* for the auto-release timer of the key.  Timer callbacks, the disconnect *)
(* handler and macros run in goroutines of their own and interleave with   *)
(* the workers between any two critical sections.                          *)
(*                                                                         *)
(* Time is abstract: an armed timer may fire at any moment.                *)
(***************************************************************************)
EXTENDS Integers

CONSTANTS
    Keys,          \* codes of ordinary keys
    Mods,          \* codes of modifier keys (the domain of KeyCodeToMaskMap)
    BufSize,       \* hidKeyBufferSize, 6 in the code
    Workers,       \* keyboard queue goroutines, one per session
    Macros,        \* goroutines that may be running a keyboard macro
    CanDetach,     \* whether the USB cable can be pulled in this instance
    CanLose,       \* whether a report can be lost while the cable is in
    MaxCallbacks   \* bound: auto-release callbacks of one key running at once

Zero     == 0      \* an empty slot of the key buffer
RollOver == 1      \* hidErrorRollOver

ASSUME KeyAssumption ==
    /\ Keys \subseteq Nat \ {Zero, RollOver}
    /\ Keys \cap Mods = {}

ASSUME BoundAssumption ==
    /\ BufSize \in Nat \ {0}
    /\ MaxCallbacks \in Nat \ {0}
    /\ CanDetach \in BOOLEAN
    /\ CanLose \in BOOLEAN

VARIABLES
    keysDown,    \* u.keysDownState
    report,      \* what the host believes: the last report that reached it
    delivered,   \* the last report written did reach the host
    usbReady,    \* usbReadyForHidReports(): attached and known
    timers,      \* u.kbdAutoReleaseTimers: absent, armed, or fired and still in the map
    waiting,     \* performAutoRelease(k) goroutines not yet past kbdAutoReleaseLock
    taken,       \* ... that removed the timer and have not looked at the keys
    releasing,   \* ... that saw the key down and are about to report it up
    pc,          \* workers between the two critical sections of KeypressReport
    closing,     \* the last session's disconnect handler
    macro,       \* macro runners between a clear report and its notification
    silent,      \* every client has stopped sending (tab gone, link lost)
    typed        \* history: keys in the buffer put there by a keypress report

vars == <<keysDown, report, delivered, usbReady, timers, waiting, taken,
          releasing, pc, closing, macro, silent, typed>>
callbacks == <<waiting, taken, releasing>>

Slots   == 1..BufSize
Buffer  == [Slots -> Keys \cup {Zero, RollOver}]
State   == [mod : SUBSET Mods, keys : [Slots -> Keys \cup {Zero}]]
Report  == [mod : SUBSET Mods, keys : Buffer]
NoKeys  == [i \in Slots |-> Zero]
Cleared == [mod |-> {}, keys |-> NoKeys]

Idle    == [kind |-> "idle"]
Pending == [kind : {"schedule", "cancel"}, key : Keys]

(***************************************************************************)
(* The key buffer.  The loop of keypressReport stops at the first slot     *)
(* that holds the key or is empty.                                         *)
(***************************************************************************)
FirstMatch(b, k, i) ==
    /\ b[i] \in {k, Zero}
    /\ \A j \in 1..(i - 1) : b[j] \notin {k, Zero}

Full(b, k) == \A i \in Slots : b[i] \notin {k, Zero}

PlaceKey(b, k) ==
    IF Full(b, k)
    THEN [i \in Slots |-> RollOver]
    ELSE [i \in Slots |-> IF FirstMatch(b, k, i) THEN k ELSE b[i]]

\* mutant: the slot of the released key is zeroed and nothing moves up
RemoveKeyLeavesGap(b, k) ==
    [i \in Slots |-> IF b[i] = k THEN Zero ELSE b[i]]

\* copy(keys[i:], keys[i+1:]) and a zero in the last slot, when found
RemoveKey(b, k) ==
    [i \in Slots |->
        IF \E j \in 1..i : FirstMatch(b, k, j) /\ b[j] = k
        THEN IF i < BufSize THEN b[i + 1] ELSE Zero
        ELSE b[i]]

\* the report that keypressReport computes from the state it read
KeypressState(s, k, press) ==
    IF k \in Mods
    THEN [s EXCEPT !.mod = IF press THEN @ \cup {k} ELSE @ \ {k}]
    ELSE [s EXCEPT !.keys = IF press THEN PlaceKey(@, k) ELSE RemoveKey(@, k)]

\* UpdateKeysDown: a rolled-over report leaves no key down
UpdateKeysDown(r) ==
    IF r.keys[1] = RollOver THEN [r EXCEPT !.keys = NoKeys] ELSE r

InBuffer(s, k) == \E i \in Slots : s.keys[i] = k

\* distinct keys, then zeros
WellFormed(b) ==
    /\ \A i \in Slots : b[i] # RollOver
    /\ \A i, j \in Slots : i < j /\ b[i] = Zero => b[j] = Zero
    /\ \A i, j \in Slots : i # j /\ b[i] = b[j] => b[i] = Zero

\* The reports a client sends.  The browser keeps a buffer of its own with
\* the rules of keypressReport, roll-over included.
KeyboardReports ==
    {r \in Report : WellFormed(r.keys) \/ \A i \in Slots : r.keys[i] = RollOver}

(***************************************************************************)
(* keyboardWriteHidFileLocked and UpdateKeysDown, under keyboardMutex.     *)
(* The write reaches the host, or is lost: the file cannot be opened, the  *)
(* endpoint is gone, or the write timed out (writeWithTimeout then reports *)
(* success).  The callers update keysDownState in every case.  A link that *)
(* goes down between the check of rpcHidReport and the write loses the     *)
(* write, so the check and the report are one step.                        *)
(***************************************************************************)
WriteReport(r) ==
    /\ keysDown' = UpdateKeysDown(r)
    /\ \/ usbReady /\ report' = r /\ delivered' = TRUE
       \/ /\ CanLose \/ ~usbReady
          /\ report' = report
          /\ delivered' = FALSE

Init ==
    /\ keysDown = Cleared
    /\ report = Cleared
    /\ delivered = TRUE
    /\ usbReady = TRUE
    /\ timers = [k \in Keys |-> "none"]
    /\ waiting = [k \in Keys |-> 0]
    /\ taken = [k \in Keys |-> 0]
    /\ releasing = [k \in Keys |-> 0]
    /\ pc = [w \in Workers |-> Idle]
    /\ closing = "idle"
    /\ macro = [m \in Macros |-> "idle"]
    /\ silent = FALSE
    /\ typed = {}

(***************************************************************************)
(* Workers.                                                                *)
(***************************************************************************)

\* keypressReport, and the decision KeypressReport takes on the state it
\* returns.  A modifier has no timer.
Keypress(w, k, press) ==
    LET r == KeypressState(keysDown, k, press)
        rolledOver == UpdateKeysDown(r).keys[1] = RollOver
    IN  /\ ~silent
        /\ usbReady
        /\ pc[w] = Idle
        /\ WriteReport(r)
        /\ typed' = IF k \in Mods THEN typed
                    ELSE IF ~press THEN typed \ {k}
                    ELSE IF r.keys[1] = RollOver THEN {}
                    ELSE typed \cup {k}
        /\ pc' = IF k \in Mods THEN pc
                 ELSE [pc EXCEPT ![w] =
                          [kind |-> IF rolledOver \/ ~press
                                    THEN "cancel" ELSE "schedule",
                           key |-> k]]
        /\ UNCHANGED <<usbReady, timers, callbacks, closing, macro, silent>>

\* mutant: scheduling a key that has a timer only stops that timer
SetTimerStopsOnly(w) ==
    /\ pc[w] # Idle
    /\ timers' = [timers EXCEPT ![pc[w].key] =
                     IF pc[w].kind = "schedule" /\ @ = "none"
                     THEN "armed" ELSE "none"]
    /\ pc' = [pc EXCEPT ![w] = Idle]
    /\ UNCHANGED <<keysDown, report, delivered, usbReady, callbacks, closing,
                   macro, silent, typed>>

\* scheduleAutoRelease or cancelAutoRelease, the tail of KeypressReport
SetTimer(w) ==
    /\ pc[w] # Idle
    /\ timers' = [timers EXCEPT ![pc[w].key] =
                     IF pc[w].kind = "schedule" THEN "armed" ELSE "none"]
    /\ pc' = [pc EXCEPT ![w] = Idle]
    /\ UNCHANGED <<keysDown, report, delivered, usbReady, callbacks, closing,
                   macro, silent, typed>>

\* a whole keyboard report of a client
KeyboardReport(w, r) ==
    /\ ~silent
    /\ usbReady
    /\ pc[w] = Idle
    /\ WriteReport(r)
    /\ typed' = {}
    /\ UNCHANGED <<usbReady, timers, callbacks, pc, closing, macro, silent>>

\* DelayAutoReleaseWithDuration: Reset re-arms every timer in the map, one
\* that has fired included
KeepAlive ==
    /\ ~silent
    /\ timers' = [k \in Keys |-> IF timers[k] = "none" THEN "none" ELSE "armed"]
    /\ UNCHANGED <<keysDown, report, delivered, usbReady, callbacks, pc,
                   closing, macro, silent, typed>>

(***************************************************************************)
(* Auto-release timers.                                                    *)
(***************************************************************************)

\* time.AfterFunc starts performAutoRelease(k) in a goroutine
TimerFires(k) ==
    /\ timers[k] = "armed"
    /\ waiting[k] + taken[k] + releasing[k] < MaxCallbacks
    /\ timers' = [timers EXCEPT ![k] = "expired"]
    /\ waiting' = [waiting EXCEPT ![k] = @ + 1]
    /\ UNCHANGED <<keysDown, report, delivered, usbReady, taken, releasing, pc,
                   closing, macro, silent, typed>>

\* The first critical section of performAutoRelease.  It looks the timer up
\* by key: a callback of a replaced timer takes its successor.
AutoReleaseTake(k) ==
    /\ waiting[k] > 0
    /\ waiting' = [waiting EXCEPT ![k] = @ - 1]
    /\ taken' = IF timers[k] = "none" THEN taken
                ELSE [taken EXCEPT ![k] = @ + 1]
    /\ timers' = [timers EXCEPT ![k] = "none"]
    /\ UNCHANGED <<keysDown, report, delivered, usbReady, releasing, pc,
                   closing, macro, silent, typed>>

\* mutant: only the first slot is searched for the key
AutoReleaseCheckFirstSlot(k) ==
    /\ taken[k] > 0
    /\ taken' = [taken EXCEPT ![k] = @ - 1]
    /\ releasing' = IF keysDown.keys[1] = k
                    THEN [releasing EXCEPT ![k] = @ + 1]
                    ELSE releasing
    /\ UNCHANGED <<keysDown, report, delivered, usbReady, timers, waiting, pc,
                   closing, macro, silent, typed>>

\* GetKeysDownState under keyboardStateLock alone: return if already released
AutoReleaseCheck(k) ==
    /\ taken[k] > 0
    /\ taken' = [taken EXCEPT ![k] = @ - 1]
    /\ releasing' = IF InBuffer(keysDown, k)
                    THEN [releasing EXCEPT ![k] = @ + 1]
                    ELSE releasing
    /\ UNCHANGED <<keysDown, report, delivered, usbReady, timers, waiting, pc,
                   closing, macro, silent, typed>>

\* keypressReport(k, false), which does not pass through rpcHidReport
AutoReleaseReport(k) ==
    /\ releasing[k] > 0
    /\ releasing' = [releasing EXCEPT ![k] = @ - 1]
    /\ WriteReport(KeypressState(keysDown, k, FALSE))
    /\ typed' = typed \ {k}
    /\ UNCHANGED <<usbReady, timers, waiting, taken, pc, closing, macro, silent>>

(***************************************************************************)
(* The disconnect of the last session, and macros.                         *)
(***************************************************************************)

\* gadget.CancelAllAutoReleaseTimers()
CloseCancelTimers ==
    /\ closing = "idle"
    /\ timers' = [k \in Keys |-> "none"]
    /\ closing' = "clear"
    /\ UNCHANGED <<keysDown, report, delivered, usbReady, callbacks, pc, macro,
                   silent, typed>>

\* mutant: the clear is written to the file and keysDownState is left alone
CloseClearWritesOnly ==
    /\ closing = "clear"
    /\ usbReady
    /\ closing' = "idle"
    /\ report' = Cleared
    /\ delivered' = TRUE
    /\ typed' = {}
    /\ UNCHANGED <<keysDown, usbReady, timers, callbacks, pc, macro, silent>>

\* rpcKeyboardReport(0, keyboardClearStateKeys): skipped while USB is not ready
CloseClear ==
    /\ closing = "clear"
    /\ closing' = "idle"
    /\ IF usbReady
       THEN WriteReport(Cleared) /\ typed' = {}
       ELSE UNCHANGED <<keysDown, report, delivered, typed>>
    /\ UNCHANGED <<usbReady, timers, callbacks, pc, macro, silent>>

\* A step of rpcDoExecuteKeyboardMacro, or the clear after its cancellation.
\* A clear step is followed by a notification unless its report failed; the
\* clear of a cancelled macro is not.
MacroReport(m, r) ==
    /\ ~silent
    /\ macro[m] = "idle"
    /\ IF usbReady
       THEN WriteReport(r) /\ typed' = {}
       ELSE UNCHANGED <<keysDown, report, delivered, typed>>
    /\ \/ macro' = macro
       \/ r = Cleared /\ macro' = [macro EXCEPT ![m] = "notify"]
    /\ UNCHANGED <<usbReady, timers, callbacks, pc, closing, silent>>

\* gadget.UpdateKeysDown(0, keyboardClearStateKeys), outside keyboardMutex
MacroNotify(m) ==
    /\ macro[m] = "notify"
    /\ macro' = [macro EXCEPT ![m] = "idle"]
    /\ keysDown' = UpdateKeysDown(Cleared)
    /\ typed' = {}
    /\ UNCHANGED <<report, delivered, usbReady, timers, callbacks, pc, closing,
                   silent>>

(***************************************************************************)
(* The environment: the USB link as checkUSBState polls it, and clients    *)
(* that fall silent.  A host that loses the device forgets its keys.       *)
(***************************************************************************)
UsbDetach ==
    /\ CanDetach
    /\ usbReady
    /\ usbReady' = FALSE
    /\ report' = Cleared
    /\ delivered' = FALSE
    /\ UNCHANGED <<keysDown, timers, callbacks, pc, closing, macro, silent, typed>>

UsbAttach ==
    /\ ~usbReady
    /\ usbReady' = TRUE
    /\ UNCHANGED <<keysDown, report, delivered, timers, callbacks, pc, closing,
                   macro, silent, typed>>

GoSilent ==
    /\ ~silent
    /\ silent' = TRUE
    /\ UNCHANGED <<keysDown, report, delivered, usbReady, timers, callbacks, pc,
                   closing, macro, typed>>

WorkerNext ==
    \E w \in Workers :
        \/ \E k \in Keys \cup Mods, press \in BOOLEAN : Keypress(w, k, press)
        \/ SetTimer(w)
        \/ \E r \in KeyboardReports : KeyboardReport(w, r)

TimerNext ==
    \E k \in Keys :
        \/ TimerFires(k)
        \/ AutoReleaseTake(k)
        \/ AutoReleaseCheck(k)
        \/ AutoReleaseReport(k)

MacroNext ==
    \E m \in Macros :
        \/ \E r \in KeyboardReports : MacroReport(m, r)
        \/ MacroNotify(m)

Next ==
    \/ WorkerNext
    \/ KeepAlive
    \/ TimerNext
    \/ CloseCancelTimers
    \/ CloseClear
    \/ MacroNext
    \/ UsbDetach
    \/ UsbAttach
    \/ GoSilent

Spec == Init /\ [][Next]_vars

\* Goroutines run and, once nothing resets them any more, timers expire.
Fairness ==
    /\ \A w \in Workers : WF_vars(SetTimer(w))
    /\ \A k \in Keys :
        /\ WF_vars(silent /\ TimerFires(k))
        /\ WF_vars(AutoReleaseTake(k))
        /\ WF_vars(AutoReleaseCheck(k))
        /\ WF_vars(AutoReleaseReport(k))
    /\ WF_vars(CloseClear)

FairSpec == Spec /\ Fairness

-----------------------------------------------------------------------------
(***************************************************************************)
(* Properties.                                                             *)
(***************************************************************************)

\* Every variable has its type; the callbacks of a key stay within the bound
\* and keysDownState never holds the ErrorRollOver code.
TypeOK ==
    /\ keysDown \in State
    /\ report \in Report
    /\ delivered \in BOOLEAN
    /\ usbReady \in BOOLEAN
    /\ timers \in [Keys -> {"none", "armed", "expired"}]
    /\ waiting \in [Keys -> 0..MaxCallbacks]
    /\ taken \in [Keys -> 0..MaxCallbacks]
    /\ releasing \in [Keys -> 0..MaxCallbacks]
    /\ \A k \in Keys : waiting[k] + taken[k] + releasing[k] <= MaxCallbacks
    /\ pc \in [Workers -> {Idle} \cup Pending]
    /\ closing \in {"idle", "clear"}
    /\ macro \in [Macros -> {"idle", "notify"}]
    /\ silent \in BOOLEAN
    /\ typed \subseteq Keys

\* The buffer of keysDownState stays what the loop of keypressReport relies
\* on: no gap before a key, no key twice, no ErrorRollOver code.  A gap would
\* hide a held key from the release that looks for it, a duplicate would
\* survive its release.
BufferWellFormed == WellFormed(keysDown.keys)

\* While the last report written is known to have reached the host, the host
\* holds down exactly the keys of keysDownState (none of them after a
\* roll-over report): no interleaving of the writers of keysDownState loses
\* an update.  This is what keyboardMutex is for.
HostInSync ==
    delivered =>
        /\ keysDown.mod = report.mod
        /\ \A k \in Keys : InBuffer(keysDown, k) <=> InBuffer(report, k)

\* A key that a keypress put in the buffer always has someone who will take
\* it out again: its timer, a callback of it that has not finished, a worker
\* about to arm the timer, or the disconnect handler about to clear all keys.
Guarded(k) ==
    \/ timers[k] # "none"
    \/ taken[k] > 0
    \/ releasing[k] > 0
    \/ \E w \in Workers : pc[w] = [kind |-> "schedule", key |-> k]
    \/ closing = "clear"

NoOrphanKey == \A k \in typed : Guarded(k)

\* A key pressed by a client that then falls silent is released: the
\* auto-release timer that nobody extends ends the press.
SilentReleases == silent ~> typed = {}
=============================================================================

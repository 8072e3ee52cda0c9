------------------------- MODULE HidKeyboardProofs -------------------------
(***************************************************************************)
(* Proofs about HidKeyboard, for every set of keys, modifiers and workers, *)
(* every buffer size and every bound on the callbacks.                     *)
(***************************************************************************)
EXTENDS HidKeyboard, WellFoundedInduction, TLAPS

(***************************************************************************)
(* The key buffer.                                                         *)
(***************************************************************************)

\* A buffer as keysDownState holds it: keys and zeros, well formed.
Held(b) == b \in [Slots -> Keys \cup {Zero}] /\ WellFormed(b)

\* keypressReport's loop stops at one slot at most.
LEMMA FirstMatchUnique ==
    ASSUME NEW b, NEW k, NEW i \in Slots, NEW j \in Slots,
           FirstMatch(b, k, i), FirstMatch(b, k, j)
    PROVE  i = j
BY BoundAssumption DEF FirstMatch, Slots

\* It stops somewhere unless the buffer is full.
LEMMA FirstMatchExists ==
    ASSUME NEW b, NEW k, ~Full(b, k)
    PROVE  \E i \in Slots : FirstMatch(b, k, i)
<1> DEFINE S == {i \in Slots : b[i] \in {k, Zero}}
<1>1. S # {} /\ S \in SUBSET Nat
  BY BoundAssumption DEF Full, Slots
<1>2. PICK i \in S : \A j \in S : i <= j
  <2> DEFINE R == OpToRel(<, Nat)
  <2>1. IsWellFoundedOn(R, Nat)
    BY NatLessThanWellFounded
  <2> HIDE DEF R, S
  <2>2. \E i \in S : \A j \in S : <<j, i>> \notin R
    BY <2>1, <1>1, WFMin
  <2>3. \A i, j \in Nat : j < i => <<j, i>> \in R
    BY DEF R, OpToRel
  <2>4. PICK i \in S : \A j \in S : <<j, i>> \notin R
    BY <2>2
  <2>5. ASSUME NEW j \in S
        PROVE  i <= j
    <3>1. i \in Nat /\ j \in Nat
      BY <1>1
    <3>2. ~(j < i)
      BY <3>1, <2>3, <2>4, Zenon
    <3>3. QED
      BY <3>1, <3>2
  <2>6. QED
    BY <2>5
<1>3. FirstMatch(b, k, i)
  BY <1>2, BoundAssumption DEF FirstMatch, Slots
<1>4. QED
  BY <1>2, <1>3

\* Placing a key in a buffer that is not full keeps it well formed, puts the
\* key in it and removes no other key.
LEMMA PlaceKeyHeld ==
    ASSUME NEW b, Held(b), NEW k \in Keys, ~Full(b, k)
    PROVE  /\ Held(PlaceKey(b, k))
           /\ \E i \in Slots : PlaceKey(b, k)[i] = k
           /\ \A q \in Keys : (\E i \in Slots : b[i] = q)
                                 => \E i \in Slots : PlaceKey(b, k)[i] = q
<1> DEFINE c == PlaceKey(b, k)
<1>1. PICK m \in Slots : FirstMatch(b, k, m)
  BY FirstMatchExists
<1>2. c = [i \in Slots |-> IF i = m THEN k ELSE b[i]]
  BY <1>1, FirstMatchUnique DEF PlaceKey
<1>3. k # Zero /\ k # RollOver /\ Zero # RollOver
  BY KeyAssumption DEF Zero, RollOver
<1>4. c \in [Slots -> Keys \cup {Zero}]
  BY <1>2 DEF Held
<1>5. \A i \in 1..(m - 1) : b[i] # k /\ b[i] # Zero
  BY <1>1 DEF FirstMatch
<1>6. b[m] = k \/ b[m] = Zero
  BY <1>1 DEF FirstMatch
<1>7. \A i \in Slots : c[i] # RollOver
  BY <1>2, <1>3 DEF Held, WellFormed
<1>8. ASSUME NEW i \in Slots, NEW j \in Slots, i < j, c[i] = Zero
      PROVE  c[j] = Zero
  <2>1. i # m /\ b[i] = Zero
    BY <1>2, <1>3, <1>8
  <2>2. j # m
    BY <2>1, <1>5, <1>8, BoundAssumption DEF Slots
  <2>3. QED
    BY <2>1, <2>2, <1>2, <1>8 DEF Held, WellFormed
<1>9. ASSUME NEW i \in Slots, NEW j \in Slots, i # j, c[i] = c[j]
      PROVE  c[i] = Zero
  <2>1. CASE i # m /\ j # m
    BY <2>1, <1>2, <1>9 DEF Held, WellFormed
  <2>2. ASSUME NEW p \in Slots, p # m, b[p] = k
        PROVE  FALSE
    <3>1. CASE p < m
      BY <3>1, <2>2, <1>5, BoundAssumption DEF Slots
    <3>2. CASE m < p
      BY <3>2, <2>2, <1>3, <1>6 DEF Held, WellFormed
    <3>3. QED
      BY <3>1, <3>2, <2>2, BoundAssumption DEF Slots
  <2>3. QED
    BY <2>1, <2>2, <1>2, <1>9
<1>10. Held(c)
  BY <1>4, <1>7, <1>8, <1>9 DEF Held, WellFormed
<1>11. ASSUME NEW q \in Keys, NEW i \in Slots, b[i] = q
       PROVE  \E j \in Slots : c[j] = q
  <2>1. q # Zero
    BY KeyAssumption DEF Zero
  <2>2. i = m => b[m] = k
    BY <2>1, <1>6, <1>11
  <2>3. c[i] = q
    BY <2>2, <1>2, <1>11
  <2>4. QED
    BY <2>3
<1>12. c[m] = k
  BY <1>2
<1>13. QED
  BY <1>10, <1>11, <1>12

\* Removing a key keeps the buffer well formed and removes no other key.
LEMMA RemoveKeyHeld ==
    ASSUME NEW b, Held(b), NEW k \in Keys
    PROVE  /\ Held(RemoveKey(b, k))
           /\ \A i \in Slots : RemoveKey(b, k)[i] # k
           /\ \A q \in Keys \ {k} : (\E i \in Slots : b[i] = q)
                                       => \E i \in Slots : RemoveKey(b, k)[i] = q
<1> DEFINE c == RemoveKey(b, k)
<1>1. k # Zero /\ k # RollOver /\ Zero # RollOver
  BY KeyAssumption DEF Zero, RollOver
<1>2. CASE \A m \in Slots : b[m] # k
  <2>1. c = b
    <3>1. \A i \in Slots : ~\E j \in 1..i : FirstMatch(b, k, j) /\ b[j] = k
      BY <1>2, BoundAssumption DEF Slots
    <3>2. b = [i \in Slots |-> b[i]]
      BY DEF Held
    <3>3. QED
      BY <3>1, <3>2 DEF RemoveKey
  <2>2. QED
    BY <2>1, <1>2
<1>3. ASSUME NEW m \in Slots, b[m] = k
      PROVE  /\ Held(c)
             /\ \A i \in Slots : c[i] # k
             /\ \A q \in Keys \ {k} : (\E i \in Slots : b[i] = q)
                                         => \E i \in Slots : c[i] = q
  <2>1. \A j \in Slots : j < m => b[j] # k /\ b[j] # Zero
    BY <1>1, <1>3, BoundAssumption DEF Held, WellFormed, Slots
  <2>2. FirstMatch(b, k, m)
    BY <2>1, <1>3, BoundAssumption DEF FirstMatch, Slots
  <2>3. \A i \in Slots : (\E j \in 1..i : FirstMatch(b, k, j) /\ b[j] = k) <=> m <= i
    BY <2>2, <1>3, FirstMatchUnique, BoundAssumption DEF Slots
  <2>4. c = [i \in Slots |-> IF m <= i THEN IF i < BufSize THEN b[i + 1] ELSE Zero
                             ELSE b[i]]
    BY <2>3 DEF RemoveKey
  <2>5. \A i \in Slots : i < BufSize => i + 1 \in Slots
    BY BoundAssumption DEF Slots
  <2>6. c \in [Slots -> Keys \cup {Zero}]
    BY <2>4, <2>5 DEF Held
  <2>7. \A i \in Slots : c[i] # RollOver
    BY <2>4, <2>5, <1>1 DEF Held, WellFormed
  <2>8. ASSUME NEW i \in Slots, NEW j \in Slots, i < j, c[i] = Zero
        PROVE  c[j] = Zero
    <3>1. CASE j = BufSize /\ m <= j
      BY <3>1, <2>4, BoundAssumption DEF Slots
    <3>2. CASE m <= i /\ j < BufSize
      BY <3>2, <2>4, <2>5, <2>8, BoundAssumption DEF Slots, Held, WellFormed
    <3>3. CASE i < m
      BY <3>3, <2>1, <2>4, <2>8, BoundAssumption DEF Slots
    <3>4. QED
      BY <3>1, <3>2, <3>3, <2>8, BoundAssumption DEF Slots
  <2>9. \A i \in Slots : i < m => c[i] = b[i]
    BY <2>4, BoundAssumption DEF Slots
  <2>10. \A i \in Slots : m <= i /\ i < BufSize => c[i] = b[i + 1]
    BY <2>4
  <2>11. m <= BufSize => c[BufSize] = Zero
    BY <2>4, BoundAssumption DEF Slots
  <2>12. ASSUME NEW i \in Slots, NEW j \in Slots, i < j, c[i] = c[j]
         PROVE  c[i] = Zero
    <3>1. CASE j = BufSize
      BY <3>1, <2>11, <2>12, BoundAssumption DEF Slots
    <3>2. CASE j < m
      BY <3>2, <2>9, <2>12, BoundAssumption DEF Slots, Held, WellFormed
    <3>3. CASE i < m /\ m <= j /\ j < BufSize
      <4>1. c[i] = b[i] /\ c[j] = b[j + 1] /\ j + 1 \in Slots /\ i # j + 1
        BY <3>3, <2>5, <2>9, <2>10, <2>12, BoundAssumption DEF Slots
      <4>2. QED
        BY <4>1, <2>12 DEF Held, WellFormed
    <3>4. CASE m <= i /\ j < BufSize
      <4>1. /\ c[i] = b[i + 1] /\ c[j] = b[j + 1] /\ i + 1 # j + 1
            /\ j + 1 \in Slots /\ i + 1 \in Slots
        BY <3>4, <2>5, <2>10, <2>12, BoundAssumption DEF Slots
      <4>2. QED
        BY <4>1, <2>12 DEF Held, WellFormed
    <3>5. QED
      BY <3>1, <3>2, <3>3, <3>4, <2>12, BoundAssumption DEF Slots
  <2>13. \A i \in Slots, j \in Slots : i # j /\ c[i] = c[j] => c[i] = Zero
    BY <2>12, BoundAssumption DEF Slots
  <2>14. Held(c)
    BY <2>6, <2>7, <2>8, <2>13 DEF Held, WellFormed
  <2>15. ASSUME NEW i \in Slots
         PROVE  c[i] # k
    <3>1. CASE i < m
      BY <3>1, <2>1, <2>9
    <3>2. CASE m <= i /\ i < BufSize
      BY <3>2, <2>5, <2>10, <1>1, <1>3, BoundAssumption DEF Slots, Held, WellFormed
    <3>3. CASE i = BufSize
      BY <3>3, <2>11, <1>1, BoundAssumption DEF Slots
    <3>4. QED
      BY <3>1, <3>2, <3>3, BoundAssumption DEF Slots
  <2>16. ASSUME NEW q \in Keys \ {k}, NEW i \in Slots, b[i] = q
         PROVE  \E j \in Slots : c[j] = q
    <3>1. i # m
      BY <2>16, <1>3
    <3>2. CASE i < m
      BY <3>2, <2>9, <2>16
    <3>3. CASE m < i
      <4>1. i - 1 \in Slots /\ m <= i - 1 /\ i - 1 < BufSize /\ (i - 1) + 1 = i
        BY <3>3, BoundAssumption DEF Slots
      <4>2. QED
        BY <4>1, <2>10, <2>16
    <3>4. QED
      BY <3>1, <3>2, <3>3, BoundAssumption DEF Slots
  <2>17. QED
    BY <2>14, <2>15, <2>16
<1>4. QED
  BY <1>2, <1>3

(***************************************************************************)
(* Reports.                                                                *)
(***************************************************************************)

\* The report keypressReport computes is one a client could have sent: well
\* formed, or ErrorRollOver in every slot; a release never rolls over.
LEMMA KeypressStateReport ==
    ASSUME NEW s \in State, WellFormed(s.keys),
           NEW k \in Keys \cup Mods, NEW press \in BOOLEAN
    PROVE  KeypressState(s, k, press) \in KeyboardReports
<1>1. Held(s.keys)
  BY DEF State, Held
<1>2. s.mod \in SUBSET Mods /\ s = [mod |-> s.mod, keys |-> s.keys]
  BY DEF State
<1>3. \A b : Held(b) => b \in Buffer /\ WellFormed(b)
  BY DEF Held, Buffer
<1>4. CASE k \in Mods
  <2>1. KeypressState(s, k, press).keys = s.keys
    BY <1>2, <1>4 DEF KeypressState
  <2>2. KeypressState(s, k, press) \in Report
    BY <1>1, <1>2, <1>3, <1>4 DEF KeypressState, Report
  <2>3. QED
    BY <2>1, <2>2 DEF KeyboardReports
<1>5. CASE k \notin Mods
  <2> DEFINE c == IF press THEN PlaceKey(s.keys, k) ELSE RemoveKey(s.keys, k)
  <2>1. KeypressState(s, k, press) = [mod |-> s.mod, keys |-> c]
    BY <1>2, <1>5 DEF KeypressState
  <2>2. k \in Keys
    BY <1>5
  <2>3. c \in Buffer /\ (WellFormed(c) \/ \A i \in Slots : c[i] = RollOver)
    <3>1. CASE ~press
      BY <3>1, <2>2, <1>1, <1>3, RemoveKeyHeld
    <3>2. CASE press /\ ~Full(s.keys, k)
      BY <3>2, <2>2, <1>1, <1>3, PlaceKeyHeld
    <3>3. CASE press /\ Full(s.keys, k)
      <4>1. c = [i \in Slots |-> RollOver]
        BY <3>3 DEF PlaceKey
      <4>2. QED
        BY <4>1 DEF Buffer
    <3>4. QED
      BY <3>1, <3>2, <3>3
  <2> HIDE DEF c
  <2>4. QED
    BY <2>1, <2>3, <1>2 DEF Report, KeyboardReports
<1>6. QED
  BY <1>4, <1>5

\* What UpdateKeysDown stores is well formed and holds the keys and the
\* modifiers that the report shows the host.
LEMMA UpdateKeysDownState ==
    ASSUME NEW r \in KeyboardReports
    PROVE  /\ UpdateKeysDown(r) \in State
           /\ WellFormed(UpdateKeysDown(r).keys)
           /\ UpdateKeysDown(r).mod = r.mod
           /\ \A k \in Keys : InBuffer(UpdateKeysDown(r), k) <=> InBuffer(r, k)
           /\ UpdateKeysDown(r).keys[1] # RollOver
<1>1. /\ r = [mod |-> r.mod, keys |-> r.keys]
      /\ r.mod \in SUBSET Mods /\ r.keys \in Buffer
  BY DEF KeyboardReports, Report
<1>2. 1 \in Slots
  BY BoundAssumption DEF Slots
<1>3. Zero # RollOver /\ \A k \in Keys : k # Zero /\ k # RollOver
  BY KeyAssumption DEF Zero, RollOver
<1>4. CASE r.keys[1] = RollOver
  <2>1. \A i \in Slots : r.keys[i] = RollOver
    BY <1>2, <1>4 DEF KeyboardReports, WellFormed
  <2>2. UpdateKeysDown(r) = [mod |-> r.mod, keys |-> NoKeys]
    BY <1>1, <1>4 DEF UpdateKeysDown
  <2>3. NoKeys \in [Slots -> Keys \cup {Zero}] /\ WellFormed(NoKeys)
    BY <1>3 DEF NoKeys, WellFormed
  <2>4. \A k \in Keys : ~InBuffer(UpdateKeysDown(r), k) /\ ~InBuffer(r, k)
    <3>1. UpdateKeysDown(r).keys = NoKeys /\ \A i \in Slots : NoKeys[i] = Zero
      BY <2>2 DEF NoKeys
    <3>2. \A k \in Keys : ~InBuffer(UpdateKeysDown(r), k)
      BY <3>1, <1>3, Zenon DEF InBuffer
    <3>3. \A k \in Keys : ~InBuffer(r, k)
      BY <2>1, <1>3, Zenon DEF InBuffer
    <3>4. QED
      BY <3>2, <3>3
  <2>5. QED
    BY <2>2, <2>3, <2>4, <1>1, <1>2, <1>3 DEF State, NoKeys
<1>5. CASE r.keys[1] # RollOver
  <2>1. UpdateKeysDown(r) = r
    BY <1>5 DEF UpdateKeysDown
  <2>2. WellFormed(r.keys)
    BY <1>2, <1>5 DEF KeyboardReports
  <2>3. r.keys \in [Slots -> Keys \cup {Zero}]
    BY <2>2, <1>1 DEF WellFormed, Buffer
  <2>4. QED
    BY <2>1, <2>2, <2>3, <1>1, <1>5 DEF State
<1>6. QED
  BY <1>4, <1>5

\* The clear report is one a client could have sent.
LEMMA ClearedReport == Cleared \in KeyboardReports /\ Cleared \in State
<1>1. Zero # RollOver
  BY DEF Zero, RollOver
<1>2. NoKeys \in [Slots -> Keys \cup {Zero}] /\ WellFormed(NoKeys)
  BY <1>1 DEF NoKeys, WellFormed
<1>3. QED
  BY <1>2 DEF Cleared, KeyboardReports, Report, State, Buffer

\* A critical section of keyboardMutex leaves a typed, well formed state that
\* agrees with a report that got through.
LEMMA WriteReportStep ==
    ASSUME TypeOK, NEW r \in KeyboardReports, WriteReport(r)
    PROVE  /\ keysDown' \in State
           /\ report' \in Report
           /\ delivered' \in BOOLEAN
           /\ BufferWellFormed'
           /\ HostInSync'
<1>1. r \in Report
  BY DEF KeyboardReports
<1>2. keysDown' = UpdateKeysDown(r)
  BY DEF WriteReport
<1>3. HostInSync'
  BY <1>2, UpdateKeysDownState DEF WriteReport, HostInSync, InBuffer
<1>4. QED
  BY <1>1, <1>2, <1>3, UpdateKeysDownState
     DEF WriteReport, TypeOK, BufferWellFormed

(***************************************************************************)
(* The inductive invariant.  BufferWellFormed needs TypeOK, because the    *)
(* lemmas on the buffer are about buffers of keys and zeros, and TypeOK    *)
(* needs BufferWellFormed, because a gap would let ErrorRollOver codes and *)
(* keys share a report and so reach keysDownState.                         *)
(***************************************************************************)
Inv == TypeOK /\ BufferWellFormed

\* The initial state satisfies the invariant and agrees with the host.
LEMMA InvInit == Init => Inv /\ HostInSync
<1> SUFFICES ASSUME Init
             PROVE  Inv /\ HostInSync
  OBVIOUS
<1>1. keysDown \in State /\ report \in Report
  BY ClearedReport DEF Init, KeyboardReports
<1>2. BufferWellFormed
  <2>1. Cleared.keys[1] = Zero /\ 1 \in Slots /\ Zero # RollOver
    BY BoundAssumption DEF Cleared, NoKeys, Slots, Zero, RollOver
  <2>2. WellFormed(Cleared.keys)
    BY <2>1, ClearedReport DEF KeyboardReports
  <2>3. QED
    BY <2>2 DEF BufferWellFormed, Init
<1>3. TypeOK
  <2>1. /\ waiting \in [Keys -> 0..MaxCallbacks]
        /\ taken \in [Keys -> 0..MaxCallbacks]
        /\ releasing \in [Keys -> 0..MaxCallbacks]
        /\ \A k \in Keys : waiting[k] + taken[k] + releasing[k] <= MaxCallbacks
    BY BoundAssumption DEF Init
  <2>2. /\ timers \in [Keys -> {"none", "armed", "expired"}]
        /\ pc \in [Workers -> {Idle} \cup Pending]
        /\ macro \in [Macros -> {"idle", "notify"}]
    BY DEF Init
  <2>3. QED
    BY <1>1, <2>1, <2>2 DEF Init, TypeOK
<1>4. HostInSync
  BY DEF Init, HostInSync
<1>5. QED
  BY <1>2, <1>3, <1>4 DEF Inv

\* A step of a worker keeps the invariant and the agreement with the host.
LEMMA WorkerStep ==
    ASSUME Inv, WorkerNext
    PROVE  Inv' /\ (HostInSync => HostInSync')
<1> USE DEF Inv
<1>1. PICK w \in Workers :
         \/ \E k \in Keys \cup Mods, press \in BOOLEAN : Keypress(w, k, press)
         \/ SetTimer(w)
         \/ \E r \in KeyboardReports : KeyboardReport(w, r)
  BY DEF WorkerNext
<1>2. ASSUME NEW k \in Keys \cup Mods, NEW press \in BOOLEAN, Keypress(w, k, press)
      PROVE  Inv' /\ HostInSync'
  <2> DEFINE r == KeypressState(keysDown, k, press)
  <2>1. r \in KeyboardReports
    BY KeypressStateReport DEF TypeOK, BufferWellFormed
  <2>2. WriteReport(r)
    BY <1>2 DEF Keypress
  <2> HIDE DEF r
  <2>3. /\ keysDown' \in State /\ report' \in Report /\ delivered' \in BOOLEAN
        /\ BufferWellFormed' /\ HostInSync'
    BY <2>1, <2>2, WriteReportStep
  <2>4. typed' \subseteq Keys
    BY <1>2 DEF Keypress, TypeOK
  <2>5. pc' \in [Workers -> {Idle} \cup Pending]
    BY <1>2 DEF Keypress, TypeOK, Pending
  <2>6. TypeOK'
    BY <2>3, <2>4, <2>5, <1>2 DEF Keypress, TypeOK, callbacks
  <2>7. QED
    BY <2>3, <2>6
<1>3. CASE SetTimer(w)
  <2>1. pc[w] \in Pending
    BY <1>3 DEF SetTimer, TypeOK
  <2>2. timers' \in [Keys -> {"none", "armed", "expired"}]
    BY <1>3, <2>1 DEF SetTimer, TypeOK, Pending
  <2>3. pc' \in [Workers -> {Idle} \cup Pending]
    BY <1>3 DEF SetTimer, TypeOK
  <2>4. TypeOK'
    BY <2>2, <2>3, <1>3 DEF SetTimer, TypeOK, callbacks
  <2>5. QED
    BY <2>4, <1>3 DEF SetTimer, BufferWellFormed, HostInSync
<1>4. ASSUME NEW r \in KeyboardReports, KeyboardReport(w, r)
      PROVE  Inv' /\ HostInSync'
  <2>1. WriteReport(r)
    BY <1>4 DEF KeyboardReport
  <2>2. /\ keysDown' \in State /\ report' \in Report /\ delivered' \in BOOLEAN
        /\ BufferWellFormed' /\ HostInSync'
    BY <2>1, WriteReportStep
  <2>3. TypeOK'
    BY <2>2, <1>4 DEF KeyboardReport, TypeOK, callbacks
  <2>4. QED
    BY <2>2, <2>3
<1>5. QED
  BY <1>1, <1>2, <1>3, <1>4

\* So does a step of an auto-release timer or of one of its callbacks.
LEMMA TimerStep ==
    ASSUME Inv, TimerNext
    PROVE  Inv' /\ (HostInSync => HostInSync')
<1> USE DEF Inv
<1>1. PICK k \in Keys : \/ TimerFires(k) \/ AutoReleaseTake(k)
                        \/ AutoReleaseCheck(k) \/ AutoReleaseReport(k)
  BY DEF TimerNext
<1>2. CASE TimerFires(k)
  <2>1. waiting' \in [Keys -> 0..MaxCallbacks]
    BY <1>2, BoundAssumption DEF TimerFires, TypeOK
  <2>2. TypeOK'
    BY <2>1, <1>2, BoundAssumption DEF TimerFires, TypeOK
  <2>3. QED
    BY <2>2, <1>2 DEF TimerFires, BufferWellFormed, HostInSync
<1>3. CASE AutoReleaseTake(k)
  <2>1. /\ waiting' \in [Keys -> 0..MaxCallbacks]
        /\ taken' \in [Keys -> 0..MaxCallbacks]
    BY <1>3, BoundAssumption DEF AutoReleaseTake, TypeOK
  <2>2. TypeOK'
    BY <2>1, <1>3, BoundAssumption DEF AutoReleaseTake, TypeOK
  <2>3. QED
    BY <2>2, <1>3 DEF AutoReleaseTake, BufferWellFormed, HostInSync
<1>4. CASE AutoReleaseCheck(k)
  <2>1. /\ taken' \in [Keys -> 0..MaxCallbacks]
        /\ releasing' \in [Keys -> 0..MaxCallbacks]
    BY <1>4, BoundAssumption DEF AutoReleaseCheck, TypeOK
  <2>2. TypeOK'
    BY <2>1, <1>4, BoundAssumption DEF AutoReleaseCheck, TypeOK
  <2>3. QED
    BY <2>2, <1>4 DEF AutoReleaseCheck, BufferWellFormed, HostInSync
<1>5. CASE AutoReleaseReport(k)
  <2> DEFINE r == KeypressState(keysDown, k, FALSE)
  <2>1. r \in KeyboardReports
    BY KeypressStateReport DEF TypeOK, BufferWellFormed
  <2>2. WriteReport(r)
    BY <1>5 DEF AutoReleaseReport
  <2> HIDE DEF r
  <2>3. /\ keysDown' \in State /\ report' \in Report /\ delivered' \in BOOLEAN
        /\ BufferWellFormed' /\ HostInSync'
    BY <2>1, <2>2, WriteReportStep
  <2>4. releasing' \in [Keys -> 0..MaxCallbacks]
    BY <1>5, BoundAssumption DEF AutoReleaseReport, TypeOK
  <2>5. TypeOK'
    BY <2>3, <2>4, <1>5, BoundAssumption DEF AutoReleaseReport, TypeOK
  <2>6. QED
    BY <2>3, <2>5
<1>6. QED
  BY <1>1, <1>2, <1>3, <1>4, <1>5

\* So do keep-alives, the disconnect handler, the link and the clients.
LEMMA OtherStep ==
    ASSUME Inv,
           \/ KeepAlive \/ CloseCancelTimers \/ CloseClear
           \/ UsbDetach \/ UsbAttach \/ GoSilent
    PROVE  Inv' /\ (HostInSync => HostInSync')
<1> USE DEF Inv
<1>1. CASE KeepAlive
  BY <1>1 DEF KeepAlive, TypeOK, callbacks, BufferWellFormed, HostInSync
<1>2. CASE CloseCancelTimers
  BY <1>2 DEF CloseCancelTimers, TypeOK, callbacks, BufferWellFormed, HostInSync
<1>3. CASE CloseClear
  <2>1. CASE usbReady
    <3>1. WriteReport(Cleared)
      BY <2>1, <1>3 DEF CloseClear
    <3>2. /\ keysDown' \in State /\ report' \in Report /\ delivered' \in BOOLEAN
          /\ BufferWellFormed' /\ HostInSync'
      BY <3>1, WriteReportStep, ClearedReport
    <3>3. TypeOK'
      BY <3>2, <2>1, <1>3 DEF CloseClear, TypeOK, callbacks
    <3>4. QED
      BY <3>2, <3>3
  <2>2. CASE ~usbReady
    BY <2>2, <1>3 DEF CloseClear, TypeOK, callbacks, BufferWellFormed, HostInSync
  <2>3. QED
    BY <2>1, <2>2
<1>4. CASE UsbDetach
  <2>1. report' \in Report
    BY <1>4, ClearedReport DEF UsbDetach, KeyboardReports
  <2>2. QED
    BY <2>1, <1>4 DEF UsbDetach, TypeOK, callbacks, BufferWellFormed, HostInSync
<1>5. CASE UsbAttach
  BY <1>5 DEF UsbAttach, TypeOK, callbacks, BufferWellFormed, HostInSync
<1>6. CASE GoSilent
  BY <1>6 DEF GoSilent, TypeOK, callbacks, BufferWellFormed, HostInSync
<1>7. QED
  BY <1>1, <1>2, <1>3, <1>4, <1>5, <1>6

\* A macro keeps the invariant; it is the one actor that can break the
\* agreement with the host.
LEMMA MacroStep ==
    ASSUME Inv, MacroNext
    PROVE  Inv'
<1> USE DEF Inv
<1>1. PICK m \in Macros :
         \/ \E r \in KeyboardReports : MacroReport(m, r)
         \/ MacroNotify(m)
  BY DEF MacroNext
<1>2. ASSUME NEW r \in KeyboardReports, MacroReport(m, r)
      PROVE  Inv'
  <2>1. macro' \in [Macros -> {"idle", "notify"}]
    BY <1>2 DEF MacroReport, TypeOK
  <2>2. /\ keysDown' \in State /\ report' \in Report /\ delivered' \in BOOLEAN
        /\ BufferWellFormed' /\ typed' \subseteq Keys
    <3>1. CASE usbReady
      BY <3>1, <1>2, WriteReportStep DEF MacroReport
    <3>2. CASE ~usbReady
      BY <3>2, <1>2 DEF MacroReport, TypeOK, BufferWellFormed
    <3>3. QED
      BY <3>1, <3>2
  <2>3. QED
    BY <2>1, <2>2, <1>2 DEF MacroReport, TypeOK, callbacks
<1>3. CASE MacroNotify(m)
  <2>1. keysDown' = UpdateKeysDown(Cleared)
    BY <1>3 DEF MacroNotify
  <2>2. keysDown' \in State /\ BufferWellFormed'
    BY <2>1, ClearedReport, UpdateKeysDownState DEF BufferWellFormed
  <2>3. macro' \in [Macros -> {"idle", "notify"}]
    BY <1>3 DEF MacroNotify, TypeOK
  <2>4. QED
    BY <2>2, <2>3, <1>3 DEF MacroNotify, TypeOK, callbacks
<1>4. QED
  BY <1>1, <1>2, <1>3

\* Every step of the keyboard keeps the invariant.
LEMMA InvStep == Inv /\ [Next]_vars => Inv'
<1> SUFFICES ASSUME Inv, [Next]_vars
             PROVE  Inv'
  OBVIOUS
<1>1. CASE UNCHANGED vars
  BY <1>1 DEF vars, callbacks, Inv, TypeOK, BufferWellFormed
<1>2. CASE Next
  BY <1>2, WorkerStep, TimerStep, OtherStep, MacroStep DEF Next
<1>3. QED
  BY <1>1, <1>2

\* Type correctness of the keyboard, and the bound on the callbacks of a key.
THEOREM TypeCorrect == Spec => []TypeOK
<1>1. Init => Inv
  BY InvInit
<1>2. Inv => TypeOK
  BY DEF Inv
<1>3. QED
  BY <1>1, <1>2, InvStep, PTL DEF Spec

\* In every reachable state the key buffer has no gap, no key twice and no
\* ErrorRollOver code, however many sessions, timers and macros interleave
\* and whatever happens to the USB link.
THEOREM BufferAlwaysWellFormed == Spec => []BufferWellFormed
<1>1. Init => Inv
  BY InvInit
<1>2. Inv => BufferWellFormed
  BY DEF Inv
<1>3. QED
  BY <1>1, <1>2, InvStep, PTL DEF Spec

\* Without macros, keysDownState and the host agree after every report that
\* got through: keyboardMutex does what its comment says for every writer
\* that takes it.
THEOREM SyncWithoutMacros ==
    ASSUME Macros = {}
    PROVE  Spec => []HostInSync
<1>1. Init => Inv /\ HostInSync
  BY InvInit
<1>2. Inv /\ HostInSync /\ [Next]_vars => (Inv /\ HostInSync)'
  <2> SUFFICES ASSUME Inv, HostInSync, [Next]_vars
               PROVE  (Inv /\ HostInSync)'
    OBVIOUS
  <2>1. CASE UNCHANGED vars
    BY <2>1, InvStep DEF vars, HostInSync
  <2>2. CASE Next
    <3>1. ~MacroNext
      BY DEF MacroNext
    <3>2. QED
      BY <3>1, <2>2, WorkerStep, TimerStep, OtherStep DEF Next
  <2>3. QED
    BY <2>1, <2>2
<1>3. QED
  BY <1>1, <1>2, PTL DEF Spec

(***************************************************************************)
(* No key is orphaned, for one session and a link that stays up.           *)
(*                                                                         *)
(* NoOrphanKey is not inductive.  A callback that finds its key released   *)
(* ends without releasing it, which is right only because a typed key is   *)
(* in the buffer (TypedDown); cancelAutoRelease removes the timer of a key *)
(* only after the release report of that key, and with one worker no press *)
(* of it can come in between (CancelIsUp).                                 *)
(***************************************************************************)
TypedDown == \A k \in typed : InBuffer(keysDown, k)

CancelIsUp ==
    \A w \in Workers :
        pc[w] # Idle /\ pc[w].kind = "cancel" => pc[w].key \notin typed

OrphanInv == Inv /\ usbReady /\ TypedDown /\ CancelIsUp /\ NoOrphanKey

\* The keys in the buffer after a keypress report: a press adds its key, a
\* release removes its key, the others stay, a roll-over empties the buffer.
LEMMA KeypressKeys ==
    ASSUME NEW s \in State, WellFormed(s.keys), NEW k \in Keys,
           NEW press \in BOOLEAN, NEW q \in Keys,
           KeypressState(s, k, press).keys[1] # RollOver,
           IF press THEN q = k \/ InBuffer(s, q) ELSE q # k /\ InBuffer(s, q)
    PROVE  InBuffer(UpdateKeysDown(KeypressState(s, k, press)), q)
<1> DEFINE c == IF press THEN PlaceKey(s.keys, k) ELSE RemoveKey(s.keys, k)
<1>1. Held(s.keys) /\ 1 \in Slots
  BY BoundAssumption DEF State, Held, Slots
<1>2. k \notin Mods
  BY KeyAssumption
<1>3. KeypressState(s, k, press).keys = c
  BY <1>2 DEF KeypressState, State
<1>4. UpdateKeysDown(KeypressState(s, k, press)).keys = c
  BY <1>3 DEF UpdateKeysDown
<1>5. \E i \in Slots : c[i] = q
  <2>1. CASE press
    <3>1. ~Full(s.keys, k)
      BY <2>1, <1>1, <1>3 DEF PlaceKey
    <3>2. QED
      BY <3>1, <2>1, <1>1, PlaceKeyHeld DEF InBuffer
  <2>2. CASE ~press
    BY <2>2, <1>1, RemoveKeyHeld DEF InBuffer
  <2>3. QED
    BY <2>1, <2>2
<1> HIDE DEF c
<1>6. QED
  BY <1>4, <1>5 DEF InBuffer

\* A modifier leaves the key buffer as it is.
LEMMA ModifierKeys ==
    ASSUME NEW s \in State, NEW k \in Mods, NEW press \in BOOLEAN
    PROVE  UpdateKeysDown(KeypressState(s, k, press)).keys = s.keys
<1>1. KeypressState(s, k, press).keys = s.keys
  BY DEF KeypressState, State
<1>2. s.keys[1] # RollOver
  BY KeyAssumption, BoundAssumption DEF State, Slots, Zero, RollOver
<1>3. QED
  BY <1>1, <1>2 DEF UpdateKeysDown

\* A keypress keeps every typed key guarded.
LEMMA KeypressOrphan ==
    ASSUME OrphanInv, \A v, u \in Workers : v = u,
           NEW w \in Workers, NEW k \in Keys \cup Mods, NEW press \in BOOLEAN,
           Keypress(w, k, press)
    PROVE  TypedDown' /\ CancelIsUp' /\ NoOrphanKey'
<1> DEFINE r == KeypressState(keysDown, k, press)
<1>1. keysDown \in State /\ WellFormed(keysDown.keys) /\ typed \subseteq Keys
  BY DEF OrphanInv, Inv, TypeOK, BufferWellFormed
<1>2. r \in KeyboardReports
  BY <1>1, KeypressStateReport
<1>3. keysDown' = UpdateKeysDown(r)
  BY DEF Keypress, WriteReport
<1>4. UpdateKeysDown(r).keys[1] # RollOver
  BY <1>2, UpdateKeysDownState
<1>5. /\ UNCHANGED <<timers, waiting, taken, releasing, closing>>
      /\ pc[w] = Idle
  BY DEF Keypress, callbacks
<1>6. CASE k \in Mods
  <2>1. typed' = typed /\ pc' = pc
    BY <1>6 DEF Keypress
  <2>2. keysDown'.keys = keysDown.keys
    BY <1>1, <1>3, <1>6, ModifierKeys
  <2>3. TypedDown'
    BY <2>1, <2>2 DEF OrphanInv, TypedDown, InBuffer
  <2>4. QED
    BY <2>1, <2>3, <1>5 DEF OrphanInv, CancelIsUp, NoOrphanKey, Guarded
<1>7. CASE k \notin Mods
  <2> DEFINE act == IF press THEN "schedule" ELSE "cancel"
  <2>1. pc' = [pc EXCEPT ![w] = [kind |-> act, key |-> k]]
    BY <1>4, <1>7 DEF Keypress
  <2>2. k \in Keys
    BY <1>7
  <2>3. typed' = IF ~press THEN typed \ {k}
                 ELSE IF r.keys[1] = RollOver THEN {} ELSE typed \cup {k}
    BY <1>7 DEF Keypress
  <2>4. ~press => r.keys[1] # RollOver
    <3>1. SUFFICES ASSUME ~press
                   PROVE  r.keys[1] # RollOver
      OBVIOUS
    <3>2. r.keys = RemoveKey(keysDown.keys, k)
      BY <3>1, <1>1, <1>7 DEF KeypressState, State
    <3>3. Held(keysDown.keys) /\ 1 \in Slots
      BY <1>1, BoundAssumption DEF State, Held, Slots
    <3>4. Held(r.keys)
      BY <3>2, <3>3, <2>2, RemoveKeyHeld
    <3>5. QED
      BY <3>3, <3>4 DEF Held, WellFormed
  <2> HIDE DEF r
  <2>5. TypedDown'
    <3>1. SUFFICES ASSUME NEW q \in typed'
                   PROVE  InBuffer(keysDown', q)
      BY DEF TypedDown, InBuffer
    <3>2. q \in Keys /\ r.keys[1] # RollOver
      BY <3>1, <2>2, <2>3, <2>4, <1>1
    <3>3. IF press THEN q = k \/ InBuffer(keysDown, q) ELSE q # k /\ InBuffer(keysDown, q)
      BY <3>1, <2>3 DEF OrphanInv, TypedDown
    <3>4. QED
      BY <3>2, <3>3, <2>2, <1>1, <1>3, KeypressKeys DEF r
  <2>6. pc'[w] = [kind |-> act, key |-> k] /\ \A v \in Workers : v = w
    BY <2>1 DEF OrphanInv, Inv, TypeOK
  <2>7. CancelIsUp'
    BY <2>3, <2>6 DEF CancelIsUp
  <2>8. ASSUME NEW q \in typed'
        PROVE  Guarded(q)'
    <3>1. CASE q = k
      <4>1. press
        BY <3>1, <2>3, <2>8
      <4>2. QED
        BY <4>1, <3>1, <2>6 DEF Guarded
    <3>2. CASE q # k
      <4>1. Guarded(q)
        BY <3>2, <2>3, <2>8 DEF OrphanInv, NoOrphanKey
      <4>2. ~\E v \in Workers : pc[v] = [kind |-> "schedule", key |-> q]
        BY <2>6, <1>5 DEF Idle
      <4>3. QED
        BY <4>1, <4>2, <1>5 DEF Guarded
    <3>3. QED
      BY <3>1, <3>2
  <2>9. QED
    BY <2>5, <2>7, <2>8 DEF NoOrphanKey
<1>8. QED
  BY <1>6, <1>7

\* Arming or cancelling a timer leaves every typed key guarded.
LEMMA SetTimerOrphan ==
    ASSUME OrphanInv, NEW w \in Workers, SetTimer(w)
    PROVE  TypedDown' /\ CancelIsUp' /\ NoOrphanKey'
<1>1. /\ UNCHANGED <<keysDown, waiting, taken, releasing, closing, typed>>
      /\ pc[w] \in Pending
  BY DEF SetTimer, callbacks, OrphanInv, Inv, TypeOK
<1>2. /\ pc' = [pc EXCEPT ![w] = Idle]
      /\ timers' = [timers EXCEPT ![pc[w].key] =
                       IF pc[w].kind = "schedule" THEN "armed" ELSE "none"]
      /\ pc \in [Workers -> {Idle} \cup Pending]
      /\ timers \in [Keys -> {"none", "armed", "expired"}]
      /\ typed \subseteq Keys
  BY DEF SetTimer, OrphanInv, Inv, TypeOK
<1>3. TypedDown'
  BY <1>1 DEF OrphanInv, TypedDown, InBuffer
<1>4. CancelIsUp'
  BY <1>1, <1>2 DEF OrphanInv, CancelIsUp
<1>5. ASSUME NEW q \in typed
      PROVE  Guarded(q)'
  <2>1. Guarded(q) /\ q \in Keys
    BY <1>2 DEF OrphanInv, NoOrphanKey
  <2>2. CASE pc[w].key = q
    <3>1. pc[w].kind = "schedule"
      BY <2>2, <1>1 DEF OrphanInv, CancelIsUp, Pending, Idle
    <3>2. timers'[q] = "armed"
      BY <3>1, <2>1, <2>2, <1>2
    <3>3. QED
      BY <3>2 DEF Guarded
  <2>3. CASE pc[w].key # q
    <3>1. timers'[q] = timers[q]
      BY <2>1, <2>3, <1>2
    <3>2. ASSUME NEW v \in Workers, pc[v] = [kind |-> "schedule", key |-> q]
          PROVE  pc'[v] = [kind |-> "schedule", key |-> q]
      BY <3>2, <2>3, <1>2
    <3>3. QED
      BY <3>1, <3>2, <2>1, <1>1 DEF Guarded
  <2>4. QED
    BY <2>2, <2>3
<1>6. QED
  BY <1>1, <1>3, <1>4, <1>5 DEF NoOrphanKey

\* A timer or one of its callbacks leaves every typed key guarded.
LEMMA TimerOrphan ==
    ASSUME OrphanInv, TimerNext
    PROVE  TypedDown' /\ CancelIsUp' /\ NoOrphanKey'
<1>1. PICK k \in Keys : \/ TimerFires(k) \/ AutoReleaseTake(k)
                        \/ AutoReleaseCheck(k) \/ AutoReleaseReport(k)
  BY DEF TimerNext
<1>2. /\ timers \in [Keys -> {"none", "armed", "expired"}]
      /\ taken \in [Keys -> Nat] /\ releasing \in [Keys -> Nat]
      /\ waiting \in [Keys -> Nat] /\ typed \subseteq Keys
      /\ keysDown \in State /\ WellFormed(keysDown.keys)
  BY BoundAssumption DEF OrphanInv, Inv, TypeOK, BufferWellFormed
<1>3. CASE TimerFires(k)
  BY <1>2, <1>3 DEF TimerFires, OrphanInv, TypedDown, CancelIsUp, InBuffer,
                    NoOrphanKey, Guarded
<1>4. CASE AutoReleaseTake(k)
  <2>1. UNCHANGED <<keysDown, releasing, pc, closing, typed>>
    BY <1>4 DEF AutoReleaseTake
  <2>2. ASSUME NEW q \in typed
        PROVE  Guarded(q)'
    <3>1. Guarded(q) /\ q \in Keys
      BY <1>2 DEF OrphanInv, NoOrphanKey
    <3>2. CASE q = k /\ timers[k] # "none"
      <4>1. taken'[k] = taken[k] + 1
        BY <3>2, <1>2, <1>4 DEF AutoReleaseTake
      <4>2. QED
        BY <4>1, <3>2, <1>2 DEF Guarded
    <3>3. CASE ~(q = k /\ timers[k] # "none")
      <4>1. timers'[q] = timers[q] /\ taken'[q] = taken[q]
        BY <3>1, <3>3, <1>2, <1>4 DEF AutoReleaseTake
      <4>2. QED
        BY <4>1, <3>1, <2>1 DEF Guarded
    <3>4. QED
      BY <3>2, <3>3
  <2>3. QED
    BY <2>1, <2>2 DEF OrphanInv, TypedDown, CancelIsUp, InBuffer, NoOrphanKey
<1>5. CASE AutoReleaseCheck(k)
  <2>1. UNCHANGED <<keysDown, timers, pc, closing, typed>>
    BY <1>5 DEF AutoReleaseCheck
  <2>2. ASSUME NEW q \in typed
        PROVE  Guarded(q)'
    <3>1. Guarded(q) /\ q \in Keys /\ InBuffer(keysDown, q)
      BY <1>2 DEF OrphanInv, NoOrphanKey, TypedDown
    <3>2. CASE q = k
      <4>1. releasing'[k] = releasing[k] + 1
        BY <3>1, <3>2, <1>2, <1>5 DEF AutoReleaseCheck
      <4>2. QED
        BY <4>1, <3>2, <1>2 DEF Guarded
    <3>3. CASE q # k
      <4>1. taken'[q] = taken[q] /\ releasing'[q] = releasing[q]
        BY <3>1, <3>3, <1>2, <1>5 DEF AutoReleaseCheck
      <4>2. QED
        BY <4>1, <3>1, <2>1 DEF Guarded
    <3>4. QED
      BY <3>2, <3>3
  <2>3. QED
    BY <2>1, <2>2 DEF OrphanInv, TypedDown, CancelIsUp, InBuffer, NoOrphanKey
<1>6. CASE AutoReleaseReport(k)
  <2> DEFINE r == KeypressState(keysDown, k, FALSE)
  <2>1. /\ UNCHANGED <<timers, taken, pc, closing>>
        /\ typed' = typed \ {k} /\ keysDown' = UpdateKeysDown(r)
    BY <1>6 DEF AutoReleaseReport, WriteReport
  <2>2. k \notin Mods /\ Held(keysDown.keys) /\ 1 \in Slots
    BY <1>2, KeyAssumption, BoundAssumption DEF State, Held, Slots
  <2>3. r.keys = RemoveKey(keysDown.keys, k)
    BY <2>2, <1>2 DEF KeypressState, State
  <2>4. r.keys[1] # RollOver
    <3>1. Held(RemoveKey(keysDown.keys, k))
      BY <2>2, RemoveKeyHeld
    <3>2. RemoveKey(keysDown.keys, k)[1] # RollOver
      BY <3>1, <2>2 DEF Held, WellFormed
    <3> HIDE DEF r
    <3>3. QED
      BY <3>2, <2>3
  <2> HIDE DEF r
  <2>5. TypedDown'
    <3>1. SUFFICES ASSUME NEW q \in typed'
                   PROVE  InBuffer(keysDown', q)
      BY DEF TypedDown, InBuffer
    <3>2. q \in Keys /\ q # k /\ InBuffer(keysDown, q)
      BY <3>1, <2>1, <1>2 DEF OrphanInv, TypedDown
    <3>3. QED
      BY <3>2, <2>1, <2>4, <1>2, KeypressKeys DEF r
  <2>6. ASSUME NEW q \in typed'
        PROVE  Guarded(q)'
    <3>1. Guarded(q) /\ q \in Keys /\ q # k
      BY <2>1, <1>2 DEF OrphanInv, NoOrphanKey
    <3>2. releasing'[q] = releasing[q]
      BY <3>1, <1>2, <1>6 DEF AutoReleaseReport
    <3>3. QED
      BY <3>1, <3>2, <2>1 DEF Guarded
  <2>7. QED
    BY <2>1, <2>5, <2>6 DEF OrphanInv, CancelIsUp, NoOrphanKey
<1>7. QED
  BY <1>1, <1>3, <1>4, <1>5, <1>6

\* With one session and a USB link that stays up, every key a keypress put in
\* the buffer has someone who will release it: no interleaving of presses,
\* releases, keep-alives, timer callbacks, macros and disconnects leaves a
\* key down with nothing to release it.
THEOREM NoOrphans ==
    ASSUME \A v, w \in Workers : v = w, CanDetach = FALSE
    PROVE  Spec => []NoOrphanKey
<1>1. Init => OrphanInv
  BY InvInit DEF Init, OrphanInv, TypedDown, CancelIsUp, NoOrphanKey
<1>2. OrphanInv /\ [Next]_vars => OrphanInv'
  <2> SUFFICES ASSUME OrphanInv, [Next]_vars
               PROVE  OrphanInv'
    OBVIOUS
  <2>1. Inv'
    BY InvStep DEF OrphanInv
  <2>2. usbReady'
    BY DEF OrphanInv, Next, vars, WorkerNext, TimerNext, MacroNext, Keypress,
           SetTimer, KeyboardReport, KeepAlive, TimerFires, AutoReleaseTake,
           AutoReleaseCheck, AutoReleaseReport, CloseCancelTimers, CloseClear,
           MacroReport, MacroNotify, UsbDetach, UsbAttach, GoSilent
  <2>3. typed' = {} /\ UNCHANGED pc => TypedDown' /\ CancelIsUp' /\ NoOrphanKey'
    BY DEF TypedDown, CancelIsUp, NoOrphanKey
  <2>4. UNCHANGED <<keysDown, timers, taken, releasing, pc, closing, typed>>
          => TypedDown' /\ CancelIsUp' /\ NoOrphanKey'
    BY DEF OrphanInv, TypedDown, InBuffer, CancelIsUp, NoOrphanKey, Guarded
  <2>5. TypedDown' /\ CancelIsUp' /\ NoOrphanKey'
    <3>1. CASE UNCHANGED vars
      BY <3>1, <2>4 DEF vars, callbacks
    <3>2. CASE WorkerNext
      <4>1. ASSUME NEW w \in Workers, NEW r \in KeyboardReports, KeyboardReport(w, r)
            PROVE  TypedDown' /\ CancelIsUp' /\ NoOrphanKey'
        BY <4>1, <2>3 DEF KeyboardReport
      <4>2. QED
        BY <4>1, <3>2, KeypressOrphan, SetTimerOrphan DEF WorkerNext
    <3>3. CASE TimerNext
      BY <3>3, TimerOrphan
    <3>4. CASE KeepAlive
      <4>1. \A k \in Keys : timers[k] # "none" => timers'[k] # "none"
        BY <3>4 DEF KeepAlive
      <4>2. /\ UNCHANGED <<keysDown, taken, releasing, pc, closing, typed>>
            /\ typed \subseteq Keys
        BY <3>4 DEF KeepAlive, callbacks, OrphanInv, Inv, TypeOK
      <4>3. QED
        BY <4>1, <4>2 DEF OrphanInv, TypedDown, InBuffer, CancelIsUp,
                          NoOrphanKey, Guarded
    <3>5. CASE CloseCancelTimers
      BY <3>5 DEF CloseCancelTimers, OrphanInv, TypedDown, InBuffer, CancelIsUp,
                  NoOrphanKey, Guarded
    <3>6. CASE CloseClear
      BY <3>6, <2>3 DEF CloseClear, OrphanInv
    <3>7. CASE MacroNext
      BY <3>7, <2>3 DEF MacroNext, MacroReport, MacroNotify, OrphanInv
    <3>8. CASE UsbDetach
      BY <3>8 DEF UsbDetach
    <3>9. CASE UsbAttach
      BY <3>9 DEF UsbAttach, OrphanInv
    <3>10. CASE GoSilent
      BY <3>10, <2>4 DEF GoSilent, callbacks
    <3>11. QED
      BY <3>1, <3>2, <3>3, <3>4, <3>5, <3>6, <3>7, <3>8, <3>9, <3>10 DEF Next
  <2>6. QED
    BY <2>1, <2>2, <2>5 DEF OrphanInv
<1>3. OrphanInv => NoOrphanKey
  BY DEF OrphanInv
<1>4. QED
  BY <1>1, <1>2, <1>3, PTL DEF Spec
=============================================================================

----------------------- MODULE SessionLifecycleProofs -----------------------
(***************************************************************************)
(* Proofs about SessionLifecycle, for every number of sessions, of gamepad *)
(* slots and of HID messages and every queue capacity.                     *)
(***************************************************************************)
EXTENDS SessionLifecycle, FiniteSetTheorems, TLAPS

-----------------------------------------------------------------------------
(***************************************************************************)
(* The parts of the inductive invariant.                                   *)
(***************************************************************************)

\* The handler of the first session between its increment and its return, and
\* that of a last session between its decrement and its return.
Starting == {"videoStart", "audioConnect", "audioStart", "stopTicker"}
Ending   == {"lastClear", "videoStop", "audioDisconnect", "audioStop", "startTicker"}

\* What the handler of a session has done when it is at a program counter.
Where ==
    \A s \in Sessions :
      /\ pc[s] \in Connecting \cup {"connected", "decr"} => isConnected[s]
      /\ pc[s] \in Ending \cup {"idle", "closed"} => ~isConnected[s]
      /\ pc[s] \in Ending \cup {"decr", "closed"} => ~queueOpen[s]

\* One session at a time is the first one.
OneStarts ==
    \A s, t \in Sessions : pc[s] \in Starting /\ pc[t] \in Starting => s = t

\* With no session counted the stream runs only until a handler's VideoStop.
StreamEnds ==
    streaming /\ actionSessions = 0 =>
        \E s \in Sessions : pc[s] \in {"lastClear", "videoStop"}

\* The handlers that owe an onWebRTCConnect and those that owe an
\* onWebRTCDisconnect: the audio counter is behind by exactly these.
OweConnect    == {s \in Sessions : pc[s] \in {"videoStart", "audioConnect"}}
OweDisconnect == {s \in Sessions : pc[s] \in {"lastClear", "videoStop", "audioDisconnect"}}
AudioBooks ==
    audioConns = Cardinality(OweDisconnect)
                   + (IF actionSessions > 0 /\ OweConnect = {} THEN 1 ELSE 0)

\* With no session counted the audio runs only until a handler's stopAudio.
AudioEnds ==
    audio /\ actionSessions = 0 =>
        OweDisconnect # {} \/ \E s \in Sessions : pc[s] = "audioStop"

\* A queue that is open and in use belongs to a connected session.
OpenIsConnected ==
    \A s \in Sessions : queueOpen[s] =>
      /\ receiving[s] # {} => isConnected[s]
      /\ \A q \in Kinds : queued[s][q] > 0 => isConnected[s]

\* A key that was handled before its session's queues were closed goes up at
\* the latest when the last session's handler clears the keys.
KeysEnd ==
    \A x \in held \ late :
        \/ actionSessions > 0
        \/ pc[x] = "incr"
        \/ \E s \in Sessions : pc[s] = "lastClear"

IInv ==
    /\ TypeOK /\ BooksAgree /\ OneSlotEach
    /\ Where /\ OneStarts /\ StreamEnds /\ AudioBooks /\ AudioEnds
    /\ OpenIsConnected /\ KeysEnd

-----------------------------------------------------------------------------
(***************************************************************************)
(* What the steps leave alone, and the counted sessions.                   *)
(***************************************************************************)

CountedSet == {s \in Sessions : Counted(s)}

\* Acceptance, the HID messages and the sleep-mode ticker change nothing that
\* the handlers keep books of.
LEMMA Bystander ==
    ASSUME \/ \E s \in Sessions : Accept(s) \/ Messages(s)
           \/ TickerFires \/ EnterSleep \/ UNCHANGED vars
    PROVE  UNCHANGED <<pc, isConnected, actionSessions, queueOpen, audioConns, audio>>
BY DEF Accept, Register, OfferFails, Describe, Answer, Messages, Handle, Receive, Enqueue,
       HandleKey, HandlePad, TickerFires, EnterSleep, vars, registry, input, media

\* Every step is one of these or a step of a handler.
LEMMA StepKinds ==
    ASSUME [Next]_vars
    PROVE  \/ \E s \in Sessions : Accept(s) \/ Messages(s)
           \/ TickerFires \/ EnterSleep \/ UNCHANGED vars
           \/ \E s \in Sessions : Connect(s) \/ Close(s)
BY DEF Next

\* The counted sessions are finitely many, so their number is a natural number.
LEMMA CountedFinite ==
    /\ IsFiniteSet(CountedSet)
    /\ Cardinality(CountedSet) \in Nat
    /\ Cardinality(CountedSet) = 0 <=> CountedSet = {}
<1>1. CountedSet \subseteq Sessions
  BY DEF CountedSet
<1>2. IsFiniteSet(CountedSet)
  BY <1>1, SessionAssumption, FS_Subset
<1>3. QED
  BY <1>2, FS_CardinalityType, FS_EmptySet

\* A counted session keeps the counter above zero.
LEMMA CountedPositive ==
    ASSUME BooksAgree, NEW s \in Sessions, Counted(s)
    PROVE  actionSessions \in Nat /\ actionSessions > 0
<1>1. s \in CountedSet /\ actionSessions = Cardinality(CountedSet)
  BY DEF CountedSet, BooksAgree
<1>2. QED
  BY <1>1, CountedFinite

\* A handler counts its session in between its increment and its decrement, and
\* these are the only two steps that change who is counted.
LEMMA HandlerCounts ==
    ASSUME TypeOK, Where, NEW s \in Sessions, Connect(s) \/ Close(s)
    PROVE  \/ IncrActiveSessions(s) \/ DecrActiveSessions(s)
           \/ UNCHANGED <<actionSessions, CountedSet>>
<1>1. ASSUME IceConnected(s)
      PROVE  UNCHANGED <<actionSessions, CountedSet>>
  BY <1>1 DEF TypeOK, Where, IceConnected, Goto, Counted, CountedSet
<1>2. ASSUME VideoStart(s) \/ AudioConnect(s) \/ AudioStart(s) \/ StopTicker(s)
      PROVE  UNCHANGED <<actionSessions, CountedSet>>
  BY <1>2 DEF TypeOK, VideoStart, AudioConnect, AudioStart, StopTicker, Goto,
              Counted, CountedSet
<1>3. ASSUME \/ IceClosed(s) \/ Remove(s) \/ Release(s) \/ CountSessions(s)
             \/ ClearKeys(s) \/ DropCurrent(s) \/ CloseQueues(s)
      PROVE  UNCHANGED <<actionSessions, CountedSet>>
  BY <1>3 DEF TypeOK, IceClosed, Remove, Release, CountSessions, ClearKeys,
              DropCurrent, CloseQueues, Goto, Counted, CountedSet
<1>4. ASSUME VideoStop(s) \/ AudioDisconnect(s) \/ AudioStop(s) \/ StartTicker(s)
      PROVE  UNCHANGED <<actionSessions, CountedSet>>
  BY <1>4 DEF TypeOK, VideoStop, AudioDisconnect, AudioStop, StartTicker, Goto,
              Counted, CountedSet
<1>5. QED
  BY <1>1, <1>2, <1>3, <1>4 DEF Connect, Close

-----------------------------------------------------------------------------
(***************************************************************************)
(* Each part is kept by every step.                                        *)
(***************************************************************************)

\* Every step keeps the types; the decrement needs the books.
LEMMA TypeStep ==
    ASSUME TypeOK, BooksAgree, Where, [Next]_vars
    PROVE  TypeOK'
<1> USE SessionAssumption, CapAssumption
<1>1. ASSUME NEW s \in Sessions, Accept(s)
      PROVE  TypeOK'
  BY <1>1 DEF TypeOK, Accept, Register, OfferFails, Describe, Answer, registry, input, media
<1>2. ASSUME NEW s \in Sessions, Connect(s)
      PROVE  TypeOK'
  <2> USE DEF TypeOK, Goto, Handler, Connecting, Closing, registry, input, media
  <2>1. CASE IceConnected(s)
    BY <2>1 DEF IceConnected
  <2>2. CASE IncrActiveSessions(s)
    BY <2>2 DEF IncrActiveSessions
  <2>3. CASE VideoStart(s)
    BY <2>3 DEF VideoStart
  <2>4. CASE AudioConnect(s)
    BY <2>4 DEF AudioConnect
  <2>5. CASE AudioStart(s)
    BY <2>5 DEF AudioStart
  <2>6. CASE StopTicker(s)
    BY <2>6 DEF StopTicker
  <2>7. QED
    BY <1>2, <2>1, <2>2, <2>3, <2>4, <2>5, <2>6 DEF Connect
<1>3. ASSUME NEW s \in Sessions, DecrActiveSessions(s)
      PROVE  TypeOK'
  <2>1. Counted(s)
    BY <1>3 DEF DecrActiveSessions, Where, Counted
  <2>2. actionSessions' \in Nat
    BY <1>3, <2>1, CountedPositive DEF DecrActiveSessions
  <2>3. QED
    BY <1>3, <2>2 DEF DecrActiveSessions, TypeOK, Goto, Handler, Closing, registry, input, media
<1>4. ASSUME NEW s \in Sessions, Close(s), ~DecrActiveSessions(s)
      PROVE  TypeOK'
  <2> USE DEF TypeOK, Goto, Handler, Connecting, Closing, registry, input, media
  <2>1. CASE IceClosed(s)
    BY <2>1 DEF IceClosed
  <2>2. CASE Remove(s)
    BY <2>2 DEF Remove
  <2>3. CASE Release(s)
    BY <2>3 DEF Release
  <2>4. CASE CountSessions(s)
    BY <2>4 DEF CountSessions
  <2>5. CASE ClearKeys(s)
    BY <2>5 DEF ClearKeys
  <2>6. CASE DropCurrent(s)
    BY <2>6 DEF DropCurrent
  <2>7. CASE CloseQueues(s)
    BY <2>7 DEF CloseQueues
  <2>8. CASE VideoStop(s)
    BY <2>8 DEF VideoStop
  <2>9. CASE AudioDisconnect(s)
    BY <2>9 DEF AudioDisconnect
  <2>10. CASE AudioStop(s)
    BY <2>10 DEF AudioStop
  <2>11. CASE StartTicker(s)
    BY <2>11 DEF StartTicker
  <2>12. QED
    BY <1>4, <2>1, <2>2, <2>3, <2>4, <2>5, <2>6, <2>7, <2>8, <2>9, <2>10, <2>11 DEF Close
<1>5. ASSUME NEW s \in Sessions, NEW q \in Kinds, Receive(s, q)
      PROVE  TypeOK'
  BY <1>5 DEF TypeOK, Receive, registry, media
<1>6. ASSUME NEW s \in Sessions, NEW q \in Kinds, Enqueue(s, q)
      PROVE  TypeOK'
  BY <1>6 DEF TypeOK, Enqueue, registry, media
<1>7. ASSUME NEW s \in Sessions, HandleKey(s)
      PROVE  TypeOK'
  BY <1>7 DEF TypeOK, HandleKey, registry, media
<1>8. ASSUME NEW s \in Sessions, HandlePad(s)
      PROVE  TypeOK'
  <2>1. Claim(s) \in [Slots -> Sessions \cup {None}]
    BY DEF TypeOK, Claim
  <2>2. QED
    BY <1>8, <2>1 DEF TypeOK, HandlePad, registry, media
<1>9. CASE TickerFires
  BY <1>9 DEF TypeOK, TickerFires, registry, input
<1>10. CASE EnterSleep
  <2>1. sleeper' \in Nat
    BY <1>10 DEF TypeOK, EnterSleep
  <2>2. QED
    BY <1>10, <2>1 DEF TypeOK, EnterSleep, registry, input
<1>11. CASE UNCHANGED vars
  BY <1>11 DEF TypeOK, vars, registry, input, media
<1>12. QED
  BY <1>1, <1>2, <1>3, <1>4, <1>5, <1>6, <1>7, <1>8, <1>9, <1>10, <1>11
     DEF Next, Messages, Handle

\* Every step keeps the counter equal to the number of counted sessions.
LEMMA CounterStep ==
    ASSUME TypeOK, BooksAgree, Where, [Next]_vars
    PROVE  actionSessions' = Cardinality(CountedSet')
<1>1. actionSessions = Cardinality(CountedSet)
  BY DEF BooksAgree, CountedSet
<1>2. ASSUME NEW s \in Sessions, IncrActiveSessions(s)
      PROVE  actionSessions' = Cardinality(CountedSet')
  <2>1. CountedSet' = CountedSet \cup {s} /\ s \notin CountedSet
    BY <1>2 DEF TypeOK, Where, Connecting, IncrActiveSessions, Goto, CountedSet, Counted
  <2>2. Cardinality(CountedSet') = Cardinality(CountedSet) + 1
    BY <2>1, CountedFinite, FS_AddElement
  <2>3. QED
    BY <1>1, <1>2, <2>2 DEF IncrActiveSessions
<1>3. ASSUME NEW s \in Sessions, DecrActiveSessions(s)
      PROVE  actionSessions' = Cardinality(CountedSet')
  <2>1. CountedSet' = CountedSet \ {s} /\ s \in CountedSet
    BY <1>3 DEF TypeOK, Where, DecrActiveSessions, Goto, CountedSet, Counted
  <2>2. Cardinality(CountedSet') = Cardinality(CountedSet) - 1
    BY <2>1, CountedFinite, FS_RemoveElement
  <2>3. QED
    BY <1>1, <1>3, <2>2 DEF DecrActiveSessions
<1>4. ASSUME UNCHANGED <<actionSessions, CountedSet>>
      PROVE  actionSessions' = Cardinality(CountedSet')
  BY <1>1, <1>4
<1>5. ASSUME UNCHANGED <<pc, isConnected, actionSessions>>
      PROVE  UNCHANGED <<actionSessions, CountedSet>>
  BY <1>5 DEF CountedSet, Counted
<1>6. QED
  BY <1>2, <1>3, <1>4, <1>5, StepKinds, Bystander, HandlerCounts

\* Every step keeps both books.
LEMMA BooksStep ==
    ASSUME TypeOK, BooksAgree, Where, [Next]_vars
    PROVE  BooksAgree'
<1> DEFINE P == primary \in IF byID = {} THEN {None} ELSE byID
<1>1. P
  BY DEF BooksAgree
<1>2. ASSUME NEW s \in Sessions, Register(s)
      PROVE  P'
  BY <1>2 DEF Register
<1>3. ASSUME NEW s \in Sessions, Remove(s)
      PROVE  P'
  BY <1>1, <1>3, SessionAssumption DEF Remove, TypeOK
<1>4. ASSUME UNCHANGED registry
      PROVE  P'
  BY <1>1, <1>4 DEF registry
<1>5. ASSUME NEW s \in Sessions, Accept(s), ~Register(s)
      PROVE  UNCHANGED registry
  BY <1>5 DEF Accept, OfferFails, Describe, Answer
<1>6. ASSUME NEW s \in Sessions, Connect(s)
      PROVE  UNCHANGED registry
  BY <1>6 DEF Connect, IceConnected, IncrActiveSessions, VideoStart, AudioConnect,
              AudioStart, StopTicker
<1>7. ASSUME NEW s \in Sessions, Close(s), ~Remove(s)
      PROVE  UNCHANGED registry
  BY <1>7 DEF Close, IceClosed, Release, CountSessions, ClearKeys, DropCurrent,
              CloseQueues, DecrActiveSessions, VideoStop, AudioDisconnect, AudioStop,
              StartTicker
<1>8. ASSUME \/ \E s \in Sessions : Messages(s)
             \/ TickerFires \/ EnterSleep \/ UNCHANGED vars
      PROVE  UNCHANGED registry
  BY <1>8 DEF Messages, Handle, Receive, Enqueue, HandleKey, HandlePad, TickerFires,
              EnterSleep, vars
<1>9. P'
  BY <1>2, <1>3, <1>4, <1>5, <1>6, <1>7, <1>8 DEF Next
<1>10. QED
  BY <1>9, CounterStep DEF BooksAgree, CountedSet, Counted

\* Claiming gives a session without a slot the first free one, and nothing else.
LEMMA ClaimKeepsOne ==
    ASSUME TypeOK, OneSlotEach, NEW s \in Sessions, occupied' = Claim(s)
    PROVE  OneSlotEach'
<1>1. CASE \/ \E i \in Slots : occupied[i] = s
           \/ \A i \in Slots : occupied[i] # None
  BY <1>1 DEF Claim, OneSlotEach
<1>2. CASE ~ (\/ \E i \in Slots : occupied[i] = s
              \/ \A i \in Slots : occupied[i] # None)
  <2> DEFINE First(i) == occupied[i] = None /\ \A j \in Slots : j < i => occupied[j] # None
  <2>1. \A i \in Slots : occupied'[i] = IF First(i) THEN s ELSE occupied[i]
    BY <1>2 DEF Claim
  <2>2. \A i, j \in Slots : First(i) /\ First(j) => i = j
    BY CapAssumption DEF Slots
  <2>3. \A i \in Slots : occupied[i] # s
    BY <1>2
  <2> HIDE DEF First
  <2>4. QED
    BY <2>1, <2>2, <2>3 DEF OneSlotEach
<1>3. QED
  BY <1>1, <1>2

\* Every step keeps the slots apart.
LEMMA SlotsStep ==
    ASSUME TypeOK, OneSlotEach, [Next]_vars
    PROVE  OneSlotEach'
<1>1. ASSUME NEW s \in Sessions, HandlePad(s)
      PROVE  OneSlotEach'
  <2>1. CASE occupied' = Claim(s)
    BY <1>1, <2>1, ClaimKeepsOne
  <2>2. CASE UNCHANGED occupied
    BY <2>2 DEF OneSlotEach
  <2>3. QED
    BY <1>1, <2>1, <2>2 DEF HandlePad
<1>2. ASSUME NEW s \in Sessions, Release(s)
      PROVE  OneSlotEach'
  BY <1>2, SessionAssumption DEF Release, OneSlotEach
<1>3. ASSUME UNCHANGED occupied
      PROVE  OneSlotEach'
  BY <1>3 DEF OneSlotEach
<1>4. ASSUME NEW s \in Sessions, Accept(s) \/ Connect(s)
      PROVE  UNCHANGED occupied
  BY <1>4 DEF Accept, Register, OfferFails, Describe, Answer, Connect, IceConnected,
              IncrActiveSessions, VideoStart, AudioConnect, AudioStart, StopTicker
<1>5. ASSUME NEW s \in Sessions, Close(s), ~Release(s)
      PROVE  UNCHANGED occupied
  BY <1>5 DEF Close, IceClosed, Remove, CountSessions, ClearKeys, DropCurrent,
              CloseQueues, DecrActiveSessions, VideoStop, AudioDisconnect, AudioStop,
              StartTicker
<1>6. ASSUME NEW s \in Sessions, Messages(s), ~HandlePad(s)
      PROVE  UNCHANGED occupied
  BY <1>6 DEF Messages, Handle, Receive, Enqueue, HandleKey
<1>7. ASSUME TickerFires \/ EnterSleep \/ UNCHANGED vars
      PROVE  UNCHANGED occupied
  BY <1>7 DEF TickerFires, EnterSleep, vars
<1>8. QED
  BY <1>1, <1>2, <1>3, <1>4, <1>5, <1>6, <1>7 DEF Next

\* Every step keeps what is known at each program counter.
LEMMA WhereStep ==
    ASSUME TypeOK, Where, [Next]_vars
    PROVE  Where'
<1> USE DEF TypeOK, Where, Goto, Connecting, Ending
<1>1. ASSUME NEW s \in Sessions, Connect(s)
      PROVE  Where'
  <2>1. CASE IceConnected(s)
    BY <2>1 DEF IceConnected, input
  <2>2. CASE IncrActiveSessions(s)
    BY <2>2 DEF IncrActiveSessions, input
  <2>3. CASE VideoStart(s) \/ AudioConnect(s) \/ AudioStart(s) \/ StopTicker(s)
    BY <2>3 DEF VideoStart, AudioConnect, AudioStart, StopTicker, input
  <2>4. QED
    BY <1>1, <2>1, <2>2, <2>3 DEF Connect
<1>2. ASSUME NEW s \in Sessions, Close(s)
      PROVE  Where'
  <2>1. CASE IceClosed(s) \/ Remove(s) \/ Release(s) \/ CountSessions(s) \/ DropCurrent(s)
    BY <2>1 DEF IceClosed, Remove, Release, CountSessions, DropCurrent, input
  <2>2. CASE ClearKeys(s)
    BY <2>2 DEF ClearKeys
  <2>3. CASE CloseQueues(s)
    BY <2>3 DEF CloseQueues
  <2>4. CASE DecrActiveSessions(s)
    BY <2>4 DEF DecrActiveSessions, input
  <2>5. CASE VideoStop(s) \/ AudioDisconnect(s) \/ AudioStop(s) \/ StartTicker(s)
    BY <2>5 DEF VideoStop, AudioDisconnect, AudioStop, StartTicker, input
  <2>6. QED
    BY <1>2, <2>1, <2>2, <2>3, <2>4, <2>5 DEF Close
<1>3. ASSUME UNCHANGED <<pc, isConnected, actionSessions, queueOpen, audioConns, audio>>
      PROVE  Where'
  BY <1>3
<1>4. QED
  BY <1>1, <1>2, <1>3, StepKinds, Bystander

\* A handler enters Starting only when no session is counted, so when no other
\* handler is there.
LEMMA OneStartsStep ==
    ASSUME TypeOK, BooksAgree, Where, OneStarts, [Next]_vars
    PROVE  OneStarts'
<1>1. ASSUME NEW s \in Sessions, IncrActiveSessions(s)
      PROVE  OneStarts'
  <2>1. CASE actionSessions = 0
    <3>1. \A t \in Sessions : pc[t] \notin Starting
      BY <2>1, CountedPositive DEF Where, Connecting, Starting, Counted
    <3>2. QED
      BY <1>1, <3>1 DEF IncrActiveSessions, Goto, OneStarts, TypeOK
  <2>2. CASE actionSessions # 0
    <3>1. \A t \in Sessions : pc'[t] \in Starting => pc[t] \in Starting
      BY <1>1, <2>2 DEF IncrActiveSessions, Goto, Starting, TypeOK
    <3>2. QED
      BY <3>1 DEF OneStarts
  <2>3. QED
    BY <2>1, <2>2
<1>2. ASSUME NEW s \in Sessions, Connect(s) \/ Close(s), ~IncrActiveSessions(s)
      PROVE  \A t \in Sessions : pc'[t] \in Starting => pc[t] \in Starting
  <2>1. CASE Connect(s)
    BY <1>2, <2>1 DEF Connect, IceConnected, VideoStart, AudioConnect, AudioStart,
                      StopTicker, Goto, Starting, TypeOK
  <2>2. CASE Close(s)
    BY <2>2 DEF Close, IceClosed, Remove, Release, CountSessions, ClearKeys,
                DropCurrent, CloseQueues, DecrActiveSessions, VideoStop,
                AudioDisconnect, AudioStop, StartTicker, Goto, Starting, TypeOK
  <2>3. QED
    BY <1>2, <2>1, <2>2
<1>3. ASSUME UNCHANGED pc
      PROVE  OneStarts'
  BY <1>3 DEF OneStarts
<1>4. ASSUME \A t \in Sessions : pc'[t] \in Starting => pc[t] \in Starting
      PROVE  OneStarts'
  BY <1>4 DEF OneStarts
<1>5. QED
  BY <1>1, <1>2, <1>3, <1>4, StepKinds, Bystander

\* Streaming is switched on only with a session counted, and a decrement to
\* zero is followed by a VideoStop.
LEMMA StreamStep ==
    ASSUME TypeOK, BooksAgree, Where, StreamEnds, [Next]_vars
    PROVE  StreamEnds'
<1> DEFINE Stopping(x) == pc[x] \in {"lastClear", "videoStop"}
<1>1. ASSUME NEW s \in Sessions, IncrActiveSessions(s)
      PROVE  actionSessions' # 0
  BY <1>1 DEF IncrActiveSessions, TypeOK
<1>2. ASSUME NEW s \in Sessions, DecrActiveSessions(s), actionSessions' = 0
      PROVE  Stopping(s)'
  BY <1>2 DEF DecrActiveSessions, Goto, TypeOK
<1>3. ASSUME NEW s \in Sessions, VideoStart(s)
      PROVE  actionSessions' # 0
  <2>1. Counted(s)
    BY <1>3 DEF VideoStart, Where, Connecting, Counted
  <2>2. QED
    BY <1>3, <2>1, CountedPositive DEF VideoStart
<1>4. ASSUME NEW s \in Sessions, VideoStop(s)
      PROVE  ~streaming'
  BY <1>4 DEF VideoStop
<1>5. ASSUME NEW s \in Sessions, Connect(s), ~IncrActiveSessions(s), ~VideoStart(s)
      PROVE  /\ UNCHANGED <<streaming, actionSessions>>
             /\ \A x \in Sessions : Stopping(x) => Stopping(x)'
  BY <1>5 DEF Connect, IceConnected, AudioConnect, AudioStart, StopTicker, Goto, media, TypeOK
<1>6. ASSUME NEW s \in Sessions, Close(s), ~DecrActiveSessions(s), ~VideoStop(s)
      PROVE  /\ UNCHANGED <<streaming, actionSessions>>
             /\ \A x \in Sessions : Stopping(x) => Stopping(x)'
  BY <1>6 DEF Close, IceClosed, Remove, Release, CountSessions, ClearKeys, DropCurrent,
              CloseQueues, AudioDisconnect, AudioStop, StartTicker, Goto, media, TypeOK
<1>7. ASSUME /\ UNCHANGED <<streaming, actionSessions>>
             /\ \A x \in Sessions : Stopping(x) => Stopping(x)'
      PROVE  StreamEnds'
  BY <1>7 DEF StreamEnds
<1>8. ASSUME \/ \E s \in Sessions : Accept(s) \/ Messages(s)
             \/ TickerFires \/ UNCHANGED vars
      PROVE  UNCHANGED <<streaming, actionSessions, pc>>
  BY <1>8 DEF Accept, Register, OfferFails, Describe, Answer, Messages, Handle, Receive, Enqueue,
              HandleKey, HandlePad, TickerFires, vars, media
<1>9. ASSUME EnterSleep
      PROVE  ~streaming'
  BY <1>9 DEF EnterSleep
<1>10. ASSUME NEW s \in Sessions, Connect(s) \/ Close(s)
       PROVE  StreamEnds'
  BY <1>1, <1>2, <1>3, <1>4, <1>5, <1>6, <1>7, <1>10 DEF StreamEnds
<1>11. ASSUME UNCHANGED <<streaming, actionSessions, pc>>
       PROVE  StreamEnds'
  BY <1>11 DEF StreamEnds
<1>12. QED
  BY <1>8, <1>9, <1>10, <1>11, StepKinds DEF StreamEnds

\* The handlers that owe an onWebRTCDisconnect are finitely many.
LEMMA OweFinite ==
    /\ IsFiniteSet(OweDisconnect)
    /\ Cardinality(OweDisconnect) \in Nat
    /\ Cardinality(OweDisconnect) = 0 <=> OweDisconnect = {}
<1>1. OweDisconnect \subseteq Sessions
  BY DEF OweDisconnect
<1>2. IsFiniteSet(OweDisconnect)
  BY <1>1, SessionAssumption, FS_Subset
<1>3. QED
  BY <1>2, FS_CardinalityType, FS_EmptySet

\* A handler that owes an onWebRTCConnect has counted its session.
LEMMA OweIsCounted ==
    ASSUME Where, BooksAgree, OweConnect # {}
    PROVE  actionSessions \in Nat /\ actionSessions > 0
<1>1. PICK s \in Sessions : pc[s] \in {"videoStart", "audioConnect"}
  BY DEF OweConnect
<1>2. Counted(s)
  BY <1>1 DEF Where, Connecting, Counted
<1>3. QED
  BY <1>2, CountedPositive

\* The handler steps other than these four leave the audio counter and who owes
\* it a change alone.
LEMMA OweUnchanged ==
    ASSUME TypeOK, NEW s \in Sessions, Connect(s) \/ Close(s),
           ~IncrActiveSessions(s), ~AudioConnect(s), ~DecrActiveSessions(s),
           ~AudioDisconnect(s)
    PROVE  UNCHANGED <<actionSessions, audioConns, OweConnect, OweDisconnect>>
<1> USE DEF TypeOK, Goto, OweConnect, OweDisconnect, media
<1>1. CASE IceConnected(s) \/ VideoStart(s) \/ AudioStart(s) \/ StopTicker(s)
  BY <1>1 DEF IceConnected, VideoStart, AudioStart, StopTicker
<1>2. CASE \/ IceClosed(s) \/ Remove(s) \/ Release(s) \/ CountSessions(s)
           \/ DropCurrent(s) \/ CloseQueues(s)
  BY <1>2 DEF IceClosed, Remove, Release, CountSessions, DropCurrent, CloseQueues
<1>3. CASE ClearKeys(s)
  BY <1>3 DEF ClearKeys
<1>4. CASE VideoStop(s) \/ AudioStop(s) \/ StartTicker(s)
  BY <1>4 DEF VideoStop, AudioStop, StartTicker
<1>5. QED
  BY <1>1, <1>2, <1>3, <1>4 DEF Connect, Close

\* Every step keeps the audio counter in line with the session counter.
LEMMA AudioBooksStep ==
    ASSUME TypeOK, BooksAgree, Where, OneStarts, AudioBooks, [Next]_vars
    PROVE  AudioBooks'
<1>1. ASSUME NEW s \in Sessions, IncrActiveSessions(s)
      PROVE  AudioBooks'
  <2>1. UNCHANGED <<audioConns, OweDisconnect>>
    BY <1>1 DEF IncrActiveSessions, Goto, OweDisconnect, TypeOK, media
  <2>2. CASE actionSessions = 0
    <3>1. s \in OweConnect'
      BY <1>1, <2>2 DEF IncrActiveSessions, Goto, OweConnect, TypeOK
    <3>2. QED
      BY <2>1, <2>2, <3>1 DEF AudioBooks
  <2>3. CASE actionSessions # 0
    <3>1. OweConnect' = OweConnect /\ actionSessions > 0 /\ actionSessions' > 0
      BY <1>1, <2>3 DEF IncrActiveSessions, Goto, OweConnect, TypeOK
    <3>2. QED
      BY <2>1, <3>1 DEF AudioBooks
  <2>4. QED
    BY <2>2, <2>3
<1>2. ASSUME NEW s \in Sessions, AudioConnect(s)
      PROVE  AudioBooks'
  <2>1. UNCHANGED <<actionSessions, OweDisconnect>>
    BY <1>2 DEF AudioConnect, Goto, OweDisconnect, TypeOK
  <2>2. s \in OweConnect
    BY <1>2 DEF AudioConnect, OweConnect
  <2>3. actionSessions > 0
    BY <2>2, OweIsCounted
  <2>4. OweConnect' = {}
    BY <1>2 DEF AudioConnect, Goto, OweConnect, OneStarts, Starting, TypeOK
  <2>5. QED
    BY <1>2, <2>1, <2>2, <2>3, <2>4, OweFinite DEF AudioBooks, AudioConnect
<1>3. ASSUME NEW s \in Sessions, DecrActiveSessions(s)
      PROVE  AudioBooks'
  <2>1. Counted(s)
    BY <1>3 DEF DecrActiveSessions, Where, Counted
  <2>2. actionSessions \in Nat /\ actionSessions > 0
    BY <2>1, CountedPositive
  <2>3. OweConnect' = OweConnect /\ audioConns' = audioConns
    BY <1>3 DEF DecrActiveSessions, Goto, OweConnect, TypeOK, media
  <2>4. CASE actionSessions = 1
    <3>1. OweDisconnect' = OweDisconnect \cup {s} /\ s \notin OweDisconnect
      BY <1>3, <2>4 DEF DecrActiveSessions, Goto, OweDisconnect, TypeOK
    <3>2. Cardinality(OweDisconnect') = Cardinality(OweDisconnect) + 1
      BY <3>1, OweFinite, FS_AddElement
    <3>3. BooksAgree' /\ Where'
      BY BooksStep, WhereStep
    <3>4. OweConnect' = {}
      <4>1. actionSessions' = 0
        BY <1>3, <2>4 DEF DecrActiveSessions
      <4>2. ASSUME NEW t \in Sessions, pc'[t] \in {"videoStart", "audioConnect"}
            PROVE  FALSE
        <5>1. t \in CountedSet'
          BY <3>3, <4>2 DEF Where, Connecting, CountedSet, Counted
        <5>2. IsFiniteSet(CountedSet')
          <6>1. CountedSet' \subseteq Sessions
            BY DEF CountedSet
          <6>2. QED
            BY <6>1, SessionAssumption, FS_Subset
        <5>3. Cardinality(CountedSet') # 0
          BY <5>1, <5>2, FS_EmptySet
        <5>4. QED
          BY <4>1, <5>3, CounterStep
      <4>3. QED
        BY <4>2 DEF OweConnect
    <3>5. QED
      BY <1>3, <2>3, <2>4, <3>2, <3>4, OweFinite DEF AudioBooks, DecrActiveSessions
  <2>5. CASE actionSessions # 1
    <3>1. OweDisconnect' = OweDisconnect
      BY <1>3, <2>2, <2>5 DEF DecrActiveSessions, Goto, OweDisconnect, TypeOK
    <3>2. actionSessions' > 0
      BY <1>3, <2>2, <2>5 DEF DecrActiveSessions
    <3>3. QED
      BY <2>2, <2>3, <3>1, <3>2 DEF AudioBooks
  <2>6. QED
    BY <2>4, <2>5
<1>4. ASSUME NEW s \in Sessions, AudioDisconnect(s)
      PROVE  AudioBooks'
  <2>1. OweDisconnect' = OweDisconnect \ {s} /\ s \in OweDisconnect
    BY <1>4 DEF AudioDisconnect, Goto, OweDisconnect, TypeOK
  <2>2. Cardinality(OweDisconnect') = Cardinality(OweDisconnect) - 1
    BY <2>1, OweFinite, FS_RemoveElement
  <2>3. OweConnect' = OweConnect /\ actionSessions' = actionSessions
    BY <1>4 DEF AudioDisconnect, Goto, OweConnect, TypeOK
  <2>4. QED
    BY <1>4, <2>2, <2>3, OweFinite DEF AudioBooks, AudioDisconnect
<1>5. ASSUME UNCHANGED <<actionSessions, audioConns, OweConnect, OweDisconnect>>
      PROVE  AudioBooks'
  BY <1>5 DEF AudioBooks
<1>6. ASSUME UNCHANGED <<pc, isConnected, actionSessions, queueOpen, audioConns, audio>>
      PROVE  UNCHANGED <<actionSessions, audioConns, OweConnect, OweDisconnect>>
  BY <1>6 DEF OweConnect, OweDisconnect
<1>7. QED
  BY <1>1, <1>2, <1>3, <1>4, <1>5, <1>6, StepKinds, Bystander, OweUnchanged

\* The handler that brings the audio counter to zero is the last that owes it a
\* decrement, and goes on to stopAudio.
LEMMA AudioEndsStep ==
    ASSUME TypeOK, BooksAgree, Where, AudioBooks, AudioEnds, [Next]_vars
    PROVE  AudioEnds'
<1> DEFINE Stopping == \E x \in Sessions : pc[x] = "audioStop"
<1>1. ASSUME NEW s \in Sessions, IncrActiveSessions(s)
      PROVE  AudioEnds'
  BY <1>1 DEF IncrActiveSessions, TypeOK, AudioEnds
<1>2. ASSUME NEW s \in Sessions, AudioConnect(s) \/ AudioStart(s)
      PROVE  AudioEnds'
  <2>1. Counted(s)
    BY <1>2 DEF AudioConnect, AudioStart, Where, Connecting, Counted
  <2>2. actionSessions > 0 /\ UNCHANGED actionSessions
    BY <1>2, <2>1, CountedPositive DEF AudioConnect, AudioStart
  <2>3. QED
    BY <2>2 DEF AudioEnds
<1>3. ASSUME NEW s \in Sessions, DecrActiveSessions(s)
      PROVE  AudioEnds'
  <2>1. actionSessions' = 0 => s \in OweDisconnect'
    BY <1>3 DEF DecrActiveSessions, Goto, OweDisconnect, TypeOK
  <2>2. QED
    BY <2>1 DEF AudioEnds
<1>4. ASSUME NEW s \in Sessions, AudioDisconnect(s)
      PROVE  AudioEnds'
  <2>1. SUFFICES ASSUME actionSessions = 0, OweDisconnect' = {}
                 PROVE  pc'[s] = "audioStop"
    BY <1>4 DEF AudioEnds, AudioDisconnect
  <2>2. OweDisconnect = {s}
    BY <1>4, <2>1 DEF AudioDisconnect, Goto, OweDisconnect, TypeOK
  <2>3. Cardinality(OweDisconnect) = 1
    BY <2>2, FS_Singleton
  <2>4. audioConns = 1
    BY <2>1, <2>3 DEF AudioBooks
  <2>5. QED
    BY <1>4, <2>4 DEF AudioDisconnect, Goto, TypeOK
<1>5. ASSUME NEW s \in Sessions, AudioStop(s)
      PROVE  AudioEnds'
  BY <1>5 DEF AudioStop, AudioEnds
<1>6. ASSUME NEW s \in Sessions, Connect(s) \/ Close(s), ~IncrActiveSessions(s),
             ~AudioConnect(s), ~AudioStart(s), ~DecrActiveSessions(s),
             ~AudioDisconnect(s), ~AudioStop(s)
      PROVE  AudioEnds'
  <2>1. UNCHANGED <<actionSessions, OweDisconnect>>
    BY <1>6, OweUnchanged
  <2>2. UNCHANGED audio
    BY <1>6 DEF Connect, Close, IceConnected, VideoStart, StopTicker, IceClosed, Remove,
                Release, CountSessions, ClearKeys, DropCurrent, CloseQueues, VideoStop,
                StartTicker, media
  <2>3. Stopping => Stopping'
    BY <1>6 DEF Connect, Close, IceConnected, VideoStart, StopTicker, IceClosed, Remove,
                Release, CountSessions, ClearKeys, DropCurrent, CloseQueues, VideoStop,
                StartTicker, Goto, TypeOK
  <2>4. QED
    BY <2>1, <2>2, <2>3 DEF AudioEnds
<1>7. ASSUME UNCHANGED <<pc, isConnected, actionSessions, queueOpen, audioConns, audio>>
      PROVE  AudioEnds'
  BY <1>7 DEF AudioEnds, OweDisconnect
<1>8. QED
  BY <1>1, <1>2, <1>3, <1>4, <1>5, <1>6, <1>7, StepKinds, Bystander

\* A message enters an open queue of a connected session only, and the session
\* stays connected until its queues are closed.
LEMMA OpenStep ==
    ASSUME TypeOK, Where, OpenIsConnected, [Next]_vars
    PROVE  OpenIsConnected'
<1> USE DEF TypeOK, OpenIsConnected
<1>1. ASSUME NEW s \in Sessions, Accept(s)
      PROVE  OpenIsConnected'
  BY <1>1 DEF Accept, Register, OfferFails, Describe, Answer, input
<1>2. ASSUME NEW s \in Sessions, Connect(s)
      PROVE  OpenIsConnected'
  BY <1>2 DEF Connect, IceConnected, IncrActiveSessions, VideoStart, AudioConnect,
              AudioStart, StopTicker, input
<1>3. ASSUME NEW s \in Sessions, DecrActiveSessions(s)
      PROVE  OpenIsConnected'
  BY <1>3 DEF DecrActiveSessions, Where, input
<1>4. ASSUME NEW s \in Sessions, CloseQueues(s)
      PROVE  OpenIsConnected'
  BY <1>4 DEF CloseQueues
<1>5. ASSUME NEW s \in Sessions, Close(s), ~DecrActiveSessions(s), ~CloseQueues(s)
      PROVE  OpenIsConnected'
  BY <1>5 DEF Close, IceClosed, Remove, Release, CountSessions, ClearKeys, DropCurrent,
              VideoStop, AudioDisconnect, AudioStop, StartTicker, input
<1>6. ASSUME NEW s \in Sessions, NEW q \in Kinds, Receive(s, q)
      PROVE  OpenIsConnected'
  BY <1>6 DEF Receive
<1>7. ASSUME NEW s \in Sessions, NEW q \in Kinds, Enqueue(s, q)
      PROVE  OpenIsConnected'
  BY <1>7 DEF Enqueue
<1>8. ASSUME NEW s \in Sessions, HandleKey(s)
      PROVE  OpenIsConnected'
  BY <1>8, CapAssumption DEF HandleKey
<1>9. ASSUME NEW s \in Sessions, HandlePad(s)
      PROVE  OpenIsConnected'
  BY <1>9, CapAssumption DEF HandlePad
<1>10. CASE TickerFires \/ EnterSleep \/ UNCHANGED vars
  BY <1>10 DEF TickerFires, EnterSleep, vars, input
<1>11. QED
  BY <1>1, <1>2, <1>3, <1>4, <1>5, <1>6, <1>7, <1>8, <1>9, <1>10 DEF Next, Messages, Handle

\* A key goes down before the close only for a session that is counted or about
\* to be; the decrement to zero is followed by a clear.
LEMMA KeysStep ==
    ASSUME TypeOK, BooksAgree, Where, OpenIsConnected, KeysEnd, [Next]_vars
    PROVE  KeysEnd'
<1> DEFINE Clearing == \E s \in Sessions : pc[s] = "lastClear"
<1>1. ASSUME NEW s \in Sessions, HandleKey(s)
      PROVE  KeysEnd'
  <2>1. UNCHANGED <<actionSessions, pc>>
    BY <1>1 DEF HandleKey
  <2>2. CASE queueOpen[s]
    <3>1. isConnected[s]
      BY <1>1, <2>2 DEF HandleKey, OpenIsConnected
    <3>2. actionSessions > 0 \/ pc[s] = "incr"
      BY <3>1, CountedPositive DEF Counted
    <3>3. held' \ late' \subseteq (held \ late) \cup {s}
      BY <1>1, <2>2 DEF HandleKey
    <3>4. QED
      BY <2>1, <3>2, <3>3 DEF KeysEnd
  <2>3. CASE ~queueOpen[s]
    <3>1. held' \ late' \subseteq held \ late
      BY <1>1, <2>3 DEF HandleKey
    <3>2. QED
      BY <2>1, <3>1 DEF KeysEnd
  <2>4. QED
    BY <2>2, <2>3
<1>2. ASSUME NEW s \in Sessions, ClearKeys(s)
      PROVE  KeysEnd'
  BY <1>2 DEF ClearKeys, KeysEnd
<1>3. ASSUME NEW s \in Sessions, IncrActiveSessions(s)
      PROVE  KeysEnd'
  BY <1>3 DEF IncrActiveSessions, TypeOK, KeysEnd
<1>4. ASSUME NEW s \in Sessions, DecrActiveSessions(s)
      PROVE  KeysEnd'
  <2>1. Counted(s)
    BY <1>4 DEF DecrActiveSessions, Where, Counted
  <2>2. actionSessions \in Nat /\ actionSessions > 0
    BY <2>1, CountedPositive
  <2>3. actionSessions' > 0 \/ pc'[s] = "lastClear"
    BY <1>4, <2>2 DEF DecrActiveSessions, Goto, TypeOK
  <2>4. QED
    BY <2>3 DEF KeysEnd
<1>5. ASSUME NEW s \in Sessions, Connect(s) \/ Close(s),
             ~ClearKeys(s), ~IncrActiveSessions(s), ~DecrActiveSessions(s)
      PROVE  KeysEnd'
  <2>1. UNCHANGED <<held, late, actionSessions>>
    BY <1>5 DEF Connect, Close, IceConnected, VideoStart, AudioConnect, AudioStart,
                StopTicker, IceClosed, Remove, Release, CountSessions, DropCurrent,
                CloseQueues, VideoStop, AudioDisconnect, AudioStop, StartTicker, input
  <2>2. /\ Clearing => Clearing'
        /\ \A x \in Sessions : pc[x] = "incr" => pc'[x] = "incr"
    BY <1>5 DEF Connect, Close, IceConnected, VideoStart, AudioConnect, AudioStart,
                StopTicker, IceClosed, Remove, Release, CountSessions, DropCurrent,
                CloseQueues, VideoStop, AudioDisconnect, AudioStop, StartTicker, Goto, TypeOK
  <2>3. held \subseteq Sessions
    BY DEF TypeOK
  <2>4. QED
    BY <2>1, <2>2, <2>3 DEF KeysEnd
<1>6. ASSUME \/ \E s \in Sessions : Accept(s) \/ (Messages(s) /\ ~HandleKey(s))
             \/ TickerFires \/ EnterSleep \/ UNCHANGED vars
      PROVE  UNCHANGED <<held, late, actionSessions, pc>>
  BY <1>6 DEF Accept, Register, OfferFails, Describe, Answer, Messages, Handle, Receive, Enqueue,
              HandlePad, TickerFires, EnterSleep, vars, input
<1>7. ASSUME UNCHANGED <<held, late, actionSessions, pc>>
      PROVE  KeysEnd'
  BY <1>7 DEF KeysEnd
<1>8. QED
  BY <1>1, <1>2, <1>3, <1>4, <1>5, <1>6, <1>7, StepKinds

-----------------------------------------------------------------------------
(***************************************************************************)
(* The theorems.                                                           *)
(***************************************************************************)

\* The inductive invariant holds at boot.
LEMMA InitInvariant ==
    ASSUME Init
    PROVE  IInv
<1> USE SessionAssumption, CapAssumption DEF Init
<1>1. TypeOK
  <2>1. \A s \in Sessions, q \in Kinds : received[s][q] <= MaxMessages[q]
    OBVIOUS
  <2>2. ticker \in {"off", "armed", "spent"}
    OBVIOUS
  <2>3. queued \in [Sessions -> [Kinds -> 0..QueueCap]] /\ received \in [Sessions -> [Kinds -> Nat]]
    OBVIOUS
  <2>4. pc \in [Sessions -> Handler] /\ occupied \in [Slots -> Sessions \cup {None}]
    BY DEF Handler
  <2>5. phase \in [Sessions -> {"new", "registered", "failed", "described", "answered"}]
    OBVIOUS
  <2>6. receiving \in [Sessions -> SUBSET Kinds]
    OBVIOUS
  <2>7. isConnected \in [Sessions -> BOOLEAN] /\ queueOpen \in [Sessions -> BOOLEAN]
    OBVIOUS
  <2>8. /\ byID \subseteq Sessions /\ held \subseteq Sessions /\ late \subseteq Sessions
        /\ primary \in Sessions \cup {None} /\ currentSession \in Sessions \cup {None}
        /\ actionSessions \in Nat /\ sleeper \in Nat /\ audioConns \in Int
    OBVIOUS
  <2>9. streaming \in BOOLEAN /\ audio \in BOOLEAN
    BY Zenon
  <2> HIDE DEF Init
  <2>10. QED
    BY <2>1, <2>2, <2>3, <2>4, <2>5, <2>6, <2>7, <2>8, <2>9 DEF TypeOK
<1>2. {s \in Sessions : Counted(s)} = {} /\ OweDisconnect = {}
  BY DEF Counted, OweDisconnect
<1>3. BooksAgree
  BY <1>2, FS_EmptySet DEF BooksAgree
<1>4. AudioBooks
  BY <1>2, FS_EmptySet DEF AudioBooks
<1>5. OneSlotEach /\ Where /\ OneStarts /\ StreamEnds /\ AudioEnds
  BY DEF OneSlotEach, Where, Connecting, Ending, OneStarts, Starting, StreamEnds, AudioEnds
<1>6. OpenIsConnected /\ KeysEnd
  BY DEF OpenIsConnected, KeysEnd
<1>7. QED
  BY <1>1, <1>3, <1>4, <1>5, <1>6 DEF IInv

\* Every step of every handler, callback and timer keeps the inductive invariant.
LEMMA NextInvariant ==
    ASSUME IInv, [Next]_vars
    PROVE  IInv'
BY TypeStep, BooksStep, SlotsStep, WhereStep, OneStartsStep, StreamStep, AudioBooksStep,
   AudioEndsStep, OpenStep, KeysStep DEF IInv

\* The inductive invariant holds in every reachable state.
THEOREM SessionInvariant == Spec => []IInv
BY InitInvariant, NextInvariant, PTL DEF Spec

\* Every variable keeps its type: the session counter never goes below zero and no
\* HID queue ever holds more than its capacity.
THEOREM TypeCorrect == Spec => []TypeOK
<1>1. IInv => TypeOK
  BY DEF IInv
<1>2. QED
  BY <1>1, SessionInvariant, PTL

\* activeSessions is the number of sessions between their increment and their
\* decrement, and the registry's primary session is one that is registered, in
\* every interleaving of the handlers of any number of sessions.
THEOREM BooksAlwaysAgree == Spec => []BooksAgree
<1>1. IInv => BooksAgree
  BY DEF IInv
<1>2. QED
  BY <1>1, SessionInvariant, PTL

\* gamepadSlots never gives one session two slots.
THEOREM SlotsStayApart == Spec => []OneSlotEach
<1>1. IInv => OneSlotEach
  BY DEF IInv
<1>2. QED
  BY <1>1, SessionInvariant, PTL

\* When the last session has left and the handlers have returned, the encoder
\* and the audio capture are off, however the handlers of sessions that came
\* and went in between interleaved.
THEOREM NothingRunsIdle == Spec => []IdleIsOff
<1>1. IInv => IdleIsOff
  BY DEF IInv, IdleIsOff, Quiet, StreamEnds, AudioEnds, OweDisconnect
<1>2. QED
  BY <1>1, SessionInvariant, PTL

\* When the last session has left and the handlers have returned, every key
\* still down comes from a message handled after its session's close.
THEOREM NoKeyLeftDown == Spec => []OnlyLateKeysHeld
<1>1. IInv => OnlyLateKeysHeld
  <2> SUFFICES ASSUME IInv, Quiet, actionSessions = 0, NEW x \in held, x \notin late
               PROVE  FALSE
    BY DEF OnlyLateKeysHeld
  <2>1. x \in Sessions
    BY DEF IInv, TypeOK
  <2>2. pc[x] = "incr" \/ \E s \in Sessions : pc[s] = "lastClear"
    BY DEF IInv, KeysEnd
  <2>3. QED
    BY <2>1, <2>2 DEF Quiet
<1>2. QED
  BY <1>1, SessionInvariant, PTL
=============================================================================

------------------------ MODULE AudioPipelineProofs -------------------------
(***************************************************************************)
(* Proofs about AudioPipeline, for every number of controllers, relays,    *)
(* control operations and failures, every frame size and every short read. *)
(***************************************************************************)
EXTENDS AudioPipeline, FiniteSetTheorems, TLAPS

-----------------------------------------------------------------------------
(***************************************************************************)
(* The parts of the inductive invariant.                                   *)
(***************************************************************************)

\* Every connection was counted by an operation of its own.
ConnsCounted == conns <= operations

\* The part of stopOutputLocked after Stop has begun, and the part after Wait.
Stopping == {"wait", "disconnect", "close", "release"}
Joined   == {"disconnect", "close", "release"}

\* audioMutex is held exactly by the controller inside stopOutputLocked, which has
\* a source to stop, and after its Wait the loop of that source has ended.
LockInv ==
    \A p \in Controllers :
      /\ mutex = p <=> op[p] \in Stopping
      /\ op[p] \in Stopping => source # None
      /\ op[p] \in Joined => at[source] = "exited"

\* The loop of a source that has been dropped is gone, and that of the one there
\* is exists.
OneRelay ==
    \A r \in Relays :
      /\ r # source => at[r] = "none" /\ ~connected[r]
      /\ r = source => at[r] # "none"

\* The states the C globals of a direction pass through, in this order.
IsClosed(d)  == ~c[d].initializing /\ ~c[d].initialized /\ c[d].handle = None /\ ~c[d].codec
IsOpening(d) == c[d].initializing /\ ~c[d].initialized /\ c[d].handle = None /\ ~c[d].codec
IsOpened(d)  == c[d].initializing /\ ~c[d].initialized /\ c[d].handle # None /\ ~c[d].codec
IsReady(d)   == ~c[d].initializing /\ c[d].initialized /\ c[d].handle # None /\ c[d].codec
IsEnding(d)  == ~c[d].initializing /\ ~c[d].initialized /\ c[d].handle # None /\ c[d].codec

\* The places of a loop outside of init and close, and those among them that it
\* reaches only with a connected source.
Outside == {"none", "top", "init", "read", "io", "deliver", "failed", "disconnect", "exited"}
Served  == {"read", "io", "deliver", "failed", "disconnect"}

\* What the globals of the direction of t are while its loop is at each place; the
\* field connected of the source agrees with them except during a close.
Uses(t) ==
    /\ at[t] \in {"open", "fallback"} => ~connected[t] /\ IsOpening(Dir(t))
    /\ at[t] \in {"configure", "codec"} => ~connected[t] /\ IsOpened(Dir(t))
    /\ at[t] = "close" => connected[t] /\ IsEnding(Dir(t))
    /\ at[t] \in Served => connected[t]
    /\ at[t] \in Outside /\ (t = Mic \/ \A p \in Controllers : op[p] \notin {"close", "release"}) =>
         IF connected[t] THEN IsReady(Dir(t)) ELSE IsClosed(Dir(t))

\* The globals of the output while a controller closes them, and without a source.
Stopped ==
    /\ \A p \in Controllers : /\ op[p] = "close" => connected[source] /\ IsEnding("output")
                              /\ op[p] = "release" => IsClosed("output")
    /\ source = None => IsClosed("output")

Resources == Stopped /\ \A t \in Users : t \in {Mic, source} => Uses(t)

\* Every handle and every codec that exists is the one the globals point to.
Balanced ==
    \A d \in Directions : /\ opened[d] = IF c[d].handle = None THEN 0 ELSE 1
                          /\ codecs[d] = IF c[d].codec THEN 1 ELSE 0

\* What a control operation that overlaps with no other knows: the output is as
\* wanted when it begins, and what is left to do makes it so again.
Alone ==
    ~crossed =>
      /\ \A p, q \in Controllers : op[p] # "idle" /\ op[q] # "idle" => p = q
      /\ (\A p \in Controllers : op[p] = "idle") => (source # None <=> Wanted)
      /\ \A p \in Controllers :
           /\ op[p] = "check" => (source # None <=> Wanted) \/ (source = None /\ enabled)
           /\ op[p] = "start" => conns > 0 /\ (source = None \/ enabled)
           /\ op[p] \in {"stop"} \cup Stopping => ~Wanted

IInv ==
    /\ TypeOK /\ ConnsCounted /\ LockInv /\ OneRelay /\ Resources /\ Balanced
    /\ Alone /\ PaddedWithSilence

-----------------------------------------------------------------------------
(***************************************************************************)
(* What the steps of a loop change.                                        *)
(***************************************************************************)

\* The type of the globals of one direction.
Globals == [initializing : BOOLEAN, initialized : BOOLEAN,
            handle : {None, Device, "default"}, codec : BOOLEAN]

\* A user has a direction, and only the input handler has the input.
LEMMA Direction ==
    ASSUME NEW t \in Users
    PROVE  /\ Dir(t) \in Directions
           /\ t = Mic => Dir(t) = "input"
           /\ t # Mic => Dir(t) = "output" /\ t \in Relays
           /\ None \notin Users
BY UserAssumption DEF Dir, Directions, Users

\* Closing the handle of a direction leaves none open in it.
LEMMA ClosesHandle ==
    ASSUME TypeOK, Balanced, NEW d \in Directions, HandleClosed(d)
    PROVE  /\ opened' \in [Directions -> Nat]
           /\ opened'[d] = 0
           /\ \A e \in Directions \ {d} : opened'[e] = opened[e]
BY DEF TypeOK, Balanced, HandleClosed

\* Destroying the codec of a direction leaves none in it.
LEMMA DestroysCodec ==
    ASSUME TypeOK, Balanced, NEW d \in Directions, CodecDestroyed(d)
    PROVE  /\ codecs' \in [Directions -> Nat]
           /\ codecs'[d] = 0
           /\ \A e \in Directions \ {d} : codecs'[e] = codecs[e]
<1>1. CASE c[d].codec
  <2>1. codecs[d] = 1 /\ codecs' = [codecs EXCEPT ![d] = @ - 1]
    BY <1>1 DEF Balanced, CodecDestroyed
  <2>2. QED
    BY <2>1 DEF TypeOK
<1>2. CASE ~c[d].codec
  <2>1. codecs[d] = 0 /\ codecs' = [codecs EXCEPT ![d] = @]
    BY <1>2 DEF Balanced, CodecDestroyed
  <2>2. QED
    BY <2>1 DEF TypeOK
<1>3. QED
  BY <1>1, <1>2

\* An error of init leaves the globals closed if there was no codec yet.
LEMMA ClearsInitializing ==
    ASSUME TypeOK, NEW d \in Directions, ClearInitializing(d),
           ~c[d].initialized, ~c[d].codec
    PROVE  /\ c' \in [Directions -> Globals]
           /\ IsClosed(d)'
           /\ \A e \in Directions \ {d} : c'[e] = c[e]
<1>1. c[d] \in Globals /\ c \in [Directions -> Globals]
  BY DEF TypeOK, Globals
<1>2. c' = [c EXCEPT ![d] = [@ EXCEPT !.handle = None, !.initializing = FALSE]]
  BY DEF ClearInitializing
<1>3. c'[d] = [c[d] EXCEPT !.handle = None, !.initializing = FALSE]
  BY <1>1, <1>2
<1>4. c'[d] \in Globals
  BY <1>1, <1>3 DEF Globals
<1>5. c' \in [Directions -> Globals] /\ \A e \in Directions \ {d} : c'[e] = c[e]
  BY <1>1, <1>2, <1>4
<1>6. IsClosed(d)'
  BY <1>1, <1>3 DEF Globals, IsClosed
<1>7. QED
  BY <1>5, <1>6

\* The globals at the end of a successful init.
LEMMA Readies ==
    ASSUME TypeOK, NEW d \in Directions, IsOpened(d),
           c' = [c EXCEPT ![d].codec = TRUE, ![d].initialized = TRUE, ![d].initializing = FALSE]
    PROVE  /\ c' \in [Directions -> Globals]
           /\ IsReady(d)'
           /\ \A e \in Directions \ {d} : c'[e] = c[e]
<1>1. c[d] \in Globals /\ c \in [Directions -> Globals]
  BY DEF TypeOK, Globals
<1>2. c' = [c EXCEPT ![d] = [@ EXCEPT !.codec = TRUE, !.initialized = TRUE,
                                      !.initializing = FALSE]]
  OBVIOUS
<1>3. c'[d] = [c[d] EXCEPT !.codec = TRUE, !.initialized = TRUE, !.initializing = FALSE]
  BY <1>1, <1>2
<1>4. c'[d] \in Globals
  BY <1>1, <1>3 DEF Globals
<1>5. c' \in [Directions -> Globals] /\ \A e \in Directions \ {d} : c'[e] = c[e]
  BY <1>1, <1>2, <1>4
<1>6. IsReady(d)'
  BY <1>1, <1>3 DEF Globals, IsReady, IsOpened
<1>7. QED
  BY <1>5, <1>6

\* The globals after the end of a close.
LEMMA Destroys ==
    ASSUME TypeOK, NEW d \in Directions, Destroy(d),
           ~c[d].initializing, ~c[d].initialized
    PROVE  /\ c' \in [Directions -> Globals]
           /\ IsClosed(d)'
           /\ \A e \in Directions \ {d} : c'[e] = c[e]
BY DEF TypeOK, Globals, Destroy, IsClosed

\* What a loop step leaves alone: the control, the other users and the globals of
\* the other direction.
Elsewhere(t) ==
    /\ UNCHANGED control
    /\ at[t] \notin {"none", "exited"} /\ at'[t] # "none"
    /\ \A u \in Users \ {t} : at'[u] = at[u] /\ connected'[u] = connected[u]
    /\ \A d \in Directions \ {Dir(t)} :
         c'[d] = c[d] /\ opened'[d] = opened[d] /\ codecs'[d] = codecs[d]

\* The types of what a loop step changes.
LoopTypes ==
    /\ connected \in [Users -> BOOLEAN]
    /\ at \in [Users -> {"none", "top", "init", "open", "fallback", "configure", "codec",
                         "read", "io", "deliver", "failed", "disconnect", "close", "exited"}]
    /\ tries \in [Users -> 0..(MaxAttempts - 1)]
    /\ c \in [Directions -> Globals]
    /\ opened \in [Directions -> Nat] /\ codecs \in [Directions -> Nat]
    /\ faults \in 0..MaxFaults

\* The books of one direction.
BalancedIn(d) == /\ opened[d] = IF c[d].handle = None THEN 0 ELSE 1
                 /\ codecs[d] = IF c[d].codec THEN 1 ELSE 0

\* What a loop step has to establish for its user.
LoopGoal(t) == LoopTypes' /\ Elsewhere(t) /\ Uses(t)' /\ BalancedIn(Dir(t))'

\* A failure is counted within its bound.
LEMMA FaultCounted ==
    ASSUME TypeOK, Fault
    PROVE  faults' \in 0..MaxFaults
BY BoundAssumption DEF TypeOK, Fault

\* The step of a loop that only moves on, outside of init and close.
LEMMA LoopMoves ==
    ASSUME TypeOK, Balanced, NEW t \in Users, Uses(t),
           t = Mic \/ \A p \in Controllers : op[p] \notin {"close", "release"},
           UNCHANGED <<control, connected, cstate>>,
           tries' \in [Users -> 0..(MaxAttempts - 1)], faults' \in 0..MaxFaults,
           at[t] \in Outside \ {"none", "exited"},
           NEW l \in Outside \ {"none"}, at' = [at EXCEPT ![t] = l],
           l \in Served => connected[t]
    PROVE  LoopGoal(t)
<1>1. LoopTypes'
  BY DEF TypeOK, LoopTypes, Globals, Outside, cstate
<1>2. Elsewhere(t)
  BY DEF TypeOK, Elsewhere, Outside, cstate
<1>3. UNCHANGED <<IsClosed(Dir(t)), IsReady(Dir(t)), op>>
  BY DEF IsClosed, IsReady, cstate, control
<1>4. Uses(t)'
  BY <1>3 DEF Uses, TypeOK, Outside, Served
<1>5. BalancedIn(Dir(t))'
  BY Direction DEF Balanced, BalancedIn, cstate
<1>6. QED
  BY <1>1, <1>2, <1>4, <1>5 DEF LoopGoal

\* The step of a loop that fails in init: the handle is closed and the globals are
\* as before the call.
LEMMA LoopInitFails ==
    ASSUME TypeOK, Balanced, NEW t \in Users, Uses(t), UNCHANGED control,
           at[t] \in {"open", "fallback", "configure", "codec"},
           \/ HandleClosed(Dir(t))
           \/ at[t] \in {"open", "fallback"} /\ UNCHANGED opened,
           ClearInitializing(Dir(t)), InitFails(t), UNCHANGED codecs, Fault
    PROVE  LoopGoal(t)
<1> DEFINE d == Dir(t)
<1>1. d \in Directions
  BY Direction
<1>2. ~connected[t] /\ ~c[d].initialized /\ ~c[d].codec
  BY DEF Uses, IsOpening, IsOpened
<1>3. /\ c' \in [Directions -> Globals]
      /\ IsClosed(d)'
      /\ \A e \in Directions \ {d} : c'[e] = c[e]
  BY <1>1, <1>2, ClearsInitializing
<1>4. /\ opened' \in [Directions -> Nat]
      /\ opened'[d] = 0
      /\ \A e \in Directions \ {d} : opened'[e] = opened[e]
  <2>1. CASE HandleClosed(d)
    BY <1>1, <2>1, ClosesHandle
  <2>2. CASE at[t] \in {"open", "fallback"} /\ UNCHANGED opened
    BY <1>1, <2>2 DEF Uses, IsOpening, Balanced, TypeOK
  <2>3. QED
    BY <2>1, <2>2
<1>5. codecs'[d] = 0 /\ codecs' = codecs
  BY <1>1, <1>2 DEF Balanced
<1> HIDE DEF d
<1>6. /\ connected' = connected /\ at' = [at EXCEPT ![t] = "top"]
      /\ tries' \in [Users -> 0..(MaxAttempts - 1)]
  BY DEF InitFails, Move, TypeOK, MaxAttempts
<1>7. LoopTypes'
  BY <1>3, <1>4, <1>5, <1>6, FaultCounted DEF LoopTypes, TypeOK
<1>8. Elsewhere(t)
  BY <1>3, <1>4, <1>5, <1>6 DEF Elsewhere, TypeOK, d
<1>9. Uses(t)'
  BY <1>2, <1>3, <1>6 DEF Uses, TypeOK, Served, d
<1>10. BalancedIn(d)'
  BY <1>3, <1>4, <1>5 DEF BalancedIn, IsClosed
<1>11. QED
  BY <1>7, <1>8, <1>9, <1>10 DEF LoopGoal, d

\* The step of a loop whose call of snd_pcm_open is successful.
LEMMA LoopOpens ==
    ASSUME TypeOK, Balanced, NEW t \in Users, Uses(t), UNCHANGED control,
           at[t] \in {"open", "fallback"},
           NEW device \in {Device, "default"}, Opens(t, device)
    PROVE  LoopGoal(t)
<1> DEFINE d == Dir(t)
<1>1. d \in Directions
  BY Direction
<1>2. ~connected[t] /\ IsOpening(d)
  BY DEF Uses
<1>3. /\ c' \in [Directions -> Globals]
      /\ \A e \in Directions \ {d} : c'[e] = c[e]
  BY <1>1 DEF Opens, TypeOK, Globals
<1>4. IsOpened(d)'
  BY <1>1, <1>2, HandleAssumption DEF Opens, TypeOK, IsOpening, IsOpened
<1>5. /\ opened' \in [Directions -> Nat] /\ codecs' = codecs
      /\ opened'[d] = 1 /\ codecs[d] = 0
      /\ \A e \in Directions \ {d} : opened'[e] = opened[e]
  BY <1>1, <1>2 DEF Opens, TypeOK, Balanced, IsOpening
<1>6. /\ connected' = connected /\ faults' = faults /\ at' = [at EXCEPT ![t] = "configure"]
      /\ tries' \in [Users -> 0..(MaxAttempts - 1)]
  BY DEF Opens, Move, TypeOK, MaxAttempts
<1> HIDE DEF d
<1>7. LoopTypes'
  BY <1>3, <1>5, <1>6 DEF LoopTypes, TypeOK
<1>8. Elsewhere(t)
  BY <1>3, <1>5, <1>6 DEF Elsewhere, TypeOK, d
<1>9. Uses(t)'
  BY <1>2, <1>4, <1>6 DEF Uses, TypeOK, Outside, Served, d
<1>10. BalancedIn(d)'
  BY <1>4, <1>5 DEF BalancedIn, IsOpened
<1>11. QED
  BY <1>7, <1>8, <1>9, <1>10 DEF LoopGoal, d

\* The step of a loop whose call of snd_pcm_open fails and is tried again, at the
\* same device or, at the end of the attempts, at the default one.
LEMMA LoopOpenAgain ==
    ASSUME TypeOK, Balanced, NEW t \in Users, Uses(t),
           UNCHANGED <<control, cstate, connected>>,
           at[t] \in {"open", "fallback"}, Fault,
           tries' \in [Users -> 0..(MaxAttempts - 1)],
           NEW l \in {"open", "fallback"}, at' = [at EXCEPT ![t] = l]
    PROVE  LoopGoal(t)
<1>1. LoopTypes'
  BY FaultCounted DEF TypeOK, LoopTypes, Globals, cstate
<1>2. Elsewhere(t)
  BY DEF TypeOK, Elsewhere, cstate
<1>3. UNCHANGED IsOpening(Dir(t))
  BY DEF IsOpening, cstate
<1>4. Uses(t)'
  BY <1>3 DEF Uses, TypeOK, Outside, Served
<1>5. BalancedIn(Dir(t))'
  BY Direction DEF Balanced, BalancedIn, cstate
<1>6. QED
  BY <1>1, <1>2, <1>4, <1>5 DEF LoopGoal

\* One step of a loop does all that is asked for its user, whichever call it is
\* in and whether that succeeds or fails.
LEMMA LoopUses ==
    ASSUME TypeOK, Balanced, NEW t \in Users, Uses(t), LoopStep(t),
           t = Mic \/ \A p \in Controllers : op[p] \notin {"close", "release"}
    PROVE  LoopGoal(t)
<1> DEFINE d == Dir(t)
<1>d. d \in Directions
  BY Direction
<1>same. /\ tries \in [Users -> 0..(MaxAttempts - 1)] /\ faults \in 0..MaxFaults
         /\ [tries EXCEPT ![t] = 0] \in [Users -> 0..(MaxAttempts - 1)]
  BY DEF TypeOK, MaxAttempts
<1>1. CASE Top(t)
  <2>1. CASE connected[t]
    <3>1. PICK l \in {"exited", "read"} : at' = [at EXCEPT ![t] = l]
      BY <1>1, <2>1 DEF Top, Move
    <3>2. QED
      BY <1>1, <1>same, <2>1, <3>1, LoopMoves DEF Top, Outside, Served
  <2>2. CASE ~connected[t]
    <3>1. PICK l \in {"exited", "init"} : at' = [at EXCEPT ![t] = l]
      BY <1>1, <2>2 DEF Top, Move
    <3>2. QED
      BY <1>1, <1>same, <2>2, <3>1, LoopMoves DEF Top, Outside, Served
  <2>3. QED
    BY <2>1, <2>2
<1>0. CASE handleInputTrackForSession(t)
  <2>1. CASE connected[t]
    <3>1. at' = [at EXCEPT ![t] = "read"]
      BY <1>0, <2>1 DEF handleInputTrackForSession, Move
    <3>2. QED
      BY <1>0, <1>same, <2>1, <3>1, LoopMoves DEF handleInputTrackForSession, Outside, Served
  <2>2. CASE ~connected[t]
    <3>1. at' = [at EXCEPT ![t] = "init"]
      BY <1>0, <2>2 DEF handleInputTrackForSession, Move
    <3>2. QED
      BY <1>0, <1>same, <2>2, <3>1, LoopMoves DEF handleInputTrackForSession, Outside, Served
  <2>3. QED
    BY <2>1, <2>2
<1>2. CASE InitEnters(t)
  <2>1. IF connected[t] THEN IsReady(d) ELSE IsClosed(d)
    BY <1>2 DEF InitEnters, Uses, Outside
  <2>2. CASE connected[t]
    <3>1. /\ connected' = [connected EXCEPT ![t] = TRUE]
          /\ at' = [at EXCEPT ![t] = "read"] /\ UNCHANGED <<cstate, tries>>
      BY <1>2, <2>1, <2>2 DEF InitEnters, IsReady, Move
    <3>2. connected' = connected
      BY <2>2, <3>1 DEF TypeOK
    <3>3. QED
      BY <1>2, <1>same, <2>2, <3>1, <3>2, LoopMoves DEF InitEnters, Outside, Served
  <2>3. CASE ~connected[t]
    <3>1. /\ CodecDestroyed(d) /\ HandleClosed(d)
          /\ c' = [c EXCEPT ![d] = [Closed EXCEPT !.initializing = TRUE]]
          /\ tries' = [tries EXCEPT ![t] = 0]
          /\ at' = [at EXCEPT ![t] = "open"] /\ UNCHANGED <<control, connected, faults>>
      BY <1>2, <2>1, <2>3 DEF InitEnters, IsClosed, Move
    <3>2. /\ c' \in [Directions -> Globals]
          /\ IsOpening(d)'
          /\ \A e \in Directions \ {d} : c'[e] = c[e]
      BY <1>d, <3>1 DEF TypeOK, Globals, IsOpening, Closed
    <3>3. /\ opened' \in [Directions -> Nat] /\ opened'[d] = 0
          /\ \A e \in Directions \ {d} : opened'[e] = opened[e]
      BY <1>d, <3>1, ClosesHandle
    <3>4. /\ codecs' \in [Directions -> Nat] /\ codecs'[d] = 0
          /\ \A e \in Directions \ {d} : codecs'[e] = codecs[e]
      BY <1>d, <3>1, DestroysCodec
    <3> HIDE DEF d
    <3>5. LoopTypes'
      BY <1>same, <3>1, <3>2, <3>3, <3>4 DEF LoopTypes, TypeOK
    <3>6. Elsewhere(t)
      BY <1>2, <3>1, <3>2, <3>3, <3>4 DEF InitEnters, Elsewhere, TypeOK, d
    <3>7. Uses(t)'
      BY <2>3, <3>1, <3>2 DEF Uses, TypeOK, Outside, Served, d
    <3>8. BalancedIn(d)'
      BY <3>2, <3>3, <3>4 DEF BalancedIn, IsOpening
    <3>9. QED
      BY <3>5, <3>6, <3>7, <3>8 DEF LoopGoal, d
  <2>4. QED
    BY <2>2, <2>3
<1>3. CASE Open(t)
  <2>1. CASE Opens(t, Device)
    BY <1>3, <2>1, LoopOpens DEF Open
  <2>2. CASE Fault /\ tries[t] + 1 < MaxAttempts /\ ~Opens(t, Device)
    <3>1. /\ tries' = [tries EXCEPT ![t] = @ + 1]
          /\ UNCHANGED <<control, connected, cstate, at>>
      BY <1>3, <2>2 DEF Open, OpenRefused, cstate
    <3>2. tries' \in [Users -> 0..(MaxAttempts - 1)] /\ at' = [at EXCEPT ![t] = "open"]
      BY <1>3, <1>same, <2>2, <3>1 DEF TypeOK, MaxAttempts, Open
    <3>3. QED
      BY <1>3, <2>2, <3>1, <3>2, LoopOpenAgain DEF Open
  <2>3. CASE Fault /\ ~(tries[t] + 1 < MaxAttempts) /\ ~Opens(t, Device) /\ t = Mic
    <3>1. /\ tries' = [tries EXCEPT ![t] = 0] /\ at' = [at EXCEPT ![t] = "fallback"]
          /\ UNCHANGED <<control, connected, cstate>>
      BY <1>3, <2>3 DEF Open, OpenRefused, Move, cstate
    <3>2. QED
      BY <1>3, <1>same, <2>3, <3>1, LoopOpenAgain DEF Open
  <2>4. CASE Fault /\ ~(tries[t] + 1 < MaxAttempts) /\ ~Opens(t, Device) /\ t # Mic
    <3>1. ClearInitializing(d) /\ InitFails(t) /\ UNCHANGED <<control, opened, codecs>>
      BY <1>3, <2>4 DEF Open, OpenRefused
    <3>2. QED
      BY <1>3, <2>4, <3>1, LoopInitFails DEF Open
  <2>5. QED
    BY <1>3, <2>1, <2>2, <2>3, <2>4 DEF Open, OpenRefused
<1>4. CASE OpenDefault(t)
  <2>1. CASE Opens(t, "default")
    BY <1>4, <2>1, LoopOpens DEF OpenDefault
  <2>2. CASE Fault /\ tries[t] + 1 < MaxAttempts /\ ~Opens(t, "default")
    <3>1. /\ tries' = [tries EXCEPT ![t] = @ + 1]
          /\ UNCHANGED <<control, connected, cstate, at>>
      BY <1>4, <2>2 DEF OpenDefault, OpenRefused, cstate
    <3>2. tries' \in [Users -> 0..(MaxAttempts - 1)] /\ at' = [at EXCEPT ![t] = "fallback"]
      BY <1>4, <1>same, <2>2, <3>1 DEF TypeOK, MaxAttempts, OpenDefault
    <3>3. QED
      BY <1>4, <2>2, <3>1, <3>2, LoopOpenAgain DEF OpenDefault
  <2>3. CASE Fault /\ ~(tries[t] + 1 < MaxAttempts) /\ ~Opens(t, "default")
    <3>1. ClearInitializing(d) /\ InitFails(t) /\ UNCHANGED <<control, opened, codecs>>
      BY <1>4, <2>3 DEF OpenDefault, OpenRefused
    <3>2. QED
      BY <1>4, <2>3, <3>1, LoopInitFails DEF OpenDefault
  <2>4. QED
    BY <1>4, <2>1, <2>2, <2>3 DEF OpenDefault, OpenRefused
<1>5. CASE Configure(t)
  <2>1. CASE /\ Fault /\ HandleClosed(d) /\ ClearInitializing(d) /\ InitFails(t)
             /\ UNCHANGED codecs
    BY <1>5, <2>1, LoopInitFails DEF Configure
  <2>2. CASE at' = [at EXCEPT ![t] = "codec"] /\ UNCHANGED <<cstate, connected, faults, tries>>
    <3>1. LoopTypes'
      BY <1>same, <2>2 DEF LoopTypes, TypeOK, Globals, cstate
    <3>2. Elsewhere(t)
      BY <1>5, <2>2 DEF Configure, Elsewhere, TypeOK, cstate
    <3>3. UNCHANGED IsOpened(d)
      BY <2>2 DEF IsOpened, cstate
    <3>4. Uses(t)'
      BY <1>5, <2>2, <3>3 DEF Configure, Uses, TypeOK, Outside, Served
    <3>5. BalancedIn(d)'
      BY <1>d, <2>2 DEF Balanced, BalancedIn, cstate
    <3>6. QED
      BY <3>1, <3>2, <3>4, <3>5 DEF LoopGoal
  <2>3. QED
    BY <1>5, <2>1, <2>2 DEF Configure, Move
<1>6. CASE CreateCodec(t)
  <2>1. CASE /\ Fault /\ HandleClosed(d) /\ ClearInitializing(d) /\ InitFails(t)
             /\ UNCHANGED codecs
    BY <1>6, <2>1, LoopInitFails DEF CreateCodec
  <2>2. CASE /\ c' = [c EXCEPT ![d].codec = TRUE, ![d].initialized = TRUE, ![d].initializing = FALSE]
             /\ codecs' = [codecs EXCEPT ![d] = @ + 1]
             /\ connected' = [connected EXCEPT ![t] = TRUE]
             /\ at' = [at EXCEPT ![t] = "read"]
             /\ UNCHANGED <<opened, faults, tries>>
    <3>1. IsOpened(d)
      BY <1>6 DEF CreateCodec, Uses
    <3>2. /\ c' \in [Directions -> Globals]
          /\ IsReady(d)'
          /\ \A e \in Directions \ {d} : c'[e] = c[e]
      BY <1>d, <2>2, <3>1, Readies
    <3>3. IsReady(d)'
      BY <3>2
    <3>4. /\ codecs' \in [Directions -> Nat] /\ codecs'[d] = 1 /\ opened[d] = 1
          /\ \A e \in Directions \ {d} : codecs'[e] = codecs[e]
      BY <1>d, <2>2, <3>1 DEF TypeOK, Balanced, IsOpened
    <3> HIDE DEF d
    <3>5. LoopTypes'
      BY <1>same, <2>2, <3>2, <3>4 DEF LoopTypes, TypeOK
    <3>6. Elsewhere(t)
      BY <1>6, <2>2, <3>2, <3>4 DEF CreateCodec, Elsewhere, TypeOK, d
    <3>7. connected'[t] /\ at'[t] = "read"
      BY <2>2 DEF TypeOK
    <3>8. Uses(t)'
      BY <3>3, <3>7 DEF Uses, Outside, Served, d
    <3>9. BalancedIn(d)'
      BY <2>2, <3>3, <3>4 DEF BalancedIn, IsReady
    <3>10. QED
      BY <3>5, <3>6, <3>8, <3>9 DEF LoopGoal, d
  <2>3. QED
    BY <1>6, <2>1, <2>2 DEF CreateCodec, Move
<1>7. CASE CallEnters(t)
  <2>1. connected[t]
    BY <1>7 DEF CallEnters, Uses, Served
  <2>2. PICK l \in {"failed", "io"} : at' = [at EXCEPT ![t] = l]
    BY <1>7 DEF CallEnters, Undecodable, Move
  <2>3. faults' \in 0..MaxFaults
    BY <1>7, <1>same, FaultCounted DEF CallEnters, Undecodable
  <2>4. QED
    BY <1>7, <1>same, <2>1, <2>2, <2>3, LoopMoves DEF CallEnters, Outside, Served
<1>8. CASE Transfer(t)
  <2>1. connected[t]
    BY <1>8 DEF Transfer, Uses, Served
  <2>2. PICK l \in {"top", "deliver", "failed"} : at' = [at EXCEPT ![t] = l]
    BY <1>8 DEF Transfer, Move
  <2>3. faults' \in 0..MaxFaults
    BY <1>8, <1>same, FaultCounted DEF Transfer
  <2>4. QED
    BY <1>8, <1>same, <2>1, <2>2, <2>3, LoopMoves DEF Transfer, Outside, Served
<1>9. CASE TransferFails(t)
  <2>1. connected[t]
    BY <1>9 DEF TransferFails, Uses, Served
  <2>2. \E l \in {"io", "top", "failed"} : at' = [at EXCEPT ![t] = l]
    BY <1>9 DEF TransferFails, Broken, Suspended, NotReady, Transient, Recover, GiveUp,
                Move, TypeOK
  <2>3. tries' \in [Users -> 0..(MaxAttempts - 1)]
    BY <1>9, <1>same DEF TransferFails, Broken, Suspended, NotReady, Transient, Recover,
                         GiveUp, MaxRecovery, MaxAttempts
  <2>4. faults' \in 0..MaxFaults
    BY <1>9, FaultCounted DEF TransferFails
  <2>5. PICK l \in {"io", "top", "failed"} : at' = [at EXCEPT ![t] = l]
    BY <2>2
  <2>6. QED
    BY <1>9, <2>1, <2>3, <2>4, <2>5, LoopMoves DEF TransferFails, Outside, Served
<1>10. CASE Deliver(t)
  BY <1>10, <1>same, LoopMoves DEF Deliver, Move, Outside, Served
<1>11. CASE CallFails(t)
  <2>1. connected[t]
    BY <1>11 DEF CallFails, Uses, Served
  <2>2. PICK l \in {"top", "disconnect"} : at' = [at EXCEPT ![t] = l]
    BY <1>11 DEF CallFails, Move
  <2>3. QED
    BY <1>11, <1>same, <2>1, <2>2, LoopMoves DEF CallFails, Outside, Served
<1>12. CASE LoopDisconnects(t)
  <2>1. connected[t] /\ IsReady(d)
    BY <1>12 DEF LoopDisconnects, Uses, Served, Outside
  <2>2. /\ c' = [c EXCEPT ![d].initialized = FALSE]
        /\ connected' = [connected EXCEPT ![t] = c[d].initialized]
        /\ at' = [at EXCEPT ![t] = "close"]
        /\ UNCHANGED <<control, tries, opened, codecs, stale, faults>>
    BY <1>12, <2>1 DEF LoopDisconnects, CloseWanted, IsReady, Move
  <2>3. connected'[t] /\ connected' \in [Users -> BOOLEAN]
        /\ \A u \in Users \ {t} : connected'[u] = connected[u]
    BY <1>d, <2>1, <2>2 DEF TypeOK, IsReady
  <2>4. /\ c' \in [Directions -> Globals]
        /\ \A e \in Directions \ {d} : c'[e] = c[e]
    BY <1>d, <2>2 DEF TypeOK, Globals
  <2>5. IsEnding(d)'
    BY <1>d, <2>1, <2>2 DEF TypeOK, IsReady, IsEnding
  <2>6. opened[d] = 1 /\ codecs[d] = 1
    BY <1>d, <2>1 DEF Balanced, IsReady
  <2> HIDE DEF d
  <2>7. LoopTypes'
    BY <1>same, <2>2, <2>3, <2>4 DEF LoopTypes, TypeOK
  <2>8. Elsewhere(t)
    BY <1>12, <2>2, <2>3, <2>4 DEF LoopDisconnects, Elsewhere, TypeOK, d
  <2>9. at'[t] = "close"
    BY <2>2 DEF TypeOK
  <2>10. Uses(t)'
    BY <2>3, <2>5, <2>9 DEF Uses, Outside, Served, d
  <2>11. BalancedIn(d)'
    BY <2>2, <2>5, <2>6 DEF BalancedIn, IsEnding
  <2>12. QED
    BY <2>7, <2>8, <2>10, <2>11 DEF LoopGoal, d
<1>13. CASE LoopCloses(t)
  <2>1. IsEnding(d)
    BY <1>13 DEF LoopCloses, Uses
  <2>2. /\ Destroy(d) /\ connected' = [connected EXCEPT ![t] = FALSE]
        /\ at' = [at EXCEPT ![t] = "top"]
        /\ UNCHANGED <<control, tries, stale, faults>>
    BY <1>13 DEF LoopCloses, Move
  <2>3. /\ c' \in [Directions -> Globals]
        /\ IsClosed(d)'
        /\ \A e \in Directions \ {d} : c'[e] = c[e]
    BY <1>d, <2>1, <2>2, Destroys DEF IsEnding
  <2>4. /\ opened' \in [Directions -> Nat] /\ opened'[d] = 0
        /\ \A e \in Directions \ {d} : opened'[e] = opened[e]
    BY <1>d, <2>2, ClosesHandle DEF Destroy
  <2>5. /\ codecs' \in [Directions -> Nat] /\ codecs'[d] = 0
        /\ \A e \in Directions \ {d} : codecs'[e] = codecs[e]
    BY <1>d, <2>2, DestroysCodec DEF Destroy
  <2> HIDE DEF d
  <2>6. LoopTypes'
    BY <1>same, <2>2, <2>3, <2>4, <2>5 DEF LoopTypes, TypeOK
  <2>7. Elsewhere(t)
    BY <1>13, <2>2, <2>3, <2>4, <2>5 DEF LoopCloses, Elsewhere, TypeOK, d
  <2>8. ~connected'[t] /\ at'[t] = "top"
    BY <2>2 DEF TypeOK
  <2>9. Uses(t)'
    BY <2>3, <2>8 DEF Uses, Served, d
  <2>10. BalancedIn(d)'
    BY <2>3, <2>4, <2>5 DEF BalancedIn, IsClosed
  <2>11. QED
    BY <2>6, <2>7, <2>9, <2>10 DEF LoopGoal, d
<1>14. QED
  BY <1>0, <1>1, <1>2, <1>3, <1>4, <1>5, <1>6, <1>7, <1>8, <1>9, <1>10, <1>11, <1>12, <1>13
     DEF LoopStep

\* A loop that takes a step is that of the input or of the source there is, and no
\* controller is past its Wait for it.
LEMMA LoopOwner ==
    ASSUME TypeOK, LockInv, OneRelay, NEW t \in Users, at[t] \notin {"none", "exited"}
    PROVE  /\ t \in {Mic, source}
           /\ t = Mic \/ \A p \in Controllers : op[p] \notin Joined
BY Direction DEF TypeOK, LockInv, OneRelay

\* simd_clear_samples_s16 clears every sample after a short read.
LEMMA PadsEverything ==
    ASSUME NEW n \in ShortReads \cup {FrameSize}
    PROVE  (n * Channels)..(FrameSize * Channels - 1) \ PaddedWith(n) = {}
<1>1. n \in Nat /\ n <= FrameSize /\ FrameSize \in Nat
  BY FrameAssumption
<1> DEFINE samples == (FrameSize - n) * Channels
           simd    == samples - (samples % 16)
           half    == IF simd + 8 <= samples THEN simd + 8 ELSE simd
<1>2. samples \in Nat /\ simd \in Int /\ half \in Int
  BY <1>1 DEF Channels
<1>3. ASSUME NEW k \in (n * Channels)..(FrameSize * Channels - 1)
      PROVE  k \in PaddedWith(n)
  <2> DEFINE i == k - n * Channels
  <2>1. i \in 0..(samples - 1) /\ n * Channels + i = k
    BY <1>1 DEF Channels
  <2> HIDE DEF samples, simd, half, i
  <2>2. i \in 0..(simd - 1) \cup simd..(half - 1) \cup half..(samples - 1)
    BY <1>2, <2>1
  <2>3. PaddedWith(n) = {n * Channels + j : j \in 0..(simd - 1) \cup simd..(half - 1) \cup half..(samples - 1)}
    BY DEF PaddedWith, simd_clear_samples_s16, samples, simd, half
  <2>4. QED
    BY <2>1, <2>2, <2>3
<1>4. QED
  BY <1>3

-----------------------------------------------------------------------------
(***************************************************************************)
(* Every step keeps the invariant.                                         *)
(***************************************************************************)

\* The step of a loop.
LEMMA LoopInvariant ==
    ASSUME IInv, NEW t \in Users, LoopStep(t)
    PROVE  IInv'
<1> USE DEF IInv
<1>1. at[t] \notin {"none", "exited"}
  BY DEF LoopStep, Top, handleInputTrackForSession, InitEnters, Open, OpenDefault, Configure, CreateCodec, CallEnters,
         Transfer, TransferFails, Deliver, CallFails, LoopDisconnects, LoopCloses
<1>2. /\ t \in {Mic, source}
      /\ t = Mic \/ \A p \in Controllers : op[p] \notin Joined
  BY <1>1, LoopOwner
<1>3. LoopGoal(t)
  BY <1>2, LoopUses DEF Resources, Joined
<1>4. /\ LoopTypes' /\ Elsewhere(t) /\ Uses(t)' /\ BalancedIn(Dir(t))'
      /\ UNCHANGED <<conns, enabled, mutex, source, op, running, operations, crossed>>
  BY <1>3 DEF LoopGoal, Elsewhere, control
<1>5. TypeOK'
  BY <1>4 DEF TypeOK, LoopTypes, Globals
<1>6. ConnsCounted' /\ Alone'
  BY <1>4 DEF ConnsCounted, Alone, Wanted
<1>7. LockInv'
  BY <1>1, <1>2, <1>4, UserAssumption DEF LockInv, Elsewhere, Users, Joined, Stopping, TypeOK
<1>8. OneRelay'
  BY <1>2, <1>4, Direction, UserAssumption DEF OneRelay, Elsewhere, Users
<1>9. Resources'
  <2>1. ASSUME NEW u \in Users, u \in {Mic, source}, u # t
        PROVE  Uses(u)'
    <3>1. Dir(u) \in Directions \ {Dir(t)}
      BY <1>2, <2>1, Direction
    <3>2. c'[Dir(u)] = c[Dir(u)] /\ at'[u] = at[u] /\ connected'[u] = connected[u]
      BY <1>4, <2>1, <3>1 DEF Elsewhere
    <3>3. Uses(u)
      BY <2>1 DEF Resources
    <3>4. QED
      BY <1>4, <3>2, <3>3 DEF Uses, IsOpening, IsOpened, IsEnding, IsReady, IsClosed
  <2>2. Stopped'
    <3>1. CASE t = Mic
      <4>1. c'["output"] = c["output"]
        BY <1>4, <3>1, Direction DEF Elsewhere, Directions
      <4>2. source # None => source \in Users \ {t}
        BY <3>1, UserAssumption DEF TypeOK, Users
      <4>3. source # None => connected'[source] = connected[source]
        BY <1>4, <4>2 DEF Elsewhere
      <4>4. \A p \in Controllers : op[p] = "close" => source # None
        BY DEF LockInv, Stopping
      <4>5. QED
        BY <1>4, <4>1, <4>3, <4>4 DEF Resources, Stopped, IsEnding, IsClosed
    <3>2. CASE t # Mic
      BY <1>2, <1>4, <3>2, Direction DEF Stopped, Joined
    <3>3. QED
      BY <3>1, <3>2
  <2>3. QED
    BY <1>4, <2>1, <2>2 DEF Resources
<1>10. Balanced'
  <2>1. ASSUME NEW d \in Directions \ {Dir(t)}
        PROVE  BalancedIn(d)'
    BY <1>4 DEF Elsewhere, Balanced, BalancedIn
  <2>2. QED
    BY <1>4, <2>1 DEF Balanced, BalancedIn
<1>11. PaddedWithSilence'
  <2>1. CASE Transfer(t)
    BY <2>1, PadsEverything DEF Transfer, PaddedWithSilence
  <2>2. CASE ~Transfer(t)
    BY <2>2 DEF LoopStep, Top, handleInputTrackForSession, InitEnters, Open, OpenDefault, Configure, CreateCodec, CallEnters,
                TransferFails, Deliver, CallFails, LoopDisconnects, LoopCloses, PaddedWithSilence
  <2>3. QED
    BY <2>1, <2>2
<1>12. QED
  BY <1>5, <1>6, <1>7, <1>8, <1>9, <1>10, <1>11

\* The part of the invariant about the loops is kept by a step that changes neither
\* the source nor the places and globals, when no controller enters or leaves a close.
LEMMA ControlFrame ==
    ASSUME IInv, UNCHANGED <<source, connected, at, tries, cstate, stale, faults>>,
           \A p \in Controllers : \A l \in {"close", "release"} : op'[p] = l <=> op[p] = l
    PROVE  OneRelay' /\ Resources' /\ Balanced' /\ PaddedWithSilence'
<1> USE DEF IInv
<1>1. OneRelay' /\ Balanced' /\ PaddedWithSilence'
  BY DEF OneRelay, Balanced, PaddedWithSilence, cstate
<1>2. \A p \in Controllers : /\ op'[p] = "close" <=> op[p] = "close"
                             /\ op'[p] = "release" <=> op[p] = "release"
  OBVIOUS
<1>3. Stopped'
  BY <1>2 DEF Resources, Stopped, IsEnding, IsClosed, cstate
<1>4. ASSUME NEW u \in Users, u \in {Mic, source}
      PROVE  Uses(u)'
  BY <1>2, <1>4 DEF Resources, Uses, IsOpening, IsOpened, IsEnding, IsReady, IsClosed, cstate
<1>5. QED
  BY <1>1, <1>3, <1>4 DEF Resources

\* The first step of a control operation.
LEMMA OperationInvariant ==
    ASSUME IInv, NEW p \in Controllers, Operation(p)
    PROVE  IInv'
<1> USE DEF IInv
<1>1. /\ Begin(p) /\ Quietly
      /\ UNCHANGED <<mutex, source, running>>
      /\ \E l \in {"idle", "start", "stop", "check"} : op' = [op EXCEPT ![p] = l]
      /\ conns' \in Int /\ conns' <= conns + 1 /\ conns' >= 0 /\ enabled' \in BOOLEAN
  BY DEF Operation, Connect, Disconnect, UsbReconfigured, SetAudioOutputEnabled, Goto, TypeOK
<1>2. PICK l \in {"idle", "start", "stop", "check"} : op' = [op EXCEPT ![p] = l]
  BY <1>1
<1>3. /\ op[p] = "idle" /\ op'[p] = l /\ operations < MaxOperations /\ operations' = operations + 1
      /\ crossed' = (crossed \/ \E q \in Controllers : op[q] # "idle")
      /\ \A q \in Controllers \ {p} : op'[q] = op[q]
  BY <1>1, <1>2 DEF Begin, TypeOK
<1>4. ConnsCounted' /\ conns' \in 0..MaxOperations /\ operations' \in 0..MaxOperations
  BY <1>1, <1>3, BoundAssumption DEF ConnsCounted, TypeOK
<1>5. crossed' \in BOOLEAN
  BY <1>3
<1>6. TypeOK'
  BY <1>1, <1>2, <1>4, <1>5 DEF TypeOK, Quietly, cstate
<1>7. LockInv'
  BY <1>1, <1>3 DEF LockInv, Quietly, Stopping, Joined
<1>8. OneRelay' /\ Resources' /\ Balanced' /\ PaddedWithSilence'
  BY <1>1, <1>3, ControlFrame DEF Quietly
<1>9. Alone'
  <2>1. SUFFICES ASSUME ~crossed'
                 PROVE  Alone'
    BY DEF Alone
  <2>2. ~crossed /\ \A q \in Controllers : op[q] = "idle"
    BY <1>3, <2>1
  <2>3. source # None <=> Wanted
    BY <2>2 DEF Alone
  <2>4. \A q \in Controllers \ {p} : op'[q] = "idle"
    BY <1>3, <2>2
  <2> DEFINE Known == /\ op[p] = "idle" => (source # None <=> Wanted)
                      /\ op[p] = "check" => (source # None <=> Wanted) \/ (source = None /\ enabled)
                      /\ op[p] = "start" => conns > 0 /\ (source = None \/ enabled)
                      /\ op[p] = "stop" => ~Wanted
  <2>5. Known'
    <3>1. CASE Connect(p)
      BY <1>3, <2>3, <3>1 DEF Connect, Goto, TypeOK, Wanted
    <3>2. CASE Disconnect(p)
      BY <1>3, <2>3, <3>2 DEF Disconnect, Goto, TypeOK, Wanted
    <3>3. CASE UsbReconfigured(p)
      BY <1>3, <2>3, <3>3 DEF UsbReconfigured, Goto, TypeOK, Wanted
    <3>4. ASSUME NEW on \in BOOLEAN, SetAudioOutputEnabled(p, on)
          PROVE  Known'
      <4>1. on = enabled' /\ enabled # on /\ UNCHANGED <<source, conns>>
        BY <3>4 DEF SetAudioOutputEnabled
      <4>2. op'[p] = IF on THEN "check" ELSE "stop"
        BY <3>4 DEF SetAudioOutputEnabled, Goto, TypeOK
      <4>3. CASE on
        <5>1. op'[p] = "check" /\ ~enabled /\ enabled'
          BY <4>1, <4>2, <4>3 DEF TypeOK
        <5>2. source' = None
          BY <2>3, <4>1, <5>1 DEF Wanted
        <5>3. QED
          BY <5>1, <5>2
      <4>4. CASE ~on
        BY <4>1, <4>2, <4>4 DEF Wanted
      <4>5. QED
        BY <4>3, <4>4
    <3>5. QED
      BY <3>1, <3>2, <3>3, <3>4 DEF Operation
  <2>6. op'[p] \notin Stopping
    BY <1>3 DEF Stopping
  <2>7. QED
    BY <2>4, <2>5, <2>6 DEF Alone, Stopping
<1>10. QED
  BY <1>4, <1>6, <1>7, <1>8, <1>9

\* CheckConnections reads the counter, outside of audioMutex.
LEMMA CheckInvariant ==
    ASSUME IInv, NEW p \in Controllers, CheckConnections(p)
    PROVE  IInv'
<1> USE DEF IInv
<1>1. /\ op[p] = "check" /\ Quietly
      /\ op' = [op EXCEPT ![p] = IF conns > 0 THEN "start" ELSE "idle"]
      /\ UNCHANGED <<conns, enabled, mutex, source, running, operations, crossed>>
  BY DEF CheckConnections, Goto
<1>2. /\ op'[p] = IF conns > 0 THEN "start" ELSE "idle"
      /\ \A q \in Controllers \ {p} : op'[q] = op[q]
  BY <1>1 DEF TypeOK
<1>3. TypeOK' /\ ConnsCounted'
  BY <1>1 DEF TypeOK, ConnsCounted, Quietly, cstate
<1>4. LockInv'
  BY <1>1, <1>2 DEF LockInv, Quietly, Stopping, Joined
<1>5. OneRelay' /\ Resources' /\ Balanced' /\ PaddedWithSilence'
  BY <1>1, <1>2, ControlFrame DEF Quietly
<1>6. Alone'
  <2>1. SUFFICES ASSUME ~crossed
                 PROVE  Alone'
    BY <1>1 DEF Alone
  <2>2. \A q \in Controllers \ {p} : op[q] = "idle" /\ op'[q] = "idle"
    BY <1>1, <1>2, <2>1 DEF Alone
  <2>3. (source # None <=> Wanted) \/ (source = None /\ enabled)
    BY <1>1, <2>1 DEF Alone
  <2>4. /\ op'[p] = "idle" => (source' # None <=> Wanted')
        /\ op'[p] = "start" => conns' > 0 /\ (source' = None \/ enabled')
        /\ op'[p] \in {"idle", "start"}
    BY <1>1, <1>2, <2>3 DEF Wanted, TypeOK
  <2>5. QED
    BY <2>2, <2>4 DEF Alone, Stopping
<1>7. QED
  BY <1>3, <1>4, <1>5, <1>6

\* startAudio: a source is made only when there is none, and then no loop is left
\* of an earlier one and the globals are closed.
LEMMA StartInvariant ==
    ASSUME IInv, NEW p \in Controllers, StartAudio(p)
    PROVE  IInv'
<1> USE DEF IInv
<1>1. /\ op[p] = "start" /\ mutex = None /\ op' = [op EXCEPT ![p] = "idle"]
      /\ UNCHANGED <<conns, enabled, mutex, operations, crossed, connected, tries,
                     cstate, stale, faults>>
  BY DEF StartAudio, Goto
<1>2. op'[p] = "idle" /\ \A q \in Controllers \ {p} : op'[q] = op[q]
  BY <1>1 DEF TypeOK
<1>3. \A q \in Controllers : op[q] \notin Stopping /\ op'[q] \notin Stopping
  BY <1>1, <1>2, UserAssumption DEF LockInv, Stopping
<1>4. CASE ~(source = None /\ enabled)
  <2>1. UNCHANGED <<source, running, at>>
    BY <1>4 DEF StartAudio
  <2>2. TypeOK' /\ ConnsCounted'
    BY <1>1, <2>1 DEF TypeOK, ConnsCounted, cstate
  <2>3. LockInv'
    BY <1>1, <1>3, UserAssumption DEF LockInv, Stopping, Joined
  <2>4. OneRelay' /\ Resources' /\ Balanced' /\ PaddedWithSilence'
    BY <1>1, <1>2, <2>1, ControlFrame
  <2>5. Alone'
    <3>1. SUFFICES ASSUME ~crossed
                   PROVE  Alone'
      BY <1>1 DEF Alone
    <3>2. \A q \in Controllers : op'[q] = "idle"
      BY <1>1, <1>2, <3>1 DEF Alone
    <3>3. conns > 0 /\ (source = None \/ enabled)
      BY <1>1, <3>1 DEF Alone
    <3>4. source' # None <=> Wanted'
      BY <1>1, <1>4, <2>1, <3>3 DEF Wanted
    <3>5. QED
      BY <3>2, <3>4 DEF Alone, Stopping
  <2>6. QED
    BY <2>2, <2>3, <2>4, <2>5
<1>5. CASE source = None /\ enabled
  <2>1. NewRelay
    BY <1>5 DEF StartAudio
  <2>2. PICK r \in Relays : /\ at[r] = "none" /\ source' = r
                            /\ running' = [running EXCEPT ![r] = TRUE]
                            /\ at' = [at EXCEPT ![r] = "top"]
    BY <2>1 DEF NewRelay
  <2>3. r \in Users /\ r # None /\ r # Mic /\ Dir(r) = "output" /\ Relays \subseteq Users
    BY UserAssumption DEF Users, Dir
  <2>4. /\ at'[r] = "top" /\ at'[Mic] = at[Mic]
        /\ \A u \in Relays \ {r} : at'[u] = at[u]
    BY <2>2, <2>3 DEF TypeOK, Users
  <2>5. TypeOK' /\ ConnsCounted'
    BY <1>1, <2>2, <2>3 DEF TypeOK, ConnsCounted, cstate
  <2>6. LockInv'
    BY <1>1, <1>3, UserAssumption DEF LockInv, Stopping, Joined
  <2>7. OneRelay'
    BY <1>1, <1>5, <2>2, <2>4, UserAssumption DEF OneRelay
  <2>8. Balanced' /\ PaddedWithSilence'
    BY <1>1 DEF Balanced, PaddedWithSilence, cstate
  <2>9. Stopped'
    BY <1>1, <1>3, <2>2, <2>3 DEF Stopped, Stopping
  <2>10. Uses(r)'
    <3>1. IsClosed("output")' /\ ~connected'[r]
      BY <1>1, <1>5, <2>3 DEF Resources, Stopped, OneRelay, IsClosed, cstate
    <3>2. QED
      BY <2>3, <2>4, <3>1 DEF Uses, Served
  <2>11. Uses(Mic)'
    <3>1. Uses(Mic)
      BY DEF Resources, Users
    <3>2. QED
      BY <1>1, <2>4, <3>1 DEF Uses, IsOpening, IsOpened, IsEnding, IsReady, IsClosed, cstate
  <2>12. Resources'
    BY <2>2, <2>9, <2>10, <2>11 DEF Resources
  <2>13. Alone'
    <3>1. SUFFICES ASSUME ~crossed
                   PROVE  Alone'
      BY <1>1 DEF Alone
    <3>2. \A q \in Controllers : op'[q] = "idle"
      BY <1>1, <1>2, <3>1 DEF Alone
    <3>3. conns > 0
      BY <1>1, <3>1 DEF Alone
    <3>4. source' # None <=> Wanted'
      BY <1>1, <1>5, <2>2, <2>3, <3>3 DEF Wanted
    <3>5. QED
      BY <3>2, <3>4 DEF Alone, Stopping
  <2>14. QED
    BY <2>5, <2>6, <2>7, <2>8, <2>12, <2>13
<1>6. QED
  BY <1>4, <1>5

\* stopOutputLocked up to the end of its Wait.
LEMMA StopInvariant ==
    ASSUME IInv, NEW p \in Controllers, StopRelay(p) \/ StopWaits(p)
    PROVE  IInv'
<1> USE DEF IInv
<1>1. PICK l \in {"idle", "wait", "disconnect"} :
        /\ op' = [op EXCEPT ![p] = l]
        /\ l = "idle" => source = None /\ mutex' = mutex /\ op[p] = "stop"
        /\ l = "wait" => source # None /\ mutex = None /\ mutex' = p /\ op[p] = "stop"
        /\ l = "disconnect" => at[source] = "exited" /\ mutex' = mutex /\ op[p] = "wait"
  BY DEF StopRelay, StopWaits, Goto
<1>2. /\ UNCHANGED <<conns, enabled, source, operations, crossed>> /\ Quietly
      /\ op[p] \in {"stop", "wait"}
  BY DEF StopRelay, StopWaits
<1>3. op'[p] = l /\ \A q \in Controllers \ {p} : op'[q] = op[q]
  BY <1>1 DEF TypeOK
<1>4. running' \in [Relays -> BOOLEAN] /\ mutex' \in Controllers \cup {None}
  BY DEF StopRelay, StopWaits, TypeOK
<1>5. TypeOK' /\ ConnsCounted'
  BY <1>1, <1>2, <1>4 DEF TypeOK, ConnsCounted, Quietly, cstate
<1>6. LockInv'
  <2>1. CASE l = "idle"
    BY <1>1, <1>2, <1>3, <2>1, UserAssumption DEF LockInv, Quietly, Stopping, Joined
  <2>2. CASE l = "wait"
    BY <1>1, <1>2, <1>3, <2>2, UserAssumption DEF LockInv, Quietly, Stopping, Joined
  <2>3. CASE l = "disconnect"
    BY <1>1, <1>2, <1>3, <2>3, UserAssumption DEF LockInv, Quietly, Stopping, Joined
  <2>4. QED
    BY <2>1, <2>2, <2>3
<1>7. OneRelay' /\ Resources' /\ Balanced' /\ PaddedWithSilence'
  BY <1>2, <1>3, ControlFrame DEF Quietly
<1>8. Alone'
  <2>1. SUFFICES ASSUME ~crossed
                 PROVE  Alone'
    BY <1>2 DEF Alone
  <2>2. \A q \in Controllers \ {p} : op'[q] = "idle"
    BY <1>2, <1>3, <2>1 DEF Alone
  <2>3. ~Wanted /\ UNCHANGED Wanted
    BY <1>2, <2>1 DEF Alone, Stopping, Wanted
  <2>4. op'[p] = "idle" => source' = None
    BY <1>1, <1>2, <1>3
  <2>5. QED
    BY <1>2, <1>3, <2>2, <2>3, <2>4 DEF Alone, Stopping
<1>9. QED
  BY <1>5, <1>6, <1>7, <1>8

\* The rest of stopOutputLocked: the loop has ended and audioMutex is held, so
\* nobody else uses the globals of the output.
LEMMA CloseInvariant ==
    ASSUME IInv, NEW p \in Controllers,
           StopDisconnects(p) \/ StopCloses(p) \/ StopReturns(p)
    PROVE  IInv'
<1> USE DEF IInv
<1>1. op[p] \in Joined /\ op[p] \in Stopping
  BY DEF StopDisconnects, StopCloses, StopReturns, Joined, Stopping
<1>2. /\ mutex = p /\ source \in Relays /\ at[source] = "exited"
      /\ \A q \in Controllers \ {p} : op[q] \notin Stopping
  BY <1>1 DEF LockInv, TypeOK
<1>3. /\ source \in Users /\ source # Mic /\ source # None /\ Mic \in Users
      /\ Dir(source) = "output" /\ Dir(Mic) = "input" /\ {"output", "input"} = Directions
  BY <1>2, UserAssumption DEF Users, Dir, Directions
<1>4. Uses(source) /\ Uses(Mic) /\ Stopped
  BY <1>3 DEF Resources
<1>5. /\ UNCHANGED <<conns, enabled, running, operations, crossed, tries, stale, faults>>
      /\ ConnsCounted' /\ PaddedWithSilence'
  BY DEF StopDisconnects, StopCloses, StopReturns, ConnsCounted, PaddedWithSilence, cstate
<1>6. ~crossed => ~Wanted /\ \A q \in Controllers \ {p} : op[q] = "idle"
  BY <1>1 DEF Alone, Stopping
<1>7. CASE StopDisconnects(p) /\ connected[source]
  <2>1. IsReady("output")
    <3>1. \A q \in Controllers : op[q] \notin {"close", "release"}
      BY <1>2, <1>7 DEF StopDisconnects, Stopping
    <3>2. QED
      BY <1>2, <1>3, <1>4, <1>7, <3>1 DEF Uses, Outside
  <2>2. /\ c' = [c EXCEPT !["output"].initialized = FALSE]
        /\ op' = [op EXCEPT ![p] = "close"]
        /\ UNCHANGED <<mutex, source, connected, at, opened, codecs>>
    BY <1>7, <2>1 DEF StopDisconnects, CloseWanted, Goto, IsReady
  <2>3. op'[p] = "close" /\ \A q \in Controllers \ {p} : op'[q] = op[q]
    BY <2>2 DEF TypeOK
  <2>4. /\ c' \in [Directions -> Globals] /\ c'["input"] = c["input"]
    BY <1>3, <2>2 DEF TypeOK, Globals
  <2>5. IsEnding("output")'
    BY <1>3, <2>1, <2>2 DEF TypeOK, IsReady, IsEnding
  <2>6. TypeOK'
    BY <1>5, <2>2, <2>4 DEF TypeOK, Globals
  <2>7. LockInv' /\ OneRelay'
    BY <1>1, <1>2, <1>3, <2>2, <2>3 DEF LockInv, OneRelay, Stopping, Joined
  <2>8. Balanced'
    BY <1>3, <2>1, <2>2, <2>4, <2>5 DEF Balanced, IsReady, IsEnding
  <2>9. Stopped'
    BY <1>2, <1>3, <1>7, <2>2, <2>3, <2>5 DEF Stopped, Stopping
  <2>10. Uses(source)'
    BY <1>2, <1>3, <2>2, <2>3 DEF Uses, Served
  <2>11. Uses(Mic)'
    BY <1>3, <1>4, <2>2, <2>4 DEF Uses, IsOpening, IsOpened, IsEnding, IsReady, IsClosed
  <2>12. Alone'
    BY <1>5, <1>6, <2>2, <2>3 DEF Alone, Wanted, Stopping
  <2>13. QED
    BY <1>5, <2>2, <2>6, <2>7, <2>8, <2>9, <2>10, <2>11, <2>12 DEF Resources
<1>8. CASE StopDisconnects(p) /\ ~connected[source]
  <2>1. IsClosed("output")
    <3>1. \A q \in Controllers : op[q] \notin {"close", "release"}
      BY <1>2, <1>8 DEF StopDisconnects, Stopping
    <3>2. QED
      BY <1>2, <1>3, <1>4, <1>8, <3>1 DEF Uses, Outside
  <2>2. /\ op' = [op EXCEPT ![p] = "release"]
        /\ UNCHANGED <<c, mutex, source, connected, at, opened, codecs>>
    BY <1>8 DEF StopDisconnects, Goto
  <2>3. op'[p] = "release" /\ \A q \in Controllers \ {p} : op'[q] = op[q]
    BY <2>2 DEF TypeOK
  <2>4. TypeOK'
    BY <1>5, <2>2 DEF TypeOK
  <2>5. LockInv' /\ OneRelay' /\ Balanced'
    BY <1>1, <1>2, <1>3, <2>2, <2>3 DEF LockInv, OneRelay, Balanced, Stopping, Joined
  <2>6. Stopped'
    BY <1>2, <1>3, <2>1, <2>2, <2>3 DEF Stopped, Stopping, IsClosed
  <2>7. Uses(source)'
    BY <1>2, <1>3, <2>2, <2>3 DEF Uses, Served
  <2>8. Uses(Mic)'
    BY <1>3, <1>4, <2>2 DEF Uses, IsOpening, IsOpened, IsEnding, IsReady, IsClosed
  <2>9. Alone'
    BY <1>5, <1>6, <2>2, <2>3 DEF Alone, Wanted, Stopping
  <2>10. QED
    BY <1>5, <2>2, <2>4, <2>5, <2>6, <2>7, <2>8, <2>9 DEF Resources
<1>9. CASE StopCloses(p)
  <2>1. /\ Destroy("output") /\ op' = [op EXCEPT ![p] = "release"]
        /\ UNCHANGED <<mutex, source, connected, at>>
    BY <1>9 DEF StopCloses, Goto
  <2>2. IsEnding("output")
    BY <1>4, <1>9 DEF StopCloses, Stopped
  <2>3. op'[p] = "release" /\ \A q \in Controllers \ {p} : op'[q] = op[q]
    BY <2>1 DEF TypeOK
  <2>4. /\ c' \in [Directions -> Globals] /\ IsClosed("output")' /\ c'["input"] = c["input"]
    BY <1>3, <2>1, <2>2, Destroys DEF IsEnding, Directions
  <2>5. /\ opened' \in [Directions -> Nat] /\ opened'["output"] = 0
        /\ opened'["input"] = opened["input"]
    BY <1>3, <2>1, ClosesHandle DEF Destroy, Directions
  <2>6. /\ codecs' \in [Directions -> Nat] /\ codecs'["output"] = 0
        /\ codecs'["input"] = codecs["input"]
    BY <1>3, <2>1, DestroysCodec DEF Destroy, Directions
  <2>7. TypeOK'
    BY <1>5, <2>1, <2>4, <2>5, <2>6 DEF TypeOK, Globals
  <2>8. LockInv' /\ OneRelay'
    BY <1>1, <1>2, <1>3, <2>1, <2>3 DEF LockInv, OneRelay, Stopping, Joined
  <2>9. Balanced'
    BY <1>3, <2>4, <2>5, <2>6 DEF Balanced, IsClosed
  <2>10. Stopped'
    BY <1>2, <1>3, <2>1, <2>3, <2>4 DEF Stopped, Stopping
  <2>11. Uses(source)'
    BY <1>2, <1>3, <2>1, <2>3 DEF Uses, Served
  <2>12. Uses(Mic)'
    BY <1>3, <1>4, <2>1, <2>4 DEF Uses, IsOpening, IsOpened, IsEnding, IsReady, IsClosed
  <2>13. Alone'
    BY <1>5, <1>6, <2>1, <2>3 DEF Alone, Wanted, Stopping
  <2>14. QED
    BY <1>5, <2>1, <2>7, <2>8, <2>9, <2>10, <2>11, <2>12, <2>13 DEF Resources
<1>10. CASE StopReturns(p)
  <2>1. /\ connected' = [connected EXCEPT ![source] = FALSE]
        /\ at' = [at EXCEPT ![source] = "none"]
        /\ source' = None /\ mutex' = None /\ op' = [op EXCEPT ![p] = "idle"]
        /\ UNCHANGED <<c, opened, codecs>>
    BY <1>2, <1>10 DEF StopReturns, Goto, cstate, TypeOK
  <2>2. IsClosed("output")
    BY <1>4, <1>10 DEF StopReturns, Stopped
  <2>3. op'[p] = "idle" /\ \A q \in Controllers \ {p} : op'[q] = op[q]
    BY <2>1 DEF TypeOK
  <2>4. TypeOK'
    BY <1>5, <2>1 DEF TypeOK
  <2>5. \A q \in Controllers : op'[q] \notin Stopping /\ q # None
    BY <1>2, <2>3, UserAssumption DEF Stopping
  <2>6. LockInv' /\ Balanced'
    BY <2>1, <2>5 DEF LockInv, Balanced, Stopping, Joined
  <2>7. OneRelay'
    BY <1>3, <2>1, UserAssumption DEF OneRelay, TypeOK, Users
  <2>8. Stopped'
    BY <2>1, <2>2, <2>5 DEF Stopped, Stopping, IsClosed
  <2>9. connected'[Mic] = connected[Mic] /\ at'[Mic] = at[Mic]
    BY <1>3, <2>1 DEF TypeOK
  <2>10. Uses(Mic)'
    BY <1>3, <1>4, <2>1, <2>9 DEF Uses, IsOpening, IsOpened, IsEnding, IsReady, IsClosed
  <2>11. Resources'
    BY <2>1, <2>8, <2>10, Direction DEF Resources
  <2>12. Alone'
    BY <1>5, <1>6, <2>1, <2>3 DEF Alone, Wanted, Stopping
  <2>13. QED
    BY <1>5, <2>4, <2>6, <2>7, <2>11, <2>12
<1>11. QED
  BY <1>7, <1>8, <1>9, <1>10

\* Every step keeps the inductive invariant.
LEMMA NextInvariant ==
    ASSUME IInv, [Next]_vars
    PROVE  IInv'
<1>1. ASSUME UNCHANGED vars
      PROVE  IInv'
  <2> USE <1>1 DEF IInv, vars, control, cstate
  <2>1. TypeOK' /\ ConnsCounted' /\ LockInv' /\ OneRelay' /\ Balanced' /\ PaddedWithSilence'
    BY DEF TypeOK, ConnsCounted, LockInv, OneRelay, Balanced, PaddedWithSilence
  <2>2. Alone'
    BY DEF Alone, Wanted
  <2>3. Resources'
    BY ControlFrame
  <2>4. QED
    BY <2>1, <2>2, <2>3
<1>2. ASSUME NEW p \in Controllers, ControlStep(p)
      PROVE  IInv'
  BY <1>2, CheckInvariant, StartInvariant, StopInvariant, CloseInvariant DEF ControlStep
<1>3. QED
  BY <1>1, <1>2, OperationInvariant, LoopInvariant DEF Next

\* The inductive invariant holds at boot.
LEMMA InitInvariant ==
    ASSUME Init
    PROVE  IInv
<1> USE UserAssumption, BoundAssumption, HandleAssumption DEF Init
<1>1. TypeOK
  <2>1. c \in [Directions -> Globals]
    BY DEF Globals, Closed
  <2>2. tries \in [Users -> 0..(MaxAttempts - 1)]
    BY DEF MaxAttempts
  <2>3. at \in [Users -> {"none", "top"}]
    OBVIOUS
  <2>4. opened \in [Directions -> Nat] /\ codecs \in [Directions -> Nat]
    OBVIOUS
  <2>5. conns \in 0..MaxOperations /\ operations \in 0..MaxOperations /\ faults \in 0..MaxFaults
    OBVIOUS
  <2>6. /\ enabled \in BOOLEAN /\ crossed \in BOOLEAN
        /\ mutex \in Controllers \cup {None} /\ source \in Relays \cup {None}
        /\ running \in [Relays -> BOOLEAN] /\ connected \in [Users -> BOOLEAN]
    BY Zenon
  <2>7. QED
    BY <2>1, <2>2, <2>3, <2>4, <2>5, <2>6 DEF TypeOK, Globals
<1>2. ConnsCounted /\ PaddedWithSilence
  BY DEF ConnsCounted, PaddedWithSilence
<1>3. LockInv
  BY DEF LockInv, Stopping, Joined
<1>4. OneRelay
  BY DEF OneRelay, Users
<1>5. Resources
  <2>1. IsClosed("output") /\ IsClosed("input")
    BY DEF IsClosed, Closed, Directions
  <2>2. Stopped
    BY <2>1 DEF Stopped
  <2>3. Uses(Mic)
    <3>1. ~connected[Mic] /\ at[Mic] \in {"none", "top"} /\ Dir(Mic) = "input"
      BY DEF Users, Dir
    <3>2. QED
      BY <2>1, <3>1 DEF Uses, Served
  <2>4. QED
    BY <2>2, <2>3, Direction DEF Resources
<1>6. Balanced
  BY DEF Balanced, Closed
<1>7. Alone
  BY DEF Alone, Wanted, Stopping
<1>8. QED
  BY <1>1, <1>2, <1>3, <1>4, <1>5, <1>6, <1>7 DEF IInv

-----------------------------------------------------------------------------
(***************************************************************************)
(* The theorems.                                                           *)
(***************************************************************************)

\* The inductive invariant holds in every reachable state.
THEOREM AudioInvariant == Spec => []IInv
BY InitInvariant, NextInvariant, PTL DEF Spec

\* Every variable keeps its type: no counter of connections, handles or codecs goes
\* below zero and no call makes more attempts than its limit.
THEOREM TypeCorrect == Spec => []TypeOK
<1>1. IInv => TypeOK
  BY DEF IInv
<1>2. QED
  BY <1>1, AudioInvariant, PTL

\* At most one goroutine at a time is inside the C functions of a direction.
THEOREM OneCallerEach == Spec => []OneCaller
<1>1. ASSUME IInv, NEW d \in Directions
      PROVE  Cardinality(Calling(d)) <= 1
  <2> USE <1>1 DEF IInv
  <2>1. \E x : Calling(d) \subseteq {x}
    <3>1. \A t \in Users : at[t] \in Inside => t \in {Mic, source} /\ at[t] # "exited"
      BY LoopOwner DEF Inside
    <3>2. CASE d = "input"
      BY <3>1, <3>2, Direction DEF Calling
    <3>3. CASE d = "output" /\ \E p \in Controllers : op[p] = "close"
      <4>1. PICK p \in Controllers : op[p] = "close"
        BY <3>3
      <4>2. mutex = p /\ at[source] = "exited"
        BY <4>1 DEF LockInv, Stopping, Joined
      <4>3. Calling(d) \subseteq {p}
        BY <3>1, <3>3, <4>1, <4>2, Direction DEF Calling, LockInv, Stopping
      <4>4. QED
        BY <4>3
    <3>4. CASE d = "output" /\ ~\E p \in Controllers : op[p] = "close"
      <4>1. Calling(d) \subseteq {source}
        BY <3>1, <3>4, Direction DEF Calling
      <4>2. QED
        BY <4>1
    <3>5. QED
      BY <3>2, <3>3, <3>4 DEF Directions
  <2>2. PICK x : Calling(d) \subseteq {x}
    BY <2>1
  <2>3. IsFiniteSet({x}) /\ Cardinality({x}) = 1
    BY FS_Singleton
  <2>4. Cardinality(Calling(d)) <= Cardinality({x})
    BY <2>2, <2>3, FS_Subset
  <2>5. QED
    BY <2>3, <2>4
<1>2. IInv => OneCaller
  BY <1>1 DEF OneCaller
<1>3. QED
  BY <1>2, AudioInvariant, PTL

\* Every PCM handle and codec is accounted for whichever call fails, a transfer
\* under way has both, and without a source the device is released.
THEOREM NothingLeaked == Spec => []HandlesBalance
<1>1. ASSUME IInv
      PROVE  HandlesBalance
  <2> USE <1>1 DEF IInv
  <2>1. ASSUME NEW t \in Users, at[t] = "io"
        PROVE  IsReady(Dir(t))
    <3>1. t \in {Mic, source} /\ (t = Mic \/ \A p \in Controllers : op[p] \notin Joined)
      BY <2>1, LoopOwner
    <3>2. QED
      BY <2>1, <3>1 DEF Resources, Uses, Served, Outside, Joined
  <2>2. ASSUME source = None
        PROVE  (\A r \in Relays : at[r] = "none") /\ c["output"] = Closed
    <3>1. \A r \in Relays : at[r] = "none"
      BY <2>2, UserAssumption DEF OneRelay
    <3>2. IsClosed("output") /\ c["output"] \in Globals
      BY <2>2 DEF Resources, Stopped, TypeOK, Globals, Directions
    <3>3. c["output"] = Closed
      BY <3>2 DEF IsClosed, Closed, Globals
    <3>4. QED
      BY <3>1, <3>3
  <2>3. QED
    BY <2>1, <2>2 DEF HandlesBalance, Balanced, IsReady
<1>2. QED
  BY <1>1, AudioInvariant, PTL

\* Control operations that do not overlap leave the output on exactly if it is
\* enabled and somebody is connected.
THEOREM OutputFollows == Spec => []OutputAsWanted
<1>1. IInv => OutputAsWanted
  <2> SUFFICES ASSUME IInv, \A p \in Controllers : op[p] = "idle", ~crossed
               PROVE  (source # None) = Wanted
    BY DEF OutputAsWanted
  <2>1. source # None <=> Wanted
    BY DEF IInv, Alone
  <2>2. Wanted \in BOOLEAN
    BY DEF Wanted
  <2>3. QED
    BY <2>1, <2>2
<1>2. QED
  BY <1>1, AudioInvariant, PTL

\* A short read of any length, in a frame of any size, is padded to its end.
THEOREM PaddingComplete == Spec => []PaddedWithSilence
<1>1. IInv => PaddedWithSilence
  BY DEF IInv
<1>2. QED
  BY <1>1, AudioInvariant, PTL
=============================================================================

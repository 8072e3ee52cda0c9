--------------------------- MODULE CaptureService ---------------------------
(***************************************************************************)
(* What the video code promises about the capture chip: it has one user at *)
(* a time, and it sleeps only while it has none.  The promise ends when    *)
(* the unlocked functions of video.c are entered by two callers at once.   *)
(***************************************************************************)
CONSTANTS
    Threads,   \* the stream threads, the users
    NoThread   \* no user

VARIABLES
    user,      \* the thread that uses the chip
    asleep,    \* the chip sleeps
    sound      \* the promise still holds

vars == <<user, asleep, sound>>

Init ==
    /\ user = NoThread
    /\ asleep = FALSE
    /\ sound = TRUE

\* a stream starts: the chip is free and awake
Begin(t) ==
    /\ sound /\ user = NoThread /\ ~asleep
    /\ user' = t
    /\ UNCHANGED <<asleep, sound>>

\* its thread has let go of the device
End ==
    /\ user # NoThread
    /\ user' = NoThread
    /\ UNCHANGED <<asleep, sound>>

Sleep ==
    /\ sound /\ user = NoThread
    /\ asleep' = TRUE
    /\ UNCHANGED <<user, sound>>

Wake ==
    /\ asleep' = FALSE
    /\ UNCHANGED <<user, sound>>

\* two callers meet
Break ==
    /\ sound /\ sound' = FALSE
    /\ user' = NoThread /\ asleep' = FALSE

Next == (\E t \in Threads : Begin(t)) \/ End \/ Sleep \/ Wake \/ Break

Spec == Init /\ [][Next]_vars
=============================================================================

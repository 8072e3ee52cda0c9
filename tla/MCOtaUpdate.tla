---------------------------- MODULE MCOtaUpdate ----------------------------
(***************************************************************************)
(* Instances of OtaUpdate for TLC.                                         *)
(***************************************************************************)
EXTENDS OtaUpdate

Ask(app, system, pre, reset) ==
    [want |-> [c \in Components |-> IF c = App THEN app ELSE system],
     pre |-> pre, reset |-> reset]

\* auto-update, a custom version of the app with pre-releases and a reset of
\* the configuration, and a request of unknown names
MCRequests ==
    {Default, Ask(1, Absent, TRUE, TRUE), Ask(Absent, Absent, FALSE, FALSE)}
=============================================================================

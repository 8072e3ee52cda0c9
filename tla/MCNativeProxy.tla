--------------------------- MODULE MCNativeProxy ---------------------------
(***************************************************************************)
(* Instances of NativeProxy for TLC.                                       *)
(***************************************************************************)
EXTENDS NativeProxy

CONSTANTS c1, c2
=============================================================================

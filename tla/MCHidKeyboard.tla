--------------------------- MODULE MCHidKeyboard ---------------------------
(***************************************************************************)
(* Instances of HidKeyboard for TLC.  HID usage codes: 4, 5 and 6 are the  *)
(* letters A, B and C, 224 is the left control key.                        *)
(***************************************************************************)
EXTENDS HidKeyboard

CONSTANTS w1, w2, m1
=============================================================================

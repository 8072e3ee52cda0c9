-------------------------- MODULE MCVideoSettings --------------------------
(***************************************************************************)
(* An instance of VideoSettings for TLC: blocks of two bytes, EDIDs of the *)
(* right and of the wrong length, with and without odd characters, sources *)
(* of one and of sixty frames a second, and 16 bits for int32_t, which     *)
(* the factors 8 and 20 overflow: in the rate, and already in the base.    *)
(***************************************************************************)
EXTENDS VideoSettings

CONSTANTS c1, c2

MCTexts ==
    { <<>>, <<15, 15, 7, 1>>, <<1, 2, 3>>, <<Minus, 0, Space, 1, 8, 0, Plus, 3>>, <<1, Other, 2, 2>>,
      <<1, 2, Minus, 4>>, <<1, 2, 3, 4, 5, 6>> }

MCDefault == <<10, 11, 0, 0, 12, 13, 0, 0>>

\* no status, one whose mark has left the buffer, two with other lines between
MCLogs ==
    { <<>>, <<Text, Level, Text>>, <<Start, Text, Mark, Text>>,
      <<Mark, Start, Text, Level, Text, Mark, Start, Mark, Text, Level, Text>> }

MCTimings ==
    { [width |-> 1366, height |-> 768, htotal |-> 1500, vtotal |-> 800, clock |-> 72000000],
      [width |-> 2560, height |-> 1440, htotal |-> 2720, vtotal |-> 1481, clock |-> 241500000],
      [width |-> 640, height |-> 480, htotal |-> 800, vtotal |-> 525, clock |-> 450000] }
=============================================================================

-------------------------- MODULE MCVideoPipeline --------------------------
(***************************************************************************)
(* Instances of StreamDaemon, with VideoPipeline in it, for TLC.           *)
(***************************************************************************)
EXTENDS StreamDaemon

CONSTANTS t1, t2, small, large

OverlapEnds == overlap => faults = 0 /\ \A p \in Callers : Inside(p)

\* the stand-alone program is checked with a source that stays
DaemonSource == main # "off" => source = [size |-> small, rate |-> 60]
=============================================================================

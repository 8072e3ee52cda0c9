-------------------------- MODULE MCAudioPipeline --------------------------
(* Two controllers and two relays; a frame of 13 samples per channel, so that *)
(* a short read leaves whole blocks, a half block and single samples to clear. *)
EXTENDS AudioPipeline

MCShortReads == {0, 1, 8, 12}

(* The two directions share no state: each is explored without the other.      *)
OneDirection == at[Mic] # "none" => operations = 0
=============================================================================

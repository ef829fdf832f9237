------------------------------- MODULE MCPcm -------------------------------
(* Periods of two frames in a ring of two periods; a file of no frame, one  *)
(* shorter than the ring, and ones that end with and within a period; as    *)
(* many frames to record, the longer ones enough for an overrun.            *)
EXTENDS Pcm
=============================================================================

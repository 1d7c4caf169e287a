-------------------------- MODULE MCPulsePlayback ---------------------------
(* The instance of PulsePlayback TLC checks: a two-byte ring, writes of one *)
(* and two bytes, so a poll can split a write and a write can find the ring *)
(* full, half full and empty.                                               *)
EXTENDS PulsePlayback

MCWriteSizes == {1, 2}
=============================================================================

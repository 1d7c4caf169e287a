--------------------------- MODULE MCCpalRecovery ---------------------------
(* The instance of CpalRecovery TLC checks: the first stream, a replacement *)
(* and one more, so that an open can hang or fail while another stream is   *)
(* current; a one-sample ring, so that a write can find it full.            *)
EXTENDS CpalRecovery
=============================================================================

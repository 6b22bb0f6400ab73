---------------------------- MODULE MCNodeTimer ----------------------------
(* The grace period is twice the broadcast period, as in the source; the   *)
(* clock wraps within the bound on the time.                               *)
EXTENDS NodeTimer
=============================================================================

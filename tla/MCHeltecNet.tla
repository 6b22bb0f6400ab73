---------------------------- MODULE MCHeltecNet ----------------------------
(* Three packets and one broadcast, as heltec_net.cfg gives the bounds.  *)
EXTENDS HeltecNet
=============================================================================

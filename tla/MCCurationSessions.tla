------------------------- MODULE MCCurationSessions -------------------------
(* Instances of CurationSessions for TLC.                                  *)
EXTENDS CurationSessions, TLC

=============================================================================

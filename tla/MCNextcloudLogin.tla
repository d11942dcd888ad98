-------------------------- MODULE MCNextcloudLogin --------------------------
(* Instances of NextcloudLogin for TLC: anna has a canonical user already. *)
EXTENDS NextcloudLogin, TLC

CONSTANTS anna, ben

OnlyAnna == {anna}

=============================================================================

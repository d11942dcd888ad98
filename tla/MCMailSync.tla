----------------------------- MODULE MCMailSync -----------------------------
(* Instances of MailSync for TLC: the worker and a run from the command    *)
(* line, messages of two ages, budgets that stop a run in the middle.      *)
EXTENDS MailSync

CONSTANTS worker, manual

OneMessageAtATime == {1}
OneOrAll == {0, 1}
=============================================================================

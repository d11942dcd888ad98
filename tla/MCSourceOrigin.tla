--------------------------- MODULE MCSourceOrigin ---------------------------
(* Instances of SourceOrigin for TLC.                                      *)
EXTENDS SourceOrigin, TLC

\* Ordinary searches, and searches of the chat archive.
TwoScopes == {None, "chat"}
=============================================================================

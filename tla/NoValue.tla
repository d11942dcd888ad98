------------------------------ MODULE NoValue ------------------------------
(* NULL in a column, null in JSON, None in Python: one value that is no    *)
(* user, document, row or name in any of the modules that extend this one. *)
CONSTANT None
=============================================================================

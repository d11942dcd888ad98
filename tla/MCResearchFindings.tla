------------------------- MODULE MCResearchFindings -------------------------
(* Instances of ResearchFindings for TLC: a finding with two texts that    *)
(* the runs of two users produce, a person and a firm that exist and one   *)
(* entity that may be created.                                             *)
EXTENDS ResearchFindings, TLC

CONSTANTS f1, ta, tb, e1, e2, e3, r1, r2, u1, u2, doc

TextsIn == f1 :> {ta, tb}
DocIn == f1 :> doc
FoundSame == (r1 :> f1) @@ (r2 :> f1)
AskedBy == (r1 :> u1) @@ (r2 :> u2)
NamesAtFirst == (e1 :> {ta}) @@ (e2 :> {tb}) @@ (e3 :> {})
FoundFirst == doc :> {e1}
Admitted == {<<e1, e2>>, <<e3, e2>>}
=============================================================================

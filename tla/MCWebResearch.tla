--------------------------- MODULE MCWebResearch ---------------------------
(* Instances of WebResearch for TLC.                                       *)
EXTENDS WebResearch

CONSTANTS html, pdf

Web == [NoRequest EXCEPT !.kind = "web"]
Hybrid == [NoRequest EXCEPT !.kind = "auto", !.queries = 2]
Streamed == [NoRequest EXCEPT !.kind = "auto", !.stream = TRUE]
Use == [NoRequest EXCEPT !.kind = "use", !.queries = 0, !.numbers = {1, 2}]

Opening == {Web, Hybrid, Streamed}
Following == {Use}

=============================================================================

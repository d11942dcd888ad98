----------------------------- MODULE MCAnswers -----------------------------
(* Instances of Answers for TLC.                                           *)
EXTENDS Answers, Fusion, TLC

CONSTANTS d1, d2, d3

\* d1 and d2 are copies of each other.
TwoFamilies == d1 :> 1 @@ d2 :> 1 @@ d3 :> 2

\* Elasticsearch quotes nearly the same passage of the two.
OneQuote ==
  LET d(i) == <<"files", IF i = 1 THEN d1 ELSE d2>> IN {<<d(1), d(2)>>, <<d(2), d(1)>>}

Ask == [kind |-> "ask", arms |-> {"files", "vector"}, forced |-> FALSE, complete |-> FALSE,
        web |-> "no", stream |-> FALSE, followup |-> FALSE, numbers |-> {}]

SomeRequests ==
  { [Ask EXCEPT !.web = "allowed"], [Ask EXCEPT !.followup = TRUE, !.arms = {"files"}],
    [Ask EXCEPT !.complete = TRUE, !.stream = TRUE, !.web = "asked"],
    [Ask EXCEPT !.arms = {"graph"}, !.stream = TRUE],
    [Ask EXCEPT !.kind = "list"],
    [Ask EXCEPT !.kind = "use", !.arms = {}, !.numbers = {1, 2}],
    [Ask EXCEPT !.kind = "elastic", !.arms = {}],
    [Ask EXCEPT !.kind = "elasticlist", !.arms = {}],
    [Ask EXCEPT !.kind = "rawlist", !.arms = {"vector"}],
    [Ask EXCEPT !.kind = "web", !.arms = {}],
    [Ask EXCEPT !.kind = "direct", !.arms = {}] }

LaterRequests == {r \in SomeRequests : r.followup \/ r.kind = "use"}

Copies == Permutations({d1, d2})

SomeSetups == {[acl |-> TRUE, general |-> FALSE], [acl |-> FALSE, general |-> TRUE]}
=============================================================================

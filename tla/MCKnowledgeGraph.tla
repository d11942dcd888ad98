-------------------------- MODULE MCKnowledgeGraph --------------------------
(* Instances of KnowledgeGraph for TLC: one document that names two        *)
(* people, one contact, three identities.                                  *)
EXTENDS KnowledgeGraph, TLC

CONSTANTS e1, e2, e3, ada, adah, mail, doc, card1, curator

OneCard == {[name |-> ada, email |-> mail]}
DocText == [d \in Docs |-> {ada, adah}]
NoneAlike == {}
AllAlike == {{ada, adah}}
TwoPolicies == {"contextual"}
ClearCases == {<<TRUE, TRUE>>, <<FALSE, FALSE>>}
Symmetry == Permutations(Entities)
=============================================================================

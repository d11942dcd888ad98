--------------------------- MODULE MCGraphIndexer ---------------------------
(* Instances of GraphIndexer for TLC: a text that names one person, a      *)
(* longer one that names a firm and quotes a third name as well, one that  *)
(* is too large, and the passage of a chat.                                *)
EXTENDS GraphIndexer, TLC

CONSTANTS first, longer, huge, passage, empty, ada, bob, cyn, worker, caller, manual

NamesIn == (first :> {ada}) @@ (longer :> {ada, bob, cyn}) @@ (huge :> {ada})
           @@ (passage :> {bob}) @@ (empty :> {})
KindOf == (ada :> "Person") @@ (bob :> "Organization") @@ (cyn :> "Person")
Signals ==
  LET is(context, tokens, cue, trust) == [garbage |-> FALSE, context |-> context,
                                          tokens |-> tokens, cue |-> cue, trust |-> trust]
  IN  (ada :> is("actor", 2, TRUE, 2)) @@ (bob :> is("actor", 1, TRUE, 1))
      @@ (cyn :> is("quoted", 2, TRUE, 3))
AllKinds == {"evidence", "relink", "discover phase", "relink phase"}
=============================================================================

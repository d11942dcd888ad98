---------------------------- MODULE MCGraphQueue ----------------------------
(* Instances of GraphQueue for TLC: the event kinds the callers produce,   *)
(* with the default priorities of graph_queue.priorities.                  *)
EXTENDS GraphQueue, TLC

ChatEvidence == [priority |-> 100, payload |-> {"count_evidence"}]
SyncBackground == [priority |-> 200, payload |-> {}]
ContactRelink == [priority |-> 50, payload |-> {"force_reindex"}]

TwoKinds == {ChatEvidence, ContactRelink}
AllKinds == {ChatEvidence, SyncBackground, ContactRelink}
OneKind == {ChatEvidence}

Symmetry == Permutations(Workers) \cup Permutations(Docs)

=============================================================================

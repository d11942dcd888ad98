---------------------------- MODULE MCVectorSync ----------------------------
(* Instances of VectorSync for TLC: a version of one chunk, one that grows *)
(* to three chunks when the chunker changes, and one that is excluded.     *)
EXTENDS VectorSync, TLC

CONSTANTS short, long, sidecar, huge, old, new

TwoVersions == {short, long}
FourVersions == {short, long, sidecar, huge}
OnlySidecar == {sidecar}
OnlyHuge == {huge}
OldChunker == {old}
BothChunkers == {old, new}

ChunkCounts ==
  [c \in Contents |->
     [g \in Signatures |-> CASE c = short -> 1
                             [] c = long -> IF g = old THEN 3 ELSE 2
                             [] c = sidecar -> 0
                             [] OTHER -> 3]]

Symmetry == Permutations(Docs) \cup Permutations(Syncs)

=============================================================================

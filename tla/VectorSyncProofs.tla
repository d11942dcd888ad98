-------------------------- MODULE VectorSyncProofs --------------------------
(***************************************************************************)
(* Proofs about VectorSync, for every set of documents, processes and      *)
(* versions, and every number of cut-off runs: SyncInv is an invariant as  *)
(* long as runs do not overlap and versions do not return, and from it     *)
(* follow the properties that TLC checks on small instances.               *)
(***************************************************************************)
EXTENDS VectorSync, TLAPS

Orderly == Overlapping = FALSE /\ Reverts = FALSE

Rest == <<es, config, past, state, vectors, enqueued, aborts>>

(* A process at work has a full record, and every other process is off.    *)
LEMMA Alone ==
  ASSUME TypeOK, OneRun, NEW s \in Syncs, run[s].pc # "off"
  PROVE  /\ run[s] \in RunState
         /\ \A r \in Syncs \ {s} : run[r].pc = "off"
BY DEF TypeOK, OneRun, Off

LEMMA Domains ==
  ASSUME TypeOK
  PROVE  /\ run \in [Syncs -> RunState \cup {Off}]
         /\ state \in [Docs -> Row \cup {None}]
         /\ vectors \in [Docs -> [ChunkNos -> Version \cup {None}]]
BY DEF TypeOK

(* Steps that only move a process, from a place where no document is at    *)
(* hand to one where the document has just been taken up.                  *)
LEMMA Repositioned ==
  ASSUME SyncInv, Orderly, NEW s \in Syncs, NEW R \in RunState \cup {Off},
         run[s].pc \in {"off", "scan", "cleanup"},
         \A r \in Syncs \ {s} : run[r].pc = "off",
         run' = [run EXCEPT ![s] = R], UNCHANGED Rest,
         R.pc # "enqueue",
         R.pc # "off" => /\ Position(s)' /\ Traversal(s)' /\ Outdated(s)'
                         /\ R.signature \in past.signatures
                         /\ \A d \in Docs : R.snapshot[d] # None => R.snapshot[d] \in past.docs[d],
         R.pc \in {"upsert", "trim", "drop"} => R.doc \in Docs /\ R.old = state[R.doc] /\ R.next = 0
  PROVE  SyncInv'
<1>. USE DEF SyncInv
<1>1. /\ run'[s] = R
      /\ \A r \in Syncs \ {s} : run'[r] = run[r] /\ run'[r].pc = "off"
  BY DEF TypeOK
<1>2. TypeOK'
  BY DEF TypeOK, Rest
<1>3. OneRun'
  BY <1>1 DEF OneRun
<1>4. History'
  BY <1>1 DEF History, Rest
<1>5. \A r \in Syncs : run'[r].pc # "off" => (Position(r) /\ Traversal(r) /\ Outdated(r))'
  BY <1>1
<1>6. ExactlyIndexed'
  <2>. SUFFICES ASSUME aborts = 0, NEW d \in Docs
                PROVE  /\ \A r \in Syncs : AtWork(r, d)' => vectors[d] = Progress(r)'
                       /\ (\A r \in Syncs : ~AtWork(r, d)') => vectors[d] = Image(state[d])
    BY DEF ExactlyIndexed, Rest, Image, CountOf, VersionOf, Progress
  <2>1. vectors[d] = Image(state[d])
    BY DEF ExactlyIndexed, AtWork, Orderly
  <2>2. ASSUME NEW r \in Syncs, AtWork(r, d)' PROVE vectors[d] = Progress(r)'
    <3>1. r = s /\ R.doc = d /\ R.old = state[d] /\ R.next = 0
      BY <1>1, <2>2 DEF AtWork
    <3>2. \A n \in ChunkNos : n >= 0
      BY BoundsAssumption DEF ChunkNos
    <3>3. Image(R.old)' = Image(state[d])
      BY <3>1 DEF Image, CountOf, VersionOf
    <3>4. Progress(r)' = Image(state[d])
      BY <1>1, <3>1, <3>2 DEF Progress, Image, CountOf, VersionOf
    <3>. QED BY <3>4, <2>1
  <2>. QED BY <2>1, <2>2
<1>7. SkipJustified'
  BY DEF SkipJustified, Rest, UpToDate, VersionOf
<1>8. GraphFed'
  BY <1>1 DEF GraphFed, Rest, CountOf, Target
<1>. QED BY <1>2, <1>3, <1>4, <1>5, <1>6, <1>7, <1>8

LEMMA InitInv ==
  ASSUME Init PROVE SyncInv
<1>1. TypeOK
  BY NoneAssumption, ContentsAssumption, BoundsAssumption DEF Init, TypeOK, Off, PC
<1>2. OneRun /\ History
  BY DEF Init, OneRun, History, Off
<1>3. \A s \in Syncs : run[s].pc = "off"
  BY DEF Init, Off
<1>4. ExactlyIndexed
  BY <1>3, BoundsAssumption DEF Init, ExactlyIndexed, AtWork, Image, CountOf, ChunkNos
<1>5. SkipJustified /\ GraphFed
  BY DEF Init, SkipJustified, UpToDate, GraphFed, CountOf
<1>. QED BY <1>1, <1>2, <1>3, <1>4, <1>5 DEF SyncInv

LEMMA BeginInv ==
  ASSUME SyncInv, Orderly, NEW s \in Syncs, NEW full \in BOOLEAN, NEW scope \in SUBSET Docs,
         Begin(s, full, scope)
  PROVE  SyncInv'
<1>. DEFINE R == [pc |-> "scan", full |-> full, scope |-> scope, signature |-> config,
                  snapshot |-> es, todo |-> {d \in Docs : es[d] # None}, seen |-> {},
                  doc |-> None, old |-> None, next |-> 0, stale |-> {}]
<1>1. R \in RunState
  BY BoundsAssumption DEF SyncInv, TypeOK, RunState, PC
<1>2. run' = [run EXCEPT ![s] = R] /\ UNCHANGED Rest
  BY DEF Begin, Rest
<1>3. run'[s] = R /\ R.pc = "scan"
  BY <1>2 DEF SyncInv, TypeOK
<1>4. Position(s)' /\ Traversal(s)' /\ Outdated(s)'
  BY <1>2, <1>3 DEF Begin, Position, Traversal, Outdated, Excluded, Rest
<1>5. R.signature \in past.signatures
      /\ \A d \in Docs : R.snapshot[d] # None => R.snapshot[d] \in past.docs[d]
  BY DEF SyncInv, History
<1>6. run[s].pc = "off" /\ \A r \in Syncs \ {s} : run[r].pc = "off"
  BY DEF Begin, Orderly
<1>7. R.pc \notin {"upsert", "trim", "drop", "enqueue"}
  OBVIOUS
<1>. HIDE DEF R
<1>. QED BY <1>1, <1>2, <1>3, <1>4, <1>5, <1>6, <1>7, Repositioned

(* What a process at work knows of itself and of the others.               *)
LEMMA Working ==
  ASSUME SyncInv, NEW s \in Syncs, run[s].pc # "off"
  PROVE  /\ run[s] \in RunState
         /\ \A r \in Syncs \ {s} : run[r].pc = "off"
         /\ Position(s) /\ Traversal(s) /\ Outdated(s)
         /\ run[s].signature \in past.signatures
         /\ \A d \in Docs : run[s].snapshot[d] # None => run[s].snapshot[d] \in past.docs[d]
BY Alone DEF SyncInv, History

(* Leave and Skip: one document less to do.                                *)
LEMMA PassOverInv ==
  ASSUME SyncInv, Orderly, NEW s \in Syncs, NEW d \in Docs, Leave(s, d) \/ Skip(s, d)
  PROVE  SyncInv'
<1>. DEFINE R == [run[s] EXCEPT !.todo = @ \ {d}]
            Q == [run[s] EXCEPT !.todo = @ \ {d}, !.seen = @ \cup {d}]
<1>1. run[s].pc = "scan"
  BY DEF Leave, Skip, Scanning
<1>2. run[s] \in RunState /\ Position(s) /\ Traversal(s) /\ Outdated(s)
  BY <1>1, Working
<1>3. R \in RunState /\ Q \in RunState
  BY <1>2 DEF RunState
<1>4. CASE Leave(s, d)
  <2>1. run' = [run EXCEPT ![s] = R] /\ UNCHANGED Rest
    BY <1>4 DEF Leave, Rest
  <2>2. run'[s] = R
    BY <2>1 DEF SyncInv, TypeOK
  <2>3. run[s].full => Excluded(s, d)
    BY <1>2, <1>4 DEF Leave, Relevant, Position, Excluded
  <2>4. Position(s)' /\ Traversal(s)' /\ Outdated(s)'
    BY <1>1, <1>2, <2>1, <2>2, <2>3 DEF Position, Traversal, Outdated, Excluded, Rest, RunState
  <2>5. /\ R.pc = "scan" /\ R.signature = run[s].signature /\ R.snapshot = run[s].snapshot
    BY <1>1, <1>2 DEF RunState
  <2>. HIDE DEF R
  <2>. QED BY <1>1, <1>3, <2>1, <2>4, <2>5, Working, Repositioned
<1>5. CASE Skip(s, d)
  <2>1. run' = [run EXCEPT ![s] = Q] /\ UNCHANGED Rest
    BY <1>5 DEF Skip, Rest
  <2>2. run'[s] = Q
    BY <2>1 DEF SyncInv, TypeOK
  <2>4. Position(s)' /\ Traversal(s)' /\ Outdated(s)'
    BY <1>1, <1>2, <2>1, <2>2 DEF Position, Traversal, Outdated, Excluded, Rest, RunState
  <2>5. /\ Q.pc = "scan" /\ Q.signature = run[s].signature /\ Q.snapshot = run[s].snapshot
    BY <1>1, <1>2 DEF RunState
  <2>. HIDE DEF Q
  <2>. QED BY <1>1, <1>3, <2>1, <2>4, <2>5, Working, Repositioned
<1>. QED BY <1>4, <1>5

LEMMA EmbedInv ==
  ASSUME SyncInv, Orderly, NEW s \in Syncs, NEW d \in Docs, Embed(s, d)
  PROVE  SyncInv'
<1>. DEFINE count == Chunks[run[s].snapshot[d]][run[s].signature]
            R == [run[s] EXCEPT !.todo = @ \ {d}, !.seen = @ \cup {d}, !.doc = d,
                                !.old = state[d], !.next = 0,
                                !.pc = IF count > 0 THEN "upsert" ELSE "trim"]
<1>1. run[s].pc = "scan" /\ d \in run[s].todo
  BY DEF Embed, Scanning
<1>2. run[s] \in RunState /\ Position(s) /\ Traversal(s) /\ Outdated(s)
  BY <1>1, Working
<1>3. R \in RunState
  <2>1. state[d] \in Row \cup {None}
    BY DEF SyncInv, TypeOK
  <2>2. 0 \in 0 .. MaxChunks
    BY BoundsAssumption
  <2>3. (IF count > 0 THEN "upsert" ELSE "trim") \in PC
    BY DEF PC
  <2>. HIDE DEF count
  <2>. QED BY <1>2, <2>1, <2>2, <2>3 DEF RunState
<1>4. run' = [run EXCEPT ![s] = R] /\ UNCHANGED Rest
  BY DEF Embed, Rest
<1>5. run'[s] = R
  BY <1>4 DEF SyncInv, TypeOK
<1>6. /\ R.pc = (IF count > 0 THEN "upsert" ELSE "trim")
      /\ R.doc = d /\ R.old = state[d] /\ R.next = 0
      /\ R.signature = run[s].signature /\ R.snapshot = run[s].snapshot
      /\ R.full = run[s].full /\ R.scope = run[s].scope
      /\ R.todo = run[s].todo \ {d} /\ R.seen = run[s].seen \cup {d}
  BY <1>2 DEF RunState
<1>7. ~Excluded(s, d)
  BY <1>1, <1>2 DEF Embed, Relevant, Excluded, Traversal
<1>8. count \in 0 .. MaxChunks
  BY <1>1, <1>2, <1>7, ChunksAssumption DEF RunState, Excluded
<1>9. Final(s)' = count /\ Target(s)' = [content |-> run[s].snapshot[d], signature |-> run[s].signature]
  BY <1>5, <1>6 DEF Final, Target
<1>10. ~UpToDate(state[d], run[s].snapshot[d], run[s].signature)
  BY DEF Embed
<1>. HIDE DEF R, count
<1>11. Position(s)'
  <2>1. \A n \in ChunkNos : ~(n < 0)
    BY BoundsAssumption DEF ChunkNos
  <2>. QED BY <1>2, <1>4, <1>5, <1>6, <1>7, <1>8, <1>9, <1>10, <2>1, BoundsAssumption
           DEF Position, Excluded, Rest, UpToDate
<1>12. Traversal(s)' /\ Outdated(s)'
  BY <1>1, <1>2, <1>4, <1>5, <1>6 DEF Traversal, Outdated, Excluded, Rest
<1>. QED BY ZenonT(60), <1>1, <1>3, <1>4, <1>6, <1>11, <1>12, Working, Repositioned

LEMMA EndScanInv ==
  ASSUME SyncInv, Orderly, NEW s \in Syncs, EndScan(s)
  PROVE  SyncInv'
<1>. DEFINE R == [run[s] EXCEPT !.pc = "cleanup",
                                !.stale = {d \in Docs : state[d] # None} \ run[s].seen]
<1>1. run[s].pc = "scan"
  BY DEF EndScan
<1>2. run[s] \in RunState /\ Position(s) /\ Traversal(s) /\ Outdated(s)
  BY <1>1, Working
<1>3. R \in RunState /\ Off \in {Off} /\ Off.pc = "off"
  BY <1>2 DEF RunState, PC, Off
<1>4. CASE run[s].full /\ run[s].todo = {} /\ run' = [run EXCEPT ![s] = R]
  <2>1. run'[s] = R /\ UNCHANGED Rest
    BY <1>4 DEF SyncInv, TypeOK, EndScan, Rest
  <2>2. /\ R.pc = "cleanup" /\ R.stale = {d \in Docs : state[d] # None} \ run[s].seen
        /\ R.full = run[s].full /\ R.scope = run[s].scope /\ R.todo = run[s].todo
        /\ R.signature = run[s].signature /\ R.snapshot = run[s].snapshot
    BY <1>2 DEF RunState
  <2>. HIDE DEF R
  <2>3. Position(s)' /\ Outdated(s)'
    BY <1>2, <2>1, <2>2 DEF Position, Outdated, Rest
  <2>4. Traversal(s)'
    BY <1>1, <1>2, <1>4, <2>1, <2>2 DEF Traversal, Excluded, Rest
  <2>. QED BY ZenonT(60), <1>1, <1>3, <1>4, <2>1, <2>2, <2>3, <2>4, Working, Repositioned
<1>5. CASE run' = [run EXCEPT ![s] = Off]
  <2>1. UNCHANGED Rest
    BY DEF EndScan, Rest
  <2>. QED BY <1>1, <1>3, <1>5, <2>1, Working, Repositioned
<1>. QED BY <1>4, <1>5 DEF EndScan

LEMMA PurgeInv ==
  ASSUME SyncInv, Orderly, NEW s \in Syncs, NEW d \in Docs, Purge(s, d)
  PROVE  SyncInv'
<1>. DEFINE R == [run[s] EXCEPT !.pc = "drop", !.doc = d, !.old = state[d],
                                !.next = 0, !.stale = @ \ {d}]
<1>1. run[s].pc = "cleanup" /\ d \in run[s].stale
  BY DEF Purge
<1>2. run[s] \in RunState /\ Position(s) /\ Traversal(s) /\ Outdated(s)
  BY <1>1, Working
<1>3. R \in RunState
  <2>1. state[d] \in Row \cup {None}
    BY DEF SyncInv, TypeOK
  <2>2. 0 \in 0 .. MaxChunks /\ "drop" \in PC
    BY BoundsAssumption DEF PC
  <2>. QED BY <1>2, <2>1, <2>2 DEF RunState
<1>4. run' = [run EXCEPT ![s] = R] /\ UNCHANGED Rest
  BY DEF Purge, Rest
<1>5. run'[s] = R
  BY <1>4 DEF SyncInv, TypeOK
<1>6. /\ R.pc = "drop" /\ R.doc = d /\ R.old = state[d] /\ R.next = 0
      /\ R.stale = run[s].stale \ {d} /\ R.todo = run[s].todo
      /\ R.signature = run[s].signature /\ R.snapshot = run[s].snapshot
      /\ R.full = run[s].full /\ R.scope = run[s].scope
  BY <1>2 DEF RunState
<1>. HIDE DEF R
<1>7. Position(s)' /\ Traversal(s)' /\ Outdated(s)'
  BY <1>1, <1>2, <1>4, <1>5, <1>6 DEF Position, Traversal, Outdated, Excluded, Rest
<1>. QED BY <1>1, <1>3, <1>4, <1>6, <1>7, Working, Repositioned

LEMMA FinishInv ==
  ASSUME SyncInv, Orderly, NEW s \in Syncs, Finish(s)
  PROVE  SyncInv'
<1>1. /\ run[s].pc = "cleanup" /\ run' = [run EXCEPT ![s] = Off] /\ UNCHANGED Rest
      /\ Off.pc = "off"
  BY DEF Finish, Rest, Off
<1>. QED BY <1>1, Working, Repositioned

(* The version a run writes is not the one its document's row vouches for, *)
(* unless that row is out of date.                                         *)
LEMMA NotCurrent ==
  ASSUME SyncInv, NEW s \in Syncs,
         run[s].pc \in {"upsert", "trim", "drop"}
  PROVE  /\ run[s].doc \in Docs
         /\ state[run[s].doc] = run[s].old
         /\ ~UpToDate(state[run[s].doc], es[run[s].doc], config)
<1>1. Position(s) /\ Outdated(s) /\ History
  BY Working DEF SyncInv
<1>2. run[s].doc \in Docs /\ state[run[s].doc] = run[s].old
  BY <1>1 DEF Position
<1>3. CASE run[s].pc \in {"upsert", "trim"}
  BY <1>1, <1>2, <1>3 DEF Position, Outdated, UpToDate, Target
<1>4. CASE run[s].pc = "drop"
  <2>1. run[s].snapshot[run[s].doc] \in Filtered \cup {None}
    BY <1>1, <1>4 DEF Position, Excluded
  <2>2. state[run[s].doc] # None => state[run[s].doc].content \notin Filtered \cup {None}
    BY <1>1, <1>2, ContentsAssumption DEF History, SyncInv, TypeOK, Row
  <2>. QED BY <1>1, <1>2, <2>1, <2>2 DEF Outdated, UpToDate
<1>. QED BY <1>3, <1>4

LEMMA TargetType ==
  ASSUME SyncInv, NEW s \in Syncs, run[s].pc \in {"upsert", "trim", "enqueue"}
  PROVE  /\ run[s].doc \in Docs
         /\ Target(s) \in Version
         /\ Target(s).content \notin Filtered
         /\ Target(s).signature = run[s].signature
         /\ Target(s).content = run[s].snapshot[run[s].doc]
         /\ Final(s) = Chunks[Target(s).content][Target(s).signature]
         /\ Final(s) \in 0 .. MaxChunks
<1>1. run[s] \in RunState /\ Position(s)
  BY Working
<1>2. /\ run[s].doc \in Docs /\ run[s].snapshot[run[s].doc] \in Contents \ Filtered
      /\ run[s].signature \in Signatures
  BY <1>1 DEF Position, Excluded, RunState
<1>. QED BY <1>2, ChunksAssumption DEF Target, Final, Version

(* Upsert and Delete write points of the document at hand and move on.     *)
LEMMA PointsWritten ==
  ASSUME SyncInv, Orderly, NEW s \in Syncs, NEW R \in RunState,
         NEW points \in [ChunkNos -> Version \cup {None}],
         run[s].pc \in {"upsert", "trim", "drop"},
         R.pc \in {"upsert", "trim", "drop"},
         R.doc = run[s].doc, R.old = run[s].old, R.snapshot = run[s].snapshot,
         R.signature = run[s].signature, R.full = run[s].full, R.scope = run[s].scope,
         R.todo = run[s].todo, R.seen = run[s].seen, R.stale = run[s].stale,
         R.pc = "drop" <=> run[s].pc = "drop",
         run' = [run EXCEPT ![s] = R],
         vectors' = [vectors EXCEPT ![run[s].doc] = points],
         UNCHANGED <<es, config, past, state, enqueued, aborts>>,
         Position(s)',
         vectors[run[s].doc] = Progress(s) => points = Progress(s)'
  PROVE  SyncInv'
<1>. DEFINE d == run[s].doc
<1>1. /\ run'[s] = R
      /\ \A r \in Syncs \ {s} : run'[r] = run[r] /\ run'[r].pc = "off"
  BY Working DEF SyncInv, TypeOK
<1>2. d \in Docs /\ run[s].pc # "off" /\ run[s].pc # "enqueue"
  BY NotCurrent
<1>3. vectors'[d] = points /\ \A e \in Docs \ {d} : vectors'[e] = vectors[e]
  BY <1>2 DEF SyncInv, TypeOK
<1>4. TypeOK'
  BY <1>2 DEF SyncInv, TypeOK
<1>5. OneRun'
  BY <1>1 DEF OneRun
<1>6. History'
  BY <1>1, <1>2 DEF SyncInv, History
<1>7. Traversal(s)' /\ Outdated(s)'
  BY <1>1, <1>2, Working DEF Traversal, Outdated, Excluded
<1>8. \A r \in Syncs : run'[r].pc # "off" => (Position(r) /\ Traversal(r) /\ Outdated(r))'
  BY <1>1, <1>7
<1>9. ExactlyIndexed'
  <2>. SUFFICES ASSUME aborts = 0, NEW e \in Docs
                PROVE  /\ \A r \in Syncs : AtWork(r, e)' => vectors'[e] = Progress(r)'
                       /\ (\A r \in Syncs : ~AtWork(r, e)') => vectors'[e] = Image(state'[e])
    BY DEF ExactlyIndexed, Image, CountOf, VersionOf
  <2>1. CASE e = d
    <3>1. vectors[d] = Progress(s)
      BY <1>2 DEF SyncInv, ExactlyIndexed, AtWork, Orderly
    <3>2. AtWork(s, d)' /\ \A r \in Syncs \ {s} : ~AtWork(r, d)'
      BY <1>1 DEF AtWork
    <3>. QED BY <2>1, <3>1, <3>2, <1>3
  <2>2. CASE e # d
    <3>1. \A r \in Syncs : ~AtWork(r, e) /\ ~AtWork(r, e)'
      BY <1>1, <2>2, Working, <1>2 DEF AtWork
    <3>2. vectors[e] = Image(state[e])
      BY <3>1 DEF SyncInv, ExactlyIndexed, Orderly
    <3>. QED BY <3>1, <3>2, <1>3, <2>2
  <2>. QED BY <2>1, <2>2
<1>10. SkipJustified'
  <2>1. ~UpToDate(state[d], es[d], config)
    BY NotCurrent
  <2>. QED BY <1>2, <1>3, <2>1 DEF SyncInv, SkipJustified, UpToDate, VersionOf
<1>11. GraphFed'
  BY <1>1, <1>2, Working DEF SyncInv, GraphFed, CountOf, Target
<1>. QED BY <1>4, <1>5, <1>6, <1>8, <1>9, <1>10, <1>11 DEF SyncInv

LEMMA UpsertInv ==
  ASSUME SyncInv, Orderly, NEW s \in Syncs, Upsert(s)
  PROVE  SyncInv'
<1>. DEFINE d == run[s].doc
            stop == UpTo(run[s].next, Batch, Final(s))
            points == [n \in ChunkNos |-> IF n \in run[s].next .. stop - 1
                                         THEN Target(s) ELSE vectors[d][n]]
            R == [run[s] EXCEPT !.next = stop,
                                !.pc = IF stop = Final(s) THEN "trim" ELSE "upsert"]
<1>1. run[s].pc = "upsert"
  BY DEF Upsert
<1>2. run[s] \in RunState /\ Position(s) /\ d \in Docs /\ Target(s) \in Version
  BY <1>1, Working, TargetType
<1>3. /\ Final(s) \in 0 .. MaxChunks /\ run[s].next \in Nat /\ run[s].next < Final(s)
      /\ stop \in 0 .. MaxChunks /\ run[s].next < stop /\ stop <= Final(s)
  <2>1. Final(s) \in 0 .. MaxChunks /\ run[s].next \in 0 .. MaxChunks /\ run[s].next < Final(s)
    BY <1>1, <1>2, TargetType DEF RunState, Position
  <2>. QED BY <2>1, BoundsAssumption, BatchAssumption DEF UpTo
<1>4. R \in RunState
  BY <1>2, <1>3 DEF RunState, PC
<1>5. /\ run' = [run EXCEPT ![s] = R]
      /\ vectors' = [vectors EXCEPT ![d] = points]
      /\ UNCHANGED <<es, config, past, state, enqueued, aborts>>
  BY DEF Upsert
<1>6. points \in [ChunkNos -> Version \cup {None}]
  BY <1>2, Domains DEF SyncInv
<1>7. /\ R.pc = (IF stop = Final(s) THEN "trim" ELSE "upsert") /\ R.next = stop
      /\ R.doc = run[s].doc /\ R.old = run[s].old /\ R.snapshot = run[s].snapshot
      /\ R.signature = run[s].signature /\ R.full = run[s].full /\ R.scope = run[s].scope
      /\ R.todo = run[s].todo /\ R.seen = run[s].seen /\ R.stale = run[s].stale
  BY <1>2 DEF RunState
<1>8. run'[s] = R /\ vectors'[d] = points
  BY <1>2, <1>5 DEF SyncInv, TypeOK
<1>9. Target(s)' = Target(s) /\ Final(s)' = Final(s)
  BY <1>7, <1>8 DEF Target, Final
<1>10. \A n \in ChunkNos : n \in Nat
  BY DEF ChunkNos
<1>11. \A n \in ChunkNos : n < stop => points[n] = Target(s)
  BY <1>1, <1>2, <1>3, <1>10 DEF Position
<1>12. \A n \in ChunkNos : n >= stop => points[n] = vectors[d][n]
  BY <1>3, <1>10
<1>. HIDE DEF R, points, stop
<1>13. Position(s)'
  BY <1>1, <1>2, <1>3, <1>5, <1>7, <1>8, <1>9, <1>11 DEF Position, Excluded
<1>14. ASSUME vectors[d] = Progress(s) PROVE points = Progress(s)'
  <2>1. Image(run[s].old)' = Image(run[s].old)
    BY <1>7, <1>8 DEF Image, CountOf, VersionOf
  <2>2. Progress(s)' = [n \in ChunkNos |->
                         IF n >= stop THEN Image(run[s].old)[n]
                         ELSE IF n < Final(s) THEN Target(s) ELSE None]
    BY <1>7, <1>8, <1>9, <2>1 DEF Progress, Image, CountOf, VersionOf
  <2>3. \A n \in ChunkNos : points[n] = Progress(s)'[n]
    <3>. SUFFICES ASSUME NEW n \in ChunkNos PROVE points[n] = Progress(s)'[n]
      OBVIOUS
    <3>1. CASE n < stop
      BY <1>3, <1>10, <1>11, <2>2, <3>1
    <3>2. CASE ~(n < stop)
      <4>1. n >= stop /\ n >= run[s].next
        BY <1>3, <1>10, <3>2
      <4>2. vectors[d][n] = Image(run[s].old)[n]
        BY <1>14, <4>1 DEF Progress
      <4>. QED BY <1>12, <2>2, <4>1, <4>2
    <3>. QED BY <3>1, <3>2
  <2>. QED BY <1>6, <2>2, <2>3
<1>. QED BY <1>1, <1>4, <1>5, <1>6, <1>7, <1>13, <1>14, PointsWritten

LEMMA DeleteInv ==
  ASSUME SyncInv, Orderly, NEW s \in Syncs, Delete(s)
  PROVE  SyncInv'
<1>. DEFINE d == run[s].doc
            last == CountOf(run[s].old)
            stop == UpTo(run[s].next, DeleteBatch, last)
            points == [n \in ChunkNos |-> IF n \in run[s].next .. stop - 1
                                         THEN None ELSE vectors[d][n]]
            R == [run[s] EXCEPT !.next = stop]
<1>1. run[s].pc \in {"trim", "drop"} /\ run[s].next < last
  BY DEF Delete
<1>2. run[s] \in RunState /\ Position(s) /\ d \in Docs
  BY <1>1, Working, NotCurrent
<1>3. run[s].next \in Nat /\ stop \in 0 .. MaxChunks /\ run[s].next < stop
  <2>1. last \in 0 .. MaxChunks
    BY <1>2, BoundsAssumption DEF RunState, Row, CountOf
  <2>2. run[s].next \in 0 .. MaxChunks
    BY <1>2 DEF RunState
  <2>. HIDE DEF last
  <2>. QED BY <1>1, <2>1, <2>2, BoundsAssumption, BatchAssumption DEF UpTo
<1>4. R \in RunState
  BY <1>2, <1>3 DEF RunState
<1>5. /\ run' = [run EXCEPT ![s] = R]
      /\ vectors' = [vectors EXCEPT ![d] = points]
      /\ UNCHANGED <<es, config, past, state, enqueued, aborts>>
  BY DEF Delete
<1>6. points \in [ChunkNos -> Version \cup {None}]
  BY <1>2, Domains DEF SyncInv
<1>7. /\ R.pc = run[s].pc /\ R.next = stop
      /\ R.doc = run[s].doc /\ R.old = run[s].old /\ R.snapshot = run[s].snapshot
      /\ R.signature = run[s].signature /\ R.full = run[s].full /\ R.scope = run[s].scope
      /\ R.todo = run[s].todo /\ R.seen = run[s].seen /\ R.stale = run[s].stale
  BY <1>2 DEF RunState
<1>8. run'[s] = R /\ vectors'[d] = points
  BY <1>2, <1>5 DEF SyncInv, TypeOK
<1>9. Target(s)' = Target(s) /\ Final(s)' = Final(s)
  BY <1>7, <1>8 DEF Target, Final
<1>10. \A n \in ChunkNos : n \in Nat
  BY DEF ChunkNos
<1>11. run[s].pc = "trim" => Final(s) \in Nat /\ Final(s) <= run[s].next
  BY <1>2, TargetType DEF Position
<1>12. \A n \in ChunkNos :
         points[n] = IF run[s].next <= n /\ n < stop THEN None ELSE vectors[d][n]
  BY <1>3, <1>10
<1>. HIDE DEF R, points, stop, last
<1>13. Position(s)'
  <2>1. \A n \in ChunkNos : run[s].pc = "trim" /\ n < Final(s) => points[n] = vectors[d][n] /\ n < run[s].next
    BY <1>3, <1>10, <1>11, <1>12
  <2>. QED BY <1>1, <1>2, <1>3, <1>5, <1>7, <1>8, <1>9, <1>11, <2>1 DEF Position, Excluded
<1>14. ASSUME vectors[d] = Progress(s) PROVE points = Progress(s)'
  <2>1. Image(run[s].old)' = Image(run[s].old)
    BY <1>7, <1>8 DEF Image, CountOf, VersionOf
  <2>2. Progress(s)' = [n \in ChunkNos |->
                         IF n >= stop THEN Image(run[s].old)[n]
                         ELSE IF run[s].pc # "drop" /\ n < Final(s) THEN Target(s) ELSE None]
    BY <1>7, <1>8, <1>9, <2>1 DEF Progress, Image, CountOf, VersionOf
  <2>3. \A n \in ChunkNos : points[n] = Progress(s)'[n]
    <3>. SUFFICES ASSUME NEW n \in ChunkNos PROVE points[n] = Progress(s)'[n]
      OBVIOUS
    <3>0. vectors[d][n] = IF n >= run[s].next THEN Image(run[s].old)[n]
                          ELSE IF run[s].pc # "drop" /\ n < Final(s) THEN Target(s) ELSE None
      BY <1>14 DEF Progress
    <3>1. CASE n < run[s].next
      BY <1>3, <1>10, <1>12, <2>2, <3>0, <3>1
    <3>2. CASE run[s].next <= n /\ n < stop
      BY <1>1, <1>3, <1>10, <1>11, <1>12, <2>2, <3>2
    <3>3. CASE stop <= n
      BY <1>3, <1>10, <1>12, <2>2, <3>0, <3>3
    <3>. QED BY <1>3, <1>10, <3>1, <3>2, <3>3
  <2>. QED BY <1>6, <2>2, <2>3
<1>. QED BY <1>1, <1>4, <1>5, <1>6, <1>7, <1>13, <1>14, PointsWritten

(* Commit and Forget write the row of the document at hand and go on.      *)
LEMMA RowWritten ==
  ASSUME SyncInv, Orderly, NEW s \in Syncs, NEW R \in RunState, NEW row \in Row \cup {None},
         run[s].pc \in {"trim", "drop"}, R.pc \in {"enqueue", "scan", "cleanup"},
         R.snapshot = run[s].snapshot, R.signature = run[s].signature, R.doc = run[s].doc,
         run' = [run EXCEPT ![s] = R], state' = [state EXCEPT ![run[s].doc] = row],
         UNCHANGED <<es, config, past, vectors, enqueued, aborts>>,
         row # None => /\ row.content = run[s].snapshot[run[s].doc]
                       /\ row.signature = run[s].signature
                       /\ row.content \notin Filtered
                       /\ row.count = Chunks[row.content][row.signature]
                       /\ \A n \in 0 .. row.count - 1 :
                            vectors[run[s].doc][n] = VersionOf(row),
         vectors[run[s].doc] = Progress(s) => vectors[run[s].doc] = Image(row),
         GraphOn /\ aborts = 0 /\ CountOf(row) > 0 =>
           row.content \in enqueued[run[s].doc] \/ R.pc = "enqueue",
         Position(s)' /\ Traversal(s)'
  PROVE  SyncInv'
<1>. DEFINE d == run[s].doc
<1>1. /\ run'[s] = R
      /\ \A r \in Syncs \ {s} : run'[r] = run[r] /\ run'[r].pc = "off"
  BY Working DEF SyncInv, TypeOK
<1>2. d \in Docs /\ run[s].pc # "off" /\ run[s].pc # "enqueue"
  BY NotCurrent
<1>3. state'[d] = row /\ \A e \in Docs \ {d} : state'[e] = state[e]
  BY <1>2 DEF SyncInv, TypeOK
<1>4. TypeOK'
  BY <1>2 DEF SyncInv, TypeOK
<1>5. OneRun'
  BY <1>1 DEF OneRun
<1>6. History'
  <2>1. row # None => /\ row.content \in past.docs[d] \ Filtered
                      /\ row.signature \in past.signatures
    BY <1>2, Working, ContentsAssumption DEF Row
  <2>. QED BY <1>1, <1>2, <1>3, <2>1 DEF SyncInv, History
<1>7. Outdated(s)'
  BY <1>1, <1>2, <1>3, Working DEF Outdated
<1>8. \A r \in Syncs : run'[r].pc # "off" => (Position(r) /\ Traversal(r) /\ Outdated(r))'
  BY <1>1, <1>7
<1>9. ExactlyIndexed'
  <2>. SUFFICES ASSUME aborts = 0, NEW e \in Docs
                PROVE  /\ \A r \in Syncs : AtWork(r, e)' => vectors[e] = Progress(r)'
                       /\ (\A r \in Syncs : ~AtWork(r, e)') => vectors[e] = Image(state'[e])
    BY DEF ExactlyIndexed, Image, CountOf, VersionOf
  <2>1. \A r \in Syncs : ~AtWork(r, e)'
    BY <1>1 DEF AtWork
  <2>2. CASE e = d
    <3>1. vectors[d] = Progress(s)
      BY <1>2 DEF SyncInv, ExactlyIndexed, AtWork, Orderly
    <3>. QED BY <2>1, <2>2, <3>1, <1>3
  <2>3. CASE e # d
    <3>1. \A r \in Syncs : ~AtWork(r, e)
      BY <2>3, Working, <1>2 DEF AtWork
    <3>2. vectors[e] = Image(state[e])
      BY <3>1 DEF SyncInv, ExactlyIndexed, Orderly
    <3>. QED BY <2>1, <2>3, <3>2, <1>3
  <2>. QED BY <2>2, <2>3
<1>10. SkipJustified'
  <2>. SUFFICES ASSUME NEW e \in Docs, UpToDate(state'[e], es[e], config),
                       NEW n \in 0 .. state'[e].count - 1
                PROVE  vectors[e][n] = VersionOf(state'[e])
    BY DEF SkipJustified, UpToDate, VersionOf
  <2>1. CASE e = d
    BY <2>1, <1>3 DEF UpToDate
  <2>2. CASE e # d
    BY <2>2, <1>3 DEF SyncInv, SkipJustified, Orderly
  <2>. QED BY <2>1, <2>2
<1>11. GraphFed'
  <2>. SUFFICES ASSUME GraphOn, aborts = 0, NEW e \in Docs, CountOf(state'[e]) > 0,
                       state'[e].content \notin enqueued[e]
                PROVE  /\ run'[s].pc = "enqueue" /\ run'[s].doc = e
                       /\ Target(s)'.content = state'[e].content
    BY DEF GraphFed, CountOf
  <2>1. \A r \in Syncs : run[r].pc # "enqueue"
    BY <1>2, Working
  <2>2. e = d
    BY <1>3, <2>1 DEF SyncInv, GraphFed, CountOf
  <2>3. row # None
    BY <2>2, <1>3 DEF CountOf
  <2>4. Target(s)'.content = run[s].snapshot[d]
    BY <1>1 DEF Target
  <2>5. CountOf(row) > 0 /\ row.content \notin enqueued[d]
    BY <2>2, <1>3
  <2>. QED BY <1>1, <1>3, <2>2, <2>3, <2>4, <2>5
<1>. QED BY <1>1, <1>4, <1>5, <1>6, <1>8, <1>9, <1>10, <1>11 DEF SyncInv

LEMMA CommitInv ==
  ASSUME SyncInv, Orderly, NEW s \in Syncs, Commit(s)
  PROVE  SyncInv'
<1>. DEFINE d == run[s].doc
            row == [content |-> Target(s).content, signature |-> Target(s).signature,
                    count |-> Final(s)]
            R == [run[s] EXCEPT !.pc = IF GraphWanted(s) THEN "enqueue" ELSE "scan"]
<1>1. run[s].pc = "trim" /\ run[s].next >= CountOf(run[s].old)
  BY DEF Commit
<1>2. run[s] \in RunState /\ Position(s) /\ Traversal(s) /\ d \in Docs
  BY <1>1, Working, NotCurrent
<1>3. /\ Target(s) \in Version /\ Final(s) \in 0 .. MaxChunks
      /\ Final(s) <= run[s].next /\ run[s].next \in Nat
  BY <1>1, <1>2, TargetType DEF RunState, Position
<1>4. row \in Row /\ row # None /\ VersionOf(row) = Target(s)
  BY <1>3, NoneAssumption DEF Row, Version, VersionOf
<1>5. R \in RunState
  BY <1>2 DEF RunState, PC
<1>6. /\ run' = [run EXCEPT ![s] = R] /\ state' = [state EXCEPT ![d] = row]
      /\ UNCHANGED <<es, config, past, vectors, enqueued, aborts>>
  BY DEF Commit
<1>7. /\ R.pc = (IF GraphWanted(s) THEN "enqueue" ELSE "scan")
      /\ R.doc = run[s].doc /\ R.snapshot = run[s].snapshot
      /\ R.signature = run[s].signature /\ R.full = run[s].full /\ R.scope = run[s].scope
      /\ R.todo = run[s].todo /\ R.seen = run[s].seen /\ R.stale = run[s].stale
  BY <1>2 DEF RunState
<1>8. run'[s] = R
  BY <1>6 DEF SyncInv, TypeOK
<1>9. /\ row.content = run[s].snapshot[d] /\ row.signature = run[s].signature
      /\ row.content \notin Filtered /\ row.count = Chunks[row.content][row.signature]
      /\ \A n \in 0 .. row.count - 1 : vectors[d][n] = VersionOf(row)
  <2>1. \A n \in 0 .. Final(s) - 1 : n \in ChunkNos /\ n < Final(s) /\ n < run[s].next
    BY <1>3, BoundsAssumption DEF ChunkNos
  <2>2. \A n \in 0 .. Final(s) - 1 : vectors[d][n] = Target(s)
    BY <1>1, <1>2, <2>1 DEF Position
  <2>. QED BY <1>1, <1>4, <2>2, TargetType
<1>10. ASSUME vectors[d] = Progress(s) PROVE vectors[d] = Image(row)
  <2>1. \A n \in ChunkNos : n \in Nat
    BY DEF ChunkNos
  <2>2. CountOf(row) = Final(s)
    BY <1>4 DEF CountOf
  <2>3. CountOf(run[s].old) \in Nat
    BY <1>2, BoundsAssumption DEF RunState, Row, CountOf
  <2>4. \A n \in ChunkNos : Progress(s)[n] = Image(row)[n]
    <3>. SUFFICES ASSUME NEW n \in ChunkNos PROVE Progress(s)[n] = Image(row)[n]
      OBVIOUS
    <3>1. CASE n >= run[s].next
      <4>1. ~(n < CountOf(run[s].old)) /\ ~(n < Final(s))
        BY <1>1, <1>3, <2>1, <2>3, <3>1
      <4>. QED BY <3>1, <4>1, <2>2 DEF Progress, Image
    <3>2. CASE ~(n >= run[s].next)
      BY <1>1, <1>4, <2>2, <3>2 DEF Progress, Image
    <3>. QED BY <3>1, <3>2
  <2>. QED BY <1>10, <2>4 DEF Progress, Image
<1>11. GraphOn /\ aborts = 0 /\ CountOf(row) > 0 =>
         row.content \in enqueued[d] \/ R.pc = "enqueue"
  <2>. SUFFICES ASSUME GraphOn, aborts = 0, CountOf(row) > 0, ~GraphWanted(s)
                PROVE  row.content \in enqueued[d]
    BY <1>7
  <2>1. Final(s) > 0
    BY <1>4 DEF CountOf
  <2>2. run[s].old = state[d] /\ state[d] # None /\ state[d].content = row.content
    BY <1>1, <1>2, <2>1 DEF GraphWanted, Position
  <2>3. state[d].count > 0
    <3>1. /\ state[d].count = Chunks[state[d].content][state[d].signature]
          /\ state[d].content \in Contents /\ state[d].signature \in Signatures
          /\ state[d].count \in 0 .. MaxChunks
      BY <1>2, <2>2 DEF SyncInv, History, TypeOK, Row
    <3>2. Chunks[row.content][row.signature] # 0 /\ row.signature \in Signatures
      BY <1>3, <1>9, <2>1 DEF Version
    <3>3. state[d].count # 0
      BY <2>2, <3>1, <3>2, ChunksAssumption
    <3>4. \A n \in 0 .. MaxChunks : n # 0 => n > 0
      BY BoundsAssumption
    <3>5. state[d].count \in 0 .. MaxChunks
      BY <3>1
    <3>. QED BY <3>3, <3>4, <3>5
  <2>4. \A r \in Syncs : run[r].pc # "enqueue"
    BY <1>1, Working
  <2>. QED BY <1>2, <2>2, <2>3, <2>4 DEF SyncInv, GraphFed, CountOf
<1>. HIDE DEF R, row
<1>12. Position(s)' /\ Traversal(s)'
  BY <1>1, <1>2, <1>6, <1>7, <1>8 DEF Position, Traversal, Excluded
<1>. QED BY <1>1, <1>4, <1>5, <1>6, <1>7, <1>9, <1>10, <1>11, <1>12, RowWritten

LEMMA ForgetInv ==
  ASSUME SyncInv, Orderly, NEW s \in Syncs, Forget(s)
  PROVE  SyncInv'
<1>. DEFINE d == run[s].doc
            R == [run[s] EXCEPT !.pc = "cleanup"]
<1>1. run[s].pc = "drop" /\ run[s].next >= CountOf(run[s].old)
  BY DEF Forget
<1>2. run[s] \in RunState /\ Position(s) /\ Traversal(s) /\ d \in Docs
  BY <1>1, Working, NotCurrent
<1>3. R \in RunState
  BY <1>2 DEF RunState, PC
<1>4. /\ run' = [run EXCEPT ![s] = R] /\ state' = [state EXCEPT ![d] = None]
      /\ UNCHANGED <<es, config, past, vectors, enqueued, aborts>>
  BY DEF Forget
<1>5. /\ R.pc = "cleanup" /\ R.doc = run[s].doc /\ R.snapshot = run[s].snapshot
      /\ R.signature = run[s].signature /\ R.full = run[s].full /\ R.scope = run[s].scope
      /\ R.todo = run[s].todo /\ R.seen = run[s].seen /\ R.stale = run[s].stale
  BY <1>2 DEF RunState
<1>6. run'[s] = R
  BY <1>4 DEF SyncInv, TypeOK
<1>7. ASSUME vectors[d] = Progress(s) PROVE vectors[d] = Image(None)
  <2>1. /\ CountOf(run[s].old) \in Nat /\ run[s].next \in Nat
        /\ \A n \in ChunkNos : n \in Nat /\ ~(n < 0)
    BY <1>2, BoundsAssumption DEF RunState, Row, CountOf, ChunkNos
  <2>2. \A n \in ChunkNos : n >= run[s].next => ~(n < CountOf(run[s].old))
    BY <1>1, <2>1
  <2>3. \A n \in ChunkNos : Progress(s)[n] = None
    BY <1>1, <2>2 DEF Progress, Image
  <2>4. Image(None) = [n \in ChunkNos |-> None]
    BY <2>1 DEF Image, CountOf
  <2>. QED BY <1>7, <2>3, <2>4 DEF Progress
<1>. HIDE DEF R
<1>8. Position(s)' /\ Traversal(s)'
  BY <1>1, <1>2, <1>4, <1>5, <1>6 DEF Position, Traversal, Excluded
<1>9. PICK row \in Row \cup {None} : row = None
  OBVIOUS
<1>10. ~(CountOf(row) > 0)
  BY <1>9 DEF CountOf
<1>11. state' = [state EXCEPT ![d] = row]
  BY <1>4, <1>9
<1>12. vectors[d] = Progress(s) => vectors[d] = Image(row)
  BY <1>7, <1>9
<1>. QED BY <1>1, <1>3, <1>4, <1>5, <1>8, <1>9, <1>10, <1>11, <1>12, RowWritten

LEMMA EnqueueInv ==
  ASSUME SyncInv, Orderly, NEW s \in Syncs, Enqueue(s)
  PROVE  SyncInv'
<1>. DEFINE d == run[s].doc
            R == [run[s] EXCEPT !.pc = "scan"]
<1>1. run[s].pc = "enqueue"
  BY DEF Enqueue
<1>2. run[s] \in RunState /\ Position(s) /\ Traversal(s) /\ Outdated(s) /\ d \in Docs
  BY <1>1, Working, TargetType
<1>3. R \in RunState
  BY <1>2 DEF RunState, PC
<1>4. /\ run' = [run EXCEPT ![s] = R]
      /\ enqueued' = [enqueued EXCEPT ![d] = @ \cup {Target(s).content}]
      /\ UNCHANGED <<es, config, past, state, vectors, aborts>>
  BY DEF Enqueue
<1>5. /\ R.pc = "scan" /\ R.snapshot = run[s].snapshot
      /\ R.signature = run[s].signature /\ R.full = run[s].full /\ R.scope = run[s].scope
      /\ R.todo = run[s].todo /\ R.seen = run[s].seen /\ R.stale = run[s].stale
  BY <1>2 DEF RunState
<1>6. /\ run'[s] = R
      /\ \A r \in Syncs \ {s} : run'[r] = run[r] /\ run'[r].pc = "off"
  BY <1>1, <1>4, Working DEF SyncInv, TypeOK
<1>7. TypeOK'
  <2>1. Target(s).content \in Contents
    BY <1>1, TargetType DEF Version
  <2>. QED BY <1>2, <1>3, <1>4, <2>1 DEF SyncInv, TypeOK
<1>. HIDE DEF R
<1>8. OneRun' /\ History'
  BY <1>1, <1>4, <1>5, <1>6, Working DEF SyncInv, OneRun, History
<1>9. (Position(s) /\ Traversal(s) /\ Outdated(s))'
  BY <1>1, <1>2, <1>4, <1>5, <1>6 DEF Position, Traversal, Outdated, Excluded
<1>10. ExactlyIndexed' /\ SkipJustified'
  <2>1. \A r \in Syncs, e \in Docs : ~AtWork(r, e) /\ ~AtWork(r, e)'
    BY <1>1, <1>5, <1>6, Working DEF AtWork
  <2>2. ExactlyIndexed'
    BY <1>4, <2>1 DEF SyncInv, ExactlyIndexed, Image, CountOf, VersionOf, Orderly
  <2>. QED BY <1>4, <2>2 DEF SyncInv, SkipJustified, UpToDate, VersionOf
<1>11. GraphFed'
  <2>. SUFFICES ASSUME GraphOn, aborts = 0, NEW e \in Docs, CountOf(state[e]) > 0
                PROVE  state[e].content \in enqueued'[e]
    BY <1>4 DEF GraphFed, CountOf
  <2>1. /\ enqueued'[d] = enqueued[d] \cup {Target(s).content}
        /\ \A f \in Docs \ {d} : enqueued'[f] = enqueued[f]
    BY <1>2, <1>4 DEF SyncInv, TypeOK
  <2>2. \A r \in Syncs : run[r].pc = "enqueue" => r = s
    BY <1>1, Working
  <2>. QED BY <2>1, <2>2 DEF SyncInv, GraphFed
<1>. QED BY <1>6, <1>7, <1>8, <1>9, <1>10, <1>11 DEF SyncInv

(* A cut-off run leaves the points of its document as they are, which is   *)
(* why ExactlyIndexed says nothing from here on and SkipJustified does.    *)
LEMMA AbortInv ==
  ASSUME SyncInv, NEW s \in Syncs, Abort(s)
  PROVE  SyncInv'
<1>1. /\ run' = [run EXCEPT ![s] = Off] /\ aborts' = aborts + 1
      /\ UNCHANGED <<es, config, past, state, vectors, enqueued>>
      /\ run[s].pc # "off" /\ aborts < MaxAborts
  BY DEF Abort
<1>2. /\ run'[s].pc = "off"
      /\ \A r \in Syncs \ {s} : run'[r] = run[r] /\ run'[r].pc = "off"
  BY <1>1, Working DEF SyncInv, TypeOK, Off
<1>3. aborts' \in 0 .. MaxAborts /\ aborts' # 0
  BY <1>1, BoundsAssumption DEF SyncInv, TypeOK
<1>4. TypeOK'
  BY <1>1, <1>3 DEF SyncInv, TypeOK
<1>5. OneRun' /\ History'
  BY <1>1, <1>2 DEF SyncInv, OneRun, History
<1>6. ExactlyIndexed' /\ GraphFed'
  BY <1>3 DEF ExactlyIndexed, GraphFed
<1>7. SkipJustified'
  BY <1>1 DEF SyncInv, SkipJustified, UpToDate, VersionOf
<1>. QED BY <1>2, <1>4, <1>5, <1>6, <1>7 DEF SyncInv

(* What is said of a run and of Qdrant does not depend on Elasticsearch.   *)
LEMMA StoresStill ==
  ASSUME UNCHANGED <<state, vectors, run, aborts>>
  PROVE  /\ \A s \in Syncs : (Position(s) <=> Position(s)') /\ (Traversal(s) <=> Traversal(s)')
         /\ ExactlyIndexed => ExactlyIndexed'
<1>1. \A s \in Syncs : Target(s)' = Target(s) /\ Final(s)' = Final(s)
  BY DEF Target, Final
<1>2. ASSUME NEW s \in Syncs PROVE Position(s) <=> Position(s)'
  <2>1. \A d \in Docs : Excluded(s, d) <=> Excluded(s, d)'
    BY DEF Excluded
  <2>2. UpToDate(run[s].old, Target(s).content, Target(s).signature)
          <=> UpToDate(run[s].old, Target(s).content, Target(s).signature)'
    BY <1>1 DEF UpToDate
  <2>. QED BY <1>1, <2>1, <2>2 DEF Position
<1>3. ASSUME NEW s \in Syncs PROVE Traversal(s) <=> Traversal(s)'
  BY DEF Traversal, Excluded
<1>4. \A s \in Syncs : Progress(s)' = Progress(s)
  BY <1>1 DEF Progress, Image, CountOf, VersionOf
<1>5. \A s \in Syncs, d \in Docs : AtWork(s, d)' <=> AtWork(s, d)
  BY DEF AtWork
<1>6. \A d \in Docs : Image(state[d])' = Image(state[d])
  BY DEF Image, CountOf, VersionOf
<1>7. ExactlyIndexed => ExactlyIndexed'
  BY <1>4, <1>5, <1>6 DEF ExactlyIndexed
<1>. QED BY <1>2, <1>3, <1>7

(* Elasticsearch or the configuration moves on to something new.           *)
LEMMA WorldMoves ==
  ASSUME SyncInv, Orderly,
         UNCHANGED <<state, vectors, enqueued, run, aborts>>,
         TypeOK',
         \/ /\ config' = config
            /\ \E d \in Docs : \E c \in Contents :
                 /\ c \notin past.docs[d]
                 /\ es' = [es EXCEPT ![d] = c]
                 /\ past' = [past EXCEPT !.docs[d] = @ \cup {c}]
         \/ /\ config' = config /\ past' = past
            /\ \E d \in Docs : es' = [es EXCEPT ![d] = None]
         \/ /\ es' = es
            /\ \E g \in Signatures :
                 /\ g \notin past.signatures /\ config' = g
                 /\ past' = [past EXCEPT !.signatures = @ \cup {g}]
  PROVE  SyncInv'
<1>1. /\ past \in [docs : [Docs -> SUBSET Contents], signatures : SUBSET Signatures]
      /\ es \in [Docs -> Contents \cup {None}]
  BY DEF SyncInv, TypeOK
<1>2. /\ \A d \in Docs : past.docs[d] \subseteq past'.docs[d]
      /\ past.signatures \subseteq past'.signatures
      /\ config' \in past'.signatures
      /\ \A d \in Docs : es'[d] # None => es'[d] \in past'.docs[d]
  BY <1>1 DEF SyncInv, History
<1>3. /\ \A d \in Docs : es'[d] = es[d] \/ es'[d] \notin past.docs[d]
      /\ config' = config \/ config' \notin past.signatures
  BY <1>1, ContentsAssumption
<1>4. OneRun' /\ History'
  BY <1>2 DEF SyncInv, OneRun, History
<1>5. \A s \in Syncs : run[s].pc # "off" => (Position(s) /\ Traversal(s))'
  BY StoresStill DEF SyncInv
<1>6. \A s \in Syncs : run[s].pc # "off" => Outdated(s)'
  BY <1>3 DEF SyncInv, History, Outdated
<1>7. ExactlyIndexed'
  BY StoresStill DEF SyncInv
<1>8. SkipJustified'
  <2>1. \A d \in Docs : UpToDate(state[d], es'[d], config') => UpToDate(state[d], es[d], config)
    BY <1>3 DEF SyncInv, History, UpToDate
  <2>. QED BY <2>1 DEF SyncInv, SkipJustified, UpToDate, VersionOf
<1>9. GraphFed'
  BY DEF SyncInv, GraphFed, CountOf, Target
<1>. QED BY <1>4, <1>5, <1>6, <1>7, <1>8, <1>9 DEF SyncInv

LEMMA WorldInv ==
  ASSUME SyncInv, Orderly,
         \/ \E d \in Docs : Remove(d) \/ \E c \in Contents : Edit(d, c)
         \/ \E g \in Signatures : Reconfigure(g)
  PROVE  SyncInv'
<1>. USE DEF Orderly
<1>1. TypeOK
  BY DEF SyncInv
<1>2. CASE \E d \in Docs : Remove(d)
  <2>1. UNCHANGED <<config, past, state, vectors, enqueued, run, aborts>>
        /\ \E d \in Docs : es' = [es EXCEPT ![d] = None]
    BY <1>2 DEF Remove
  <2>2. TypeOK'
    BY <1>1, <2>1 DEF TypeOK
  <2>. QED BY <2>1, <2>2, WorldMoves
<1>3. ASSUME NEW d \in Docs, NEW c \in Contents, Edit(d, c) PROVE SyncInv'
  <2>1. /\ UNCHANGED <<config, state, vectors, enqueued, run, aborts>>
        /\ c \notin past.docs[d] /\ es' = [es EXCEPT ![d] = c]
        /\ past' = [past EXCEPT !.docs[d] = @ \cup {c}]
    BY <1>3 DEF Edit
  <2>2. TypeOK'
    BY <1>1, <2>1 DEF TypeOK
  <2>. QED BY <2>1, <2>2, WorldMoves
<1>4. ASSUME NEW g \in Signatures, Reconfigure(g) PROVE SyncInv'
  <2>1. /\ UNCHANGED <<es, state, vectors, enqueued, run, aborts>>
        /\ g \notin past.signatures /\ config' = g
        /\ past' = [past EXCEPT !.signatures = @ \cup {g}]
    BY <1>4 DEF Reconfigure
  <2>2. TypeOK'
    BY <1>1, <2>1 DEF TypeOK
  <2>. QED BY <2>1, <2>2, WorldMoves
<1>. QED BY <1>2, <1>3, <1>4

LEMMA StutterInv ==
  ASSUME SyncInv, UNCHANGED vars PROVE SyncInv'
<1>. USE DEF vars
<1>1. TypeOK' /\ OneRun' /\ History'
  BY DEF SyncInv, TypeOK, OneRun, History
<1>2. \A s \in Syncs : run[s].pc # "off" => (Position(s) /\ Traversal(s) /\ Outdated(s))'
  BY StoresStill DEF SyncInv, Outdated
<1>3. ExactlyIndexed'
  BY StoresStill DEF SyncInv
<1>4. SkipJustified' /\ GraphFed'
  BY DEF SyncInv, SkipJustified, GraphFed, UpToDate, CountOf, VersionOf, Target
<1>. QED BY <1>1, <1>2, <1>3, <1>4 DEF SyncInv

LEMMA NextInv ==
  ASSUME SyncInv, Orderly, [Next]_vars
  PROVE  SyncInv'
<1>1. ASSUME NEW s \in Syncs, NEW full \in BOOLEAN, NEW scope \in SUBSET Docs,
             Begin(s, full, scope)
      PROVE  SyncInv'
  BY <1>1, BeginInv
<1>2. ASSUME NEW s \in Syncs, Step(s)
      PROVE  SyncInv'
  <2>1. ASSUME NEW d \in Docs, Leave(s, d) \/ Skip(s, d) PROVE SyncInv'
    BY <2>1, PassOverInv
  <2>2. ASSUME NEW d \in Docs, Embed(s, d) PROVE SyncInv'
    BY <2>2, EmbedInv
  <2>3. ASSUME NEW d \in Docs, Purge(s, d) PROVE SyncInv'
    BY <2>3, PurgeInv
  <2>4. CASE Upsert(s)
    BY <2>4, UpsertInv
  <2>5. CASE Delete(s)
    BY <2>5, DeleteInv
  <2>6. CASE Commit(s)
    BY <2>6, CommitInv
  <2>7. CASE Enqueue(s)
    BY <2>7, EnqueueInv
  <2>8. CASE EndScan(s)
    BY <2>8, EndScanInv
  <2>9. CASE Forget(s)
    BY <2>9, ForgetInv
  <2>10. CASE Finish(s)
    BY <2>10, FinishInv
  <2>. QED BY <1>2, <2>1, <2>2, <2>3, <2>4, <2>5, <2>6, <2>7, <2>8, <2>9, <2>10 DEF Step
<1>3. ASSUME NEW s \in Syncs, Abort(s) PROVE SyncInv'
  BY <1>3, AbortInv
<1>. QED BY <1>1, <1>2, <1>3, WorldInv, StutterInv DEF Next

-----------------------------------------------------------------------------

(* SyncInv is an invariant of the synchronisation, for any number of       *)
(* documents, processes and cut-off runs.                                  *)
THEOREM SyncInvariant ==
  ASSUME Orderly PROVE Spec => []SyncInv
<1>1. Init => SyncInv
  BY InitInv
<1>2. SyncInv /\ [Next]_vars => SyncInv'
  BY NextInv
<1>. QED BY <1>1, <1>2, PTL DEF Spec

(* Every variable of the synchronisation keeps its type.                   *)
THEOREM TypeCorrect ==
  ASSUME Orderly PROVE Spec => []TypeOK
<1>1. SyncInv => TypeOK
  BY DEF SyncInv
<1>. QED BY <1>1, SyncInvariant, PTL

(* Qdrant holds exactly what StateDB promises until a run is cut off.      *)
THEOREM ExactPoints ==
  ASSUME Orderly PROVE Spec => []ExactlyIndexed
<1>1. SyncInv => ExactlyIndexed
  BY DEF SyncInv
<1>. QED BY <1>1, SyncInvariant, PTL

(* A document that is skipped is completely indexed, whatever the runs     *)
(* that were cut off have left.                                            *)
THEOREM SkipsAreJustified ==
  ASSUME Orderly PROVE Spec => []SkipJustified
<1>1. SyncInv => SkipJustified
  BY DEF SyncInv
<1>. QED BY <1>1, SyncInvariant, PTL

(* Every indexed version has reached the graph queue.                      *)
THEOREM EveryVersionQueued ==
  ASSUME Orderly PROVE Spec => []GraphFed
<1>1. SyncInv => GraphFed
  BY DEF SyncInv
<1>. QED BY <1>1, SyncInvariant, PTL

=============================================================================

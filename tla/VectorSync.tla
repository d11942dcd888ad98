----------------------------- MODULE VectorSync -----------------------------
(***************************************************************************)
(* rag/sync.py: the synchronisation of Nextcloud documents from            *)
(* Elasticsearch into Qdrant, with its own memory in StateDB (SQLite).     *)
(*                                                                         *)
(* One run of the program scrolls over a point-in-time view of the index,  *)
(* skips what StateDB says is up to date, embeds the rest, writes the      *)
(* chunks over the old ones under deterministic point ids, deletes the     *)
(* tail of a document that became shorter, commits the document's row and  *)
(* queues it for the graph.  A complete, unscoped run then deletes the     *)
(* documents it has not seen.  Elasticsearch, Qdrant and SQLite share no   *)
(* transaction and the program takes no lock: each request is an action,   *)
(* and a run may be cut off (an HTTP error, the mail hook's timeout, a     *)
(* kill) between any two of them.                                          *)
(***************************************************************************)
EXTENDS Naturals, FiniteSetsExt, NoValue

CONSTANTS
  Docs,        \* document ids, files:<id>
  Syncs,       \* processes that run rag.sync: the sync worker, the mail hook, a CLI
  Contents,    \* versions of a document: title, text, hash
  Filtered,    \* versions semantic_document_allowed or the sidecar rule leaves out
  Refused,     \* versions the embedding backend finds too long at any chunk size
  Signatures,  \* index signatures: embedding model, prefix, chunk size and overlap
  Chunks,      \* chunks a version yields under a signature, after adaptive splits
  MaxChunks,   \* bound: chunks per document
  Batch,       \* sync.embedding_batch_size
  DeleteBatch, \* QDRANT_DELETE_BATCH_SIZE
  GraphOn,     \* sync.graph_queue.enabled
  Reverts,     \* may a document or the configuration return to an earlier version ?
  Overlapping, \* may two runs overlap ?
  MaxAborts    \* bound: runs cut off

ASSUME ContentsAssumption ==
  Filtered \subseteq Contents /\ Refused \subseteq Contents /\ None \notin Contents \cup Docs

(* Whether chunk_text yields a chunk depends on the text alone.            *)
ASSUME ChunksAssumption ==
  /\ Chunks \in [Contents -> [Signatures -> 0 .. MaxChunks]]
  /\ \A c \in Contents, g, h \in Signatures : Chunks[c][g] = 0 => Chunks[c][h] = 0

ASSUME BatchAssumption == Batch \in Nat \ {0} /\ DeleteBatch \in Nat \ {0}
ASSUME BoundsAssumption == MaxChunks \in Nat /\ MaxAborts \in Nat
ASSUME ModesAssumption == {GraphOn, Reverts, Overlapping} \subseteq BOOLEAN

Version == [content : Contents, signature : Signatures]
Row == [content : Contents, signature : Signatures, count : 0 .. MaxChunks]
ChunkNos == 0 .. MaxChunks - 1

ASSUME NoneAssumption == None \notin Row /\ None \notin Version

VARIABLES
  es,         \* Elasticsearch: the current version of each document
  config,     \* the configured index signature
  past,       \* history: the versions and signatures there have been
  state,      \* StateDB: row per document
  vectors,    \* Qdrant: per document the version of the point of each chunk number
  enqueued,   \* history: versions handed to the graph queue
  run,        \* per process: its position in main()
  aborts

vars == <<es, config, past, state, vectors, enqueued, run, aborts>>

-----------------------------------------------------------------------------

PC == {"off", "scan", "upsert", "trim", "enqueue", "cleanup", "drop"}

(* doc, old and next are the loop variables of main: the document at hand, *)
(* its StateDB row when it was read, and the next chunk number.            *)
RunState ==
  [pc : PC, full : BOOLEAN, scope : SUBSET Docs, signature : Signatures,
   snapshot : [Docs -> Contents \cup {None}], todo : SUBSET Docs, seen : SUBSET Docs,
   doc : Docs \cup {None}, old : Row \cup {None}, next : 0 .. MaxChunks,
   stale : SUBSET Docs]

Off == [pc |-> "off"]

CountOf(row) == IF row = None THEN 0 ELSE row.count

UpToDate(row, content, signature) ==
  row # None /\ row.content = content /\ row.signature = signature

Init ==
  /\ es \in [Docs -> Contents \cup {None}]
  /\ config \in Signatures
  /\ past = [docs |-> [d \in Docs |-> {es[d]} \ {None}], signatures |-> {config}]
  /\ state = [d \in Docs |-> None]
  /\ vectors = [d \in Docs |-> [n \in ChunkNos |-> None]]
  /\ enqueued = [d \in Docs |-> {}]
  /\ run = [s \in Syncs |-> Off]
  /\ aborts = 0

-----------------------------------------------------------------------------
(* A run of main().                                                        *)

(* A full run has max_documents = 0 and no include or exclude paths; any   *)
(* other run has a scope, or may stop after its number of documents.       *)
Begin(s, full, scope) ==
  /\ run[s].pc = "off"
  /\ Overlapping \/ \A r \in Syncs : run[r].pc = "off"
  /\ full => scope = Docs
  /\ run' = [run EXCEPT ![s] =
               [pc |-> "scan", full |-> full, scope |-> scope, signature |-> config,
                snapshot |-> es, todo |-> {d \in Docs : es[d] # None}, seen |-> {},
                doc |-> None, old |-> None, next |-> 0, stale |-> {}]]
  /\ UNCHANGED <<es, config, past, state, vectors, enqueued, aborts>>

Target(s) == [content |-> run[s].snapshot[run[s].doc], signature |-> run[s].signature]
Final(s) == Chunks[Target(s).content][Target(s).signature]

Scanning(s, d) == run[s].pc = "scan" /\ d \in run[s].todo
Relevant(s, d) == d \in run[s].scope /\ run[s].snapshot[d] \notin Filtered

(* Out of scope, a machine sidecar or semantically excluded: not "seen".   *)
Leave(s, d) ==
  /\ Scanning(s, d) /\ ~Relevant(s, d)
  /\ run' = [run EXCEPT ![s].todo = @ \ {d}]
  /\ UNCHANGED <<es, config, past, state, vectors, enqueued, aborts>>

(* Mutant: a changed signature does not count as a change.                 *)
SkipByHash(s, d) ==
  /\ Scanning(s, d) /\ Relevant(s, d)
  /\ state[d] # None /\ state[d].content = run[s].snapshot[d]
  /\ run' = [run EXCEPT ![s].todo = @ \ {d}, ![s].seen = @ \cup {d}]
  /\ UNCHANGED <<es, config, past, state, vectors, enqueued, aborts>>

(* Unchanged by content hash and signature, or deferred because            *)
(* embed_chunks_resilient raises EmbeddingContextLengthError.              *)
Skip(s, d) ==
  /\ Scanning(s, d) /\ Relevant(s, d)
  /\ \/ UpToDate(state[d], run[s].snapshot[d], run[s].signature)
     \/ run[s].snapshot[d] \in Refused
  /\ run' = [run EXCEPT ![s].todo = @ \ {d}, ![s].seen = @ \cup {d}]
  /\ UNCHANGED <<es, config, past, state, vectors, enqueued, aborts>>

(* Mutant: the row is committed before the points are written.             *)
EmbedAfterCommit(s, d) ==
  LET content == run[s].snapshot[d]
      count == Chunks[content][run[s].signature]
  IN /\ Scanning(s, d) /\ Relevant(s, d)
     /\ ~UpToDate(state[d], content, run[s].signature)
     /\ content \notin Refused
     /\ state' = [state EXCEPT ![d] =
                   [content |-> content, signature |-> run[s].signature, count |-> count]]
     /\ run' = [run EXCEPT ![s].todo = @ \ {d}, ![s].seen = @ \cup {d}, ![s].doc = d,
                           ![s].old = state[d], ![s].next = 0,
                           ![s].pc = IF count > 0 THEN "upsert" ELSE "trim"]
     /\ UNCHANGED <<es, config, past, vectors, enqueued, aborts>>

(* New, changed, or indexed under another signature: all chunks have been  *)
(* embedded before Qdrant is touched.  An empty document has none.         *)
Embed(s, d) ==
  /\ Scanning(s, d) /\ Relevant(s, d)
  /\ ~UpToDate(state[d], run[s].snapshot[d], run[s].signature)
  /\ run[s].snapshot[d] \notin Refused
  /\ run' = [run EXCEPT ![s].todo = @ \ {d}, ![s].seen = @ \cup {d}, ![s].doc = d,
                        ![s].old = state[d], ![s].next = 0,
                        ![s].pc = IF Chunks[run[s].snapshot[d]][run[s].signature] > 0
                                  THEN "upsert" ELSE "trim"]
  /\ UNCHANGED <<es, config, past, state, vectors, enqueued, aborts>>

UpTo(n, size, end) == IF n + size < end THEN n + size ELSE end

(* qdrant_upsert of one batch.                                             *)
Upsert(s) ==
  LET stop == UpTo(run[s].next, Batch, Final(s))
  IN /\ run[s].pc = "upsert"
     /\ vectors' = [vectors EXCEPT ![run[s].doc] =
                     [n \in ChunkNos |-> IF n \in run[s].next .. stop - 1
                                         THEN Target(s) ELSE @[n]]]
     /\ run' = [run EXCEPT ![s].next = stop,
                           ![s].pc = IF stop = Final(s) THEN "trim" ELSE "upsert"]
     /\ UNCHANGED <<es, config, past, state, enqueued, aborts>>

(* qdrant_delete_chunk_range, one batch: the tail of a document that has   *)
(* become shorter, or all chunks of one that is empty or gone, as far as   *)
(* the row that was read says.                                             *)
Delete(s) ==
  LET end == CountOf(run[s].old)
      stop == UpTo(run[s].next, DeleteBatch, end)
  IN /\ run[s].pc \in {"trim", "drop"} /\ run[s].next < end
     /\ vectors' = [vectors EXCEPT ![run[s].doc] =
                     [n \in ChunkNos |-> IF n \in run[s].next .. stop - 1
                                         THEN None ELSE @[n]]]
     /\ run' = [run EXCEPT ![s].next = stop]
     /\ UNCHANGED <<es, config, past, state, enqueued, aborts>>

(* Mutant: only new documents are queued, changed ones are not.            *)
GraphWantedOnce(s) == GraphOn /\ Final(s) > 0 /\ run[s].old = None

(* graph_reindex_needed: the text changed, not only the signature.         *)
GraphWanted(s) ==
  /\ GraphOn /\ Final(s) > 0
  /\ run[s].old = None \/ run[s].old.content # Target(s).content

(* Mutant: the tail of a document that became shorter is left.             *)
CommitWithTail(s) ==
  /\ run[s].pc = "trim"
  /\ state' = [state EXCEPT ![run[s].doc] =
                [content |-> Target(s).content, signature |-> Target(s).signature,
                 count |-> Final(s)]]
  /\ run' = [run EXCEPT ![s].pc = IF GraphWanted(s) THEN "enqueue" ELSE "scan"]
  /\ UNCHANGED <<es, config, past, vectors, enqueued, aborts>>

(* state.put                                                               *)
Commit(s) ==
  /\ run[s].pc = "trim" /\ run[s].next >= CountOf(run[s].old)
  /\ state' = [state EXCEPT ![run[s].doc] =
                [content |-> Target(s).content, signature |-> Target(s).signature,
                 count |-> Final(s)]]
  /\ run' = [run EXCEPT ![s].pc = IF GraphWanted(s) THEN "enqueue" ELSE "scan"]
  /\ UNCHANGED <<es, config, past, vectors, enqueued, aborts>>

(* GraphQueue.enqueue_evidence, see module GraphQueue.                     *)
Enqueue(s) ==
  /\ run[s].pc = "enqueue"
  /\ enqueued' = [enqueued EXCEPT ![run[s].doc] = @ \cup {Target(s).content}]
  /\ run' = [run EXCEPT ![s].pc = "scan"]
  /\ UNCHANGED <<es, config, past, state, vectors, aborts>>

(* Mutant: every run takes what it has not seen for deleted.               *)
EndAnyScan(s) ==
  /\ run[s].pc = "scan"
  /\ run[s].todo = {}
  /\ run' = [run EXCEPT ![s].pc = "cleanup",
                        ![s].stale = {d \in Docs : state[d] # None} \ run[s].seen]
  /\ UNCHANGED <<es, config, past, state, vectors, enqueued, aborts>>

(* The scroll is exhausted, or max_documents is reached.  Only a full run  *)
(* goes on to the documents it has not seen.                               *)
EndScan(s) ==
  /\ run[s].pc = "scan"
  /\ \/ /\ run[s].full /\ run[s].todo = {}
        /\ run' = [run EXCEPT ![s].pc = "cleanup",
                              ![s].stale = {d \in Docs : state[d] # None} \ run[s].seen]
     \/ /\ ~run[s].full
        /\ run[s].todo = {} \/ run[s].seen # {}
        /\ run' = [run EXCEPT ![s] = Off]
  /\ UNCHANGED <<es, config, past, state, vectors, enqueued, aborts>>

Purge(s, d) ==
  /\ run[s].pc = "cleanup" /\ d \in run[s].stale
  /\ run' = [run EXCEPT ![s].pc = "drop", ![s].doc = d, ![s].old = state[d],
                        ![s].next = 0, ![s].stale = @ \ {d}]
  /\ UNCHANGED <<es, config, past, state, vectors, enqueued, aborts>>

(* state.delete                                                            *)
Forget(s) ==
  /\ run[s].pc = "drop" /\ run[s].next >= CountOf(run[s].old)
  /\ state' = [state EXCEPT ![run[s].doc] = None]
  /\ run' = [run EXCEPT ![s].pc = "cleanup"]
  /\ UNCHANGED <<es, config, past, vectors, enqueued, aborts>>

Finish(s) ==
  /\ run[s].pc = "cleanup" /\ run[s].stale = {}
  /\ run' = [run EXCEPT ![s] = Off]
  /\ UNCHANGED <<es, config, past, state, vectors, enqueued, aborts>>

(* An exception leaves main, or the process is killed.                     *)
Abort(s) ==
  /\ run[s].pc # "off" /\ aborts < MaxAborts
  /\ run' = [run EXCEPT ![s] = Off]
  /\ aborts' = aborts + 1
  /\ UNCHANGED <<es, config, past, state, vectors, enqueued>>

-----------------------------------------------------------------------------
(* Nextcloud and its FullTextSearch app change Elasticsearch at any time;  *)
(* an administrator changes the embedding model or the chunker.            *)
Edit(d, content) ==
  /\ IF Reverts THEN content # es[d] ELSE content \notin past.docs[d]
  /\ es' = [es EXCEPT ![d] = content]
  /\ past' = [past EXCEPT !.docs[d] = @ \cup {content}]
  /\ UNCHANGED <<config, state, vectors, enqueued, run, aborts>>

Remove(d) ==
  /\ es[d] # None
  /\ es' = [es EXCEPT ![d] = None]
  /\ UNCHANGED <<config, past, state, vectors, enqueued, run, aborts>>

Reconfigure(signature) ==
  /\ IF Reverts THEN signature # config ELSE signature \notin past.signatures
  /\ config' = signature
  /\ past' = [past EXCEPT !.signatures = @ \cup {signature}]
  /\ UNCHANGED <<es, state, vectors, enqueued, run, aborts>>

Step(s) ==
  \/ \E d \in Docs : Leave(s, d) \/ Skip(s, d) \/ Embed(s, d) \/ Purge(s, d)
  \/ Upsert(s) \/ Delete(s) \/ Commit(s) \/ Enqueue(s)
  \/ EndScan(s) \/ Forget(s) \/ Finish(s)

Next ==
  \/ \E s \in Syncs :
       \/ \E full \in BOOLEAN, scope \in SUBSET Docs : Begin(s, full, scope)
       \/ Step(s) \/ Abort(s)
  \/ \E d \in Docs : Remove(d) \/ \E c \in Contents : Edit(d, c)
  \/ \E g \in Signatures : Reconfigure(g)

Spec == Init /\ [][Next]_vars

(* start-sync-worker.sh starts a complete run again and again; strong,     *)
(* because a model without overlaps makes it wait for the other runs.      *)
Fairness ==
  \A s \in Syncs : WF_vars(Step(s)) /\ SF_vars(Begin(s, TRUE, Docs))

FairSpec == Spec /\ Fairness

-----------------------------------------------------------------------------
(* Properties.                                                             *)

TypeOK ==
  /\ es \in [Docs -> Contents \cup {None}]
  /\ config \in Signatures
  /\ past \in [docs : [Docs -> SUBSET Contents], signatures : SUBSET Signatures]
  /\ state \in [Docs -> Row \cup {None}]
  /\ vectors \in [Docs -> [ChunkNos -> Version \cup {None}]]
  /\ enqueued \in [Docs -> SUBSET Contents]
  /\ run \in [Syncs -> RunState \cup {Off}]
  /\ aborts \in 0 .. MaxAborts

VersionOf(row) == [content |-> row.content, signature |-> row.signature]

(* The points a row promises.                                              *)
Image(row) ==
  [n \in ChunkNos |-> IF n < CountOf(row) THEN VersionOf(row) ELSE None]

AtWork(s, d) == run[s].pc \in {"upsert", "trim", "drop"} /\ run[s].doc = d

(* The points of the document a run has at hand: the new version up to     *)
(* the next chunk, nothing in a deleted range, then what was there.        *)
Progress(s) ==
  [n \in ChunkNos |->
     IF n >= run[s].next THEN Image(run[s].old)[n]
     ELSE IF run[s].pc # "drop" /\ n < Final(s) THEN Target(s) ELSE None]

(* While runs neither overlap nor are cut off, Qdrant holds exactly the    *)
(* points that StateDB's rows promise: no stale tail, no missing chunk, no *)
(* chunk of another version, and a document at hand is replaced in place,  *)
(* never first deleted (sync.py:842-843, 889-891).                         *)
ExactlyIndexed ==
  ~Overlapping /\ aborts = 0 =>
    \A d \in Docs :
      /\ \A s \in Syncs : AtWork(s, d) => vectors[d] = Progress(s)
      /\ (\A s \in Syncs : ~AtWork(s, d)) => vectors[d] = Image(state[d])

(* Whatever a cut-off run left behind, a row that makes the next run skip  *)
(* its document vouches for the document's points: lines 807-813 never     *)
(* skip one that still has a mixed or a missing chunk.                     *)
SkipJustified ==
  ~Overlapping /\ ~Reverts =>
    \A d \in Docs :
      UpToDate(state[d], es[d], config) =>
        \A n \in 0 .. state[d].count - 1 : vectors[d][n] = VersionOf(state[d])

(* A row is not forgotten while it describes the document's current        *)
(* version: the clean-up of lines 972-987, which takes every document the  *)
(* traversal has not seen for a deleted one, never takes an indexed one,   *)
(* whatever scoped, limited and cut-off runs went before.  (While two runs *)
(* overlap, which the code does not prevent, it may.)                      *)
CurrentRowsAreKept ==
  [][\A d \in Docs :
       state[d] # None /\ state'[d] = None => state[d].content # es[d]]_vars

(* With the queue enabled, every indexed version has been handed to the    *)
(* graph queue, or is about to be: lines 930-956 lose none as long as no   *)
(* run is cut off between the commit and the queue.                        *)
GraphFed ==
  GraphOn /\ aborts = 0 =>
    \A d \in Docs :
      CountOf(state[d]) > 0 =>
        \/ state[d].content \in enqueued[d]
        \/ \E s \in Syncs : /\ run[s].pc = "enqueue" /\ run[s].doc = d
                            /\ Target(s).content = state[d].content

(* The inductive strengthening of the four properties above, part by part. *)

OneRun ==
  \A s, r \in Syncs : run[s].pc # "off" /\ run[r].pc # "off" => s = r

Excluded(s, d) == run[s].snapshot[d] \in Filtered \cup {None}

(* What the program counter says of a run's loop variables.                *)
Position(s) ==
  /\ run[s].full => run[s].scope = Docs
  /\ run[s].pc \in {"upsert", "trim", "enqueue"} =>
       run[s].doc \in Docs /\ ~Excluded(s, run[s].doc)
  /\ run[s].pc \in {"upsert", "trim"} =>
       /\ run[s].old = state[run[s].doc]
       /\ ~UpToDate(run[s].old, Target(s).content, Target(s).signature)
       /\ \A n \in ChunkNos : n < run[s].next /\ n < Final(s) =>
                                vectors[run[s].doc][n] = Target(s)
  /\ run[s].pc = "upsert" => run[s].next < Final(s)
  /\ run[s].pc = "trim" => run[s].next >= Final(s)
  /\ run[s].pc = "drop" =>
       run[s].doc \in Docs /\ Excluded(s, run[s].doc) /\ run[s].old = state[run[s].doc]

(* A traversal leaves out, and the clean-up takes, only excluded documents. *)
Traversal(s) ==
  /\ run[s].pc \in {"cleanup", "drop"} => \A d \in run[s].stale : Excluded(s, d)
  /\ run[s].pc \in {"scan", "upsert", "trim", "enqueue"} /\ run[s].full =>
       \A d \in Docs \ (run[s].todo \cup run[s].seen) : Excluded(s, d)
  /\ \A d \in run[s].todo : run[s].snapshot[d] # None

(* Nothing returns, so what differs from a run's view is not current.      *)
Outdated(s) ==
  \A d \in Docs :
    state[d] # None =>
      /\ state[d].content # run[s].snapshot[d] => state[d].content # es[d]
      /\ state[d].signature # run[s].signature => state[d].signature # config

History ==
  /\ config \in past.signatures
  /\ \A d \in Docs : es[d] # None => es[d] \in past.docs[d]
  /\ \A d \in Docs : state[d] # None =>
       /\ state[d].content \in past.docs[d] \ Filtered
       /\ state[d].signature \in past.signatures
       /\ state[d].count = Chunks[state[d].content][state[d].signature]
  /\ \A s \in Syncs : run[s].pc # "off" =>
       /\ run[s].signature \in past.signatures
       /\ \A d \in Docs : run[s].snapshot[d] # None => run[s].snapshot[d] \in past.docs[d]

(* With runs that do not overlap and versions that do not return.          *)
SyncInv ==
  /\ TypeOK /\ OneRun /\ History
  /\ \A s \in Syncs : run[s].pc # "off" => Position(s) /\ Traversal(s) /\ Outdated(s)
  /\ ExactlyIndexed /\ SkipJustified /\ GraphFed

Settled(d) ==
  IF es[d] = None \/ es[d] \in Filtered THEN state[d] = None
  ELSE es[d] \in Refused \/ UpToDate(state[d], es[d], config)

(* Once Elasticsearch and the configuration rest, the complete runs bring  *)
(* every row to the current version and remove the rows of documents that  *)
(* are gone or excluded, although earlier runs were cut off.               *)
Converges == <>[](\A d \in Docs : Settled(d))

(* docs/DATA-LIFECYCLE.md:32: stale documents can be removed during        *)
(* synchronization.  What has left Elasticsearch leaves Qdrant.            *)
StaleChunksRemoved ==
  <>[](\A d \in Docs : es[d] = None => vectors[d] = Image(None))

=============================================================================

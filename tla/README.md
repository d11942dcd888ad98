# A formal model of SunaQ (aki-rag-middleware)

TLA+ modules that model the stateful core of the middleware, TLC configurations that check them on
small instances, and theorems checked by TLAPS. `PROJECT.json` lists components, runs, mutants of the
models, the source lines of every definition, hazards and theorems. Paths below are relative to the
repository (`src/`).

## 1. The system and its parts

Nextcloud holds the documents. Its FullTextSearch app fills Elasticsearch; the middleware copies
embeddings from there to Qdrant, builds a knowledge graph in Neo4j from documents that served as
evidence, imports mail into Nextcloud, and answers chat questions by searching all three, filtering the
results with live Nextcloud permissions and passing the rest to an LLM; it may also search the public
web and archive what it read. Several processes run side by side (chat provider, API and admin pages,
graph worker, sync worker, mail worker, command-line tools) and share SQLite files, Elasticsearch,
Qdrant, Neo4j and Nextcloud. There is no lock between processes: what keeps them apart is a SQLite or
Cypher transaction, where there is one.

| Part (code) | State it keeps | Operations | Interacts with | What makes it correct |
|---|---|---|---|---|
| Evidence job queue (`rag/graph_queue.py`) | SQLite table `graph_jobs`, one row per job; the activity file | open (collapse duplicates), `enqueue_evidence`, `recover_stale_running`, `claim_next`, `finish`, `fail` | written by the chat provider, sync, admin and curation pages, contact sync; drained by graph workers | one active row and one worker per document, no event lost, bounded retries, final is final |
| Graph worker (`rag/graph_worker.py`) | position in its loop, the claimed row; a status file | start, recover, wait for quiet hours and idleness, claim, index, finish or fail, stop | queue, graph indexer, service manager | every accepted job ends; a dead worker's row is recovered and a living one's is not |
| Vector synchronisation (`rag/sync.py`, `start-sync-worker.sh`) | `StateDB` row per document, Qdrant points, loop variables of a run | traverse, skip, embed, upsert, delete tail, commit, enqueue, clean up | reads Elasticsearch, writes Qdrant, feeds the queue; started by a loop, by the mail hook, by hand | Qdrant has the chunks of what the rows promise; a skipped document is completely indexed; what is gone is removed; the graph hears of every version |
| Mail import (`rag/mail_sync.py`) | `mail_sync_state` row per mailbox with live, backfill and legacy cursors; files in Nextcloud | search, initialise or reset the row, fetch, write, move a cursor | IMAP server, Nextcloud WebDAV, source registry | no message falls between the cursors; every message is imported in the end |
| Mail worker (`rag/mail_worker.py`) | none | run a pass, sleep, re-read the configuration | starts `rag.mail_sync` | goes on after failures |
| Graph indexer and rebuild (`rag/graph_indexer.py`, `rag/graph_rebuild.py`) | document node with hash, extractor signature and evidence count, mentions, claims, summary | fetch, touch, discover, replace mentions, replace claims, store summary | called by worker, rebuild and API; writes Neo4j in several transactions | what the node states of a text is what the mentions are; a use is counted at least once; curators' decisions are not undone |
| Identity store (`rag/graph.py`, `rag/graph_entities.py`) | entities, forms, contacts, observations, mentions, claims, pairs held the same, different or possibly the same | import and removal of contacts, linking of a document, rename, correct, delete, merge, confirm, reject, reassign | indexer, contact sync, curators | corrections and rejections hold; nothing refers to a retired identity; confirmed identities stay |
| Finding curation (`rag/graph.py`, `rag/curator.py`) | research runs and findings, decisions about their texts, claims made from them | store, decide, claim, close, review, reassign, clean up after denied access | chat provider, identity store, live ACL | a standing claim is grounded in the finding; curated mentions and findings are not lost |
| Live ACL (`rag/acl.py`) | per-request candidate set | authorise in batches, promote visible copies | Nextcloud WebDAV, credential store | nothing is used that Nextcloud has not confirmed for this request; a failed batch fails all |
| Search, fusion, reranking (`rag/search.py`, `rag/hybrid_search.py`, `rag/reranker.py`, `rag/embeddings.py`) | none between calls | arms, groups of copies, fusion, reranking, search by several probes | Elasticsearch, Qdrant, Neo4j | a failing arm degrades, no head of an arm and no mandatory document is lost |
| Chat provider (`rag/openai_provider.py`, `rag/llm_backend.py`, `rag/sunaq_models.py`) | what the chat shows: the sources of the answer before | rounds of search, follow-up, verification, review, `/use`, `/elastic`, answer, citations, reports | search, ACL, LLM, queue, findings | only what the user may read, and only verified documents, reach a model; the sources shown are those the answer was made from |
| Web research, planner (`rag/web_research.py`, `rag/planner.py`, `rag/retrieval_planner.py`) | archive in the user's Nextcloud, background tasks | search, fetch, choose, archive, print, file the answer, `/use:Wn` | web, Nextcloud, LLM | a snapshot is what was read; losses are told; pages get printed |
| Source registry and origin mirror (`rag/source_registry.py`, `rag/source_origin.py`) | SQLite table of classified documents, folder history, mirrored field in Elasticsearch, process-wide stamp | register, auto-mirror, reconcile, classify | mail and chat import, sync, search scope | ordinary searches never show archive material; the mirror follows the registry |
| Credential store and login flow (`rag/credential_store.py`, `rag/api.py`) | identities, canonical users, flows, encrypted credentials | start, ensure, poll, bind, backfill, disconnect | Nextcloud Login Flow v2, admin pages, ACL | an identity is bound to the account whose app password is stored; who confirms gets connected |
| Self-service curation (`rag/curation_ui.py`) | sessions with an app password, `revocation_pending` | log in, poll, use, log out, expire, clean up at start | credential store, Nextcloud | a session ends with the process that made it; each stored app password is revoked in the end |
| Admin pages, contact synchronisation (`rag/admin_ui.py`, `rag/carddav_sync.py`, `rag/contacts.py`) | contacts in Neo4j | forms; full pass | Neo4j, credential store, queue | |
| Research notes, backup, maintenance, Nextcloud app, FullTextSearch helper | files, PHP chat history | file and process work | | |

Hard behaviours, by kind (each listed with its line under `hazards`):

* *Interleaving without locks*: two graph workers, a worker and a caller that opens the queue, two runs of
  `rag.sync`, mail worker and a mail import by hand, indexer and rebuild, curators beside the indexer,
  clean-up of one user beside the runs of another, search beside Nextcloud's indexer.
* *Death between two writes to different stores*: Qdrant and StateDB, StateDB and the queue, Nextcloud and
  the mail cursor, the transactions of the indexer, password and binding, snapshot and metadata.
* *Stale reads*: a point-in-time traversal, a list of messages read before the cursor row, a list of stale
  rows read before they are recovered, the mirror's stamp, permissions asked in batches, numbers of the
  answer before.
* *Time*: a job that outlives `stale_running_seconds`; quiet hours and idleness that postpone work.
* *Liveness*: jobs, documents, messages, logins, revocations and prints that must come to an end although
  earlier attempts failed.

## 2. Plan

Every module of the plan exists: the queue with its promise `DocumentQueue`, `VectorSync`, `MailSync`,
`KnowledgeGraph`, `GraphIndexer`, `ResearchFindings`, `NextcloudLogin`, `CurationSessions`,
`SourceOrigin`, the document side of a chat request (`Retrieval`, `Fusion`, `Answers`) and its web side
(`WebResearch`). All of them are proved about, in eight proof modules.

Proofs. A proof module that has room for a second component extends both: `MailSyncProofs` the origins
(`SourceOrigin`), `KnowledgeGraphProofs` the logins, `ResearchFindingsProofs` the sessions, `AnswersProofs`
the fusion. The modules proved about together have no name in common but `None`, which `NoValue` declares for
all; hence `OriginSpec`, `LoginSpec`, `SessionSpec` and the like. Every property is stated by a theorem,
but for the liveness properties and for `OnlyAbandonedReturn` and `CurrentRowsAreKept`, which only speak of
processes that do not overlap.

Splitting. `KnowledgeGraph` takes each operation of the store as one step, and resolves names;
`GraphIndexer` takes the indexing of one document apart, transaction by transaction, and knows of a name
only whether it has an identity; `ResearchFindings` has merges, deletions and relinks in the form that
findings notice. `GraphIndexer` uses the queue as `DocumentQueue` promises it, `Answers` runs on the
endpoints of `Retrieval` (one conjunction of variables), and `Fusion` refines one stage of `Retrieval`:
`RankingsAllowed` says that what fusion computes is among the results `Retrieval` goes on with.

## 3. Modules and how they correspond to the code

Operators whose comment begins with "mistake", "Mutant" or "Fault for mutation" are plausible bugs; no
action uses them. Put in place of the operator they stand beside, each makes the property that
`PROJECT.json` lists it with fail. History variables, which no guard reads, are marked so.

### DocumentQueue, GraphQueue

`GraphQueue` models every row-changing method of `GraphQueue` in `rag/graph_queue.py` and the loop of
`rag/graph_worker.py`.

* `jobs` is the table: a row has status, document, priority, attempts, payload and coalesced count. Times
  are reduced to `aged` ("started longer ago than `stale_running_seconds`"), payloads to the two demands
  the indexer tells apart (`count_evidence`, `force_reindex`). `recovered` counts the recovery marks of the
  row, `owed` and `accepted` are history.
* Atomicity is the code's: `EnqueueEvidence` and `ClaimNext` run under `BEGIN IMMEDIATE`, `Finish` and
  `Fail` are one UPDATE. Opening the queue (`OpenQueue`/`ReadDuplicates`, then `CallerCoalesces` or
  `WorkerCoalesces`) and recovery (`ReadStaleRunning`, `RecoverStaleRunning`) SELECT first and write in a
  transaction of their own; `read` holds what a process has seen in between. The first duplicate document's
  keeper and surplus rows come from the old read, the others are read again inside the transaction, as in
  lines 187-235.
* `worker` is a worker's position with the snapshot `claim_next` returned. `Stop` is SIGTERM or `--once`,
  `Crash` a kill (also of `stop-all.sh` after its grace period). `gate` is quiet hours and the idle check.
* `Age` lets time pass. With `LongJobs = FALSE` a row cannot age while a living worker holds it; with
  `Overlapping = FALSE` two workers do not recover at the same time. Both are assumptions about
  configuration and operation, not about code; `queue_live` runs without them.

`DocumentQueue` is the promise: a document is idle, queued or working, has at most one owner while
working, and leaves `working` through the owner or after a crash. `GraphQueue` implements it under the
mapping `StageOf`, `OwnersOf`.

### VectorSync

`main()` of `rag/sync.py`. A run is a process with the loop variables of `main`; every request to
Elasticsearch, Qdrant, StateDB or the queue is a step: `Begin` (point-in-time snapshot, signature), `Leave`
(out of scope, sidecar, excluded), `Skip`, `Embed`, `Upsert` (one batch), `Delete` (one batch of the tail of
a document that shrank), `Commit`, `Enqueue`, `EndScan`, `Purge` (points of an unseen document), `Forget`
(its row), `Finish`, and `Abort` for a run that ends anywhere. `Edit`, `Remove` and `Reconfigure` are
Nextcloud and the administrator. A document's version is its content (its hash) and the index signature;
the chunker is the constant `Chunks`; `Refused` are contents the embedder rejects (deferred by the code),
`Filtered` those the semantic rules exclude. `past` is history: it lets `Reverts = FALSE` say that a
document or the configuration does not return to an earlier version.

### MailSync

`sync_mailbox` and `StateDB` of `rag/mail_sync.py` for one mailbox. `row` is the row of
`mail_sync_state`, `legacy` the old table's. `Select`, `Search`, `LoadOrInitialize` (keeps the row, or
deletes it in a transaction of its own), `Initialize` (INSERT, which raises if another run was faster),
`Fetch`, `Put` and `Save` are the steps of a run; `Planned` computes the two batches from budget and cursors.
The mail server renumbers (`Renumber`), may not report UIDVALIDITY (`silent`: each SELECT then reads 0 or
the number), and adds and expunges messages; `MoveCutoff` is `not_before`/`max_age_years`. A session does
not survive a renumbering. `run.numbering` and `archived` use the true numbering, which a silent server
hides from the code.

### KnowledgeGraph

The identities of `rag/graph.py`, of one type: `identity` (status), `display`, `forms` (HAS_NAME,
HAS_SEARCH_ALIAS, HAS_EMAIL), `describes` (contacts), `obs`, `resolved`, `mentions`, `claims`, and the pairs
`same`, `different`, `possible`. `Import` writes and removes contacts, `Index` observes and links a document
and discovers duplicates, `Curate` renames, corrects, deletes, merges, confirms, rejects and reassigns.
Each operation is one step. `rejected` is history: the pairs a curator has rejected, followed through later
merges. Left out: organization paths, weights, scores, provenance texts, the cut at five suggestions.

### GraphIndexer

`index_evidence` for one document, transaction by transaction: `fetch`, `touch`, mail metadata, discovery,
replacement of the mentions (cleared and written one by one, the hash last), claims, summary. A pass is
started by the worker for a job of the queue, with retries, or by the two phases of a rebuild and the API
without; it may end by an exception or with its process anywhere, while the text changes (`Edit`) and a
curator rejects names (`Rule`) or makes claims (`ClaimByHand`). `In`, `Signal` and `Kind` are what the models
find in a text; a name is known or not. The relink phase links the names that are known without
looking for new ones, and vouches for the text like any other pass. `cut`, `searched`, `blind` and `counted`
are history. `LostChunks` allows that a chunk of a text fails in discovery, `Overlapping` that callers run
beside the worker.

### ResearchFindings

Findings of `rag/graph.py`: `StoreRead`, `StoreWrite` (a run stores what it verified, in two statements),
`CurateEntity`, `AcceptDefaults`, `SetStatus`, `CreateClaim`, `ReviewClaim`, `DismissRun`,
`SetDisposition`, the statements of a curation (`CuratorStep`, which `CutOff` may end) and of the clean-up
of a user (`Purging`), beside `Merge`, `DeleteEntity` and the linking of a document anew (`Relinking`), which
deletes the mentions, reads the observations, writes the mentions one by one and then those of the curated
findings, each in a statement of its own, and may be killed at any of them. Curation statements whose MATCH
finds nothing, the target having been deleted meanwhile, write nothing and the operation goes on, as in the
code. One curator works at a time, and no two passes link one document; merging and deleting an entity are one
step each; a validation only a curator could outdate is one step with its write. `heir`, `cut` and `missed`
are history.

### NextcloudLogin, CurationSessions

Login Flow v2, transaction by transaction and call by call; an app password is named by the flow it came
from. In `NextcloudLogin` requests of the API (`start`, `ensure`, `status`, disconnect, re-authentication,
client deletion) interleave on `flow`, `credential`, `known` and `binding`; `password` is Nextcloud's view.
In `CurationSessions` sessions are created, used, closed, revoked, and cleaned up by the next start
(`boot`), which may have a wrong key. Crashes, lost answers, withdrawn permissions and late users are
faults of a bounded number.

### SourceOrigin

Registry, folder history and mirror of `rag/source_registry.py` and `rag/source_origin.py` with the scope
clauses of `rag/search.py`: `Settings` (accounts and chat folders saved, in the code's transactions),
`Files` (imports, moves, Nextcloud's indexing, lost registrations), `Traversal` (sync and reconcile; sync
embeds changed documents anew, so that their chunks carry folder and origin of this time), `SearchStep`
(mirror first, query of Elasticsearch and check of each hit; then the query of Qdrant, which knows no folders,
and the check of each chunk by what it carries), `MirrorFails`, `QueryFails`, `ScanKilled`, `RestartApi`.
`points` are the folders and origins that chunks of a document carry: several while an upsert is under way or
after it was cut off. Database stamps differ after every commit.

### Retrieval, Fusion, Answers

`Retrieval` is one call of `/search`, `/documents/resolve` or `/elastic`: candidates, arms that find
something or fail, ranking, access check in batches while permissions change (`Share`), promotion of
visible copies, modes of the reply. `Answers` is `chat_completions` on top of it: directive, rounds,
follow-up documents, verification in batches that fail and are halved, review, gate, web decision, `/use`,
`/elastic`, answer, citations and their repair, reports to queue and findings. What a model decides is open.
`seen`, `read` and `confirmed` are history. `Fusion` computes, as operators, groups of copies, score curves,
weights, reciprocal rank fusion, the reranker's candidates and the search by probes; weights are twentieths.
Filters and sorts are `Arranged`, the members of a set in a given order, which the proofs can reason about
where `SelectSeq` and `SortSeq` are recursive. `MaxPassages` and `MaxLinked` bound what the vector and the
graph search of an `answers` run find; the theorems hold for any value of them.

### WebResearch

`WebResearchArm`, `NextcloudWebArchive` and what the provider makes of their results: the call (`run`:
search, fetch, choose, archive source by source, reply), the request (`req`: one or several queries, merged
into numbered sources, answer, filing), background printing (`batches`), the archive (`archive`: texts,
metadata, record of each run) and `/use:Wn`. Pages are edited, permissions withdrawn, snapshots deleted,
calls fail and the middleware restarts in between. A put may fail although the file was stored (the answer is
lost, or registering it raises). `accepted`, `lost` and `removed` are history.

## 4. Runs: what they check and what they show

| Run | Bounds | Shows |
|---|---|---|
| `queue` | 2 workers, 2 documents, 2 kinds of event (counting chat evidence, an urgent relink that does not count), 2 rows, 2 attempts, 2 events per document, 1 crash; symmetric in workers and documents | one active row, conservation of events, final statuses final, only abandoned rows return, refinement of `DocumentQueue` |
| `queue_live` | 2 workers, 1 document, 2 rows, 2 events, 1 stop, `LongJobs` and `Overlapping` TRUE; fair | the retry budget holds although rows are recovered under a living worker and documents get several active rows; every accepted job comes to a final status |
| `vectors` | 1 document with 4 versions (1 chunk; 3 chunks, or 2 under the new chunker; excluded; refused), 2 processes one after the other, batch 2, delete batch 1, 1 cut-off run; fair; 254 870 states | exact points, graph fed, skips justified after cut-off runs, current rows kept, rows converge |
| `mail` | 2 UIDs, 2 numberings, 2 dates, 2 cutoffs, limited and unlimited passes, old cursor, silent or reporting server, 1 cut-off pass; fair | no message falls between the cursors, everything admitted is imported |
| `identities` | 3 identities, 2 similar names, 1 e-mail address, 1 document, 1 contact, 2 policies, 2 decisions, 3 changes; symmetric in identities; 252 630 states | corrections and rejections hold, nothing refers to a retired identity, confirmed identities stay |
| `indexer` | 3 texts (one name; three names; too large) and a passage, 3 names, worker with 2 attempts, and a caller for the API and both phases of a rebuild, chunks lost in discovery, 1 edit, 2 events, 1 fault, 1 ruling; 2 318 451 states | hash and signature state what the mentions are, as far as section 5 does not except it; no use is lost, done means linked, decisions are not undone |
| `findings` | 1 finding with 2 texts, 3 entities (1 to be created), 2 runs, 1 user who may lose access, 4 decisions, 1 merge, deletion, relink or cut-off, 6 of all together; 2 380 617 states | the working queue is honest, curated mentions stay, only orphans vanish |
| `logins` | 1 identity, 2 accounts (1 known), 2 flows, 2 concurrent requests, 3 faults; fair | the binding follows the login; who confirms is connected in the end |
| `sessions` | 1 user who may curate and 1 stranger, 2 flows, 2 concurrent requests, 2 faults; fair | no session outlives its process; every stored password is revoked |
| `sources` | 1 document, 2 folders (1 of a chat), ordinary and chat searches, 2 settings, 1 move, 1 traversal, 1 fault; fair; 902 136 states | archive material stays out of both arms of ordinary searches; the mirror catches up |
| `answers` | 3 documents, 2 of them copies of each other, 3 arms (2 passages, 1 linked document at most), 2 results, batches of 2, 11 kinds of request, 2 rounds, 1 candidate verified, 2 requests, 2 changes of permissions, 1 fault; symmetric in the copies; 2 255 726 states | authorisation, verification, honest sources; and for all hits, weights and orders of the reranker what fusion promises |
| `web` | 2 pages (html, pdf), 2 sources, 1 or 2 queries, a stream, `/use` of both, background printing, 2 requests, 2 runs, 2 events (edits, withdrawals, deletions, faults, restarts); fair; 986 361 states | honest evidence, snapshots are what was read, answers in one piece tell of losses, prints settle unless lost |

Why the bounds are enough. Queue: every disagreement needs at most two processes on one document (reader
and writer of a snapshot, two claimants), a second document for the choice of the most urgent job, and one
crash; two rows allow a final and an active one of a document. Vectors: chunk counts 1 and 3 with batch
sizes 2 and 1 make documents grow, shrink, and be cut off inside an upsert and inside a delete; documents
only meet in the traversal's sets, and the theorems hold for any number of them. Mail: two UIDs put a
message on each side of any one cursor and give a batch an order; three UIDs were run as well and hold.
Identities: a merge chain needs three; one name in common makes two of them candidates. Indexer: a first
text and a longer one tell old mentions from new ones, two attempts a retry, two processes the API beside
the worker. Findings: two runs share a finding, a reassignment needs two entities and one that is merged
away. Logins and sessions: two accounts to confuse, two flows of one identity, two requests that overlap.
Answers: a copy that may be promoted, a document that may be withdrawn while another stays, a list cut by
every limit; a second request that takes over numbers. Web: two queries whose sources are merged, one
archive that fails, one page that changes between reading and `/use`. Where a theorem of section 6 states
the property, it holds for every value of these constants.

The counters (`MaxJobs`, `MaxEvents`, `MaxCrashes`, `MaxStops`, `MaxAborts`, `MaxUid`, `MaxNumbering`,
`MaxChanges`, `MaxDecisions`, `MaxEdits`, `MaxFaults`, `MaxRulings`, `MaxActs`, `MaxWork`, `MaxMoves`,
`MaxScans`, `MaxTurns`, `MaxRuns`) only end the environment's activity. `CHECK_DEADLOCK FALSE` is set
because the system really stops: when the bounded environment is used up and all work is done. The
constants `LongJobs`, `Overlapping`, `Reverts` and `Expanding` switch behaviour the code admits but its
properties do not survive; section 5 says what fails with each. Hazards that need it carry a note.

`TypeOK` is an invariant of no run of its own: of `GraphQueue`, `VectorSync`, `MailSync`, `KnowledgeGraph`
and `Answers` it is a theorem; in the other modules it is the first conjunct of the first invariant.

### Fairness

* `GraphQueue`: systemd (or the start script) restarts workers, and the steps of a started worker are taken;
  a worker that holds a job finishes or fails it; time passes (`Age`), and quiet, idle periods come again.
  The claim is strongly fair: the worker polls, sleeping no longer than what it waits for, so an open gate
  that keeps returning is seen. Nothing is assumed of enqueuers, crashes or stops.
* `VectorSync`: a started run takes its steps. `start-sync-worker.sh` starts a complete run again and again;
  strong, because with `Overlapping = FALSE` the model makes it wait for other runs.
* `MailSync`: the same for a pass and for `rag.mail_worker`, whose loop ignores the exit code (100-108).
* `NextcloudLogin`: a request takes its steps; the frontend asks again and the user confirms the newest
  link he is given (both strong: a frontend polls, a link may be replaced); an unconfirmed flow ages.
* `CurationSessions`: requests and start-up take their steps, a stopping process stops. Nobody need log out.
* `SourceOrigin`: a search and a started traversal take their steps, searches keep coming, and between them
  `retry_seconds` pass again and again (strong). Nobody need import, move, traverse or save.
* `WebResearch`: research and printing take their steps, since every call has a time limit.
* `KnowledgeGraph`, `GraphIndexer`, `ResearchFindings`, `Answers`: safety only.

`Converges`, `AllImported` and `MirrorCatchesUp` speak of an environment that rests in the end: a document
or mailbox that changes for ever need not ever be up to date.

## 5. Where code and expectation part

No run expects a violation. The following was met while modelling; a definition named here is written down
beside its module's properties, or the experiment can be repeated by changing a constant.

Queue. `AbandonedJobsReturn` fails: `recover_stale_running` is called once, at start-up, for rows already
older than the limit, so a worker that dies and is restarted at once leaves its last row `running` until the
next start (`graph_worker.py:142`; the comment at `graph_queue.py:402` promises more).
`AcceptedPayloadsIndexed` fails: promotion by priority replaces the whole payload (`graph_queue.py:344`,
comment 340-342). With `Overlapping` TRUE `OnlyAbandonedReturn` fails, since ids of stale rows are read
outside the transaction that resets them; with `LongJobs` TRUE all properties of `queue` fail (a job that
outlives the limit is returned under its worker, and the late worker overwrites the row of the next), while
`AttemptsBounded` and `JobsResolved` hold. Nothing in the code ensures that either is FALSE.

Vectors. `StaleChunksRemoved` fails: points of a run that died before its first commit have no row, and are
out of the clean-up's reach. With `Overlapping` TRUE `CurrentRowsAreKept` fails (rows read at the end are
compared with documents seen from the start), while `GraphFed` holds; with `Reverts` TRUE skips are no longer
justified.

Mail. With `Overlapping` TRUE (and one run cut off) or `Refused = {1}` (a message that always raises)
`AllImported` fails; with `Expanding` TRUE `NothingLost` fails, the limitation that
`docs/KNOWN-LIMITATIONS.md` describes.

Identities. A correction that itself retired the identity is lost when the document is linked again
(`graph.py:3920` against 3893-3895). A new observation leaves an old RESOLVED_TO in place; a merge copies
retired names as active ones and does not redirect the curator's target of a finding's observation; a
corrected display name is overwritten by the next contact import; reassigning a contact to the entity it
describes deletes its edges; `RejectSame` accepts retired identities.

Indexer. `ClaimsReplaced` fails: the hash is committed with the mentions, before claims and summary
(`graph.py:4084` against 4105-4106). `StateVouches` excepts three things, and each does happen. A replacement
of mentions that is cut off leaves a part of them under the old hash, and nothing in the code notices
(`cut`). A chunk that fails in discovery is noted in the job's result only, and its names are missing for good
under a complete signature. And the relink phase of a rebuild (`graph_rebuild.py:87`) states the complete
signature without having discovered names, for a text that changed, or whose discovery failed, after the
first phase. With `Overlapping` TRUE everything but the counter fails: nothing keeps a rebuild and the worker
off the same document.

Findings. Curated mentions are restored after a document was linked anew
(`docs/GRAPHLIGHT-FINDINGS.md:108`), but are missing while it is linked, and after a pass that was killed
until one has ended (`graph.py:3874`, 3974-4079): `CuratedMentionsKept` excepts both. It excepts a
reassignment, too, whose new entity was deleted between its lookup and the write (`graph.py:6009`, 6022): it
matches nothing, the clean-up at 6084-6100 goes on and removes the mention of the entity the text still
names (`missed`). Two passes that link one document at the same time are not modelled. A curation
killed between write and review leaves claims standing that nobody reviews (`QueueIsHonest` excepts these,
`cut`); curation ignores global decisions although the list shows the text as resolved; a claim may be made
on a merged tombstone.

Logins and sessions. `OneOpenFlow` fails: two concurrent requests create two fresh flows, and one may drop
the other's confirmed flow. A login torn between its two transactions leaves an identity bound to the
account before (`BindingFollowsLogin` excepts `torn`); a poll under way re-creates a credential that was
just deleted. A crash between poll and insert, or a refused revocation, leaks an app password without a row;
one between revocation and deletion leaves a row pending for ever; under a wrong key nobody is served.

Origins. `DeclaredOriginKept` fails: reconcile writes by the copy it has read
(`source_registry.py:435`). A document that is indexed anew after the registry last changed has no mirrored
origin until a traversal or a new registration; a mail account renamed between its two saves loses a root.
`ArchivedStaysOut` excepts documents nobody registered in three cases. One whose indexed copy or chunks are
rewritten with an ordinary folder while a search runs is ordinary from then on. One moved into an archive
folder is returned until the copy of the arm follows; the vector arm judges by the payload of the last
embedding (`search.py:2757`), which a move does not renew, only a change of text or index signature. And so is one of whose chunks only a
part was replaced after the move.

Chat. A round's results are discarded when a later one is asked for; a verifier that is down is reported as
"no matching documents"; findings are stored before the answer model fails; an explicit web request is not
tried after an unspecific question or no results, although a comment (about `openai_provider.py:7733`) says
so; an LLM failure of a web-only request leaves the query record open; a withdrawn document of `/use` is
omitted silently; an arm that was degraded is not reported when access was denied to all it found; Neo4j
down at the lookup of entities is never reported (`search.py:393-481` against 499-540). Fusion: copies may
consume several of the reranker's candidates (docstring of `deduplicate_for_reranker`); a mandatory document
found only as a copy of one that the reranker drops is lost (`search.py:5750-5782`); the order "heads of the
arms first" survives without a reranker, where the comment 3659-3661 says it is for admission only.

Web. A text path is noted before the put, so an answer may name a snapshot that does not exist. An answer
sent in one piece then tells of a loss; a streamed one never does: what the web arm reported is not shown,
and a record that could not be completed is only logged (`openai_provider.py:8470-8485` against 8281-8292).
Nor does `/web` when the model is down (6965-6968). `LossesTold` excepts these two. A page stays "pending"
for ever when its batch has no credential or is cut off by a restart, when its outcome cannot be written, or
when its metadata were stored but `_put` raised all the same, because `register_document` did
(`web_research.py:1031-1035`) or the answer was lost: the job is then never queued (1574-1589).
`PrintsSettle` excepts these (`lost`). A printed page is as it was when printed.

## 6. What is proved

Every theorem holds for every value of the constants that the named assumptions of its module admit: any
number of documents, workers, processes, entities, runs, pages, requests, faults and crashes. Each safety
proof has one inductive invariant, a conjunction of named parts; one lemma per action shows that the action
preserves it; frame lemmas cover the parts an action cannot disturb.

`GraphQueueProofs`, under `Punctual == LongJobs = FALSE /\ Overlapping = FALSE` and with finite `Docs`:
`QueueInvariant`, `TypeCorrect`, `OneActiveJob`, `Exclusive`, `AttemptsAreBounded`, `FinalIsFinal`,
`NoEventLost`, and the refinement `Implements`. One active row is not inductive: enqueueing preserves it
only if nobody acts on an outdated snapshot. `QueueInv` adds that a row in a worker's hands is running, fresh
and still has the worker's attempt number (`HeldRowIsCurrent`), that two workers hold different rows, that
rows a recovery has read are still stale and no process has read duplicates (`ReadRowsAreStale`), that one
recovery is under way at most, and that a pending row has an attempt left (`AttemptsLeft`). Conservation
(`NoEventLost`) is a fold over the rows of a document. The fold is shown to be the number of pairs of a row
and a unit of it, whatever the order (`UnitsFold`, `FoldsAgree`, by a smallest set that would differ); then
an event is one more in the one active row or one in a new row, and nothing else changes a count: where every
document has one active row at most, there are no duplicates to collapse. `Implements` maps
every step: `StageOf` and `OwnersOf` of a document change only in the rows a step writes, and with one active
row these are the document's; a recovery returns rows nobody owns, which is `Reclaim` of `DocumentQueue`.

`VectorSyncProofs`, under `Orderly == Overlapping = FALSE /\ Reverts = FALSE`: `SyncInvariant`,
`TypeCorrect`, `ExactPoints`, `SkipsAreJustified`, `EveryVersionQueued`. There is one run
(`OneRun`); what the program counter says of its document (`Position`): the points up to `next` are of the
target version and the old row is still in StateDB and does not match the target; what a traversal has left
out is excluded (`Traversal`); versions do not return, so a row that differs from the run's snapshot is not
current (`Outdated`, `History`). Hence a cut-off upsert leaves mixed points only under a row that no longer
matches, which is what `SkipJustified` needs.

`MailSyncProofs`, for `MailSync` under `Orderly == Overlapping = FALSE /\ Expanding = FALSE`: `MailInvariant`,
`MailTypeCorrect`, `NoMessageLost`. A cursor that moves by one message loses nothing only if the message is
the next one on its side, so `MailInv` follows the run: what its searches have not found has arrived since
and lies beyond the cursors (`Found`); each batch is the part of the messages next to its cursor, without a
gap (`Adjacent`), which `Lowest` and `Highest` give for every budget (`LowestIsClosed`, `HighestIsClosed`);
the cursors stay among the UIDs given out (`CursorsInside`), so what arrives later is new; and numberings
are told apart (`Numbered`). A run whose session a renumbering has ended may still move the cursors once:
the row then carries the old numbering, the next run discards it, and the cursor of an old installation
does not count in the new one (`DeadSession`, `LegacyRenumbered`).

For `SourceOrigin` it has `OriginInvariant` and `OrdinarySearchesStayOrdinary`. Nothing keeps registry,
folder and mirrored field of a document together while a search runs, so the invariant says what the search
itself can rely on: until it has queried the index, each document it has to keep out is known by its id or
lies under a root ever used as an archive (`VouchedKnown`; neither is ever forgotten); what the query then
let through lies under no archive and has no mirrored origin, so it is known by its id (`HitsKnown`) and the
check of each hit finds it, however late. For the vector arm the same is said of all the chunks, and of what
a traversal under way is about to write. Traversals and imports only matter by what they never remove.

`KnowledgeGraphProofs`: `GraphTypeCorrect`, `CorrectionsAlwaysHold`, `NoDanglingReference`,
`RejectedNeverOffered`, `ConfirmedStay`. A correction is found again by its status (`CorrectedStatus`), so an
operation that loses the status loses the correction; names given to identities stay names, and whoever
exists has one (`Named`), which orphaning needs; and every pair ever rejected is stored as NOT_SAME_AS between
concrete identities (`RejectionsStored`), from which the property about components of SAME_AS follows after
any chain of merges. `CorrectionsHold` and `NothingRefersToRetired` need each other: a retired identity must
not be a target.

For `NextcloudLogin` it has `LoginsInvariant` and `BindingHonest`. The property speaks of identities at rest;
the invariant of what is on its way to them. All requests that are between storing a password and binding
the identity, and the password stored, are about one account (`OneAccount`), unless the two transactions of
a login were torn apart; this in turn needs that what is stored is a password that was handed out
(`StoredLive`) and that a request has a flow at hand from its poll on (`FlowAtHand`).

`GraphIndexerProofs`, under `Alone == Overlapping = FALSE`: `IndexerInvariant`, `IndexerTypeCorrect`,
`EvidenceIsCounted`, `DoneIsLinked`, `CuratedWorkIsKept` and `WhatTheNodeVouchesFor`, with lost chunks and
relink phases, whose texts `StateVouches` excepts by history and not by assumption. Every count is paid for: attempts by events and
faults, uses by touches, ends by passes (`Accounts`); each place of a pass finds what it takes for granted,
before, while and after the mentions are written (`BeforeLinking`, `WhileLinking`, `AfterLinking`). On top of
that, a pass that is to vouch for a text whose names were searched has all of them (`AllDiscovered`), and what
the node states is whole (`Vouches`).

`ResearchFindingsProofs`: `FindingsInvariant`, `ClaimsStayGrounded`, `QueueStaysHonest`, `MentionsStay`,
`OrphansVanish`. `FindingsInv` follows the one curator through the statements of a reassignment (`CuratorBusy`,
`TargetReady`, `CuratorKnows`, `Untouched`), relates observations to decisions (`Observed`), chains of merges
to the identity that inherited (`Heirs`), and every curated text to a mention that is there
or that the pass under way still owes (`Kept`), the ends of a claim to entities that live (`EndsMeet`), and a claim
that stands to the entities its finding was curated to (`Standing`). `ClaimsStayGrounded` is stronger than the
property of the run: it holds whatever the state of the claim's run is.

For `CurationSessions` it has `SessionsInvariant` and `NoForeignSession`. Sessions of an earlier process are
still active when a start begins, so the property needs what the clean-up has yet to do: such a session is
active only while the process is down or it is among what the clean-up has left (`ForeignAwaitCleanup`),
nobody is served before that is empty (`NobodyServed`), and a clean-up that is cut short starts again.

`AnswersProofs`: `AnswersTypeCorrect`, `AnswersStayAuthorized`, `OnlyVerifiedUsed`, `SourcesStayHonest`. The
promises speak of what a model has read; the invariant must speak of every list on the way there. Under live
ACL, whatever a call lets through was visible at some moment of this request (`RetrievalInv`); lists are
numbered and keep their documents under their numbers (`Lists`); what matched is confirmed (`Checks`); the
graph is told last, and of cited documents (`Reports`); and the place in the request says which lists are in
use (`Control`). `Onward` collects what every step has to show.

For `Fusion` it has `FusionStaysWithin` and `FusionKeepsPromises`: for any finite set of documents, any
copies, finds, limits and weights, no lists break the promises (`NoStrays`, `NoHeadsLost`, `NoRequiredLost`).
The lemmas go from the operators to the stages. A finite set has an arrangement in every strict
linear order (`NumberingExists`, `ArrangedInOrder`), so a filter keeps what it selects, in order (`AtSelected`,
`WithinIn`, `AboutIs`, `OnceFirst`), and fusion sorts (`ScoreOrders`). Folds have a value for every list
(`FoldExists`, size by size of the set folded over). Of the groups of copies the fold keeps two
invariants: groups are made of distinct documents out of the list and cover it as far as it was looked at
(`FormedStep`), and a copy is of the family of its group (`SoundStep`). Heads are few enough and come first,
so they are in a group before the reranker's candidates are full (`HeadsStay`); documents the reranker
dropped return because the mandatory ones and those that stay are counted to the limit (`PreservedKeeps`).

`WebResearchProofs`: `WebInvariant`, `EvidenceIsHonest`, `SnapshotsHold`, `NoSilentLoss`. The provider waits
exactly while a call runs, and room is left for the remaining queries' directories (`Handshake`); the records
of a run are the places of its first sources, in order, and only their texts are being written (`Recording`);
the reply joins records and sources of the same position (`ReplyHolds`), the merge keeps the first of each
page (`Gathering`), and the answer shown names what it was made from (`Answered`). `NoSilentLoss` is about answers
sent in one piece; no other answer tells.

Model-checked only: liveness (`JobsResolved`, `Converges`, `AllImported`, `LoginCompletes`,
`PasswordsRevoked`, `MirrorCatchesUp`, `PrintsSettle`), since the proof system handles neither fairness nor
ENABLED here. The induction theorems of the library take an operator as a parameter, which the installed
provers cannot instantiate; facts about folds (`FoldExists`, `UnitsFold`) are derived from well-foundedness
or from the finiteness of a set instead, one by one.

Proving changed the models in a few places: cases of CASE expressions that overlapped are now disjoint, the
premise of `CuratedMentionsKept` that nobody is at work was found unnecessary, the requests of `WebResearch`
have a type, and its merge is a set characterised by first occurrences instead of a fold. `Fusion` sorts and
filters with `Arranged` and has its bounds as constants. `None` is declared
once (`NoValue`), and two assumptions came to light that the code justifies: flows are finitely many at any
time, and `None` is not a kind of origin.

## 7. What is not modelled

Components without a module: admin pages, contact synchronisation (its relink events are in `GraphQueue`, its
contacts in `KnowledgeGraph`), research notes, backup and restore, maintenance mode and service scripts (stops
and kills of workers are in `GraphQueue`), the Nextcloud app, the FullTextSearch helper. Two hazards have
no property, since nothing in the code promises more: a message that always raises (`mail_sync.py:1596`), and
a rebuild that indexes a document beside the worker (`graph_rebuild.py:54`).

In the modelled components:

* Queue and worker: status file, heartbeat thread, statistics. Vectors: `--dry-run`, creation of the
  collection, embedding and chunking; title, text and hash of a document are one content, where the code
  compares the hash of Elasticsearch only (`sync.py:804`). Mail: `--dry-run`, mailbox discovery, parsing and file names, post-sync
  commands.
* Graph: other entity types and organization paths, query-side lookup, reports, prompts and the parsing of
  model output, source dates; bulk suppression of findings; two curators at once, and two runs that store
  under an equal curation hash; merging and deleting an entity, and the reassignment of an observation, take
  several statements in the code, and may be cut off between them.
* Credentials: API keys, model, mail and web settings, encryption.
* Origins: the graph arm, which judges what it finds by the path its node was given (as the vector arm by its
  payload); mail sidecars found by reconcile, reading errors that an `lru_cache` keeps, chat registration's
  own call of the mirror (it is the next search's).
* Retrieval and answers: query construction, prompts, natural instructions, helper requests, model profiles,
  the remote cap on verification, results without text, the orientation candidates of too unspecific
  questions and their second live check (`api.py:2335-2347`); that the cross-encoder reads texts before the
  live check (`search.py:5311`), so that `AnswersAuthorized` speaks of language models; the early end of `/elastic`
  when fewer documents could be loaded than were found (`openai_provider.py:7270-7281`); a loss between lookup and load of a document; repair of complete lists is part of the answer; a
  question rewritten beforehand belongs to `Begin`. A result's copies are any subset of its family, and
  results are distinct documents.
* Fusion: secondary weights are the floor or the whole, probe limits never cut, passages within a group are not compared; `PromisesKept` speaks of mandatory documents that are
  candidates of their own and no more than the limit.
* Web: passages, page parsing, formats, readiness of the search service; one user and one request at a time;
  the hits of one query are distinct pages; a snapshot is deleted by its user only when an answer names it.

----------------------------- MODULE GraphQueue -----------------------------
(***************************************************************************)
(* The durable evidence queue between the chat path and Neo4j:             *)
(* rag/graph_queue.py (the SQLite table graph_jobs and its transactions)   *)
(* and rag/graph_worker.py (the processes that drain it).                  *)
(*                                                                         *)
(* Callers (chat provider, sync, admin pages, CLI) enqueue evidence        *)
(* events; an event names a set of documents and becomes one job per       *)
(* document, or is coalesced into the document's active job.  Workers      *)
(* claim the most urgent pending job, index it and write the result back.  *)
(*                                                                         *)
(* enqueue_evidence and claim_next run under BEGIN IMMEDIATE, finish and   *)
(* fail are one UPDATE: each is one action.  Opening the queue and         *)
(* recovering stale rows first SELECT in autocommit and then UPDATE by id  *)
(* in a transaction of its own: each is a read and a write action, with    *)
(* "read" holding what was seen in between.  A worker may be stopped, or   *)
(* die, between any two actions.                                           *)
(***************************************************************************)
EXTENDS Naturals, FiniteSets, FiniteSetsExt, Functions

CONSTANTS
  Docs,         \* document ids
  Workers,      \* graph_worker processes, the service and manual ones
  Events,       \* kinds of evidence event: [priority : Nat, payload : SUBSET Demands]
  MaxAttempts,  \* graph_queue.worker.max_attempts
  LongJobs,     \* may a job run longer than worker.stale_running_seconds ?
  Overlapping,  \* may two workers recover stale rows at the same time ?
  Caller,       \* the other processes that open the queue (API, sync, CLI)
  MaxJobs,      \* bound: rows ever inserted
  MaxEvents,    \* bound: events accepted per document
  MaxCrashes,   \* bound: workers killed in the middle of their loop
  MaxStops      \* bound: workers stopped by SIGTERM or --once

(* What an event may ask the indexer for: count one use of the document as *)
(* evidence (count_evidence), or index it although its hash is unchanged   *)
(* (force_reindex).                                                        *)
Demands == {"count_evidence", "force_reindex"}

Event == [priority : Nat, payload : SUBSET Demands]

ASSUME DocsAssumption == IsFiniteSet(Docs)
ASSUME EventsAssumption == Events \subseteq Event
ASSUME AttemptsAssumption == MaxAttempts \in Nat \ {0}
ASSUME ModeAssumption == LongJobs \in BOOLEAN /\ Overlapping \in BOOLEAN
ASSUME CallerAssumption == Caller \notin Workers
ASSUME BoundsAssumption ==
  MaxJobs \in Nat /\ MaxEvents \in Nat /\ MaxCrashes \in Nat /\ MaxStops \in Nat

VARIABLES
  last,      \* the last AUTOINCREMENT id of graph_jobs
  jobs,      \* graph_jobs: row per id
  worker,    \* per worker: where it is in its loop, and the row it claimed
  read,      \* per process: what it has read and not yet acted upon
  gate,      \* quiet hours and the idle check allow processing
  crashes, stops,
  accepted   \* history: events accepted per document

vars == <<last, jobs, worker, read, gate, crashes, stops, accepted>>

-----------------------------------------------------------------------------

Active == {"pending", "running"}
Terminal == {"done", "skipped_oversize", "error", "coalesced"}

(* A row of graph_jobs.  "aged" stands for started_at lying further back   *)
(* than stale_running_seconds; "recovered" counts the '[stale worker       *)
(* recovered]' marks; "owed" is a history field: demands the row accepted  *)
(* as its payload and that no indexing pass has served yet.                *)
Job == [status : Active \cup Terminal, document_id : Docs, priority : Nat,
        attempts : Nat, payload : SUBSET Demands, coalesced_count : Nat,
        aged : BOOLEAN, recovered : Nat, owed : SUBSET Demands]

NoJob == 0
PC == {"down", "opening", "starting", "recovering", "idle", "claimed", "touched"}
Holding == {"claimed", "touched"}

(* A worker holds the snapshot claim_next returned: id, attempts, payload. *)
WorkerState == [pc : PC, job : Nat, attempts : Nat, payload : SUBSET Demands]
Down == [pc |-> "down", job |-> NoJob, attempts |-> 0, payload |-> {}]
Idle == [Down EXCEPT !.pc = "idle"]

(* Opening reads the documents with several active rows and, for the first *)
(* of them, the keeper, the surplus rows and the events these stand for;   *)
(* the documents of "rest" are read again inside the write transaction.    *)
(* Recovery reads the ids of the stale rows.                               *)
Processes == Workers \cup {Caller}
Snapshot == [keeper : Nat, surplus : SUBSET Nat, extra : Nat, rest : SUBSET Docs,
             stale : SUBSET Nat]
Nothing == [keeper |-> NoJob, surplus |-> {}, extra |-> 0, rest |-> {}, stale |-> {}]

JobIds == 1 .. last
(* Fault for mutation: a running row does not count as active.             *)
ActiveJobsPendingOnly(d) ==
  {j \in JobIds : jobs[j].document_id = d /\ jobs[j].status = "pending"}

ActiveJobs(d) == {j \in JobIds : jobs[j].document_id = d /\ jobs[j].status \in Active}

(* ORDER BY CASE status WHEN 'running' THEN 0 ELSE 1 END, id ASC           *)
Before(i, j) ==
  \/ jobs[i].status = "running" /\ jobs[j].status # "running"
  \/ jobs[i].status = jobs[j].status /\ i < j

(* The active row of its document that absorbs later events.               *)
Keeper(j) ==
  /\ jobs[j].status \in Active
  /\ \A i \in ActiveJobs(jobs[j].document_id) \ {j} : Before(j, i)

Init ==
  /\ last = 0
  /\ jobs = [j \in 1 .. 0 |-> Down]
  /\ worker = [w \in Workers |-> Down]
  /\ read = [p \in Processes |-> Nothing]
  /\ gate \in BOOLEAN
  /\ crashes = 0
  /\ stops = 0
  /\ accepted = [d \in Docs |-> 0]

-----------------------------------------------------------------------------
(* Opening the queue.  Every process constructs a GraphQueue: _ensure_schema *)
(* collapses surplus active rows of a document into the keeper.            *)

Surplus(j) == ActiveJobs(jobs[j].document_id) \ {j}
Extra(rows) == MapThenSumSet(LAMBDA i : 1 + jobs[i].coalesced_count, rows)
Duplicated == {d \in Docs : Cardinality(ActiveJobs(d)) > 1}

(* A group read inside the write transaction.                              *)
Collapsed(j) ==
  IF ~Keeper(j) THEN [jobs[j] EXCEPT !.status = "coalesced"]
  ELSE [jobs[j] EXCEPT !.coalesced_count = @ + Extra(Surplus(j))]

ReadDuplicates(p) ==
  \E d \in Duplicated, k \in JobIds :
    /\ jobs[k].document_id = d /\ Keeper(k)
    /\ read' = [read EXCEPT ![p] =
                  [Nothing EXCEPT !.keeper = k, !.surplus = Surplus(k),
                                  !.extra = Extra(Surplus(k)), !.rest = Duplicated \ {d}]]

CoalesceExistingActiveJobs(p) ==
  /\ jobs' = [j \in JobIds |->
                IF j \in read[p].surplus THEN [jobs[j] EXCEPT !.status = "coalesced"]
                ELSE IF j = read[p].keeper
                THEN [jobs[j] EXCEPT !.coalesced_count = @ + read[p].extra]
                ELSE IF j \in UNION {ActiveJobs(d) : d \in read[p].rest \cap Duplicated}
                THEN Collapsed(j)
                ELSE jobs[j]]
  /\ read' = [read EXCEPT ![p] = Nothing]

(* A caller opens the queue (and writes nothing unless it sees duplicates). *)
OpenQueue ==
  /\ read[Caller] = Nothing
  /\ ReadDuplicates(Caller)
  /\ UNCHANGED <<last, jobs, worker, gate, crashes, stops, accepted>>

CallerCoalesces ==
  /\ read[Caller] # Nothing
  /\ CoalesceExistingActiveJobs(Caller)
  /\ UNCHANGED <<last, worker, gate, crashes, stops, accepted>>

-----------------------------------------------------------------------------
(* enqueue_evidence: one BEGIN IMMEDIATE transaction for all documents of  *)
(* the event.                                                              *)

NewJob(d, e) ==
  [status |-> "pending", document_id |-> d, priority |-> e.priority,
   attempts |-> 0, payload |-> e.payload, coalesced_count |-> 0,
   aged |-> FALSE, recovered |-> 0, owed |-> e.payload]

(* promote_payload: more urgent, or the first real evidence event.         *)
Promotes(row, e) ==
  \/ e.priority < row.priority
  \/ "count_evidence" \in e.payload \ row.payload

(* Fault for mutation: an absorbed event is not counted.                   *)
AbsorbUncounted(row, e) ==
  [row EXCEPT !.priority = IF e.priority < @ THEN e.priority ELSE @]

Absorb(row, e) ==
  [row EXCEPT
    !.coalesced_count = @ + 1,
    !.priority = IF e.priority < @ THEN e.priority ELSE @,
    !.payload = IF Promotes(row, e) THEN e.payload ELSE @,
    !.owed = IF Promotes(row, e) THEN @ \cup e.payload ELSE @]

(* Rows get ids in the order of the event's document list: any order.      *)
EnqueueEvidence(documents, e) ==
  LET fresh == {d \in documents : ActiveJobs(d) = {}}
      newLast == last + Cardinality(fresh)
  IN /\ newLast <= MaxJobs
     /\ \A d \in documents : accepted[d] < MaxEvents
     /\ last' = newLast
     /\ \E docOf \in Bijection(last + 1 .. newLast, fresh) :
          jobs' = [j \in 1 .. newLast |->
                     IF j > last THEN NewJob(docOf[j], e)
                     ELSE IF jobs[j].document_id \in documents /\ Keeper(j)
                     THEN Absorb(jobs[j], e)
                     ELSE jobs[j]]
     /\ accepted' = [d \in Docs |-> IF d \in documents THEN accepted[d] + 1 ELSE accepted[d]]
     /\ UNCHANGED <<worker, read, gate, crashes, stops>>

-----------------------------------------------------------------------------
(* The worker process.                                                     *)

(* main: construct the queue, which collapses duplicates.                  *)
Start(w) ==
  /\ worker[w].pc = "down"
  /\ IF Duplicated = {}
     THEN worker' = [worker EXCEPT ![w].pc = "starting"] /\ UNCHANGED read
     ELSE worker' = [worker EXCEPT ![w].pc = "opening"] /\ ReadDuplicates(w)
  /\ UNCHANGED <<last, jobs, gate, crashes, stops, accepted>>

WorkerCoalesces(w) ==
  /\ worker[w].pc = "opening"
  /\ CoalesceExistingActiveJobs(w)
  /\ worker' = [worker EXCEPT ![w].pc = "starting"]
  /\ UNCHANGED <<last, gate, crashes, stops, accepted>>

(* recover_stale_running, once per process before the loop: the SELECT ... *)
StaleAmong(rows) == {j \in rows : jobs[j].status = "running" /\ jobs[j].aged}

ReadRunningAs(w, stale) ==
  /\ worker[w].pc = "starting"
  /\ Overlapping \/ \A v \in Workers : worker[v].pc # "recovering"
  /\ read' = [read EXCEPT ![w].stale = stale]
  /\ worker' = [worker EXCEPT ![w].pc = IF stale = {} THEN "idle" ELSE "recovering"]
  /\ UNCHANGED <<last, jobs, gate, crashes, stops, accepted>>

(* Fault for mutation: recovery takes every running row, however fresh.    *)
ReadAnyRunning(w) == ReadRunningAs(w, {j \in JobIds : jobs[j].status = "running"})
ReadStaleRunning(w) == ReadRunningAs(w, StaleAmong(JobIds))

(* ... and the UPDATE of the rows it returned, by id only.                 *)
RecoverStaleRunning(w) ==
  /\ worker[w].pc = "recovering"
  /\ jobs' = [j \in JobIds |->
                IF j \in read[w].stale
                THEN [jobs[j] EXCEPT !.status = "pending", !.recovered = @ + 1]
                ELSE jobs[j]]
  /\ worker' = [worker EXCEPT ![w].pc = "idle"]
  /\ read' = [read EXCEPT ![w] = Nothing]
  /\ UNCHANGED <<last, gate, crashes, stops, accepted>>

(* claim_next: ORDER BY priority ASC, id ASC LIMIT 1 among the pending.    *)
MoreUrgent(i, j) ==
  \/ jobs[i].priority < jobs[j].priority
  \/ jobs[i].priority = jobs[j].priority /\ i <= j

(* Fault for mutation: the claimed row is not marked running.              *)
ClaimUnmarked(w, j) ==
  /\ worker[w].pc = "idle" /\ gate
  /\ j \in JobIds /\ jobs[j].status = "pending"
  /\ \A i \in JobIds : jobs[i].status = "pending" => MoreUrgent(j, i)
  /\ jobs' = [jobs EXCEPT ![j].attempts = @ + 1, ![j].aged = FALSE]
  /\ worker' = [worker EXCEPT ![w] =
                  [pc |-> "claimed", job |-> j,
                   attempts |-> jobs[j].attempts + 1, payload |-> jobs[j].payload]]
  /\ UNCHANGED <<last, read, gate, crashes, stops, accepted>>

ClaimNext(w, j) ==
  /\ worker[w].pc = "idle" /\ gate
  /\ j \in JobIds /\ jobs[j].status = "pending"
  /\ \A i \in JobIds : jobs[i].status = "pending" => MoreUrgent(j, i)
  /\ jobs' = [jobs EXCEPT ![j].status = "running", ![j].attempts = @ + 1, ![j].aged = FALSE]
  /\ worker' = [worker EXCEPT ![w] =
                  [pc |-> "claimed", job |-> j,
                   attempts |-> jobs[j].attempts + 1, payload |-> jobs[j].payload]]
  /\ UNCHANGED <<last, read, gate, crashes, stops, accepted>>

(* index_evidence serves the claimed snapshot, not the row as it is now.   *)
IndexEvidence(w) ==
  /\ worker[w].pc = "claimed"
  /\ worker' = [worker EXCEPT ![w].pc = "touched"]
  /\ jobs' = [jobs EXCEPT ![worker[w].job].owed = @ \ worker[w].payload]
  /\ UNCHANGED <<last, read, gate, crashes, stops, accepted>>

(* finish: the UPDATE names the id only, whatever status the row has now.  *)
Finish(w) ==
  /\ worker[w].pc \in Holding
  /\ jobs' = [jobs EXCEPT ![worker[w].job].status =
                IF worker[w].pc = "touched" THEN "done" ELSE "skipped_oversize"]
  /\ worker' = [worker EXCEPT ![w] = Idle]
  /\ UNCHANGED <<last, read, gate, crashes, stops, accepted>>

(* Faults for mutation: one retry too many, a retry that forgets how many  *)
(* came before it.                                                         *)
FailAs(w, status) ==
  /\ worker[w].pc \in Holding
  /\ jobs' = [jobs EXCEPT ![worker[w].job].status = status]
  /\ worker' = [worker EXCEPT ![w] = Idle]
  /\ UNCHANGED <<last, read, gate, crashes, stops, accepted>>
FailOnceMore(w) == FailAs(w, IF worker[w].attempts <= MaxAttempts THEN "pending" ELSE "error")
FailAfresh(w) ==
  /\ worker[w].pc \in Holding
  /\ jobs' = [jobs EXCEPT ![worker[w].job].status =
                IF worker[w].attempts < MaxAttempts THEN "pending" ELSE "error",
              ![worker[w].job].attempts = 0]
  /\ worker' = [worker EXCEPT ![w] = Idle]
  /\ UNCHANGED <<last, read, gate, crashes, stops, accepted>>

(* An exception, or errors in the result, before or after the document was *)
(* touched: fail(retry = attempts < max_attempts), again by id only.       *)
Fail(w) ==
  /\ worker[w].pc \in Holding
  /\ jobs' = [jobs EXCEPT ![worker[w].job].status =
                IF worker[w].attempts < MaxAttempts THEN "pending" ELSE "error"]
  /\ worker' = [worker EXCEPT ![w] = Idle]
  /\ UNCHANGED <<last, read, gate, crashes, stops, accepted>>

(* SIGTERM sets _STOP, which the loop reads between two jobs; --once.      *)
Stop(w) ==
  /\ worker[w].pc = "idle" /\ stops < MaxStops
  /\ worker' = [worker EXCEPT ![w] = Down]
  /\ stops' = stops + 1
  /\ UNCHANGED <<last, jobs, read, gate, crashes, accepted>>

(* SIGKILL, out of memory, host reset: the claimed row stays 'running'.    *)
Crash(w) ==
  /\ worker[w].pc # "down" /\ crashes < MaxCrashes
  /\ worker' = [worker EXCEPT ![w] = Down]
  /\ read' = [read EXCEPT ![w] = Nothing]
  /\ crashes' = crashes + 1
  /\ UNCHANGED <<last, jobs, gate, stops, accepted>>

-----------------------------------------------------------------------------
(* Time.                                                                   *)

Held(j) == \E w \in Workers : worker[w].pc \in Holding /\ worker[w].job = j

(* More than stale_running_seconds have passed since the row was claimed.  *)
Age(j) ==
  /\ j \in JobIds /\ jobs[j].status = "running" /\ ~jobs[j].aged
  /\ LongJobs \/ ~Held(j)
  /\ jobs' = [jobs EXCEPT ![j].aged = TRUE]
  /\ UNCHANGED <<last, worker, read, gate, crashes, stops, accepted>>

(* The clock enters or leaves the quiet hours, or mark_activity starts and *)
(* idle_seconds ends a period in which the RAG service is busy.            *)
Gate(open) ==
  /\ gate # open
  /\ gate' = open
  /\ UNCHANGED <<last, jobs, worker, read, crashes, stops, accepted>>

WorkerStep(w) ==
  \/ Start(w) \/ WorkerCoalesces(w) \/ ReadStaleRunning(w) \/ RecoverStaleRunning(w)
  \/ \E j \in JobIds : ClaimNext(w, j)
  \/ IndexEvidence(w) \/ Finish(w) \/ Fail(w)

Next ==
  \/ OpenQueue \/ CallerCoalesces
  \/ \E documents \in (SUBSET Docs) \ {{}}, e \in Events : EnqueueEvidence(documents, e)
  \/ \E w \in Workers : WorkerStep(w) \/ Stop(w) \/ Crash(w)
  \/ \E j \in JobIds : Age(j)
  \/ Gate(TRUE) \/ Gate(FALSE)

Spec == Init /\ [][Next]_vars

(* The service manager restarts workers, a worker that holds a job comes   *)
(* to an end with it, time passes and quiet, idle periods come again.  The *)
(* worker sleeps at most until the idle period it waits for is over, so an *)
(* open gate that keeps returning is seen: strong fairness for the claim.  *)
Fairness ==
  /\ \A w \in Workers :
       /\ WF_vars(Start(w)) /\ WF_vars(WorkerCoalesces(w))
       /\ WF_vars(ReadStaleRunning(w)) /\ WF_vars(RecoverStaleRunning(w))
       /\ WF_vars(Finish(w) \/ Fail(w))
       /\ SF_vars(\E j \in JobIds : ClaimNext(w, j))
  /\ WF_vars(\E j \in JobIds : Age(j))
  /\ WF_vars(Gate(TRUE))

FairSpec == Spec /\ Fairness

-----------------------------------------------------------------------------
(* Properties.                                                             *)

TypeOK ==
  /\ last \in Nat
  /\ jobs \in [1 .. last -> Job]
  /\ worker \in [Workers -> WorkerState]
  /\ read \in [Processes -> Snapshot]
  /\ gate \in BOOLEAN
  /\ crashes \in Nat /\ stops \in Nat
  /\ accepted \in [Docs -> Nat]

(* "A document that is already pending/running is not queued a second      *)
(* time" (enqueue_evidence): whatever workers crash, restart and recover,  *)
(* a document never has two active rows.                                   *)
OneActiveJobPerDocument ==
  \A i, j \in JobIds :
    /\ jobs[i].status \in Active /\ jobs[j].status \in Active
    /\ jobs[i].document_id = jobs[j].document_id
    => i = j

(* No two worker processes ever index the same document at the same time:  *)
(* the document's claimed row cannot be recovered or queued again under a  *)
(* worker that is alive (claim_next, recover_stale_running).               *)
ExclusiveProcessing ==
  \A v, w \in Workers :
    (worker[v].pc \in Holding /\ worker[w].pc \in Holding /\ v # w)
    => jobs[worker[v].job].document_id # jobs[worker[w].job].document_id

(* coalesced_count preserves how many events arrived: over a document's    *)
(* rows that were not themselves collapsed, one plus the count adds up to  *)
(* the events accepted.                                                    *)
EventsConserved ==
  \A d \in Docs :
    accepted[d] = MapThenSumSet(LAMBDA j : 1 + jobs[j].coalesced_count,
                    {j \in JobIds : jobs[j].document_id = d /\ jobs[j].status # "coalesced"})

(* A poisonous document costs at most max_attempts claims, and one more    *)
(* for each time its row was recovered from a dead worker.                 *)
AttemptsBounded ==
  \A j \in JobIds : jobs[j].attempts <= MaxAttempts + jobs[j].recovered

(* A row that reached its final status is never reopened or rewritten by a *)
(* late worker.                                                            *)
FinalStatusIsFinal ==
  [][\A j \in JobIds : jobs[j].status \in Terminal => jobs'[j].status = jobs[j].status]_vars

Abandoned(j) == j \in JobIds /\ jobs[j].status = "running" /\ ~Held(j)

(* recover_stale_running: "Return jobs left 'running' by a crashed worker  *)
(* to pending", and no others: a row a living worker is indexing stays, as *)
(* long as no job outlives the limit and recoveries do not overlap (the    *)
(* code ensures neither; without, it fails).                               *)
OnlyAbandonedReturn ==
  [][\A j \in JobIds : jobs'[j].recovered # jobs[j].recovered => Abandoned(j)]_vars

InStatus(j, statuses) == j \in JobIds /\ jobs[j].status \in statuses

(* Why the above hold while no job outlives the stale limit and recoveries *)
(* do not overlap: the row a worker holds is running, is not stale and has *)
(* had no further claim, so neither recovery nor another worker can touch  *)
(* it; the rows a recovery has read are still stale when it writes them;   *)
(* nobody sees duplicates; a pending row has an attempt left to spend.     *)
(* Inductive when LongJobs and Overlapping are FALSE.                      *)
HeldRowIsCurrent(w) ==
  LET row == jobs[worker[w].job]
  IN worker[w].pc \in Holding =>
       /\ worker[w].job \in JobIds
       /\ row.status = "running" /\ ~row.aged
       /\ row.attempts = worker[w].attempts

HeldRowsDiffer ==
  \A v, w \in Workers :
    (worker[v].pc \in Holding /\ worker[w].pc \in Holding /\ v # w)
    => worker[v].job # worker[w].job

ReadRowsAreStale ==
  /\ read[Caller] = Nothing
  /\ \A w \in Workers :
       /\ worker[w].pc # "opening"
       /\ read[w] = [Nothing EXCEPT !.stale = read[w].stale]
       /\ read[w].stale # {} => worker[w].pc = "recovering"
       /\ read[w].stale \subseteq StaleAmong(JobIds)

OneRecovery ==
  \A v, w \in Workers :
    worker[v].pc = "recovering" /\ worker[w].pc = "recovering" => v = w

AttemptsLeft ==
  \A j \in JobIds :
    /\ jobs[j].attempts <= MaxAttempts + jobs[j].recovered
    /\ jobs[j].status = "pending" => jobs[j].attempts < MaxAttempts + jobs[j].recovered

QueueInv ==
  /\ TypeOK
  /\ \A w \in Workers : HeldRowIsCurrent(w)
  /\ HeldRowsDiffer
  /\ ReadRowsAreStale
  /\ OneRecovery
  /\ OneActiveJobPerDocument
  /\ AttemptsLeft

(* Every accepted job comes to a final status, unless a worker died on it. *)
JobsResolved ==
  \A j \in 1 .. MaxJobs :
    InStatus(j, Active) ~> (InStatus(j, Terminal) \/ Abandoned(j))

(* recover_stale_running: "Return jobs left 'running' by a crashed worker  *)
(* to pending."                                                            *)
AbandonedJobsReturn ==
  \A j \in 1 .. MaxJobs : Abandoned(j) ~> ~Abandoned(j)

(* The comment in enqueue_evidence: a promotion exists because otherwise   *)
(* "count_evidence/query provenance would be lost by coalescing".  A row   *)
(* that is done has been indexed with every payload it accepted.           *)
AcceptedPayloadsIndexed ==
  \A j \in JobIds : jobs[j].status = "done" => jobs[j].owed = {}

-----------------------------------------------------------------------------
(* The refinement.                                                         *)

StageOf(d) ==
  IF \E j \in ActiveJobs(d) : jobs[j].status = "running" THEN "working"
  ELSE IF ActiveJobs(d) # {} THEN "queued"
  ELSE "idle"

OwnersOf(d) ==
  {w \in Workers : worker[w].pc \in Holding /\ jobs[worker[w].job].document_id = d}

DQ == INSTANCE DocumentQueue
        WITH stage <- [d \in Docs |-> StageOf(d)], owners <- [d \in Docs |-> OwnersOf(d)]

(* Per document the queue is a DocumentQueue: an event on a waiting or     *)
(* running document is absorbed, a document is indexed by one worker at a  *)
(* time and leaves the queue only through the worker that has it.          *)
ImplementsDocumentQueue == DQ!Spec

=============================================================================

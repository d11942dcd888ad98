-------------------------- MODULE GraphQueueProofs --------------------------
(***************************************************************************)
(* Proofs about GraphQueue for every set of documents, workers and event   *)
(* kinds, every retry limit and every bound, under the assumption that no  *)
(* job outlives worker.stale_running_seconds and no two workers recover    *)
(* stale rows at the same time (Punctual).                                 *)
(***************************************************************************)
EXTENDS GraphQueue, FiniteSetTheorems, TLAPS

Punctual == LongJobs = FALSE /\ Overlapping = FALSE

(* An event inserts a natural number of rows.                              *)
LEMMA FreshCount ==
  ASSUME NEW documents \in SUBSET Docs
  PROVE  Cardinality({d \in documents : ActiveJobs(d) = {}}) \in Nat
<1> DEFINE fresh == {d \in documents : ActiveJobs(d) = {}}
<1>1. fresh \subseteq Docs
  OBVIOUS
<1>2. IsFiniteSet(fresh)
  BY <1>1, DocsAssumption, FS_Subset
<1>. QED
  BY <1>2, FS_CardinalityType

(* While documents have one active row each, opening the queue sees no     *)
(* duplicates.                                                             *)
LEMMA NothingToCoalesce ==
  ASSUME TypeOK, OneActiveJobPerDocument
  PROVE  Duplicated = {}
<1> SUFFICES ASSUME NEW d \in Docs
             PROVE  ~(Cardinality(ActiveJobs(d)) > 1)
  BY DEF Duplicated
<1>1. CASE ActiveJobs(d) = {}
  BY <1>1, FS_EmptySet
<1>2. CASE ActiveJobs(d) # {}
  <2>1. PICK j \in ActiveJobs(d) : TRUE
    BY <1>2
  <2>2. \A i \in ActiveJobs(d) : i = j
    BY <2>1 DEF ActiveJobs, OneActiveJobPerDocument
  <2>3. ActiveJobs(d) = {j}
    BY <2>1, <2>2
  <2>4. Cardinality({j}) = 1
    BY FS_Singleton
  <2>. QED
    BY <2>3, <2>4
<1>. QED
  BY <1>1, <1>2

LEMMA InitInv == Init => QueueInv
BY DEF Init, QueueInv, TypeOK, HeldRowIsCurrent, HeldRowsDiffer, OneActiveJobPerDocument,
       AttemptsLeft, ReadRowsAreStale, OneRecovery, Snapshot, Nothing, Processes, StaleAmong,
       Down, NoJob, WorkerState, PC, Holding, JobIds, Job

(* What a recovery has read stays true while stale rows stay stale.        *)
LEMMA ReadsKept ==
  ASSUME ReadRowsAreStale, read' = read,
         StaleAmong(JobIds) \subseteq StaleAmong(JobIds)',
         \A w \in Workers : /\ worker'[w].pc # "opening"
                            /\ worker[w].pc = "recovering" => worker'[w].pc = "recovering"
  PROVE  ReadRowsAreStale'
<1> SUFFICES ASSUME NEW w \in Workers
             PROVE  /\ read[w] = [Nothing EXCEPT !.stale = read[w].stale]
                    /\ read[w].stale # {} => worker'[w].pc = "recovering"
                    /\ read[w].stale \subseteq StaleAmong(JobIds)'
  BY DEF ReadRowsAreStale
<1>. QED
  BY DEF ReadRowsAreStale

(* What an enqueue transaction does to a row that was there before.        *)
LEMMA AbsorbKeeps ==
  ASSUME NEW row \in Job, NEW e \in Event
  PROVE  /\ Absorb(row, e) \in Job
         /\ Absorb(row, e).status = row.status
         /\ Absorb(row, e).document_id = row.document_id
         /\ Absorb(row, e).attempts = row.attempts
         /\ Absorb(row, e).aged = row.aged
         /\ Absorb(row, e).recovered = row.recovered
<1> DEFINE count == row.coalesced_count + 1
           urgency == IF e.priority < row.priority THEN e.priority ELSE row.priority
           content == IF Promotes(row, e) THEN e.payload ELSE row.payload
           debt == IF Promotes(row, e) THEN row.owed \cup e.payload ELSE row.owed
<1>1. count \in Nat /\ urgency \in Nat
  BY DEF Job, Event
<1>2. content \in SUBSET Demands /\ debt \in SUBSET Demands
  BY DEF Job, Event
<1>3. Absorb(row, e) = [row EXCEPT !.coalesced_count = count, !.priority = urgency,
                                   !.payload = content, !.owed = debt]
  BY DEF Absorb
<1> HIDE DEF count, urgency, content, debt
<1>. QED
  BY <1>1, <1>2, <1>3 DEF Job

LEMMA NewJobType ==
  ASSUME NEW d \in Docs, NEW e \in Event
  PROVE  NewJob(d, e) \in Job
BY DEF NewJob, Job, Event, Active

LEMMA EnqueueInv ==
  ASSUME QueueInv, NEW documents \in SUBSET Docs, NEW e \in Events,
         EnqueueEvidence(documents, e)
  PROVE  QueueInv'
<1> DEFINE fresh == {d \in documents : ActiveJobs(d) = {}}
           newLast == last + Cardinality(fresh)
<1>0. e \in Event
  BY EventsAssumption
<1>1. newLast \in Nat /\ last \in Nat /\ last <= newLast /\ last' = newLast
  <2>1. Cardinality(fresh) \in Nat
    BY FreshCount
  <2>2. last \in Nat
    BY DEF QueueInv, TypeOK
  <2>3. last' = newLast
    BY DEF EnqueueEvidence
  <2>. QED
    BY <2>1, <2>2, <2>3
<1>2. PICK docOf \in Bijection(last + 1 .. newLast, fresh) :
        jobs' = [j \in 1 .. newLast |->
                   IF j > last THEN NewJob(docOf[j], e)
                   ELSE IF jobs[j].document_id \in documents /\ Keeper(j)
                   THEN Absorb(jobs[j], e)
                   ELSE jobs[j]]
  BY DEF EnqueueEvidence
<1>3. \A j \in last + 1 .. newLast : docOf[j] \in fresh
  BY <1>2 DEF Bijection, Injection
<1>4. \A i, j \in last + 1 .. newLast : docOf[i] = docOf[j] => i = j
  BY <1>2 DEF Bijection, Injection, IsInjective
<1>5. ASSUME NEW j \in JobIds
      PROVE  /\ j \in JobIds'
             /\ jobs'[j] \in Job
             /\ jobs'[j].status = jobs[j].status
             /\ jobs'[j].document_id = jobs[j].document_id
             /\ jobs'[j].attempts = jobs[j].attempts
             /\ jobs'[j].aged = jobs[j].aged
             /\ jobs'[j].recovered = jobs[j].recovered
  <2>1. jobs[j] \in Job /\ j \in 1 .. newLast /\ ~(j > last)
    BY <1>1 DEF QueueInv, TypeOK, JobIds
  <2>2. jobs'[j] = Absorb(jobs[j], e) \/ jobs'[j] = jobs[j]
    BY <1>2, <2>1
  <2>. QED
    BY <1>0, <1>1, <2>1, <2>2, AbsorbKeeps DEF JobIds
<1>6. ASSUME NEW j \in JobIds', j \notin JobIds
      PROVE  /\ j \in last + 1 .. newLast
             /\ docOf[j] \in fresh
             /\ jobs'[j] = NewJob(docOf[j], e)
             /\ jobs'[j] \in Job
  <2>1. j \in last + 1 .. newLast /\ j > last /\ j \in 1 .. newLast
    BY <1>1, <1>6 DEF JobIds
  <2>. QED
    BY <1>0, <1>2, <1>3, <2>1, NewJobType
<1>7. TypeOK'
  <2>1. jobs' \in [1 .. last' -> Job]
    BY <1>1, <1>2, <1>5, <1>6 DEF JobIds
  <2>2. accepted' \in [Docs -> Nat]
    BY DEF EnqueueEvidence, QueueInv, TypeOK
  <2>. QED
    BY <1>1, <2>1, <2>2 DEF EnqueueEvidence, QueueInv, TypeOK
<1>8. \A w \in Workers : HeldRowIsCurrent(w)'
  BY <1>5 DEF EnqueueEvidence, QueueInv, HeldRowIsCurrent
<1>9. HeldRowsDiffer' /\ OneRecovery' /\ ReadRowsAreStale'
  <2>1. UNCHANGED <<worker, read>>
    BY DEF EnqueueEvidence
  <2>2. StaleAmong(JobIds) \subseteq StaleAmong(JobIds)'
    BY <1>5 DEF StaleAmong
  <2>3. \A v \in Workers : worker[v].pc # "opening"
    BY DEF QueueInv, ReadRowsAreStale
  <2>4. ReadRowsAreStale'
    BY <2>1, <2>2, <2>3, ReadsKept DEF QueueInv
  <2>. QED
    BY <2>1, <2>4 DEF QueueInv, HeldRowsDiffer, OneRecovery
<1>10. OneActiveJobPerDocument'
  <2> SUFFICES ASSUME NEW i \in JobIds', NEW j \in JobIds',
                      jobs'[i].status \in Active, jobs'[j].status \in Active,
                      jobs'[i].document_id = jobs'[j].document_id
               PROVE  i = j
    BY DEF OneActiveJobPerDocument
  <2>1. CASE i \in JobIds /\ j \in JobIds
    BY <1>5, <2>1 DEF QueueInv, OneActiveJobPerDocument
  <2>2. CASE i \notin JobIds /\ j \notin JobIds
    <3>1. /\ i \in last + 1 .. newLast /\ jobs'[i] = NewJob(docOf[i], e)
          /\ j \in last + 1 .. newLast /\ jobs'[j] = NewJob(docOf[j], e)
      BY <1>6, <2>2
    <3>2. docOf[i] = docOf[j]
      BY <3>1 DEF NewJob
    <3>. QED
      BY <1>4, <3>1, <3>2
  <2>3. ASSUME NEW old \in JobIds, NEW new \in JobIds', new \notin JobIds,
               jobs'[old].status \in Active
        PROVE  jobs'[old].document_id # jobs'[new].document_id
    <3>0. docOf[new] \in fresh /\ jobs'[new] = NewJob(docOf[new], e)
      BY <1>6, <2>3
    <3>1. ActiveJobs(docOf[new]) = {} /\ jobs'[new].document_id = docOf[new]
      BY <3>0 DEF NewJob
    <3>. QED
      BY <1>5, <2>3, <3>1 DEF ActiveJobs
  <2>. QED
    BY <2>1, <2>2, <2>3
<1>11. AttemptsLeft'
  <2> SUFFICES ASSUME NEW j \in JobIds'
               PROVE  /\ jobs'[j].attempts <= MaxAttempts + jobs'[j].recovered
                      /\ jobs'[j].status = "pending"
                           => jobs'[j].attempts < MaxAttempts + jobs'[j].recovered
    BY DEF AttemptsLeft
  <2>1. CASE j \in JobIds
    BY <1>5, <2>1 DEF QueueInv, AttemptsLeft
  <2>2. CASE j \notin JobIds
    <3>1. jobs'[j] = NewJob(docOf[j], e)
      BY <1>6, <2>2
    <3>2. jobs'[j].attempts = 0 /\ jobs'[j].recovered = 0
      BY <3>1 DEF NewJob
    <3>. QED
      BY <3>2, AttemptsAssumption
  <2>. QED
    BY <2>1, <2>2
<1>. QED
  BY <1>7, <1>8, <1>9, <1>10, <1>11 DEF QueueInv

(* What each worker action does to the one row it writes.                  *)
LEMMA RecoverRow ==
  ASSUME NEW row \in Job
  PROVE  LET new == [row EXCEPT !.status = "pending", !.recovered = @ + 1]
         IN /\ new \in Job
            /\ new.status = "pending" /\ new.document_id = row.document_id
            /\ new.attempts = row.attempts /\ new.recovered = row.recovered + 1
            /\ new.aged = row.aged
<1>1. row.recovered + 1 \in Nat /\ "pending" \in Active \cup Terminal
  BY DEF Job, Active
<1>. QED
  BY <1>1 DEF Job

LEMMA ClaimRow ==
  ASSUME NEW row \in Job
  PROVE  LET new == [row EXCEPT !.status = "running", !.attempts = @ + 1, !.aged = FALSE]
         IN /\ new \in Job
            /\ new.status = "running" /\ new.document_id = row.document_id
            /\ new.attempts = row.attempts + 1 /\ new.recovered = row.recovered
            /\ new.aged = FALSE
<1>1. row.attempts + 1 \in Nat /\ "running" \in Active \cup Terminal
  BY DEF Job, Active
<1>. QED
  BY <1>1 DEF Job

LEMMA SettleRow ==
  ASSUME NEW row \in Job, NEW s \in Active \cup Terminal
  PROVE  LET new == [row EXCEPT !.status = s]
         IN /\ new \in Job
            /\ new.status = s /\ new.document_id = row.document_id
            /\ new.attempts = row.attempts /\ new.recovered = row.recovered
            /\ new.aged = row.aged
BY DEF Job

LEMMA ServeRow ==
  ASSUME NEW row \in Job, NEW payload \in SUBSET Demands
  PROVE  LET new == [row EXCEPT !.owed = @ \ payload]
         IN /\ new \in Job
            /\ new.status = row.status /\ new.document_id = row.document_id
            /\ new.attempts = row.attempts /\ new.recovered = row.recovered
            /\ new.aged = row.aged
<1>1. row.owed \ payload \in SUBSET Demands
  BY DEF Job
<1>. QED
  BY <1>1 DEF Job

LEMMA AgeRow ==
  ASSUME NEW row \in Job
  PROVE  LET new == [row EXCEPT !.aged = TRUE]
         IN /\ new \in Job
            /\ new.status = row.status /\ new.document_id = row.document_id
            /\ new.attempts = row.attempts /\ new.recovered = row.recovered
            /\ new.aged
BY DEF Job

(* A worker that does not move keeps its claim while nobody writes its row. *)
LEMMA ClaimKept ==
  ASSUME NEW v \in Workers, HeldRowIsCurrent(v), JobIds' = JobIds, worker'[v] = worker[v],
         worker[v].pc \in Holding => jobs'[worker[v].job] = jobs[worker[v].job]
  PROVE  HeldRowIsCurrent(v)'
BY DEF HeldRowIsCurrent

LEMMA RecoverInv ==
  ASSUME QueueInv, NEW w \in Workers, RecoverStaleRunning(w)
  PROVE  QueueInv'
<1>1. /\ JobIds' = JobIds /\ worker[w].pc = "recovering"
      /\ worker'[w] = [worker[w] EXCEPT !.pc = "idle"]
      /\ \A v \in Workers \ {w} : worker'[v] = worker[v]
      /\ read'[w] = Nothing
      /\ \A p \in Processes \ {w} : read'[p] = read[p]
  BY DEF RecoverStaleRunning, JobIds, QueueInv, TypeOK, Processes
<1>2. ASSUME NEW j \in JobIds
      PROVE  /\ jobs[j] \in Job
             /\ j \notin read[w].stale => jobs'[j] = jobs[j]
             /\ j \in read[w].stale =>
                  /\ jobs[j].status = "running" /\ jobs[j].aged
                  /\ jobs'[j] = [jobs[j] EXCEPT !.status = "pending", !.recovered = @ + 1]
  <2>1. jobs[j] \in Job /\ read[w].stale \subseteq StaleAmong(JobIds)
    BY DEF QueueInv, TypeOK, JobIds, ReadRowsAreStale
  <2>. QED
    BY <2>1 DEF RecoverStaleRunning, StaleAmong
<1>3. ASSUME NEW j \in JobIds
      PROVE  /\ jobs'[j] \in Job
             /\ jobs'[j].document_id = jobs[j].document_id
             /\ jobs'[j].status \in Active <=> jobs[j].status \in Active
             /\ ~jobs[j].aged => jobs'[j] = jobs[j]
  <2>1. CASE j \notin read[w].stale
    BY <1>2, <2>1
  <2>2. CASE j \in read[w].stale
    <3>1. /\ jobs[j] \in Job /\ jobs[j].status = "running" /\ jobs[j].aged
          /\ jobs'[j] = [jobs[j] EXCEPT !.status = "pending", !.recovered = @ + 1]
      BY <1>2, <2>2
    <3>2. /\ jobs'[j] \in Job /\ jobs'[j].document_id = jobs[j].document_id
          /\ jobs'[j].status = "pending"
      BY <3>1, RecoverRow
    <3>. QED
      BY <3>1, <3>2 DEF Active
  <2>. QED
    BY <2>1, <2>2
<1>4. TypeOK'
  <2>1. jobs' \in [1 .. last' -> Job]
    BY <1>3 DEF RecoverStaleRunning, JobIds
  <2>2. worker' \in [Workers -> WorkerState]
    BY DEF RecoverStaleRunning, QueueInv, TypeOK, WorkerState, PC
  <2>3. read' \in [Processes -> Snapshot]
    BY DEF RecoverStaleRunning, QueueInv, TypeOK, Snapshot, Nothing, NoJob
  <2>. QED
    BY <2>1, <2>2, <2>3 DEF RecoverStaleRunning, QueueInv, TypeOK
<1>5. ASSUME NEW v \in Workers
      PROVE  HeldRowIsCurrent(v)'
  <2>1. CASE v = w
    <3>1. worker'[w].pc = "idle"
      BY <1>1 DEF QueueInv, TypeOK, WorkerState
    <3>. QED
      BY <2>1, <3>1 DEF HeldRowIsCurrent, Holding
  <2>2. CASE v # w
    <3>1. HeldRowIsCurrent(v) /\ worker'[v] = worker[v]
      BY <1>1, <2>2 DEF QueueInv
    <3>2. worker[v].pc \in Holding => worker[v].job \in JobIds /\ ~jobs[worker[v].job].aged
      BY <3>1 DEF HeldRowIsCurrent
    <3>. QED
      BY <1>1, <1>3, <3>1, <3>2, ClaimKept
  <2>. QED
    BY <2>1, <2>2
<1>6. HeldRowsDiffer' /\ OneRecovery'
  <2>1. worker'[w].pc \notin Holding \cup {"recovering"}
    BY <1>1 DEF QueueInv, TypeOK, WorkerState, Holding
  <2>2. \A v \in Workers :
          worker'[v].pc \in Holding \cup {"recovering"} => worker'[v] = worker[v]
    BY <1>1, <2>1
  <2>3. HeldRowsDiffer'
    BY <2>2 DEF QueueInv, HeldRowsDiffer
  <2>4. OneRecovery'
    BY <2>2 DEF QueueInv, OneRecovery
  <2>. QED
    BY <2>3, <2>4
<1>7. ReadRowsAreStale'
  <2>1. ASSUME NEW v \in Workers
        PROVE  worker'[v].pc # "opening" /\ read'[v] = Nothing
    <3>1. CASE v = w
      BY <1>1, <3>1 DEF QueueInv, TypeOK, WorkerState
    <3>2. CASE v # w
      <4>1. worker[v].pc # "recovering"
        BY <1>1, <3>2 DEF QueueInv, OneRecovery
      <4>2. read[v] = [Nothing EXCEPT !.stale = {}]
        BY <4>1 DEF QueueInv, ReadRowsAreStale
      <4>3. read'[v] = Nothing
        BY <1>1, <3>2, <4>2 DEF Nothing, Processes
      <4>. QED
        BY <1>1, <3>2, <4>3 DEF QueueInv, ReadRowsAreStale
    <3>. QED
      BY <3>1, <3>2
  <2>2. read'[Caller] = Nothing
    BY <1>1, CallerAssumption DEF QueueInv, ReadRowsAreStale, Processes
  <2>3. Nothing.stale = {} /\ Nothing = [Nothing EXCEPT !.stale = {}]
    BY DEF Nothing
  <2>. QED
    BY <2>1, <2>2, <2>3 DEF ReadRowsAreStale
<1>8. OneActiveJobPerDocument'
  BY <1>1, <1>3 DEF QueueInv, OneActiveJobPerDocument
<1>9. AttemptsLeft'
  <2> SUFFICES ASSUME NEW j \in JobIds
               PROVE  /\ jobs'[j].attempts <= MaxAttempts + jobs'[j].recovered
                      /\ jobs'[j].status = "pending"
                           => jobs'[j].attempts < MaxAttempts + jobs'[j].recovered
    BY <1>1 DEF AttemptsLeft
  <2>1. CASE j \notin read[w].stale
    BY <1>2, <2>1 DEF QueueInv, AttemptsLeft
  <2>2. CASE j \in read[w].stale
    <3>1. jobs'[j].attempts = jobs[j].attempts /\ jobs'[j].recovered = jobs[j].recovered + 1
      BY <1>2, <2>2, RecoverRow
    <3>2. jobs[j].attempts \in Nat /\ jobs[j].recovered \in Nat
      BY <1>2 DEF Job
    <3>. QED
      BY <3>1, <3>2, AttemptsAssumption DEF QueueInv, AttemptsLeft
  <2>. QED
    BY <2>1, <2>2
<1>. QED
  BY <1>4, <1>5, <1>6, <1>7, <1>8, <1>9 DEF QueueInv

(* An action that rewrites one row, keeps its document and does not make   *)
(* an inactive row active keeps documents at one active row.               *)
LEMMA OneRowWritten ==
  ASSUME QueueInv, NEW j \in JobIds, NEW new \in Job,
         last' = last, jobs' = [jobs EXCEPT ![j] = new],
         new.document_id = jobs[j].document_id,
         new.status \in Active => jobs[j].status \in Active,
         new.attempts <= MaxAttempts + new.recovered,
         new.status = "pending" => new.attempts < MaxAttempts + new.recovered
  PROVE  /\ JobIds' = JobIds
         /\ jobs' \in [1 .. last' -> Job]
         /\ jobs'[j] = new
         /\ \A i \in JobIds \ {j} : jobs'[i] = jobs[i]
         /\ OneActiveJobPerDocument'
         /\ AttemptsLeft'
         /\ j \notin StaleAmong(JobIds) \/ (new.status = "running" /\ new.aged)
              => StaleAmong(JobIds) \subseteq StaleAmong(JobIds)'
<1>1. JobIds' = JobIds
  BY DEF JobIds
<1>2. jobs'[j] = new /\ \A i \in JobIds \ {j} : jobs'[i] = jobs[i]
  BY DEF QueueInv, TypeOK, JobIds
<1>3. jobs' \in [1 .. last' -> Job]
  BY DEF QueueInv, TypeOK, JobIds
<1>4. OneActiveJobPerDocument'
  <2>1. \A i \in JobIds : /\ jobs'[i].document_id = jobs[i].document_id
                          /\ jobs'[i].status \in Active => jobs[i].status \in Active
    BY <1>2
  <2>. QED
    BY <1>1, <2>1 DEF QueueInv, OneActiveJobPerDocument
<1>5. AttemptsLeft'
  BY <1>1, <1>2 DEF QueueInv, AttemptsLeft
<1>6. j \notin StaleAmong(JobIds) \/ (new.status = "running" /\ new.aged)
        => StaleAmong(JobIds) \subseteq StaleAmong(JobIds)'
  BY <1>1, <1>2 DEF StaleAmong
<1>. QED
  BY <1>1, <1>2, <1>3, <1>4, <1>5, <1>6

(* No other worker holds a pending row, and its document has no other      *)
(* active row: claiming it keeps the workers apart.                        *)
LEMMA ClaimInv ==
  ASSUME QueueInv, NEW w \in Workers, NEW j \in JobIds, ClaimNext(w, j)
  PROVE  QueueInv'
<1> DEFINE new == [jobs[j] EXCEPT !.status = "running", !.attempts = @ + 1, !.aged = FALSE]
<1>1. /\ jobs[j] \in Job /\ jobs[j].status = "pending"
      /\ jobs[j].attempts \in Nat /\ jobs[j].recovered \in Nat
      /\ jobs[j].payload \in SUBSET Demands
      /\ jobs[j].attempts < MaxAttempts + jobs[j].recovered
  BY DEF ClaimNext, QueueInv, TypeOK, JobIds, Job, AttemptsLeft
<1>2. /\ new \in Job
      /\ new.status = "running" /\ new.document_id = jobs[j].document_id
      /\ new.attempts = jobs[j].attempts + 1 /\ new.recovered = jobs[j].recovered
      /\ new.aged = FALSE
  BY <1>1, ClaimRow
<1>3. jobs' = [jobs EXCEPT ![j] = new] /\ last' = last
  BY DEF ClaimNext, QueueInv, TypeOK, JobIds
<1> HIDE DEF new
<1>4. /\ JobIds' = JobIds
      /\ jobs' \in [1 .. last' -> Job]
      /\ jobs'[j] = new
      /\ \A i \in JobIds \ {j} : jobs'[i] = jobs[i]
      /\ OneActiveJobPerDocument'
      /\ AttemptsLeft'
      /\ StaleAmong(JobIds) \subseteq StaleAmong(JobIds)'
  <2>1. new.attempts <= MaxAttempts + new.recovered /\ new.status # "pending"
    BY <1>1, <1>2, AttemptsAssumption
  <2>2. jobs[j].status \in Active /\ j \notin StaleAmong(JobIds)
    BY <1>1 DEF Active, StaleAmong
  <2>. QED
    BY <1>2, <1>3, <2>1, <2>2, OneRowWritten
<1>5. /\ worker'[w] = [pc |-> "claimed", job |-> j, attempts |-> jobs[j].attempts + 1,
                       payload |-> jobs[j].payload]
      /\ \A v \in Workers \ {w} : worker'[v] = worker[v]
  BY DEF ClaimNext, QueueInv, TypeOK
<1>6. \A v \in Workers \ {w} : worker[v].pc \in Holding => worker[v].job # j
  BY <1>1 DEF QueueInv, HeldRowIsCurrent
<1>7. TypeOK'
  <2>1. worker'[w] \in WorkerState
    BY <1>1, <1>5 DEF WorkerState, PC, JobIds
  <2>2. worker' \in [Workers -> WorkerState]
    BY <1>5, <2>1 DEF ClaimNext, QueueInv, TypeOK
  <2>. QED
    BY <1>4, <2>2 DEF ClaimNext, QueueInv, TypeOK
<1>8. ASSUME NEW v \in Workers
      PROVE  HeldRowIsCurrent(v)'
  <2>1. CASE v = w
    <3>1. worker'[v].job = j /\ worker'[v].attempts = jobs[j].attempts + 1
      BY <1>5, <2>1
    <3>. QED
      BY <1>2, <1>4, <3>1 DEF HeldRowIsCurrent
  <2>2. CASE v # w
    BY <1>4, <1>5, <1>6, <2>2 DEF QueueInv, HeldRowIsCurrent
  <2>. QED
    BY <2>1, <2>2
<1>9. HeldRowsDiffer' /\ OneRecovery'
  BY <1>5, <1>6 DEF QueueInv, HeldRowsDiffer, OneRecovery
<1>10. ReadRowsAreStale'
  <2>1. worker[w].pc = "idle" /\ worker'[w].pc = "claimed" /\ read' = read
    BY <1>5 DEF ClaimNext
  <2>2. \A v \in Workers : worker[v].pc # "opening"
    BY DEF QueueInv, ReadRowsAreStale
  <2>. QED
    BY <1>4, <1>5, <2>1, <2>2, ReadsKept DEF QueueInv
<1>. QED
  BY <1>4, <1>7, <1>8, <1>9, <1>10 DEF QueueInv

(* A worker gives its row a new status and lets go of it.                  *)
LEMMA SettleInv ==
  ASSUME QueueInv, NEW w \in Workers, worker[w].pc \in Holding,
         NEW s \in Active \cup Terminal, s # "running",
         s = "pending" => worker[w].attempts < MaxAttempts,
         jobs' = [jobs EXCEPT ![worker[w].job].status = s],
         worker' = [worker EXCEPT ![w] = Idle],
         UNCHANGED <<last, read, gate, crashes, stops, accepted>>
  PROVE  QueueInv'
<1> DEFINE j == worker[w].job
           new == [jobs[j] EXCEPT !.status = s]
<1>1. /\ j \in JobIds /\ jobs[j].status = "running"
      /\ jobs[j].attempts = worker[w].attempts /\ j \notin StaleAmong(JobIds)
  BY DEF QueueInv, HeldRowIsCurrent, StaleAmong
<1>2. /\ jobs[j] \in Job
      /\ jobs[j].attempts \in Nat /\ jobs[j].recovered \in Nat
      /\ jobs[j].attempts <= MaxAttempts + jobs[j].recovered
  BY <1>1 DEF QueueInv, TypeOK, JobIds, Job, AttemptsLeft
<1>3. /\ new \in Job
      /\ new.status = s /\ new.document_id = jobs[j].document_id
      /\ new.attempts = jobs[j].attempts /\ new.recovered = jobs[j].recovered
  BY <1>2, SettleRow
<1>4. jobs' = [jobs EXCEPT ![j] = new]
  BY <1>1 DEF QueueInv, TypeOK, JobIds
<1> HIDE DEF new, j
<1>5. /\ JobIds' = JobIds
      /\ jobs' \in [1 .. last' -> Job]
      /\ \A i \in JobIds \ {j} : jobs'[i] = jobs[i]
      /\ OneActiveJobPerDocument'
      /\ AttemptsLeft'
      /\ StaleAmong(JobIds) \subseteq StaleAmong(JobIds)'
  <2>1. new.attempts <= MaxAttempts + new.recovered
    BY <1>2, <1>3
  <2>2. new.status = "pending" => new.attempts < MaxAttempts + new.recovered
    BY <1>1, <1>2, <1>3, AttemptsAssumption
  <2>3. jobs[j].status \in Active
    BY <1>1 DEF Active
  <2>. QED
    BY <1>1, <1>3, <1>4, <2>1, <2>2, <2>3, OneRowWritten
<1>6. worker'[w] = Idle /\ \A v \in Workers \ {w} : worker'[v] = worker[v]
  BY DEF QueueInv, TypeOK
<1>7. worker'[w].pc \notin Holding /\ Idle \in WorkerState
  BY <1>6 DEF Idle, Down, Holding, WorkerState, PC, NoJob
<1>8. TypeOK'
  BY <1>5, <1>7 DEF QueueInv, TypeOK
<1>9. ASSUME NEW v \in Workers
      PROVE  HeldRowIsCurrent(v)'
  <2>1. CASE v = w
    BY <1>7, <2>1 DEF HeldRowIsCurrent
  <2>2. CASE v # w
    <3>1. worker[v].pc \in Holding => worker[v].job # j
      BY <2>2 DEF QueueInv, HeldRowsDiffer, j
    <3>2. HeldRowIsCurrent(v) /\ worker'[v] = worker[v]
      BY <1>6, <2>2 DEF QueueInv
    <3>3. worker[v].pc \in Holding => worker[v].job \in JobIds
      BY <3>2 DEF HeldRowIsCurrent
    <3>. QED
      BY <1>5, <3>1, <3>2, <3>3, ClaimKept
  <2>. QED
    BY <2>1, <2>2
<1>10. HeldRowsDiffer' /\ OneRecovery'
  BY <1>6, <1>7 DEF QueueInv, HeldRowsDiffer, OneRecovery, Idle, Down
<1>11. ReadRowsAreStale'
  <2>1. worker'[w].pc = "idle" /\ worker[w].pc # "recovering"
    BY <1>6 DEF Idle, Down, Holding
  <2>2. \A v \in Workers : worker[v].pc # "opening"
    BY DEF QueueInv, ReadRowsAreStale
  <2>. QED
    BY <1>5, <1>6, <2>1, <2>2, ReadsKept DEF QueueInv
<1>. QED
  BY <1>5, <1>8, <1>9, <1>10, <1>11 DEF QueueInv

LEMMA FinishInv ==
  ASSUME QueueInv, NEW w \in Workers, Finish(w)
  PROVE  QueueInv'
<1> DEFINE s == IF worker[w].pc = "touched" THEN "done" ELSE "skipped_oversize"
<1>1. s \in Active \cup Terminal /\ s # "running" /\ s # "pending"
  BY DEF Terminal
<1>2. /\ worker[w].pc \in Holding
      /\ jobs' = [jobs EXCEPT ![worker[w].job].status = s]
      /\ worker' = [worker EXCEPT ![w] = Idle]
      /\ UNCHANGED <<last, read, gate, crashes, stops, accepted>>
  BY DEF Finish
<1> HIDE DEF s
<1>. QED
  BY <1>1, <1>2, SettleInv

LEMMA FailInv ==
  ASSUME QueueInv, NEW w \in Workers, Fail(w)
  PROVE  QueueInv'
<1> DEFINE s == IF worker[w].attempts < MaxAttempts THEN "pending" ELSE "error"
<1>1. /\ s \in Active \cup Terminal /\ s # "running"
      /\ s = "pending" => worker[w].attempts < MaxAttempts
  BY DEF Active, Terminal
<1>2. /\ worker[w].pc \in Holding
      /\ jobs' = [jobs EXCEPT ![worker[w].job].status = s]
      /\ worker' = [worker EXCEPT ![w] = Idle]
      /\ UNCHANGED <<last, read, gate, crashes, stops, accepted>>
  BY DEF Fail
<1> HIDE DEF s
<1>. QED
  BY <1>1, <1>2, SettleInv

LEMMA IndexInv ==
  ASSUME QueueInv, NEW w \in Workers, IndexEvidence(w)
  PROVE  QueueInv'
<1> DEFINE j == worker[w].job
           new == [jobs[j] EXCEPT !.owed = @ \ worker[w].payload]
<1>1. /\ worker[w].pc = "claimed" /\ worker[w] \in WorkerState
      /\ j \in JobIds /\ jobs[j].status = "running" /\ ~jobs[j].aged
      /\ jobs[j].attempts = worker[w].attempts
  BY DEF IndexEvidence, QueueInv, HeldRowIsCurrent, Holding, TypeOK
<1>2. /\ jobs[j] \in Job
      /\ jobs[j].attempts <= MaxAttempts + jobs[j].recovered
  BY <1>1 DEF QueueInv, TypeOK, JobIds, AttemptsLeft
<1>3. /\ new \in Job
      /\ new.status = jobs[j].status /\ new.document_id = jobs[j].document_id
      /\ new.attempts = jobs[j].attempts /\ new.recovered = jobs[j].recovered
      /\ new.aged = jobs[j].aged
  <2>1. worker[w].payload \in SUBSET Demands
    BY <1>1 DEF WorkerState
  <2>. QED
    BY <1>2, <2>1, ServeRow
<1>4. jobs' = [jobs EXCEPT ![j] = new] /\ last' = last
  BY <1>1 DEF IndexEvidence, QueueInv, TypeOK, JobIds
<1>5. /\ worker'[w] = [worker[w] EXCEPT !.pc = "touched"]
      /\ \A v \in Workers \ {w} : worker'[v] = worker[v]
  BY DEF IndexEvidence, QueueInv, TypeOK
<1>6. /\ worker'[w] \in WorkerState /\ worker'[w].pc = "touched"
      /\ worker'[w].job = j /\ worker'[w].attempts = worker[w].attempts
  BY <1>1, <1>5 DEF WorkerState, PC
<1> HIDE DEF new, j
<1>7. /\ JobIds' = JobIds
      /\ jobs' \in [1 .. last' -> Job]
      /\ jobs'[j] = new
      /\ \A i \in JobIds \ {j} : jobs'[i] = jobs[i]
      /\ OneActiveJobPerDocument'
      /\ AttemptsLeft'
      /\ StaleAmong(JobIds) \subseteq StaleAmong(JobIds)'
  <2>1. /\ new.attempts <= MaxAttempts + new.recovered /\ new.status # "pending"
        /\ j \notin StaleAmong(JobIds)
    BY <1>1, <1>2, <1>3 DEF StaleAmong
  <2>. QED
    BY <1>1, <1>3, <1>4, <2>1, OneRowWritten
<1>8. TypeOK'
  BY <1>5, <1>6, <1>7 DEF IndexEvidence, QueueInv, TypeOK
<1>9. ASSUME NEW v \in Workers
      PROVE  HeldRowIsCurrent(v)'
  <2>1. CASE v = w
    BY <1>1, <1>3, <1>6, <1>7, <2>1 DEF HeldRowIsCurrent
  <2>2. CASE v # w
    <3>1. worker[v].pc \in Holding => worker[v].job # j
      BY <1>1, <2>2 DEF QueueInv, HeldRowsDiffer, j, Holding
    <3>2. HeldRowIsCurrent(v) /\ worker'[v] = worker[v]
      BY <1>5, <2>2 DEF QueueInv
    <3>3. worker[v].pc \in Holding => worker[v].job \in JobIds
      BY <3>2 DEF HeldRowIsCurrent
    <3>. QED
      BY <1>7, <3>1, <3>2, <3>3, ClaimKept
  <2>. QED
    BY <2>1, <2>2
<1>10. HeldRowsDiffer'
  <2>1. worker[w].pc \in Holding /\ HeldRowsDiffer /\ worker[w].job = j
    BY <1>1 DEF QueueInv, Holding, j
  <2>2. ASSUME NEW v \in Workers
        PROVE  /\ worker'[v].job = worker[v].job
               /\ worker'[v].pc \in Holding => worker[v].pc \in Holding
    <3>1. CASE v = w
      BY <1>6, <2>1, <3>1
    <3>2. CASE v # w
      BY <1>5, <3>2
    <3>. QED
      BY <3>1, <3>2
  <2>. QED
    BY <2>1, <2>2 DEF HeldRowsDiffer
<1>11. OneRecovery' /\ ReadRowsAreStale'
  <2>1. /\ worker[w].pc # "recovering" /\ worker'[w].pc = "touched"
        /\ read' = read
    BY <1>1, <1>6 DEF IndexEvidence
  <2>2. \A v \in Workers : worker[v].pc # "opening"
    BY DEF QueueInv, ReadRowsAreStale
  <2>3. OneRecovery'
    BY ZenonT(60), <1>5, <2>1 DEF QueueInv, OneRecovery
  <2>. QED
    BY <1>5, <1>7, <2>1, <2>2, <2>3, ReadsKept DEF QueueInv
<1>. QED
  BY <1>7, <1>8, <1>9, <1>10, <1>11 DEF QueueInv

(* The only step that needs the assumption on LongJobs: a row grows stale  *)
(* only after its worker is gone.                                          *)
LEMMA AgeInv ==
  ASSUME QueueInv, LongJobs = FALSE, NEW j \in JobIds, Age(j)
  PROVE  QueueInv'
<1> DEFINE new == [jobs[j] EXCEPT !.aged = TRUE]
<1>1. /\ jobs[j] \in Job /\ jobs[j].status = "running" /\ ~Held(j)
      /\ jobs[j].attempts <= MaxAttempts + jobs[j].recovered
  BY DEF Age, QueueInv, TypeOK, JobIds, AttemptsLeft
<1>2. /\ new \in Job
      /\ new.status = jobs[j].status /\ new.document_id = jobs[j].document_id
      /\ new.attempts = jobs[j].attempts /\ new.recovered = jobs[j].recovered
      /\ new.aged
  BY <1>1, AgeRow
<1>3. /\ jobs' = [jobs EXCEPT ![j] = new]
      /\ UNCHANGED <<last, worker, read, gate, crashes, stops, accepted>>
  BY DEF Age, QueueInv, TypeOK, JobIds
<1> HIDE DEF new
<1>4. /\ JobIds' = JobIds
      /\ jobs' \in [1 .. last' -> Job]
      /\ \A i \in JobIds \ {j} : jobs'[i] = jobs[i]
      /\ OneActiveJobPerDocument'
      /\ AttemptsLeft'
      /\ StaleAmong(JobIds) \subseteq StaleAmong(JobIds)'
  <2>1. /\ new.attempts <= MaxAttempts + new.recovered
        /\ new.status = "running" /\ new.status # "pending"
    BY <1>1, <1>2
  <2>2. jobs[j].status \in Active
    BY <1>1 DEF Active
  <2>. QED
    BY <1>2, <1>3, <2>1, <2>2, OneRowWritten
<1>5. ASSUME NEW v \in Workers
      PROVE  HeldRowIsCurrent(v)'
  <2>1. HeldRowIsCurrent(v) /\ worker'[v] = worker[v]
    BY <1>3 DEF QueueInv
  <2>2. worker[v].pc \in Holding => worker[v].job \in JobIds \ {j}
    BY <1>1, <2>1 DEF HeldRowIsCurrent, Held
  <2>. QED
    BY <1>4, <2>1, <2>2, ClaimKept
<1>6. TypeOK' /\ HeldRowsDiffer' /\ OneRecovery'
  BY <1>3, <1>4 DEF QueueInv, TypeOK, HeldRowsDiffer, OneRecovery
<1>7. ReadRowsAreStale'
  <2>1. \A v \in Workers : worker[v].pc # "opening"
    BY DEF QueueInv, ReadRowsAreStale
  <2>. QED
    BY <1>3, <1>4, <2>1, ReadsKept DEF QueueInv
<1>. QED
  BY <1>4, <1>5, <1>6, <1>7 DEF QueueInv

(* Steps that leave the rows alone and move one worker, which is not       *)
(* holding a row afterwards.                                               *)
LEMMA LetGoInv ==
  ASSUME QueueInv, NEW w \in Workers, NEW state \in WorkerState, state.pc \notin Holding,
         worker' = [worker EXCEPT ![w] = state],
         UNCHANGED <<last, jobs, gate, accepted>>, crashes' \in Nat, stops' \in Nat,
         read' \in [Processes -> Snapshot], ReadRowsAreStale', OneRecovery'
  PROVE  QueueInv'
<1>1. JobIds' = JobIds /\ jobs' = jobs
  BY DEF JobIds
<1>2. worker'[w] = state /\ \A v \in Workers \ {w} : worker'[v] = worker[v]
  BY DEF QueueInv, TypeOK
<1>3. TypeOK'
  BY DEF QueueInv, TypeOK
<1>4. ASSUME NEW v \in Workers
      PROVE  HeldRowIsCurrent(v)'
  <2>1. CASE v = w
    BY <1>2, <2>1 DEF HeldRowIsCurrent
  <2>2. CASE v # w
    BY <1>1, <1>2, <2>2, ClaimKept DEF QueueInv
  <2>. QED
    BY <2>1, <2>2
<1>5. HeldRowsDiffer'
  BY <1>2 DEF QueueInv, HeldRowsDiffer
<1>6. OneActiveJobPerDocument' /\ AttemptsLeft'
  BY <1>1 DEF QueueInv, OneActiveJobPerDocument, AttemptsLeft
<1>. QED
  BY <1>3, <1>4, <1>5, <1>6 DEF QueueInv

LEMMA StartInv ==
  ASSUME QueueInv, NEW w \in Workers, Start(w)
  PROVE  QueueInv'
<1> DEFINE state == [worker[w] EXCEPT !.pc = "starting"]
<1>1. /\ worker[w].pc = "down" /\ worker' = [worker EXCEPT ![w] = state]
      /\ UNCHANGED <<last, jobs, read, gate, accepted, crashes, stops>>
  BY NothingToCoalesce DEF QueueInv, Start, TypeOK
<1>2. state \in WorkerState /\ state.pc = "starting"
  BY DEF QueueInv, TypeOK, WorkerState, PC
<1> HIDE DEF state
<1>3. worker'[w] = state /\ \A v \in Workers \ {w} : worker'[v] = worker[v]
  BY <1>1 DEF QueueInv, TypeOK
<1>4. OneRecovery'
  BY <1>2, <1>3 DEF QueueInv, OneRecovery
<1>5. ReadRowsAreStale'
  <2>1. \A v \in Workers : worker[v].pc # "opening"
    BY DEF QueueInv, ReadRowsAreStale
  <2>2. StaleAmong(JobIds)' = StaleAmong(JobIds)
    BY <1>1 DEF StaleAmong, JobIds
  <2>. QED
    BY <1>1, <1>2, <1>3, <2>1, <2>2, ReadsKept DEF QueueInv
<1>6. crashes' \in Nat /\ stops' \in Nat /\ read' \in [Processes -> Snapshot]
  BY <1>1 DEF QueueInv, TypeOK
<1>. QED
  BY <1>1, <1>2, <1>4, <1>5, <1>6, LetGoInv DEF Holding

(* The SELECT of recover_stale_running: this step needs the assumption     *)
(* that recoveries do not overlap.                                         *)
LEMMA ReadInv ==
  ASSUME QueueInv, Overlapping = FALSE, NEW w \in Workers, ReadStaleRunning(w)
  PROVE  QueueInv'
<1> DEFINE stale == StaleAmong(JobIds)
           state == [worker[w] EXCEPT !.pc = IF stale = {} THEN "idle" ELSE "recovering"]
           seen == [read[w] EXCEPT !.stale = stale]
<1>1. /\ worker[w].pc = "starting" /\ worker' = [worker EXCEPT ![w] = state]
      /\ read' = [read EXCEPT ![w] = seen]
      /\ \A v \in Workers : worker[v].pc # "recovering"
      /\ UNCHANGED <<last, jobs, gate, accepted, crashes, stops>>
  BY DEF ReadStaleRunning, ReadRunningAs, QueueInv, TypeOK, Processes
<1>2. /\ state \in WorkerState /\ state.pc \in {"idle", "recovering"}
      /\ stale # {} => state.pc = "recovering"
  BY DEF QueueInv, TypeOK, WorkerState, PC
<1>3. stale \subseteq Nat
  BY DEF StaleAmong, JobIds, QueueInv, TypeOK
<1>4. seen = [Nothing EXCEPT !.stale = stale] /\ seen.stale = stale
  BY DEF QueueInv, ReadRowsAreStale, Nothing
<1>5. seen \in Snapshot
  BY <1>3, <1>4 DEF Snapshot, Nothing, NoJob
<1>6. StaleAmong(JobIds)' = stale
  BY <1>1 DEF StaleAmong, JobIds
<1> HIDE DEF state, seen, stale
<1>7. /\ worker'[w] = state /\ \A v \in Workers \ {w} : worker'[v] = worker[v]
      /\ read'[w] = seen /\ \A p \in Processes \ {w} : read'[p] = read[p]
  BY <1>1 DEF QueueInv, TypeOK, Processes
<1>8. OneRecovery'
  BY <1>1, <1>7 DEF OneRecovery
<1>9. ReadRowsAreStale'
  <2>1. ASSUME NEW v \in Workers
        PROVE  /\ worker'[v].pc # "opening"
               /\ read'[v] = [Nothing EXCEPT !.stale = read'[v].stale]
               /\ read'[v].stale # {} => worker'[v].pc = "recovering"
               /\ read'[v].stale \subseteq stale
    <3>1. CASE v = w
      BY <1>2, <1>4, <1>7, <3>1
    <3>2. CASE v # w
      BY <1>7, <3>2 DEF QueueInv, ReadRowsAreStale, Processes, stale
    <3>. QED
      BY <3>1, <3>2
  <2>2. read'[Caller] = Nothing
    BY <1>7, CallerAssumption DEF QueueInv, ReadRowsAreStale, Processes
  <2>. QED
    BY <1>6, <2>1, <2>2 DEF ReadRowsAreStale
<1>10. crashes' \in Nat /\ stops' \in Nat /\ read' \in [Processes -> Snapshot]
  BY <1>1, <1>5 DEF QueueInv, TypeOK
<1>. QED
  BY <1>1, <1>2, <1>8, <1>9, <1>10, LetGoInv DEF Holding

LEMMA LeaveInv ==
  ASSUME QueueInv, NEW w \in Workers, Stop(w) \/ Crash(w)
  PROVE  QueueInv'
<1>1. Down \in WorkerState /\ Down.pc = "down"
  BY DEF Down, WorkerState, PC, NoJob
<1>2. /\ worker' = [worker EXCEPT ![w] = Down]
      /\ UNCHANGED <<last, jobs, gate, accepted>>
      /\ crashes' \in Nat /\ stops' \in Nat
      /\ (read' = read /\ worker[w].pc = "idle") \/ read' = [read EXCEPT ![w] = Nothing]
  BY DEF Stop, Crash, QueueInv, TypeOK
<1>3. Nothing \in Snapshot
  BY DEF Nothing, Snapshot, NoJob
<1>4. read' \in [Processes -> Snapshot]
  BY <1>2, <1>3 DEF QueueInv, TypeOK
<1>5. worker'[w].pc = "down" /\ \A v \in Workers \ {w} : worker'[v] = worker[v]
  BY <1>1, <1>2 DEF QueueInv, TypeOK
<1>6. OneRecovery'
  BY <1>5 DEF QueueInv, OneRecovery
<1>7. read'[w] = Nothing
  <2>1. CASE worker[w].pc = "idle" /\ read' = read
    <3>1. read[w] = [Nothing EXCEPT !.stale = {}]
      BY <2>1 DEF QueueInv, ReadRowsAreStale
    <3>. QED
      BY <2>1, <3>1 DEF Nothing
  <2>2. CASE read' = [read EXCEPT ![w] = Nothing]
    BY <2>2 DEF QueueInv, TypeOK, Processes
  <2>. QED
    BY <1>2, <2>1, <2>2
<1>8. \A p \in Processes \ {w} : read'[p] = read[p]
  BY <1>2 DEF QueueInv, TypeOK
<1>9. ReadRowsAreStale'
  <2>1. StaleAmong(JobIds)' = StaleAmong(JobIds)
    BY <1>2 DEF StaleAmong, JobIds
  <2>2. ASSUME NEW v \in Workers
        PROVE  /\ worker'[v].pc # "opening"
               /\ read'[v] = [Nothing EXCEPT !.stale = read'[v].stale]
               /\ read'[v].stale # {} => worker'[v].pc = "recovering"
               /\ read'[v].stale \subseteq StaleAmong(JobIds)
    <3>1. CASE v = w
      BY <1>5, <1>7, <3>1 DEF Nothing
    <3>2. CASE v # w
      BY <1>5, <1>8, <3>2 DEF QueueInv, ReadRowsAreStale, Processes
    <3>. QED
      BY <3>1, <3>2
  <2>3. read'[Caller] = Nothing
    BY <1>8, CallerAssumption DEF QueueInv, ReadRowsAreStale, Processes
  <2>. QED
    BY <2>1, <2>2, <2>3 DEF ReadRowsAreStale
<1>. QED
  BY <1>1, <1>2, <1>4, <1>6, <1>9, LetGoInv DEF Holding

(* Steps that touch neither rows nor workers.                              *)
LEMMA StutterInv ==
  ASSUME QueueInv,
         UNCHANGED <<last, jobs, worker, read, crashes, stops, accepted>>, gate' \in BOOLEAN
  PROVE  QueueInv'
<1>1. JobIds' = JobIds
  BY DEF JobIds
<1>2. \A v \in Workers : HeldRowIsCurrent(v)'
  BY <1>1, ClaimKept DEF QueueInv
<1>3. TypeOK' /\ HeldRowsDiffer' /\ OneRecovery'
  BY DEF QueueInv, TypeOK, HeldRowsDiffer, OneRecovery
<1>4. OneActiveJobPerDocument' /\ AttemptsLeft'
  BY <1>1 DEF QueueInv, OneActiveJobPerDocument, AttemptsLeft
<1>5. ReadRowsAreStale'
  BY <1>1 DEF QueueInv, ReadRowsAreStale, StaleAmong
<1>. QED
  BY <1>2, <1>3, <1>4, <1>5 DEF QueueInv

(* With one active row per document nobody ever has duplicates to collapse. *)
LEMMA NobodyCoalesces ==
  ASSUME QueueInv
  PROVE  /\ ~OpenQueue /\ ~CallerCoalesces
         /\ \A w \in Workers : ~WorkerCoalesces(w)
<1>1. ~OpenQueue
  BY NothingToCoalesce DEF QueueInv, OpenQueue, ReadDuplicates
<1>2. ~CallerCoalesces
  BY DEF QueueInv, ReadRowsAreStale, CallerCoalesces
<1>3. \A w \in Workers : ~WorkerCoalesces(w)
  BY DEF QueueInv, ReadRowsAreStale, WorkerCoalesces
<1>. QED
  BY <1>1, <1>2, <1>3

LEMMA NextInv ==
  ASSUME QueueInv, Punctual, [Next]_vars
  PROVE  QueueInv'
<1>1. CASE OpenQueue \/ CallerCoalesces
  BY <1>1, NobodyCoalesces
<1>2. CASE \E documents \in (SUBSET Docs) \ {{}}, e \in Events : EnqueueEvidence(documents, e)
  BY <1>2, EnqueueInv
<1>3. ASSUME NEW w \in Workers, WorkerStep(w) \/ Stop(w) \/ Crash(w)
      PROVE  QueueInv'
  <2>1. CASE Start(w)
    BY <2>1, StartInv
  <2>2. CASE WorkerCoalesces(w)
    BY <2>2, NobodyCoalesces
  <2>3. CASE ReadStaleRunning(w)
    BY <2>3, ReadInv DEF Punctual
  <2>4. CASE RecoverStaleRunning(w)
    BY <2>4, RecoverInv
  <2>5. CASE \E j \in JobIds : ClaimNext(w, j)
    BY <2>5, ClaimInv
  <2>6. CASE IndexEvidence(w)
    BY <2>6, IndexInv
  <2>7. CASE Finish(w)
    BY <2>7, FinishInv
  <2>8. CASE Fail(w)
    BY <2>8, FailInv
  <2>9. CASE Stop(w) \/ Crash(w)
    BY <2>9, LeaveInv
  <2>. QED
    BY <1>3, <2>1, <2>2, <2>3, <2>4, <2>5, <2>6, <2>7, <2>8, <2>9 DEF WorkerStep
<1>4. CASE \E j \in JobIds : Age(j)
  BY <1>4, AgeInv DEF Punctual
<1>5. CASE Gate(TRUE) \/ Gate(FALSE)
  BY <1>5, StutterInv DEF Gate
<1>6. CASE UNCHANGED vars
  BY <1>6, StutterInv DEF vars, QueueInv, TypeOK
<1>. QED
  BY <1>1, <1>2, <1>3, <1>4, <1>5, <1>6 DEF Next

(* While no job outlives the stale limit and recoveries do not overlap,    *)
(* every reachable state satisfies the inductive invariant, whatever       *)
(* workers crash, stop and restart.                                        *)
THEOREM QueueInvariant ==
  ASSUME Punctual
  PROVE  Spec => []QueueInv
<1>1. Init => QueueInv
  BY InitInv
<1>2. QueueInv /\ [Next]_vars => QueueInv'
  BY NextInv
<1>. QED
  BY <1>1, <1>2, PTL DEF Spec

(* Rows, workers and counters keep their types.                            *)
THEOREM TypeCorrect ==
  ASSUME Punctual
  PROVE  Spec => []TypeOK
<1>1. QueueInv => TypeOK
  BY DEF QueueInv
<1>. QED
  BY <1>1, QueueInvariant, PTL

(* "A document that is already pending/running is not queued a second      *)
(* time": a document never has two active rows.                            *)
THEOREM OneActiveJob ==
  ASSUME Punctual
  PROVE  Spec => []OneActiveJobPerDocument
<1>1. QueueInv => OneActiveJobPerDocument
  BY DEF QueueInv
<1>. QED
  BY <1>1, QueueInvariant, PTL

(* No two workers ever index the same document at the same time.           *)
THEOREM Exclusive ==
  ASSUME Punctual
  PROVE  Spec => []ExclusiveProcessing
<1>1. ASSUME QueueInv
      PROVE  ExclusiveProcessing
  <2> SUFFICES ASSUME NEW v \in Workers, NEW w \in Workers,
                      worker[v].pc \in Holding, worker[w].pc \in Holding, v # w
               PROVE  jobs[worker[v].job].document_id # jobs[worker[w].job].document_id
    BY DEF ExclusiveProcessing
  <2>1. worker[v].job \in JobIds /\ jobs[worker[v].job].status \in Active
    BY <1>1 DEF QueueInv, HeldRowIsCurrent, Active
  <2>2. worker[w].job \in JobIds /\ jobs[worker[w].job].status \in Active
    BY <1>1 DEF QueueInv, HeldRowIsCurrent, Active
  <2>3. worker[v].job # worker[w].job
    BY <1>1 DEF QueueInv, HeldRowsDiffer
  <2>. QED
    BY <1>1, <2>1, <2>2, <2>3 DEF QueueInv, OneActiveJobPerDocument
<1>. QED
  BY <1>1, QueueInvariant, PTL

(* A document costs at most max_attempts claims, and one more for each     *)
(* recovery from a dead worker.                                            *)
THEOREM AttemptsAreBounded ==
  ASSUME Punctual
  PROVE  Spec => []AttemptsBounded
<1>1. QueueInv => AttemptsBounded
  BY DEF QueueInv, AttemptsLeft, AttemptsBounded
<1>. QED
  BY <1>1, QueueInvariant, PTL

(* A write to one row that is still active cannot change a final status.   *)
LEMMA ActiveRowWritten ==
  ASSUME QueueInv, NEW j \in JobIds, jobs[j].status \in Active, NEW new,
         jobs' = [jobs EXCEPT ![j] = new]
  PROVE  \A i \in JobIds : jobs[i].status \in Terminal => jobs'[i].status = jobs[i].status
BY DEF QueueInv, TypeOK, JobIds, Active, Terminal

LEMMA NextKeepsFinal ==
  ASSUME QueueInv, [Next]_vars
  PROVE  \A i \in JobIds : jobs[i].status \in Terminal => jobs'[i].status = jobs[i].status
<1> DEFINE Kept == \A i \in JobIds : jobs[i].status \in Terminal => jobs'[i].status = jobs[i].status
<1>1. CASE OpenQueue \/ CallerCoalesces
  BY <1>1, NobodyCoalesces
<1>2. ASSUME NEW documents \in SUBSET Docs, NEW e \in Events, EnqueueEvidence(documents, e)
      PROVE  Kept
  <2> SUFFICES ASSUME NEW i \in JobIds, jobs[i].status \in Terminal
               PROVE  jobs'[i].status = jobs[i].status
    OBVIOUS
  <2> DEFINE newLast == last + Cardinality({d \in documents : ActiveJobs(d) = {}})
  <2>1. i \in 1 .. newLast /\ ~(i > last)
    <3>1. Cardinality({d \in documents : ActiveJobs(d) = {}}) \in Nat
      BY FreshCount
    <3>2. last \in Nat /\ i \in 1 .. last
      BY DEF QueueInv, TypeOK, JobIds
    <3>. QED
      BY <3>1, <3>2
  <2>2. ~Keeper(i)
    BY DEF Keeper, Active, Terminal
  <2>. QED
    BY <1>2, <2>1, <2>2 DEF EnqueueEvidence
<1>3. ASSUME NEW w \in Workers, WorkerStep(w) \/ Stop(w) \/ Crash(w)
      PROVE  Kept
  <2>1. worker[w].pc \in Holding =>
          worker[w].job \in JobIds /\ jobs[worker[w].job].status \in Active
    BY DEF QueueInv, HeldRowIsCurrent, Active
  <2>2. CASE Start(w) \/ WorkerCoalesces(w) \/ ReadStaleRunning(w)
    BY <2>2, NobodyCoalesces DEF Start, ReadStaleRunning, ReadRunningAs
  <2>3. CASE RecoverStaleRunning(w)
    BY <2>3 DEF RecoverStaleRunning, Terminal, QueueInv, ReadRowsAreStale, StaleAmong
  <2>4. ASSUME NEW j \in JobIds, ClaimNext(w, j)
        PROVE  Kept
    <3>1. jobs[j].status \in Active
      BY <2>4 DEF ClaimNext, Active
    <3>2. PICK new : jobs' = [jobs EXCEPT ![j] = new]
      <4>1. jobs' = [jobs EXCEPT ![j] = [jobs[j] EXCEPT !.status = "running",
                                           !.attempts = @ + 1, !.aged = FALSE]]
        BY <2>4 DEF ClaimNext, QueueInv, TypeOK, JobIds
      <4>. QED
        BY <4>1
    <3>. QED
      BY <3>1, <3>2, ActiveRowWritten
  <2>5. CASE IndexEvidence(w)
    <3>1. PICK new : jobs' = [jobs EXCEPT ![worker[w].job] = new]
      BY <2>5 DEF IndexEvidence
    <3>. QED
      BY <2>1, <2>5, <3>1, ActiveRowWritten DEF IndexEvidence, Holding
  <2>6. CASE Finish(w) \/ Fail(w)
    <3>1. PICK new : jobs' = [jobs EXCEPT ![worker[w].job] = new]
      BY <2>6 DEF Finish, Fail
    <3>. QED
      BY <2>1, <2>6, <3>1, ActiveRowWritten DEF Finish, Fail
  <2>7. CASE Stop(w) \/ Crash(w)
    BY <2>7 DEF Stop, Crash
  <2>. QED
    BY <1>3, <2>2, <2>3, <2>4, <2>5, <2>6, <2>7 DEF WorkerStep
<1>4. ASSUME NEW j \in JobIds, Age(j)
      PROVE  Kept
  <2>1. jobs[j].status \in Active
    BY <1>4 DEF Age, Active
  <2>2. PICK new : jobs' = [jobs EXCEPT ![j] = new]
    BY <1>4 DEF Age
  <2>. QED
    BY <2>1, <2>2, ActiveRowWritten
<1>5. CASE Gate(TRUE) \/ Gate(FALSE)
  BY <1>5 DEF Gate
<1>6. CASE UNCHANGED vars
  BY <1>6 DEF vars
<1>. QED
  BY <1>1, <1>2, <1>3, <1>4, <1>5, <1>6 DEF Next

(* A row that reached its final status is never reopened or rewritten by a *)
(* late worker.                                                            *)
THEOREM FinalIsFinal ==
  ASSUME Punctual
  PROVE  Spec => FinalStatusIsFinal
<1>1. QueueInv /\ [Next]_vars =>
        [\A j \in JobIds : jobs[j].status \in Terminal => jobs'[j].status = jobs[j].status]_vars
  BY NextKeepsFinal
<1>. QED
  BY <1>1, QueueInvariant, PTL DEF Spec, FinalStatusIsFinal

-----------------------------------------------------------------------------
(* Sums.  The events a set of rows stands for are a fold over the set; the *)
(* fold is the number of pairs of a row and a unit of it, in whatever      *)
(* order the rows are taken.                                               *)

Units(weight, rows) == UNION {{i} \X (1 .. weight[i]) : i \in rows}
Chosen(rows) == CHOOSE i \in rows : TRUE

(* A fold as Folds defines it: one value for each subset of the rows.      *)
IsFold(weight, rows, sum) ==
  sum = [s \in SUBSET rows |-> IF s = {} THEN 0 ELSE weight[Chosen(s)] + sum[s \ {Chosen(s)}]]

LEMMA UnitsOfOne ==
  ASSUME NEW i, NEW n \in Nat
  PROVE  IsFiniteSet({i} \X (1 .. n)) /\ Cardinality({i} \X (1 .. n)) = n
<1> DEFINE row == {i}
           units == 1 .. n
<1>1. IsFiniteSet(row) /\ Cardinality(row) = 1
  BY FS_Singleton
<1>2. IsFiniteSet(units) /\ Cardinality(units) = n
  BY FS_Interval
<1> HIDE DEF row, units
<1>3. IsFiniteSet(row \X units)
  BY <1>1, <1>2, FS_Product
<1>4. Cardinality(row \X units) = Cardinality(row) * Cardinality(units)
  BY <1>1, <1>2, FS_Product
<1>5. Cardinality(row \X units) = n
  BY <1>1, <1>2, <1>4
<1>. QED
  BY <1>3, <1>5 DEF row, units

LEMMA UnitsFinite ==
  ASSUME NEW rows, IsFiniteSet(rows), NEW weight \in [rows -> Nat], NEW s \in SUBSET rows
  PROVE  IsFiniteSet(Units(weight, s))
<1> DEFINE Of == [i \in s |-> {i} \X (1 .. weight[i])]
           Parts == {{i} \X (1 .. weight[i]) : i \in s}
<1>1. IsFiniteSet(s)
  BY FS_Subset
<1>2. Of \in Surjection(s, Parts)
  BY DEF Surjection
<1>3. IsFiniteSet(Parts)
  BY <1>1, <1>2, FS_Surjection
<1>4. ASSUME NEW i \in s
      PROVE  IsFiniteSet({i} \X (1 .. weight[i]))
  BY UnitsOfOne
<1>5. \A part \in Parts : IsFiniteSet(part)
  BY <1>4
<1>. QED
  BY <1>3, <1>5, FS_UNION DEF Units

(* Any row may be counted first.                                           *)
LEMMA UnitsOfRow ==
  ASSUME NEW rows, IsFiniteSet(rows), NEW weight \in [rows -> Nat], NEW s \in SUBSET rows,
         NEW i \in s
  PROVE  Cardinality(Units(weight, s)) = weight[i] + Cardinality(Units(weight, s \ {i}))
<1> DEFINE one == {i} \X (1 .. weight[i])
           others == Units(weight, s \ {i})
<1>1. Units(weight, s) = others \cup one
  BY DEF Units
<1>2. others \cap one = {}
  BY DEF Units
<1>3. IsFiniteSet(others)
  BY UnitsFinite
<1>4. IsFiniteSet(one) /\ Cardinality(one) = weight[i] /\ weight[i] \in Nat
  BY UnitsOfOne
<1> HIDE DEF one, others
<1>5. Cardinality(others) \in Nat
  BY <1>3, FS_CardinalityType
<1>6. Cardinality({}) = 0
  BY FS_EmptySet
<1>7. Cardinality(others \cup one) = Cardinality(others) + weight[i]
  BY <1>2, <1>3, <1>4, <1>5, <1>6, FS_Union
<1>. QED
  BY <1>1, <1>4, <1>5, <1>7 DEF others

LEMMA NoUnits ==
  ASSUME NEW weight
  PROVE  Cardinality(Units(weight, {})) = 0
<1>1. Units(weight, {}) = {}
  BY DEF Units
<1>. QED
  BY <1>1, FS_EmptySet

(* Counting the units is a fold ...                                        *)
LEMMA UnitsFold ==
  ASSUME NEW rows, IsFiniteSet(rows), NEW weight \in [rows -> Nat]
  PROVE  IsFold(weight, rows, [s \in SUBSET rows |-> Cardinality(Units(weight, s))])
<1> SUFFICES ASSUME NEW s \in SUBSET rows
             PROVE  Cardinality(Units(weight, s)) =
                      IF s = {} THEN 0
                      ELSE weight[Chosen(s)] + Cardinality(Units(weight, s \ {Chosen(s)}))
  <2>1. \A s \in SUBSET rows : s \ {Chosen(s)} \in SUBSET rows
    OBVIOUS
  <2>. QED
    BY <2>1 DEF IsFold
<1>1. CASE s = {}
  BY <1>1, NoUnits
<1>2. CASE s # {}
  <2>1. Chosen(s) \in s
    BY <1>2 DEF Chosen
  <2>. QED
    BY <1>2, <2>1, UnitsOfRow
<1>. QED
  BY <1>1, <1>2

(* ... and the only one: a smallest set for which another fold differed    *)
(* would have a smaller one.                                               *)
LEMMA FoldsAgree ==
  ASSUME NEW rows, IsFiniteSet(rows), NEW weight \in [rows -> Nat], NEW sum,
         IsFold(weight, rows, sum)
  PROVE  \A s \in SUBSET rows : sum[s] = Cardinality(Units(weight, s))
<1> DEFINE Differs == {s \in SUBSET rows : sum[s] # Cardinality(Units(weight, s))}
<1> SUFFICES ASSUME Differs # {}
             PROVE  FALSE
  OBVIOUS
<1>1. Differs \subseteq FiniteSubsetsOf(rows)
  BY FS_Subset DEF FiniteSubsetsOf
<1>2. IsWellFoundedOn(StrictSubsetOrdering(rows), FiniteSubsetsOf(rows))
  BY FS_StrictSubsetOrderingWellFounded
<1> HIDE DEF Differs
<1>3. PICK s \in Differs : \A t \in Differs : ~(<<t, s>> \in StrictSubsetOrdering(rows))
  BY <1>1, <1>2, WFMin
<1>4. s \in SUBSET rows /\ sum[s] # Cardinality(Units(weight, s))
  BY <1>3 DEF Differs
<1>5. s # {}
  BY <1>4, NoUnits DEF IsFold
<1>6. Chosen(s) \in s
  BY <1>5 DEF Chosen
<1> DEFINE t == s \ {Chosen(s)}
<1>7. t \in SUBSET rows /\ <<t, s>> \in StrictSubsetOrdering(rows)
  BY <1>4, <1>6 DEF StrictSubsetOrdering
<1>8. sum[t] = Cardinality(Units(weight, t))
  BY <1>3, <1>7 DEF Differs
<1>9. sum[s] = weight[Chosen(s)] + sum[t]
  BY <1>4, <1>5 DEF IsFold
<1>10. Cardinality(Units(weight, s)) = weight[Chosen(s)] + Cardinality(Units(weight, t))
  BY <1>4, <1>6, UnitsOfRow
<1>. QED
  BY <1>4, <1>8, <1>9, <1>10

(* The events the rows of a table stand for.                               *)
Stand(table, rows) == MapThenSumSet(LAMBDA j : 1 + table[j].coalesced_count, rows)

LEMMA StandIsUnits ==
  ASSUME NEW table, NEW rows, IsFiniteSet(rows),
         \A j \in rows : table[j].coalesced_count \in Nat
  PROVE  Stand(table, rows) = Cardinality(Units([j \in rows |-> 1 + table[j].coalesced_count], rows))
<1> DEFINE weight == [j \in rows |-> 1 + table[j].coalesced_count]
           Follows(sum) ==
             sum = [s \in SUBSET rows |-> IF s = {} THEN 0
                     ELSE 1 + table[CHOOSE x \in s : TRUE].coalesced_count + sum[s \ {CHOOSE x \in s : TRUE}]]
           fold == CHOOSE sum : Follows(sum)
<1>1. weight \in [rows -> Nat]
  OBVIOUS
<1>2. ASSUME NEW sum
      PROVE  Follows(sum) <=> IsFold(weight, rows, sum)
  <2> DEFINE There(s) == IF s = {} THEN 0 ELSE weight[Chosen(s)] + sum[s \ {Chosen(s)}]
             Here(s) == IF s = {} THEN 0
                        ELSE 1 + table[CHOOSE x \in s : TRUE].coalesced_count
                               + sum[s \ {CHOOSE x \in s : TRUE}]
  <2>1. ASSUME NEW s \in SUBSET rows
        PROVE  Here(s) = There(s)
    <3>1. CASE s = {}
      BY <3>1
    <3>2. CASE s # {}
      <4>1. Chosen(s) \in s /\ Chosen(s) = CHOOSE x \in s : TRUE
        BY <3>2 DEF Chosen
      <4>2. weight[Chosen(s)] = 1 + table[Chosen(s)].coalesced_count
        BY <4>1
      <4>. QED
        BY <3>2, <4>1, <4>2
    <3>. QED
      BY <3>1, <3>2
  <2>2. (sum = [s \in SUBSET rows |-> Here(s)]) <=> (sum = [s \in SUBSET rows |-> There(s)])
    <3> HIDE DEF Here, There
    <3>. QED
      BY <2>1
  <2>. QED
    BY <2>2 DEF IsFold
<1>3. Stand(table, rows) = fold[rows]
  BY Zenon DEF Stand, MapThenSumSet, MapThenFoldSet
<1> HIDE DEF weight, Follows
<1>4. \E sum : Follows(sum)
  BY <1>1, <1>2, UnitsFold
<1>5. Follows(fold)
  BY <1>4
<1>6. fold[rows] = Cardinality(Units(weight, rows))
  BY <1>1, <1>2, <1>5, FoldsAgree
<1>. QED
  BY <1>3, <1>6 DEF weight

LEMMA StandNat ==
  ASSUME NEW table, NEW rows, IsFiniteSet(rows),
         \A j \in rows : table[j].coalesced_count \in Nat
  PROVE  Stand(table, rows) \in Nat
<1> DEFINE weight == [j \in rows |-> 1 + table[j].coalesced_count]
<1>1. weight \in [rows -> Nat]
  OBVIOUS
<1>2. IsFiniteSet(Units(weight, rows))
  BY <1>1, UnitsFinite
<1>. QED
  BY <1>2, StandIsUnits, FS_CardinalityType

LEMMA StandKept ==
  ASSUME NEW table, NEW new, NEW rows, IsFiniteSet(rows),
         \A j \in rows : table[j].coalesced_count \in Nat,
         \A j \in rows : new[j].coalesced_count = table[j].coalesced_count
  PROVE  Stand(new, rows) = Stand(table, rows)
<1>1. [j \in rows |-> 1 + new[j].coalesced_count] = [j \in rows |-> 1 + table[j].coalesced_count]
  OBVIOUS
<1>2. \A j \in rows : new[j].coalesced_count \in Nat
  OBVIOUS
<1>. QED
  BY <1>1, <1>2, StandIsUnits

LEMMA StandOfRow ==
  ASSUME NEW table, NEW rows, IsFiniteSet(rows),
         \A j \in rows : table[j].coalesced_count \in Nat,
         NEW i \in rows
  PROVE  Stand(table, rows) = 1 + table[i].coalesced_count + Stand(table, rows \ {i})
<1> DEFINE weight == [j \in rows |-> 1 + table[j].coalesced_count]
           others == rows \ {i}
           rest == [j \in others |-> 1 + table[j].coalesced_count]
<1>1. weight \in [rows -> Nat] /\ weight[i] = 1 + table[i].coalesced_count
  OBVIOUS
<1>2. Units(weight, others) = Units(rest, others)
  BY DEF Units
<1>3. Stand(table, others) = Cardinality(Units(rest, others))
  BY StandIsUnits, FS_Subset
<1>4. Stand(table, rows) = Cardinality(Units(weight, rows))
  BY StandIsUnits
<1>5. Cardinality(Units(weight, rows)) = weight[i] + Cardinality(Units(weight, others))
  BY <1>1, UnitsOfRow
<1>. QED
  BY <1>1, <1>2, <1>3, <1>4, <1>5

(* One event more is one more, in a row that is there or in a new one.     *)
LEMMA StandOneMore ==
  ASSUME NEW table, NEW new, NEW rows, NEW more, IsFiniteSet(more), rows \subseteq more,
         NEW i \in more, more \ {i} = rows \ {i},
         \A j \in rows : table[j].coalesced_count \in Nat,
         \A j \in rows \ {i} : new[j].coalesced_count = table[j].coalesced_count,
         new[i].coalesced_count = IF i \in rows THEN table[i].coalesced_count + 1 ELSE 0
  PROVE  Stand(new, more) = Stand(table, rows) + 1
<1> DEFINE others == rows \ {i}
<1>0. IsFiniteSet(rows) /\ IsFiniteSet(others)
  BY FS_Subset
<1>1. Stand(new, others) = Stand(table, others)
  BY <1>0, StandKept
<1>2. Stand(table, others) \in Nat
  BY <1>0, StandNat
<1>3. \A j \in more : new[j].coalesced_count \in Nat
  OBVIOUS
<1>4. Stand(new, more) = 1 + new[i].coalesced_count + Stand(new, others)
  <2>1. Stand(new, more) = 1 + new[i].coalesced_count + Stand(new, more \ {i})
    BY <1>3, StandOfRow
  <2>. QED
    BY <2>1
<1>5. CASE i \in rows
  <2>1. Stand(table, rows) = 1 + table[i].coalesced_count + Stand(table, others)
    BY <1>0, <1>5, StandOfRow
  <2>2. new[i].coalesced_count = table[i].coalesced_count + 1 /\ table[i].coalesced_count \in Nat
    BY <1>5
  <2> HIDE DEF others
  <2>. QED
    BY <1>1, <1>2, <1>4, <2>1, <2>2
<1>6. CASE i \notin rows
  <2>1. rows = others
    BY <1>6
  <2>2. new[i].coalesced_count = 0
    BY <1>6
  <2> HIDE DEF others
  <2>. QED
    BY <1>1, <1>2, <1>4, <2>1, <2>2
<1>. QED
  BY <1>5, <1>6

-----------------------------------------------------------------------------
(* No event is lost.                                                       *)

(* The rows that stand for the events of a document.                       *)
Standing(d) == {j \in JobIds : jobs[j].document_id = d /\ jobs[j].status # "coalesced"}

LEMMA EventsStand == EventsConserved <=> \A d \in Docs : accepted[d] = Stand(jobs, Standing(d))
BY Zenon DEF EventsConserved, Stand, Standing, MapThenSumSet, MapThenFoldSet

LEMMA EventsStandNext ==
  EventsConserved' <=> \A d \in Docs : accepted'[d] = Stand(jobs', Standing(d)')
BY Zenon DEF EventsConserved, Stand, Standing, MapThenSumSet, MapThenFoldSet, JobIds

LEMMA StandingRows ==
  ASSUME TypeOK, NEW d
  PROVE  IsFiniteSet(Standing(d)) /\ \A j \in Standing(d) : jobs[j].coalesced_count \in Nat
<1>1. IsFiniteSet(JobIds)
  BY FS_Interval DEF TypeOK, JobIds
<1>2. IsFiniteSet(Standing(d))
  BY <1>1, FS_Subset DEF Standing
<1>. QED
  BY <1>2 DEF Standing, TypeOK, JobIds, Job

LEMMA InitConserves == Init => EventsConserved
<1> SUFFICES ASSUME Init, NEW d \in Docs
             PROVE  Stand(jobs, Standing(d)) = 0
  BY EventsStand DEF Init
<1>1. Standing(d) = {}
  BY DEF Standing, Init, JobIds
<1>2. Stand(jobs, {}) = Cardinality(Units([j \in {} |-> 1 + jobs[j].coalesced_count], {}))
  BY StandIsUnits, FS_EmptySet
<1>. QED
  BY <1>1, <1>2, NoUnits

(* A step that accepts nothing and leaves counts, documents and coalesced  *)
(* rows alone loses nothing.                                               *)
LEMMA CountsKept ==
  ASSUME QueueInv, EventsConserved, last' = last, accepted' = accepted,
         \A j \in JobIds : /\ jobs'[j].document_id = jobs[j].document_id
                           /\ jobs'[j].coalesced_count = jobs[j].coalesced_count
                           /\ jobs'[j].status = "coalesced" <=> jobs[j].status = "coalesced"
  PROVE  EventsConserved'
<1> SUFFICES ASSUME NEW d \in Docs
             PROVE  accepted'[d] = Stand(jobs', Standing(d)')
  BY EventsStandNext
<1>1. Standing(d)' = Standing(d)
  BY DEF Standing, JobIds
<1>2. /\ IsFiniteSet(Standing(d))
      /\ \A j \in Standing(d) : jobs[j].coalesced_count \in Nat
  BY StandingRows DEF QueueInv
<1>3. \A j \in Standing(d) : jobs'[j].coalesced_count = jobs[j].coalesced_count
  BY DEF Standing
<1>4. Stand(jobs', Standing(d)) = Stand(jobs, Standing(d))
  BY <1>2, <1>3, StandKept
<1>. QED
  BY <1>1, <1>4, EventsStand

(* An event accepted for a document becomes a row, or one more in the row  *)
(* that is active.                                                         *)
LEMMA EnqueueConserves ==
  ASSUME QueueInv, QueueInv', EventsConserved, NEW documents \in SUBSET Docs, NEW e \in Events,
         EnqueueEvidence(documents, e)
  PROVE  EventsConserved'
<1> DEFINE fresh == {d \in documents : ActiveJobs(d) = {}}
           newLast == last + Cardinality(fresh)
<1>0. e \in Event
  BY EventsAssumption
<1>1. newLast \in Nat /\ last \in Nat /\ last <= newLast /\ last' = newLast
  <2>1. Cardinality(fresh) \in Nat
    BY FreshCount
  <2>2. last \in Nat
    BY DEF QueueInv, TypeOK
  <2>3. last' = newLast
    BY DEF EnqueueEvidence
  <2>. QED
    BY <2>1, <2>2, <2>3
<1>2. PICK docOf \in Bijection(last + 1 .. newLast, fresh) :
        jobs' = [j \in 1 .. newLast |->
                   IF j > last THEN NewJob(docOf[j], e)
                   ELSE IF jobs[j].document_id \in documents /\ Keeper(j)
                   THEN Absorb(jobs[j], e)
                   ELSE jobs[j]]
  BY DEF EnqueueEvidence
<1>3. /\ \A j \in last + 1 .. newLast : docOf[j] \in fresh
      /\ \A i, j \in last + 1 .. newLast : docOf[i] = docOf[j] => i = j
      /\ \A d \in fresh : \E j \in last + 1 .. newLast : docOf[j] = d
  BY <1>2 DEF Bijection, Injection, Surjection, IsInjective
<1> HIDE DEF fresh, newLast
<1>4. ASSUME NEW j \in JobIds
      PROVE  /\ j \in JobIds'
             /\ jobs'[j].status = jobs[j].status
             /\ jobs'[j].document_id = jobs[j].document_id
             /\ jobs'[j].coalesced_count =
                  IF jobs[j].document_id \in documents /\ Keeper(j)
                  THEN jobs[j].coalesced_count + 1 ELSE jobs[j].coalesced_count
  <2>1. jobs[j] \in Job /\ j \in 1 .. newLast /\ ~(j > last)
    BY <1>1 DEF QueueInv, TypeOK, JobIds
  <2>2. jobs'[j] = IF jobs[j].document_id \in documents /\ Keeper(j)
                   THEN Absorb(jobs[j], e) ELSE jobs[j]
    BY <1>2, <2>1
  <2>3. Absorb(jobs[j], e).coalesced_count = jobs[j].coalesced_count + 1
    BY <2>1 DEF Absorb, Job
  <2>. QED
    BY <1>0, <1>1, <2>1, <2>2, <2>3, AbsorbKeeps DEF JobIds
<1>5. ASSUME NEW j \in JobIds', j \notin JobIds
      PROVE  /\ j \in last + 1 .. newLast /\ docOf[j] \in fresh
             /\ jobs'[j].document_id = docOf[j] /\ jobs'[j].status = "pending"
             /\ jobs'[j].coalesced_count = 0
  <2>1. j \in last + 1 .. newLast /\ j > last /\ j \in 1 .. newLast
    BY <1>1, <1>5 DEF JobIds
  <2>2. jobs'[j] = NewJob(docOf[j], e)
    BY <1>2, <2>1
  <2>. QED
    BY <1>3, <2>1, <2>2 DEF NewJob
<1>6. ASSUME NEW j \in last + 1 .. newLast
      PROVE  j \in JobIds' /\ j \notin JobIds
  BY <1>1, <1>6 DEF JobIds
<1> SUFFICES ASSUME NEW d \in Docs
             PROVE  accepted'[d] = Stand(jobs', Standing(d)')
  BY EventsStandNext
<1>7. accepted[d] = Stand(jobs, Standing(d)) /\ accepted[d] \in Nat
  BY EventsStand DEF QueueInv, TypeOK
<1>8. /\ IsFiniteSet(Standing(d))
      /\ \A j \in Standing(d) : jobs[j].coalesced_count \in Nat
  BY StandingRows DEF QueueInv
<1>9. Standing(d)' = Standing(d) \cup {j \in last + 1 .. newLast : docOf[j] = d}
  BY <1>4, <1>5, <1>6 DEF Standing
<1>10. CASE d \notin documents
  <2>1. Standing(d)' = Standing(d)
    BY <1>3, <1>9, <1>10 DEF fresh
  <2>2. \A j \in Standing(d) : jobs'[j].coalesced_count = jobs[j].coalesced_count
    BY <1>4, <1>10 DEF Standing
  <2>3. Stand(jobs', Standing(d)) = Stand(jobs, Standing(d))
    BY <1>8, <2>2, StandKept
  <2>4. accepted'[d] = accepted[d]
    BY <1>10 DEF EnqueueEvidence
  <2>. QED
    BY <1>7, <2>1, <2>3, <2>4
<1>11. CASE d \in documents
  <2>1. accepted'[d] = accepted[d] + 1
    BY <1>11 DEF EnqueueEvidence
  <2>2. CASE d \in fresh
    <3>1. PICK i \in last + 1 .. newLast : docOf[i] = d
      BY <1>3, <2>2
    <3>2. Standing(d)' = Standing(d) \cup {i}
      BY <1>3, <1>9, <3>1
    <3>3. i \notin Standing(d) /\ jobs'[i].coalesced_count = 0
      BY <1>5, <1>6 DEF Standing
    <3>4. \A j \in Standing(d) : jobs'[j].coalesced_count = jobs[j].coalesced_count
      <4>1. \A j \in JobIds : jobs[j].document_id = d => ~Keeper(j)
        BY <2>2 DEF fresh, Keeper, ActiveJobs
      <4>. QED
        BY <1>4, <4>1 DEF Standing
    <3>5. IsFiniteSet(Standing(d) \cup {i})
      BY <1>8, FS_AddElement
    <3>6. Stand(jobs', Standing(d) \cup {i}) = Stand(jobs, Standing(d)) + 1
      BY <1>8, <3>3, <3>4, <3>5, StandOneMore
    <3>. QED
      BY <1>7, <2>1, <3>2, <3>6
  <2>3. CASE d \notin fresh
    <3>1. PICK i \in ActiveJobs(d) : TRUE
      BY <1>11, <2>3 DEF fresh
    <3>2. i \in Standing(d) /\ jobs[i].document_id = d
      BY <3>1 DEF Standing, ActiveJobs, Active
    <3>3. \A j \in ActiveJobs(d) : j = i
      BY <3>1 DEF ActiveJobs, QueueInv, OneActiveJobPerDocument
    <3>4. \A j \in Standing(d) : Keeper(j) <=> j = i
      BY <3>1, <3>3 DEF Keeper, ActiveJobs, Standing
    <3>5. Standing(d)' = Standing(d)
      BY <1>3, <1>9, <2>3
    <3>6. /\ \A j \in Standing(d) \ {i} : jobs'[j].coalesced_count = jobs[j].coalesced_count
          /\ jobs'[i].coalesced_count = jobs[i].coalesced_count + 1
      BY <1>4, <1>11, <3>2, <3>4 DEF Standing
    <3>7. Stand(jobs', Standing(d)) = Stand(jobs, Standing(d)) + 1
      BY <1>8, <3>2, <3>6, StandOneMore
    <3>. QED
      BY <1>7, <2>1, <3>5, <3>7
  <2>. QED
    BY <2>2, <2>3
<1>. QED
  BY <1>10, <1>11

(* A write to one row that leaves its document and its count.              *)
LEMMA RowRewritten ==
  ASSUME QueueInv, EventsConserved, NEW i \in JobIds, NEW new \in Job,
         jobs' = [jobs EXCEPT ![i] = new], last' = last, accepted' = accepted,
         new.document_id = jobs[i].document_id, new.coalesced_count = jobs[i].coalesced_count,
         new.status = "coalesced" <=> jobs[i].status = "coalesced"
  PROVE  EventsConserved'
<1>1. \A j \in JobIds : jobs'[j] = IF j = i THEN new ELSE jobs[j]
  BY DEF QueueInv, TypeOK, JobIds
<1>. QED
  BY <1>1, CountsKept

LEMMA NextConserves ==
  ASSUME QueueInv, QueueInv', EventsConserved, [Next]_vars
  PROVE  EventsConserved'
<1>0. jobs \in [JobIds -> Job]
  BY DEF QueueInv, TypeOK, JobIds
<1>1. CASE OpenQueue \/ CallerCoalesces
  BY <1>1, NobodyCoalesces
<1>2. CASE \E documents \in (SUBSET Docs) \ {{}}, e \in Events : EnqueueEvidence(documents, e)
  BY <1>2, EnqueueConserves
<1>3. ASSUME NEW w \in Workers, WorkerStep(w) \/ Stop(w) \/ Crash(w)
      PROVE  EventsConserved'
  <2>0. worker[w].pc \in Holding =>
          worker[w].job \in JobIds /\ jobs[worker[w].job].status = "running"
    BY DEF QueueInv, HeldRowIsCurrent
  <2>1. CASE Start(w) \/ WorkerCoalesces(w) \/ ReadStaleRunning(w) \/ Stop(w) \/ Crash(w)
    <3>1. UNCHANGED <<last, jobs, accepted>>
      BY <2>1, NobodyCoalesces DEF Start, ReadStaleRunning, ReadRunningAs, Stop, Crash
    <3>. QED
      BY <3>1, CountsKept
  <2>2. CASE RecoverStaleRunning(w)
    <3>1. \A j \in read[w].stale : j \in JobIds /\ jobs[j].status = "running"
      BY DEF QueueInv, ReadRowsAreStale, StaleAmong
    <3>2. \A j \in JobIds :
            jobs'[j] = IF j \in read[w].stale
                       THEN [jobs[j] EXCEPT !.status = "pending", !.recovered = @ + 1] ELSE jobs[j]
      BY <2>2 DEF RecoverStaleRunning
    <3>3. \A j \in JobIds : /\ jobs'[j].document_id = jobs[j].document_id
                            /\ jobs'[j].coalesced_count = jobs[j].coalesced_count
                            /\ jobs'[j].status = "coalesced" <=> jobs[j].status = "coalesced"
      BY <1>0, <3>1, <3>2 DEF Job
    <3>. QED
      BY <2>2, <3>3, CountsKept DEF RecoverStaleRunning
  <2>3. ASSUME NEW j \in JobIds, ClaimNext(w, j)
        PROVE  EventsConserved'
    <3> DEFINE new == [jobs[j] EXCEPT !.status = "running", !.attempts = @ + 1, !.aged = FALSE]
    <3>1. jobs' = [jobs EXCEPT ![j] = new]
      BY <2>3, <1>0 DEF ClaimNext
    <3>2. jobs[j].attempts + 1 \in Nat
      BY <1>0 DEF Job
    <3>3. new \in Job /\ new.document_id = jobs[j].document_id
           /\ new.coalesced_count = jobs[j].coalesced_count /\ new.status = "running"
      BY <1>0, <3>2 DEF Job, Active
    <3>4. jobs[j].status = "pending" /\ last' = last /\ accepted' = accepted
      BY <2>3 DEF ClaimNext
    <3> HIDE DEF new
    <3>. QED
      BY <3>1, <3>3, <3>4, RowRewritten
  <2>4. CASE IndexEvidence(w)
    <3> DEFINE j == worker[w].job
               new == [jobs[j] EXCEPT !.owed = @ \ worker[w].payload]
    <3>0. j \in JobIds /\ jobs[j] \in Job
      BY <1>0, <2>0, <2>4 DEF IndexEvidence, Holding
    <3>1. jobs' = [jobs EXCEPT ![j] = new] /\ last' = last /\ accepted' = accepted
      BY <2>4 DEF IndexEvidence
    <3>2. new \in Job /\ new.document_id = jobs[j].document_id
          /\ new.coalesced_count = jobs[j].coalesced_count /\ new.status = jobs[j].status
      BY <3>0 DEF Job
    <3> HIDE DEF new, j
    <3>. QED
      BY <3>0, <3>1, <3>2, RowRewritten
  <2>5. CASE Finish(w) \/ Fail(w)
    <3> DEFINE j == worker[w].job
    <3>0. j \in JobIds /\ jobs[j] \in Job /\ jobs[j].status = "running"
      BY <1>0, <2>0, <2>5 DEF Finish, Fail
    <3>1. PICK s \in Active \cup Terminal : /\ jobs' = [jobs EXCEPT ![j] = [jobs[j] EXCEPT !.status = s]]
                                           /\ s # "coalesced"
      BY <2>5 DEF Finish, Fail, Active, Terminal
    <3> DEFINE new == [jobs[j] EXCEPT !.status = s]
    <3>2. new \in Job /\ new.document_id = jobs[j].document_id
          /\ new.coalesced_count = jobs[j].coalesced_count /\ new.status = s
      BY <3>0, <3>1 DEF Job
    <3>3. last' = last /\ accepted' = accepted
      BY <2>5 DEF Finish, Fail
    <3>4. jobs' = [jobs EXCEPT ![j] = new]
      BY <3>1
    <3> HIDE DEF new, j
    <3>. QED
      BY <3>0, <3>1, <3>2, <3>3, <3>4, RowRewritten
  <2>. QED
    BY <1>3, <2>1, <2>2, <2>3, <2>4, <2>5 DEF WorkerStep
<1>4. ASSUME NEW j \in JobIds, Age(j)
      PROVE  EventsConserved'
  <2> DEFINE new == [jobs[j] EXCEPT !.aged = TRUE]
  <2>1. jobs' = [jobs EXCEPT ![j] = new] /\ last' = last /\ accepted' = accepted
    BY <1>4 DEF Age
  <2>2. new \in Job /\ new.document_id = jobs[j].document_id
        /\ new.coalesced_count = jobs[j].coalesced_count /\ new.status = jobs[j].status
    BY <1>0 DEF Job
  <2> HIDE DEF new
  <2>. QED
    BY <2>1, <2>2, RowRewritten
<1>5. CASE Gate(TRUE) \/ Gate(FALSE) \/ UNCHANGED vars
  <2>1. UNCHANGED <<last, jobs, accepted>>
    BY <1>5 DEF Gate, vars
  <2>. QED
    BY <2>1, CountsKept
<1>. QED
  BY <1>1, <1>2, <1>3, <1>4, <1>5 DEF Next

(* coalesced_count preserves how many events arrived: whatever is enqueued *)
(* while a document's row waits, runs, fails or is recovered, the rows of  *)
(* the document stand for exactly the events accepted for it.              *)
THEOREM NoEventLost ==
  ASSUME Punctual
  PROVE  Spec => []EventsConserved
<1>1. Init => EventsConserved
  BY InitConserves
<1>2. QueueInv /\ QueueInv' /\ EventsConserved /\ [Next]_vars => EventsConserved'
  BY NextConserves
<1>. QED
  BY <1>1, <1>2, QueueInvariant, PTL DEF Spec

-----------------------------------------------------------------------------
(* The refinement: per document, GraphQueue is a DocumentQueue.            *)

(* Of a document with an active row, that row tells the stage.             *)
LEMMA ActiveRowTells ==
  ASSUME OneActiveJobPerDocument, NEW j \in JobIds, jobs[j].status \in Active
  PROVE  /\ ActiveJobs(jobs[j].document_id) = {j}
         /\ jobs[j].status = "running" => StageOf(jobs[j].document_id) = "working"
         /\ jobs[j].status = "pending" => StageOf(jobs[j].document_id) = "queued"
<1> DEFINE d == jobs[j].document_id
<1>1. j \in ActiveJobs(d)
  BY DEF ActiveJobs
<1>2. ActiveJobs(d) = {j}
  <2>1. \A i \in ActiveJobs(d) : i = j
    BY DEF ActiveJobs, OneActiveJobPerDocument
  <2>. QED
    BY <1>1, <2>1
<1>. QED
  BY <1>2 DEF StageOf

(* The document of the row a worker holds is working, and only it has it.  *)
LEMMA HolderOwns ==
  ASSUME QueueInv, NEW w \in Workers, worker[w].pc \in Holding
  PROVE  /\ worker[w].job \in JobIds
         /\ jobs[worker[w].job].status = "running"
         /\ jobs[worker[w].job].document_id \in Docs
         /\ StageOf(jobs[worker[w].job].document_id) = "working"
         /\ OwnersOf(jobs[worker[w].job].document_id) = {w}
<1> DEFINE j == worker[w].job
           d == jobs[j].document_id
<1>1. j \in JobIds /\ jobs[j].status = "running"
  BY DEF QueueInv, HeldRowIsCurrent
<1>2. d \in Docs
  BY <1>1 DEF QueueInv, TypeOK, JobIds, Job
<1>3. StageOf(d) = "working"
  BY <1>1, ActiveRowTells DEF QueueInv, Active
<1>4. ASSUME NEW v \in Workers, v # w, worker[v].pc \in Holding
      PROVE  jobs[worker[v].job].document_id # d
  <2>1. worker[v].job \in JobIds /\ jobs[worker[v].job].status = "running"
    BY <1>4 DEF QueueInv, HeldRowIsCurrent
  <2>2. worker[v].job # j
    BY <1>4 DEF QueueInv, HeldRowsDiffer
  <2>. QED
    BY <1>1, <2>1, <2>2 DEF QueueInv, OneActiveJobPerDocument, Active
<1>5. OwnersOf(d) = {w}
  BY <1>4 DEF OwnersOf
<1>. QED
  BY <1>1, <1>2, <1>3, <1>5

(* A document whose active row is waiting or stale is in nobody's hands.   *)
LEMMA NobodyOwns ==
  ASSUME QueueInv, NEW j \in JobIds,
         jobs[j].status = "pending" \/ (jobs[j].status = "running" /\ jobs[j].aged)
  PROVE  OwnersOf(jobs[j].document_id) = {}
<1> SUFFICES ASSUME NEW w \in Workers, worker[w].pc \in Holding,
                    jobs[worker[w].job].document_id = jobs[j].document_id
             PROVE  FALSE
  BY DEF OwnersOf
<1>1. /\ worker[w].job \in JobIds
      /\ jobs[worker[w].job].status = "running" /\ ~jobs[worker[w].job].aged
  BY DEF QueueInv, HeldRowIsCurrent
<1>2. worker[w].job = j
  BY <1>1 DEF QueueInv, OneActiveJobPerDocument, Active
<1>. QED
  BY <1>1, <1>2

(* Rows that keep document and status leave every stage as it is.          *)
LEMMA StagesKept ==
  ASSUME JobIds' = JobIds,
         \A j \in JobIds : /\ jobs'[j].document_id = jobs[j].document_id
                           /\ jobs'[j].status = jobs[j].status
  PROVE  \A d \in Docs : StageOf(d)' = StageOf(d)
<1> TAKE d \in Docs
<1>1. ActiveJobs(d)' = ActiveJobs(d)
  BY DEF ActiveJobs
<1>2. ActiveJobs(d) \subseteq JobIds
  BY DEF ActiveJobs
<1>3. (\E j \in ActiveJobs(d)' : jobs'[j].status = "running")
        <=> \E j \in ActiveJobs(d) : jobs[j].status = "running"
  BY <1>1, <1>2
<1>. QED
  BY <1>1, <1>3 DEF StageOf

(* Rewriting a document's active row moves that document and no other.     *)
LEMMA OneStageMoves ==
  ASSUME QueueInv, NEW j \in JobIds, jobs[j].status \in Active, JobIds' = JobIds,
         NEW d \in Docs, jobs[j].document_id = d, jobs'[j].document_id = d,
         \A i \in JobIds \ {j} : jobs'[i] = jobs[i]
  PROVE  /\ \A c \in Docs \ {d} : StageOf(c)' = StageOf(c)
         /\ jobs'[j].status = "running" => StageOf(d)' = "working"
         /\ jobs'[j].status = "pending" => StageOf(d)' = "queued"
         /\ jobs'[j].status \notin Active => StageOf(d)' = "idle"
<1>1. ASSUME NEW c \in Docs \ {d}
      PROVE  StageOf(c)' = StageOf(c)
  <2>1. ActiveJobs(c)' = ActiveJobs(c) /\ ActiveJobs(c) \subseteq JobIds \ {j}
    BY <1>1 DEF ActiveJobs
  <2>2. (\E i \in ActiveJobs(c)' : jobs'[i].status = "running")
          <=> \E i \in ActiveJobs(c) : jobs[i].status = "running"
    BY <2>1
  <2>. QED
    BY <2>1, <2>2 DEF StageOf
<1>2. \A i \in JobIds \ {j} : ~(jobs'[i].document_id = d /\ jobs'[i].status \in Active)
  BY DEF QueueInv, OneActiveJobPerDocument
<1>3. CASE jobs'[j].status \in Active
  <2>1. ActiveJobs(d)' = {j}
    BY <1>2, <1>3 DEF ActiveJobs
  <2>. QED
    BY <1>1, <1>3, <2>1 DEF StageOf, Active
<1>4. CASE jobs'[j].status \notin Active
  <2>1. ActiveJobs(d)' = {}
    BY <1>2, <1>4 DEF ActiveJobs
  <2>. QED
    BY <1>1, <1>4, <2>1 DEF StageOf, Active
<1>. QED
  BY <1>3, <1>4


(* A document is in a worker's hands while the worker holds a row of it.   *)
LEMMA OwnersFollow ==
  ASSUME QueueInv, NEW w \in Workers,
         \A v \in Workers \ {w} : worker'[v] = worker[v],
         \A j \in JobIds : jobs'[j].document_id = jobs[j].document_id,
         worker'[w].pc \in Holding => worker'[w].job \in JobIds
  PROVE  \A c \in Docs :
           OwnersOf(c)' =
             (OwnersOf(c) \ {w})
               \cup (IF worker'[w].pc \in Holding
                        /\ jobs[worker'[w].job].document_id = c
                     THEN {w} ELSE {})
<1> TAKE c \in Docs
<1>1. ASSUME NEW v \in Workers \ {w}
      PROVE  v \in OwnersOf(c)' <=> v \in OwnersOf(c)
  <2>1. worker[v].pc \in Holding => worker[v].job \in JobIds
    BY DEF QueueInv, HeldRowIsCurrent
  <2>. QED
    BY <1>1, <2>1 DEF OwnersOf
<1>2. w \in OwnersOf(c)'
        <=> worker'[w].pc \in Holding /\ jobs[worker'[w].job].document_id = c
  BY DEF OwnersOf
<1>3. OwnersOf(c) \subseteq Workers /\ OwnersOf(c)' \subseteq Workers
  BY DEF OwnersOf
<1>. QED
  BY <1>1, <1>2, <1>3

(* A worker that holds nothing owns no document.                           *)
LEMMA FreeHandsOwnNothing ==
  ASSUME NEW w \in Workers, worker[w].pc \notin Holding
  PROVE  \A c \in Docs : w \notin OwnersOf(c)
BY DEF OwnersOf

(* Nothing moves in the view.                                              *)
LEMMA ViewStutters ==
  ASSUME \A d \in Docs : StageOf(d)' = StageOf(d) /\ OwnersOf(d)' = OwnersOf(d)
  PROVE  UNCHANGED <<[d \in Docs |-> StageOf(d)], [d \in Docs |-> OwnersOf(d)]>>
OBVIOUS

(* An evidence event submits its documents.                                *)
LEMMA EnqueueSubmits ==
  ASSUME QueueInv, NEW documents \in SUBSET Docs, NEW e \in Events,
         EnqueueEvidence(documents, e)
  PROVE  DQ!Submit(documents)
<1> DEFINE fresh == {d \in documents : ActiveJobs(d) = {}}
           newLast == last + Cardinality(fresh)
<1>0. e \in Event
  BY EventsAssumption
<1>1. /\ newLast \in Nat /\ last \in Nat /\ last <= newLast /\ last' = newLast
      /\ worker' = worker
  <2>1. Cardinality(fresh) \in Nat
    BY FreshCount
  <2>2. last \in Nat
    BY DEF QueueInv, TypeOK
  <2>3. last' = newLast /\ worker' = worker
    BY DEF EnqueueEvidence
  <2>. QED
    BY <2>1, <2>2, <2>3
<1>2. PICK docOf \in Bijection(last + 1 .. newLast, fresh) :
        jobs' = [j \in 1 .. newLast |->
                   IF j > last THEN NewJob(docOf[j], e)
                   ELSE IF jobs[j].document_id \in documents /\ Keeper(j)
                   THEN Absorb(jobs[j], e)
                   ELSE jobs[j]]
  BY DEF EnqueueEvidence
<1>3. /\ \A j \in last + 1 .. newLast : docOf[j] \in fresh
      /\ \A d \in fresh : \E j \in last + 1 .. newLast : docOf[j] = d
  BY <1>2 DEF Bijection, Injection, Surjection, IsInjective
<1>4. ASSUME NEW j \in JobIds
      PROVE  /\ j \in JobIds'
             /\ jobs'[j].status = jobs[j].status
             /\ jobs'[j].document_id = jobs[j].document_id
  <2>1. jobs[j] \in Job /\ j \in 1 .. newLast /\ ~(j > last)
    BY <1>1 DEF QueueInv, TypeOK, JobIds
  <2>. QED
    BY <1>0, <1>1, <1>2, <2>1, AbsorbKeeps DEF JobIds
<1>5. ASSUME NEW j \in JobIds', j \notin JobIds
      PROVE  /\ j \in last + 1 .. newLast
             /\ jobs'[j].document_id = docOf[j] /\ jobs'[j].status = "pending"
  <2>1. j \in last + 1 .. newLast /\ j \in 1 .. newLast /\ j > last
    BY <1>1, <1>5 DEF JobIds
  <2>2. jobs'[j] = NewJob(docOf[j], e)
    BY <1>2, <2>1
  <2>. QED
    BY <2>1, <2>2 DEF NewJob
<1> HIDE DEF fresh, newLast
<1>6. ASSUME NEW d \in Docs
      PROVE  StageOf(d)' = IF d \in documents /\ StageOf(d) = "idle"
                           THEN "queued" ELSE StageOf(d)
  <2>1. StageOf(d) = "idle" <=> ActiveJobs(d) = {}
    BY DEF StageOf
  <2>2. CASE d \in fresh
    <3>1. d \in documents /\ StageOf(d) = "idle" /\ ActiveJobs(d) = {}
      BY <2>1, <2>2 DEF fresh
    <3>2. PICK j \in last + 1 .. newLast : docOf[j] = d
      BY <1>3, <2>2
    <3>3. j \in JobIds' /\ j \notin JobIds
      BY <1>1, <3>2 DEF JobIds
    <3>4. j \in ActiveJobs(d)'
      BY <1>5, <3>2, <3>3 DEF ActiveJobs, Active
    <3>5. \A i \in ActiveJobs(d)' : jobs'[i].status = "pending"
      <4>1. TAKE i \in ActiveJobs(d)'
      <4>2. i \in JobIds' /\ jobs'[i].document_id = d /\ jobs'[i].status \in Active
        BY <4>1 DEF ActiveJobs
      <4>3. i \notin JobIds
        BY <1>4, <3>1, <4>2 DEF ActiveJobs
      <4>. QED
        BY <1>5, <4>2, <4>3
    <3>6. StageOf(d)' = "queued"
      BY <3>4, <3>5 DEF StageOf
    <3>. QED
      BY <3>1, <3>6
  <2>3. CASE d \notin fresh
    <3>1. ~(d \in documents /\ StageOf(d) = "idle")
      BY <2>1, <2>3 DEF fresh
    <3>2. ActiveJobs(d)' = ActiveJobs(d)
      <4>1. \A i \in JobIds' : i \notin JobIds => jobs'[i].document_id # d
        BY <1>3, <1>5, <2>3
      <4>. QED
        BY <1>4, <4>1 DEF ActiveJobs
    <3>3. \A i \in ActiveJobs(d) : jobs'[i].status = jobs[i].status
      BY <1>4 DEF ActiveJobs
    <3>4. StageOf(d)' = StageOf(d)
      BY <3>2, <3>3 DEF StageOf
    <3>. QED
      BY <3>1, <3>4
  <2>. QED
    BY <2>2, <2>3
<1>7. ASSUME NEW d \in Docs
      PROVE  OwnersOf(d)' = OwnersOf(d)
  <2>1. \A w \in Workers : worker[w].pc \in Holding => worker[w].job \in JobIds
    BY DEF QueueInv, HeldRowIsCurrent
  <2>. QED
    BY <1>1, <1>4, <2>1 DEF OwnersOf
<1>. QED
  BY <1>6, <1>7 DEF DQ!Submit


(* Claiming a row begins its document.                                     *)
LEMMA ClaimBegins ==
  ASSUME QueueInv, NEW w \in Workers, NEW j \in JobIds, ClaimNext(w, j)
  PROVE  \E d \in Docs : DQ!Begin(d, w)
<1>0. PICK d \in Docs : d = jobs[j].document_id
  BY DEF ClaimNext, QueueInv, TypeOK, JobIds, Job
<1>1. /\ JobIds' = JobIds /\ jobs[j] \in Job
      /\ jobs[j].status = "pending" /\ worker[w].pc \notin Holding
      /\ jobs'[j] = [jobs[j] EXCEPT !.status = "running", !.attempts = @ + 1, !.aged = FALSE]
      /\ \A i \in JobIds \ {j} : jobs'[i] = jobs[i]
  BY DEF ClaimNext, QueueInv, TypeOK, JobIds, Job, Holding
<1>2. jobs'[j].status = "running" /\ jobs'[j].document_id = d
  BY ZenonT(60), <1>0, <1>1, ClaimRow
<1>3. /\ worker'[w].pc = "claimed" /\ worker'[w].job = j
      /\ \A v \in Workers \ {w} : worker'[v] = worker[v]
  BY DEF ClaimNext, QueueInv, TypeOK
<1>4. StageOf(d) = "queued" /\ OwnersOf(d) = {}
  BY <1>0, <1>1, ActiveRowTells, NobodyOwns DEF QueueInv, Active
<1>5. StageOf(d)' = "working" /\ \A c \in Docs \ {d} : StageOf(c)' = StageOf(c)
  BY <1>0, <1>1, <1>2, OneStageMoves DEF Active
<1>6. \A c \in Docs : w \notin OwnersOf(c)
  BY <1>1, FreeHandsOwnNothing
<1>7. \A c \in Docs : OwnersOf(c)' = OwnersOf(c) \cup (IF d = c THEN {w} ELSE {})
  <2>1. \A i \in JobIds : jobs'[i].document_id = jobs[i].document_id
    BY <1>0, <1>1, <1>2
  <2>2. \A c \in Docs :
           OwnersOf(c)' = (OwnersOf(c) \ {w})
               \cup (IF worker'[w].pc \in Holding /\ jobs[worker'[w].job].document_id = c
                     THEN {w} ELSE {})
    BY <1>3, <2>1, OwnersFollow
  <2>. QED
    BY <1>0, <1>3, <1>6, <2>2 DEF Holding
<1>8. OwnersOf(d)' = {w} /\ \A c \in Docs \ {d} : OwnersOf(c)' = OwnersOf(c)
  BY ZenonT(60), <1>1, <1>4, <1>7
<1>9. DQ!Begin(d, w)
  BY <1>1, <1>4, <1>5, <1>6, <1>8 DEF DQ!Begin
<1>. QED
  BY <1>9

(* Letting go of a row with a final or a pending status settles its        *)
(* document.                                                               *)
LEMMA LettingGoSettles ==
  ASSUME QueueInv, NEW w \in Workers, worker[w].pc \in Holding,
         NEW s \in Active \cup Terminal, s # "running", last' = last,
         jobs' = [jobs EXCEPT ![worker[w].job].status = s],
         worker' = [worker EXCEPT ![w] = Idle]
  PROVE  \E d \in Docs : DQ!Settle(d, w, "idle") \/ DQ!Settle(d, w, "queued")
<1> DEFINE next == IF s = "pending" THEN "queued" ELSE "idle"
<1>0. PICK j \in JobIds : j = worker[w].job
  BY HolderOwns
<1>00. PICK d \in Docs : d = jobs[j].document_id
  BY <1>0, HolderOwns
<1>1. jobs[j].status = "running" /\ StageOf(d) = "working" /\ OwnersOf(d) = {w}
  BY <1>0, <1>00, HolderOwns
<1>2. /\ JobIds' = JobIds /\ jobs[j] \in Job
      /\ jobs'[j] = [jobs[j] EXCEPT !.status = s]
      /\ \A i \in JobIds \ {j} : jobs'[i] = jobs[i]
  BY <1>0 DEF QueueInv, TypeOK, JobIds
<1>3. jobs'[j].status = s /\ jobs'[j].document_id = d
  BY <1>00, <1>2 DEF Job
<1>4. /\ worker'[w].pc \notin Holding
      /\ \A v \in Workers \ {w} : worker'[v] = worker[v]
  BY DEF QueueInv, TypeOK, Idle, Down, Holding
<1>5. StageOf(d)' = next /\ \A c \in Docs \ {d} : StageOf(c)' = StageOf(c)
  <2>1. s \in Active => s = "pending"
    BY DEF Active
  <2>2. jobs[j].status \in Active /\ "pending" \in Active
    BY <1>1 DEF Active
  <2>. QED
    BY <1>00, <1>2, <1>3, <2>1, <2>2, OneStageMoves
<1>6. \A c \in Docs : OwnersOf(c)' = OwnersOf(c) \ {w}
  <2>1. \A i \in JobIds : jobs'[i].document_id = jobs[i].document_id
    BY <1>00, <1>2, <1>3
  <2>. QED
    BY <1>4, <2>1, OwnersFollow
<1>7. OwnersOf(d)' = {} /\ \A c \in Docs \ {d} : OwnersOf(c)' = OwnersOf(c)
  <2>1. \A c \in Docs \ {d} : w \notin OwnersOf(c)
    BY <1>0, <1>00 DEF OwnersOf
  <2>. QED
    BY <1>1, <1>6, <2>1
<1> HIDE DEF next
<1>8. DQ!Settle(d, w, next)
  BY <1>1, <1>5, <1>7 DEF DQ!Settle
<1>. QED
  BY <1>8 DEF next

LEMMA FinishSettles ==
  ASSUME QueueInv, NEW w \in Workers, Finish(w) \/ Fail(w)
  PROVE  \E d \in Docs : DQ!Settle(d, w, "idle") \/ DQ!Settle(d, w, "queued")
<1>1. PICK s \in (Active \cup Terminal) \ {"running"} :
        jobs' = [jobs EXCEPT ![worker[w].job].status = s]
  <2>1. CASE Finish(w)
    <3> DEFINE s == IF worker[w].pc = "touched" THEN "done" ELSE "skipped_oversize"
    <3>1. s \in (Active \cup Terminal) \ {"running"}
      BY DEF Active, Terminal
    <3>2. jobs' = [jobs EXCEPT ![worker[w].job].status = s]
      BY <2>1 DEF Finish
    <3>. QED
      BY <3>1, <3>2
  <2>2. CASE Fail(w)
    <3> DEFINE s == IF worker[w].attempts < MaxAttempts THEN "pending" ELSE "error"
    <3>1. s \in (Active \cup Terminal) \ {"running"}
      BY DEF Active, Terminal
    <3>2. jobs' = [jobs EXCEPT ![worker[w].job].status = s]
      BY <2>2 DEF Fail
    <3>. QED
      BY <3>1, <3>2
  <2>. QED
    BY <2>1, <2>2
<1>2. worker[w].pc \in Holding /\ last' = last /\ worker' = [worker EXCEPT ![w] = Idle]
  BY DEF Finish, Fail
<1>. QED
  BY <1>1, <1>2, LettingGoSettles

(* A worker that dies with a row in its hands abandons the document; one   *)
(* that leaves with empty hands changes nothing.                           *)
LEMMA LeavingAbandons ==
  ASSUME QueueInv, NEW w \in Workers, Stop(w) \/ Crash(w)
  PROVE  \/ \E d \in Docs : DQ!Abandon(d, w)
         \/ UNCHANGED <<[d \in Docs |-> StageOf(d)], [d \in Docs |-> OwnersOf(d)]>>
<1>1. /\ JobIds' = JobIds /\ jobs' = jobs
      /\ worker'[w].pc \notin Holding
      /\ \A v \in Workers \ {w} : worker'[v] = worker[v]
  BY DEF Stop, Crash, QueueInv, TypeOK, JobIds, Down, Holding
<1>2. \A c \in Docs : StageOf(c)' = StageOf(c)
  BY <1>1, StagesKept
<1>3. \A c \in Docs : OwnersOf(c)' = OwnersOf(c) \ {w}
  BY <1>1, OwnersFollow
<1>4. CASE worker[w].pc \in Holding
  <2>0. PICK d \in Docs : d = jobs[worker[w].job].document_id
    BY <1>4, HolderOwns
  <2>1. StageOf(d) = "working" /\ OwnersOf(d) = {w}
    BY <1>4, <2>0, HolderOwns
  <2>2. \A c \in Docs \ {d} : w \notin OwnersOf(c)
    BY <2>0 DEF OwnersOf
  <2>3. OwnersOf(d)' = {} /\ \A c \in Docs \ {d} : OwnersOf(c)' = OwnersOf(c)
    BY <1>3, <2>1, <2>2
  <2>4. DQ!Abandon(d, w)
    BY <1>2, <2>1, <2>3 DEF DQ!Abandon
  <2>. QED
    BY <2>4
<1>5. CASE worker[w].pc \notin Holding
  <2>1. \A c \in Docs : OwnersOf(c)' = OwnersOf(c)
    BY <1>3, <1>5, FreeHandsOwnNothing
  <2>. QED
    BY <1>2, <2>1, ViewStutters
<1>. QED
  BY <1>4, <1>5

(* Recovery reclaims the documents of the stale rows it has read: workers  *)
(* that are alive hold none of them.                                       *)
LEMMA RecoveryReclaims ==
  ASSUME QueueInv, NEW w \in Workers, RecoverStaleRunning(w)
  PROVE  \E D \in SUBSET Docs : DQ!Reclaim(D)
<1> DEFINE S == read[w].stale
           D == {d \in Docs : \E j \in JobIds : j \in S /\ jobs[j].document_id = d}
<1>1. S \subseteq StaleAmong(JobIds)
  BY DEF QueueInv, ReadRowsAreStale
<1>2. ASSUME NEW j \in JobIds
      PROVE  /\ jobs[j] \in Job /\ jobs[j].document_id \in Docs
             /\ jobs'[j].document_id = jobs[j].document_id
             /\ j \in S => /\ jobs[j].status = "running" /\ jobs[j].aged
                           /\ jobs'[j].status = "pending"
             /\ j \notin S => jobs'[j] = jobs[j]
  <2>1. jobs[j] \in Job /\ jobs[j].document_id \in Docs
    BY DEF QueueInv, TypeOK, JobIds, Job
  <2>2. CASE j \in S
    <3>1. jobs'[j] = [jobs[j] EXCEPT !.status = "pending", !.recovered = @ + 1]
      BY <2>2 DEF RecoverStaleRunning
    <3>2. jobs'[j].status = "pending" /\ jobs'[j].document_id = jobs[j].document_id
      BY <2>1, <3>1, RecoverRow
    <3>3. jobs[j].status = "running" /\ jobs[j].aged
      BY <1>1, <2>2 DEF StaleAmong
    <3>. QED
      BY <2>1, <2>2, <3>2, <3>3
  <2>3. CASE j \notin S
    BY <2>1, <2>3 DEF RecoverStaleRunning
  <2>. QED
    BY <2>2, <2>3
<1>3. JobIds' = JobIds
  BY DEF RecoverStaleRunning, JobIds
<1>4. ASSUME NEW d \in D
      PROVE  StageOf(d) = "working" /\ OwnersOf(d) = {} /\ StageOf(d)' = "queued"
  <2>1. PICK j \in JobIds : j \in S /\ jobs[j].document_id = d
    BY <1>4
  <2>2. jobs[j].status = "running" /\ jobs[j].aged /\ jobs'[j].status = "pending"
    BY <1>2, <2>1
  <2>3. ActiveJobs(d) = {j} /\ StageOf(d) = "working"
    BY <2>1, <2>2, ActiveRowTells DEF QueueInv, Active
  <2>4. OwnersOf(d) = {}
    BY <2>1, <2>2, NobodyOwns
  <2>5. ActiveJobs(d)' = {j}
    <3>1. \A i \in JobIds : jobs'[i].status \in Active <=> jobs[i].status \in Active
      BY <1>2 DEF Active
    <3>. QED
      BY <1>2, <1>3, <2>3, <3>1 DEF ActiveJobs
  <2>6. StageOf(d)' = "queued"
    BY <2>2, <2>5 DEF StageOf
  <2>. QED
    BY <2>3, <2>4, <2>6
<1>5. ASSUME NEW d \in Docs, d \notin D
      PROVE  StageOf(d)' = StageOf(d)
  <2>1. \A i \in JobIds : jobs[i].document_id = d => jobs'[i] = jobs[i]
    BY <1>2, <1>5
  <2>2. ActiveJobs(d)' = ActiveJobs(d)
    BY <1>2, <1>3, <2>1 DEF ActiveJobs
  <2>3. \A i \in ActiveJobs(d) : jobs'[i] = jobs[i]
    BY <2>1 DEF ActiveJobs
  <2>. QED
    BY <2>2, <2>3 DEF StageOf
<1>6. \A d \in Docs : OwnersOf(d)' = OwnersOf(d)
  <2>1. /\ worker[w].pc \notin Holding /\ worker'[w].pc \notin Holding
        /\ \A v \in Workers \ {w} : worker'[v] = worker[v]
    BY DEF RecoverStaleRunning, QueueInv, TypeOK, WorkerState, Holding
  <2>2. \A d \in Docs : OwnersOf(d)' = OwnersOf(d) \ {w}
    BY <1>2, <2>1, OwnersFollow
  <2>. QED
    BY <2>1, <2>2, FreeHandsOwnNothing
<1>7. D \in SUBSET Docs
  OBVIOUS
<1> HIDE DEF D, S
<1>8. DQ!Reclaim(D)
  BY <1>4, <1>5, <1>6, <1>7 DEF DQ!Reclaim
<1>. QED
  BY <1>7, <1>8


LEMMA InitMaps == Init => DQ!Init
<1> SUFFICES ASSUME Init PROVE DQ!Init
  OBVIOUS
<1>1. \A d \in Docs : ActiveJobs(d) = {}
  BY DEF Init, ActiveJobs, JobIds
<1>2. \A d \in Docs : StageOf(d) = "idle"
  BY <1>1 DEF StageOf
<1>3. \A d \in Docs : OwnersOf(d) = {}
  BY DEF Init, OwnersOf, Down, Holding
<1>. QED
  BY <1>2, <1>3 DEF DQ!Init

(* The actions the view does not see: reads, indexing, clocks, the gate.   *)
LEMMA UnseenSteps ==
  ASSUME QueueInv,
         \/ \E w \in Workers : Start(w) \/ ReadStaleRunning(w) \/ IndexEvidence(w)
         \/ \E j \in JobIds : Age(j)
         \/ Gate(TRUE) \/ Gate(FALSE)
         \/ UNCHANGED vars
  PROVE  UNCHANGED <<[d \in Docs |-> StageOf(d)], [d \in Docs |-> OwnersOf(d)]>>
<1> DEFINE RowsKept == /\ JobIds' = JobIds
                       /\ \A j \in JobIds : /\ jobs'[j].document_id = jobs[j].document_id
                                            /\ jobs'[j].status = jobs[j].status
           ClaimsKept(w) == /\ worker'[w].pc \in Holding <=> worker[w].pc \in Holding
                            /\ worker[w].pc \in Holding => worker'[w].job = worker[w].job
<1>1. RowsKept
  <2>1. CASE jobs' = jobs /\ last' = last
    BY <2>1 DEF JobIds
  <2>2. ASSUME NEW w \in Workers, IndexEvidence(w)
        PROVE  RowsKept
    <3>0. PICK k \in JobIds : k = worker[w].job
      BY <2>2, HolderOwns DEF IndexEvidence, Holding
    <3>1. /\ jobs[k] \in Job /\ worker[w].payload \in SUBSET Demands
          /\ jobs'[k] = [jobs[k] EXCEPT !.owed = @ \ worker[w].payload]
          /\ \A j \in JobIds \ {k} : jobs'[j] = jobs[j]
          /\ JobIds' = JobIds
      BY <2>2, <3>0 DEF IndexEvidence, QueueInv, TypeOK, JobIds, WorkerState
    <3>2. jobs'[k].document_id = jobs[k].document_id /\ jobs'[k].status = jobs[k].status
      BY <3>1 DEF Job
    <3>. QED
      BY <3>1, <3>2
  <2>3. ASSUME NEW k \in JobIds, Age(k)
        PROVE  RowsKept
    <3>1. /\ jobs[k] \in Job
          /\ jobs'[k] = [jobs[k] EXCEPT !.aged = TRUE]
          /\ \A j \in JobIds \ {k} : jobs'[j] = jobs[j]
          /\ JobIds' = JobIds
      BY <2>3 DEF Age, QueueInv, TypeOK, JobIds
    <3>2. jobs'[k].document_id = jobs[k].document_id /\ jobs'[k].status = jobs[k].status
      BY <3>1 DEF Job
    <3>. QED
      BY <3>1, <3>2
  <2>. QED
    BY <2>1, <2>2, <2>3 DEF Start, ReadStaleRunning, ReadRunningAs, Gate, vars
<1>2. ASSUME NEW w \in Workers
      PROVE  ClaimsKept(w)
  <2>1. CASE worker' = worker
    BY <2>1
  <2>2. ASSUME NEW v \in Workers, Start(v) \/ ReadStaleRunning(v)
        PROVE  ClaimsKept(w)
    <3>1. PICK pc \in {"starting", "idle", "recovering"} :
            worker' = [worker EXCEPT ![v].pc = pc]
      <4>1. CASE Start(v)
        BY <4>1, NothingToCoalesce DEF Start, QueueInv
      <4>2. CASE ReadStaleRunning(v)
        BY <4>2 DEF ReadStaleRunning, ReadRunningAs
      <4>. QED BY <2>2, <4>1, <4>2
    <3>2. worker[v].pc \in {"down", "starting"}
      BY <2>2 DEF Start, ReadStaleRunning, ReadRunningAs
    <3>3. worker \in [Workers -> WorkerState]
      BY DEF QueueInv, TypeOK
    <3>4. CASE w = v
      BY <3>1, <3>2, <3>3, <3>4 DEF WorkerState, Holding
    <3>5. CASE w # v
      BY <3>1, <3>3, <3>5
    <3>. QED BY <3>4, <3>5
  <2>3. ASSUME NEW v \in Workers, IndexEvidence(v)
        PROVE  ClaimsKept(w)
    BY <2>3 DEF IndexEvidence, QueueInv, TypeOK, WorkerState, Holding
  <2>. QED
    BY <2>1, <2>2, <2>3 DEF Age, Gate, vars
<1>3. \A d \in Docs : StageOf(d)' = StageOf(d)
  BY <1>1, StagesKept
<1>4. \A d \in Docs : OwnersOf(d)' = OwnersOf(d)
  <2>1. \A w \in Workers : worker[w].pc \in Holding => worker[w].job \in JobIds
    BY DEF QueueInv, HeldRowIsCurrent
  <2>. QED
    BY <1>1, <1>2, <2>1 DEF OwnersOf
<1>. QED
  BY <1>3, <1>4, ViewStutters

LEMMA NextMaps ==
  ASSUME QueueInv, Punctual, [Next]_vars
  PROVE  [DQ!Next]_<<[d \in Docs |-> StageOf(d)], [d \in Docs |-> OwnersOf(d)]>>
<1>1. CASE OpenQueue \/ CallerCoalesces
  BY <1>1, NobodyCoalesces
<1>2. ASSUME NEW documents \in SUBSET Docs, NEW e \in Events, EnqueueEvidence(documents, e)
      PROVE  DQ!Next
  BY <1>2, EnqueueSubmits DEF DQ!Next
<1>3. ASSUME NEW w \in Workers, NEW j \in JobIds, ClaimNext(w, j)
      PROVE  DQ!Next
  BY <1>3, ClaimBegins DEF DQ!Next
<1>4. ASSUME NEW w \in Workers, Finish(w) \/ Fail(w)
      PROVE  DQ!Next
  BY <1>4, FinishSettles DEF DQ!Next
<1>5. ASSUME NEW w \in Workers, RecoverStaleRunning(w)
      PROVE  DQ!Next
  BY <1>5, RecoveryReclaims DEF DQ!Next
<1>6. ASSUME NEW w \in Workers, Stop(w) \/ Crash(w)
      PROVE  [DQ!Next]_<<[d \in Docs |-> StageOf(d)], [d \in Docs |-> OwnersOf(d)]>>
  BY <1>6, LeavingAbandons DEF DQ!Next
<1>7. CASE \/ \E w \in Workers : Start(w) \/ ReadStaleRunning(w) \/ IndexEvidence(w)
           \/ \E j \in JobIds : Age(j)
           \/ Gate(TRUE) \/ Gate(FALSE)
           \/ UNCHANGED vars
  BY <1>7, UnseenSteps
<1>8. \A w \in Workers : ~WorkerCoalesces(w)
  BY NobodyCoalesces
<1>. QED
  BY <1>1, <1>2, <1>3, <1>4, <1>5, <1>6, <1>7, <1>8 DEF Next, WorkerStep

(* The queue implements DocumentQueue: whatever workers crash and restart, *)
(* an event on a document under way is absorbed, a document is with one    *)
(* worker at a time, and it becomes idle again only through that worker    *)
(* (enqueue_evidence, claim_next, finish, fail, recover_stale_running).    *)
THEOREM Implements ==
  ASSUME Punctual
  PROVE  Spec => ImplementsDocumentQueue
<1>1. Init => DQ!Init
  BY InitMaps
<1>2. QueueInv /\ [Next]_vars
        => [DQ!Next]_<<[d \in Docs |-> StageOf(d)], [d \in Docs |-> OwnersOf(d)]>>
  BY NextMaps
<1>. QED
  BY <1>1, <1>2, QueueInvariant, PTL DEF Spec, ImplementsDocumentQueue, DQ!Spec

=============================================================================

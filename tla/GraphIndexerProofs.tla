------------------------- MODULE GraphIndexerProofs -------------------------
(***************************************************************************)
(* Proofs about GraphIndexer for every set of texts, names and processes,  *)
(* every admission of names, every limit and every bound, while no caller  *)
(* starts beside another pass (Alone).                                     *)
(***************************************************************************)
EXTENDS GraphIndexer, TLAPS

Alone == Overlapping = FALSE

-----------------------------------------------------------------------------
(* The inductive invariant.                                                *)

B(holds) == IF holds THEN 1 ELSE 0

Started == {"fetch", "touch"}
Under(p) == pass[p].pc \in Active

(* Only one process is in index_evidence at a time, and the worker is      *)
(* there for a job that is running.                                        *)
OneAtATime == \A p, q \in Processes : Under(p) /\ Under(q) => p = q
WorkerHasJob == Under(Worker) => job.status = "running"

(* The job waits for the worker, or its worker died.                       *)
Queued == job.status = "pending" \/ (job.status = "running" /\ ~Under(Worker))
HasJob == job.status # "none"

(* A pass that has touched the document has counted its use.               *)
Used(p) == Under(p) /\ pass[p].pc \notin Started /\ Asked(p).count /\ pass[p].seen \notin Oversize

AnyStarted == \E p \in Processes : pass[p].pc \in Started
AnyCaller == \E c \in Callers : Under(c)
AnyUsed == \E p \in Processes : Used(p)

(* Attempts beyond the limit cost a fault each; so do uses counted beyond  *)
(* the events, with what is under way and may still count; an event ends   *)
(* well once; and a use that ended well has been counted.                  *)
AttemptsPaid == job.attempts + B(Queued) <= MaxAttempts + faults
UsesPaid ==
  node.evidence + B(Queued) + B(AnyStarted) + B(pass[Worker].failed) <= events + faults
EndsPaid == counted + B(HasJob) + B(AnyCaller) <= events
UsesKept == counted + B(AnyUsed) <= node.evidence
Accounts == AttemptsPaid /\ UsesPaid /\ EndsPaid /\ UsesKept

Detected(p) == In[pass[p].seen] \cap pass[p].forms

(* What a pass can rely on where it is: from the moment the mentions are   *)
(* gone until they are vouched for they are those it writes, and from then *)
(* on they and the hash stay.                                              *)
BeforeLinking(p) ==
  /\ ~Under(p) => ~pass[p].failed
  /\ pass[p].before \subseteq ruled
  /\ pass[p].pc \in Started => ~pass[p].reindex
  /\ pass[p].pc = "touch" => pass[p].seen \notin Oversize
WhileLinking(p) ==
  /\ pass[p].pc = "rulings" => rows = {}
  /\ pass[p].pc = "write" =>
       /\ OfText(pass[p].seen)
       /\ \A n \in Linked(rows) \cup pass[p].left : n \notin pass[p].before
       /\ Detected(p) \ ruled \subseteq Linked(rows) \cup pass[p].left
AfterLinking(p) ==
  pass[p].pc \in {"unclaim", "claim"} \/ (pass[p].pc \in {"summary", "end"} /\ pass[p].reindex) =>
    node.hash = pass[p].seen /\ OfText(pass[p].seen) /\ Detected(p) \ ruled \subseteq Linked(rows)

PassWell(p) == BeforeLinking(p) /\ WhileLinking(p) /\ AfterLinking(p)

IndexerInv ==
  /\ StateOK
  /\ OneAtATime /\ WorkerHasJob
  /\ Accounts
  /\ \A p \in Processes : PassWell(p)

-----------------------------------------------------------------------------
(* Where passes are.                                                       *)

LEMMA Processing == Worker \in Processes /\ Callers \subseteq Processes /\ Worker \notin Callers
BY IndexerAssumption DEF Processes

LEMMA IdleWell ==
  /\ Idle \in Pass /\ [Idle EXCEPT !.pc = "down"] \in Pass
  /\ Idle.pc = "idle" /\ ~Idle.failed /\ ~Idle.reindex /\ Idle.before = {}
BY DEF Idle, Pass, Texts

(* While one process is in index_evidence, no other is.                    *)
Rests(q) == pass[q].pc \in {"idle", "down"}

LEMMA OthersRest ==
  ASSUME IndexerInv, NEW p \in Processes, Under(p), NEW q \in Processes, q # p
  PROVE  Rests(q)
BY DEF IndexerInv, StateOK, OneAtATime, Under, Pass, Rests

(* A process that rests claims nothing of mentions and hash.               *)
RestsWell ==
  \A q \in Processes : Rests(q) =>
    /\ ~Under(q) /\ pass[q].pc \notin Started /\ WhileLinking(q) /\ AfterLinking(q)
    /\ ~Used(q)

LEMMA RestingIsWell == RestsWell
BY DEF RestsWell, Rests, Under, Active, Started, WhileLinking, AfterLinking, Used

LEMMA InitInv == Init => IndexerInv
<1> SUFFICES ASSUME Init PROVE IndexerInv
  OBVIOUS
<1>1. \A p \in Processes : pass[p] = Idle
  BY DEF Init
<1>2. \A p \in Processes : pass[p].pc = "idle" /\ ~pass[p].failed /\ pass[p].before = {}
  BY <1>1, IdleWell
<1>3. \A p \in Processes : ~Under(p) /\ pass[p].pc \notin Started /\ ~Used(p) /\ PassWell(p)
  BY <1>2, RestingIsWell DEF RestsWell, Rests, PassWell, BeforeLinking
<1>4. StateOK
  <2>1. pass \in [Processes -> Pass]
    BY IdleWell DEF Init
  <2>2. /\ MaxEvents \in Nat /\ MaxFaults \in Nat /\ MaxEdits \in Nat /\ MaxRulings \in Nat
        /\ MaxAttempts \in Nat
    BY IndexerAssumption
  <2>3. node \in [hash : Texts \cup {None}, extractor : Signatures \cup {None},
                 evidence : 0 .. MaxEvents + MaxFaults, analysis : Texts \cup {None}]
    BY <2>2 DEF Init
  <2>4. job \in [status : {"none", "pending", "running"}, kind : Kinds \cup {"evidence"},
                attempts : 0 .. MaxAttempts + MaxFaults]
    BY <2>2 DEF Init, NoJob
  <2>5. /\ text \in Versions \cup {Empty} /\ mail \in {"none", "linked", "threaded"}
        /\ known \subseteq Names /\ ruled \subseteq known
        /\ rows \subseteq Names \X Texts /\ claims \subseteq Texts \cup {Manual}
    BY DEF Init
  <2>6. /\ edits \in 0 .. MaxEdits /\ events \in 0 .. MaxEvents
        /\ faults \in 0 .. MaxFaults /\ rulings \in 0 .. MaxRulings
        /\ counted \in 0 .. MaxEvents
    BY <2>2 DEF Init
  <2>7. cut \in BOOLEAN
    BY DEF Init
  <2>. QED
    BY <2>1, <2>3, <2>4, <2>5, <2>6, <2>7 DEF StateOK
<1>5. ~AnyStarted /\ ~AnyCaller /\ ~AnyUsed /\ ~Queued /\ ~HasJob /\ ~pass[Worker].failed
  BY <1>2, <1>3, Processing
     DEF AnyStarted, AnyCaller, AnyUsed, Queued, HasJob, Init, NoJob
<1>6. /\ job.attempts = 0 /\ node.evidence = 0 /\ counted = 0 /\ events = 0 /\ faults = 0
      /\ MaxAttempts \in Nat
  BY IndexerAssumption DEF Init, NoJob
<1>7. Accounts
  BY <1>5, <1>6 DEF Accounts, AttemptsPaid, UsesPaid, EndsPaid, UsesKept, B
<1>8. OneAtATime /\ WorkerHasJob
  BY <1>3, Processing DEF OneAtATime, WorkerHasJob
<1>. QED
  BY <1>3, <1>4, <1>7, <1>8 DEF IndexerInv

-----------------------------------------------------------------------------
(* The type invariant in parts.                                            *)

StoreOK ==
  /\ text \in Versions \cup {Empty}
  /\ mail \in {"none", "linked", "threaded"}
  /\ known \subseteq Names /\ ruled \subseteq known
  /\ rows \subseteq Names \X Texts
  /\ claims \subseteq Texts \cup {Manual}
NodeOK ==
  node \in [hash : Texts \cup {None}, extractor : Signatures \cup {None},
            evidence : 0 .. MaxEvents + MaxFaults, analysis : Texts \cup {None}]
JobOK ==
  job \in [status : {"none", "pending", "running"}, kind : Kinds \cup {"evidence"},
           attempts : 0 .. MaxAttempts + MaxFaults]
PassOK == pass \in [Processes -> Pass]
BoundsOK ==
  /\ edits \in 0 .. MaxEdits /\ events \in 0 .. MaxEvents
  /\ faults \in 0 .. MaxFaults /\ rulings \in 0 .. MaxRulings
CountsOK == cut \in BOOLEAN /\ counted \in 0 .. MaxEvents

TypeParts == StateOK <=> StoreOK /\ NodeOK /\ JobOK /\ PassOK /\ BoundsOK /\ CountsOK

LEMMA PartsOfType == TypeParts /\ TypeParts'
<1>1. TypeParts
  BY DEF TypeParts, StateOK, StoreOK, NodeOK, JobOK, PassOK, BoundsOK, CountsOK
<1>. QED
  BY <1>1, PTL

(* What the counters are, for arithmetic.                                  *)
LEMMA Numbers ==
  ASSUME StateOK
  PROVE  /\ job.attempts \in Nat /\ node.evidence \in Nat /\ counted \in Nat
         /\ events \in Nat /\ faults \in Nat /\ MaxAttempts \in Nat /\ MaxAttempts > 0
         /\ MaxEvents \in Nat /\ MaxFaults \in Nat /\ MaxEdits \in Nat /\ MaxRulings \in Nat
         /\ events <= MaxEvents /\ faults <= MaxFaults
<1>1. MaxEvents \in Nat /\ MaxFaults \in Nat /\ MaxEdits \in Nat /\ MaxRulings \in Nat
  BY IndexerAssumption
<1>2. MaxAttempts \in Nat /\ MaxAttempts > 0
  <2>1. MaxAttempts \in Nat \ {0}
    BY IndexerAssumption
  <2>. QED
    BY <2>1
<1>. QED
  BY <1>1, <1>2 DEF StateOK

(* Accounts that balance keep job, counters and evidence within their      *)
(* bounds.                                                                 *)
BoundsFollow ==
  /\ Accounts /\ job.attempts \in Nat /\ node.evidence \in Nat /\ counted \in Nat
  /\ events \in 0 .. MaxEvents /\ faults \in 0 .. MaxFaults
  => /\ job.attempts \in 0 .. MaxAttempts + MaxFaults
     /\ node.evidence \in 0 .. MaxEvents + MaxFaults
     /\ counted \in 0 .. MaxEvents

LEMMA BoundsDoFollow == BoundsFollow
<1> SUFFICES ASSUME Accounts, job.attempts \in Nat, node.evidence \in Nat, counted \in Nat,
                    events \in 0 .. MaxEvents, faults \in 0 .. MaxFaults
             PROVE  /\ job.attempts \in 0 .. MaxAttempts + MaxFaults
                    /\ node.evidence \in 0 .. MaxEvents + MaxFaults
                    /\ counted \in 0 .. MaxEvents
  BY DEF BoundsFollow
<1>1. MaxEvents \in Nat /\ MaxFaults \in Nat /\ MaxAttempts \in Nat
  BY IndexerAssumption
<1>2. \A b : B(b) = 0 \/ B(b) = 1
  BY DEF B
<1>3. job.attempts <= MaxAttempts + faults
  <2>1. PICK x \in Nat : job.attempts + x <= MaxAttempts + faults
    BY <1>2 DEF Accounts, AttemptsPaid
  <2>. QED
    BY <1>1, <2>1
<1>4. node.evidence <= events + faults
  <2>1. PICK x \in Nat : x = B(Queued)
    BY <1>2
  <2>2. PICK y \in Nat : y = B(AnyStarted)
    BY <1>2
  <2>3. PICK z \in Nat : z = B(pass[Worker].failed)
    BY <1>2
  <2>4. node.evidence + x + y + z <= events + faults
    BY <2>1, <2>2, <2>3 DEF Accounts, UsesPaid
  <2>. QED
    BY <1>1, <2>4
<1>5. counted <= events
  <2>1. PICK x \in Nat, y \in Nat : counted + x + y <= events
    BY <1>2 DEF Accounts, EndsPaid
  <2>. QED
    BY <1>1, <2>1
<1>. QED
  BY <1>1, <1>3, <1>4, <1>5

(* While at most p is in index_evidence it alone decides these.            *)
OneDecides ==
  \A p \in Processes : (\A q \in Processes \ {p} : Rests(q)) =>
    /\ OneAtATime
    /\ AnyStarted <=> pass[p].pc \in Started
    /\ AnyUsed <=> Used(p)
    /\ AnyCaller <=> (Under(p) /\ p # Worker)
    /\ p # Worker => ~Under(Worker)

LEMMA TheOneDecides == OneDecides
<1> SUFFICES ASSUME NEW p \in Processes, \A q \in Processes \ {p} : Rests(q)
             PROVE  /\ OneAtATime
                    /\ AnyStarted <=> pass[p].pc \in Started
                    /\ AnyUsed <=> Used(p)
                    /\ AnyCaller <=> (Under(p) /\ p # Worker)
                    /\ p # Worker => ~Under(Worker)
  BY DEF OneDecides
<1>1. \A q \in Processes \ {p} : ~Under(q) /\ pass[q].pc \notin Started /\ ~Used(q)
  BY RestingIsWell DEF RestsWell
<1>2. p # Worker => p \in Callers
  BY DEF Processes
<1>. QED
  BY <1>1, <1>2, Processing DEF OneAtATime, AnyStarted, AnyUsed, AnyCaller

(* These hold after every step as well.                                    *)
LEMMA StillWell == RestsWell' /\ OneDecides' /\ BoundsFollow'
<1>1. RestsWell /\ OneDecides /\ BoundsFollow
  BY RestingIsWell, TheOneDecides, BoundsDoFollow
<1>. QED
  BY <1>1, PTL

(* A step inside index_evidence, after the document was fetched.           *)
LEMMA Inside ==
  ASSUME IndexerInv, NEW p \in Processes, Under(p), pass[p].pc # "fetch",
         NEW new \in Pass, pass' = [pass EXCEPT ![p] = new],
         new.pc \in Active \ Started, new.kind = pass[p].kind, new.seen = pass[p].seen,
         new.failed = pass[p].failed, new.before = pass[p].before,
         UNCHANGED <<job, bounds, counted, ruled>>,
         node'.evidence =
           node.evidence + B(pass[p].pc = "touch" /\ Asked(p).count /\ pass[p].seen \notin Oversize)
  PROVE  /\ pass'[p] = new /\ PassOK'
         /\ OneAtATime' /\ WorkerHasJob' /\ Accounts' /\ BeforeLinking(p)'
         /\ \A q \in Processes \ {p} : PassWell(q)'
<1>1. pass \in [Processes -> Pass] /\ PassOK'
  BY DEF IndexerInv, StateOK, PassOK
<1>2. pass'[p] = new /\ \A q \in Processes \ {p} : pass'[q] = pass[q]
  BY <1>1
<1>3. \A q \in Processes \ {p} : Rests(q) /\ Rests(q)'
  BY <1>2, OthersRest DEF Rests
<1>4. /\ AnyStarted <=> pass[p].pc \in Started
      /\ AnyUsed <=> Used(p)
      /\ AnyCaller <=> p # Worker
      /\ Under(Worker) <=> p = Worker
  BY <1>3, TheOneDecides DEF OneDecides
<1>5. /\ OneAtATime' /\ ~AnyStarted' /\ Under(p)' /\ ~(new.pc \in Started)
      /\ AnyUsed' <=> Used(p)'
      /\ AnyCaller' <=> p # Worker
      /\ Under(Worker)' <=> p = Worker
  <2>1. Under(p)' /\ pass'[p].pc \notin Started
    BY <1>2 DEF Under
  <2>2. /\ OneAtATime'
        /\ AnyStarted' <=> pass'[p].pc \in Started
        /\ AnyUsed' <=> Used(p)'
        /\ AnyCaller' <=> (Under(p)' /\ p # Worker)
        /\ p # Worker => ~Under(Worker)'
    BY <1>3, StillWell DEF OneDecides
  <2>. QED
    BY <2>1, <2>2
<1>6. WorkerHasJob'
  BY <1>4, <1>5 DEF IndexerInv, WorkerHasJob
<1>7. (Queued' <=> Queued) /\ (HasJob' <=> HasJob) /\ (AnyCaller' <=> AnyCaller)
  BY <1>4, <1>5 DEF Queued, HasJob
<1>8. pass'[Worker].failed = pass[Worker].failed
  BY <1>2, Processing
<1>9. Used(p)' <=> Used(p) \/ (pass[p].pc = "touch" /\ Asked(p).count /\ pass[p].seen \notin Oversize)
  <2>1. Asked(p)' = Asked(p)
    BY <1>2 DEF Asked
  <2>. QED
    BY <1>2, <1>5, <2>1 DEF Used, Started
<1>10. Accounts'
  <2>1. UNCHANGED <<job, events, faults, counted>>
    BY DEF bounds
  <2>2. AttemptsPaid' /\ EndsPaid'
    BY <1>7, <2>1 DEF IndexerInv, Accounts, AttemptsPaid, EndsPaid, B
  <2>3. UsesPaid'
    <3>1. node.evidence + B(Queued) + B(AnyStarted) + B(pass[Worker].failed) <= events + faults
      BY DEF IndexerInv, Accounts, UsesPaid
    <3>2. /\ node.evidence \in Nat /\ events \in Nat /\ faults \in Nat
      BY Numbers DEF IndexerInv
    <3>3. B(Queued)' = B(Queued) /\ B(pass[Worker].failed)' = B(pass[Worker].failed)
      BY <1>7, <1>8 DEF B
    <3>4. B(Queued) \in Nat /\ B(pass[Worker].failed) \in Nat /\ B(AnyStarted)' = 0
      BY <1>5 DEF B
    <3>5. node'.evidence <= node.evidence + B(AnyStarted) /\ node'.evidence \in Nat /\ B(AnyStarted) \in Nat
      BY <1>4, <3>2 DEF B, Started
    <3>. QED
      BY <2>1, <3>1, <3>2, <3>3, <3>4, <3>5 DEF UsesPaid
  <2>4. UsesKept'
    <3>1. counted + B(AnyUsed) <= node.evidence
      BY DEF IndexerInv, Accounts, UsesKept
    <3>2. counted \in Nat /\ node.evidence \in Nat
      BY Numbers DEF IndexerInv
    <3>3. ~(Used(p) /\ pass[p].pc = "touch")
      BY DEF Used, Started
    <3>. QED
      BY <1>4, <1>5, <1>9, <2>1, <3>1, <3>2, <3>3 DEF UsesKept, B
  <2>. QED
    BY <2>2, <2>3, <2>4 DEF Accounts
<1>11. BeforeLinking(p)'
  <2>1. BeforeLinking(p)
    BY DEF IndexerInv, PassWell
  <2>. QED
    BY <1>2, <1>5, <2>1 DEF BeforeLinking, Started
<1>12. ASSUME NEW q \in Processes \ {p}
       PROVE  PassWell(q)'
  <2>1. PassWell(q) /\ pass'[q] = pass[q] /\ Rests(q)'
    BY <1>2, <1>3 DEF IndexerInv
  <2>2. BeforeLinking(q)'
    BY <2>1 DEF PassWell, BeforeLinking, Under
  <2>. QED
    BY <2>1, <2>2, StillWell DEF RestsWell, PassWell
<1>. QED
  BY <1>1, <1>2, <1>5, <1>6, <1>10, <1>11, <1>12


Properties(evidence) ==
  [hash : Texts \cup {None}, extractor : Signatures \cup {None}, evidence : evidence,
   analysis : Texts \cup {None}]

(* The parts of the invariant give the whole: accounts bound the counters. *)
LEMMA PartsMakeWhole ==
  ASSUME IndexerInv, StoreOK', node' \in Properties(Nat), PassOK', BoundsOK', cut' \in BOOLEAN,
         job'.status \in {"none", "pending", "running"}, job'.kind \in Kinds \cup {"evidence"},
         job'.attempts \in Nat,
         job' = [status |-> job'.status, kind |-> job'.kind, attempts |-> job'.attempts],
         counted' \in Nat,
         OneAtATime', WorkerHasJob', Accounts', \A q \in Processes : PassWell(q)'
  PROVE  IndexerInv'
<1>1. node'.evidence \in Nat /\ events' \in 0 .. MaxEvents /\ faults' \in 0 .. MaxFaults
  BY DEF Properties, BoundsOK
<1>2. /\ job'.attempts \in 0 .. MaxAttempts + MaxFaults
      /\ node'.evidence \in 0 .. MaxEvents + MaxFaults
      /\ counted' \in 0 .. MaxEvents
  BY <1>1, StillWell DEF BoundsFollow
<1>3. NodeOK'
  BY <1>2 DEF NodeOK, Properties
<1>4. JobOK'
  BY <1>2 DEF JobOK
<1>5. CountsOK'
  BY <1>2 DEF CountsOK
<1>6. StateOK'
  BY <1>3, <1>4, <1>5, PartsOfType DEF TypeParts
<1>. QED
  BY <1>6 DEF IndexerInv


LEMMA InsideInv ==
  ASSUME IndexerInv, NEW p \in Processes, Under(p), pass[p].pc # "fetch",
         NEW new \in Pass, pass' = [pass EXCEPT ![p] = new],
         new.pc \in Active \ Started, new.kind = pass[p].kind, new.seen = pass[p].seen,
         new.failed = pass[p].failed, new.before = pass[p].before,
         UNCHANGED <<job, bounds, counted, ruled>>,
         StoreOK', node' \in Properties(Nat), cut' \in BOOLEAN,
         node'.evidence =
           node.evidence + B(pass[p].pc = "touch" /\ Asked(p).count /\ pass[p].seen \notin Oversize),
         WhileLinking(p)', AfterLinking(p)'
  PROVE  IndexerInv'
<1>1. /\ PassOK' /\ OneAtATime' /\ WorkerHasJob' /\ Accounts' /\ BeforeLinking(p)'
      /\ \A q \in Processes \ {p} : PassWell(q)'
  BY Inside
<1>2. \A q \in Processes : PassWell(q)'
  BY <1>1 DEF PassWell
<1>3. /\ job' = job /\ counted' = counted /\ BoundsOK'
  BY PartsOfType DEF bounds, IndexerInv, TypeParts, BoundsOK
<1>4. /\ job \in [status : {"none", "pending", "running"}, kind : Kinds \cup {"evidence"},
                  attempts : 0 .. MaxAttempts + MaxFaults]
      /\ counted \in Nat
  BY DEF IndexerInv, StateOK
<1>5. job.attempts \in Nat
  BY Numbers DEF IndexerInv
<1>. QED
  BY <1>1, <1>2, <1>3, <1>4, <1>5, PartsMakeWhole

(* What a pass is, field by field.                                         *)
LEMMA PassFields ==
  ASSUME NEW me \in Pass
  PROVE  /\ me.pc \in Active \cup {"idle", "down"} /\ me.kind \in Kinds \cup {"evidence"}
         /\ me.seen \in Texts /\ me.failed \in BOOLEAN /\ me.reindex \in BOOLEAN
         /\ me.summarize \in BOOLEAN
         /\ me.forms \subseteq Names /\ me.left \subseteq Names /\ me.before \subseteq Names
BY DEF Pass

(* A pass that only goes on.                                               *)
LEMMA GoesOn ==
  ASSUME NEW me \in Pass, NEW pc \in Active
  PROVE  LET new == [me EXCEPT !.pc = pc] IN
         /\ new \in Pass /\ new.pc = pc /\ new.kind = me.kind /\ new.seen = me.seen
         /\ new.failed = me.failed /\ new.before = me.before /\ new.reindex = me.reindex
         /\ new.forms = me.forms /\ new.left = me.left
BY DEF Pass

LEMMA Here ==
  ASSUME IndexerInv, NEW p \in Processes, NEW pc \in Active, At(p, pc)
  PROVE  /\ pass[p] \in Pass /\ Under(p) /\ pass[p].pc = pc
         /\ StoreOK /\ node \in Properties(Nat) /\ cut \in BOOLEAN /\ PassWell(p)
<1>1. NodeOK /\ StoreOK /\ pass \in [Processes -> Pass] /\ cut \in BOOLEAN
  BY PartsOfType DEF IndexerInv, TypeParts, PassOK, CountsOK
<1>2. node \in Properties(Nat)
  <2>1. MaxEvents \in Nat /\ MaxFaults \in Nat
    BY IndexerAssumption
  <2>. QED
    BY <1>1, <2>1 DEF NodeOK, Properties
<1>. QED
  BY <1>1, <1>2 DEF IndexerInv, At, Under

(* A step that counts nothing.                                             *)
LEMMA QuietStep ==
  ASSUME IndexerInv, NEW p \in Processes, Under(p), pass[p].pc \notin Started,
         NEW new \in Pass, pass' = [pass EXCEPT ![p] = new],
         new.pc \in Active \ Started, new.kind = pass[p].kind, new.seen = pass[p].seen,
         new.failed = pass[p].failed, new.before = pass[p].before,
         UNCHANGED <<job, bounds, counted, ruled>>,
         StoreOK', node' \in Properties(Nat), cut' \in BOOLEAN,
         node'.evidence = node.evidence,
         WhileLinking(p)', AfterLinking(p)'
  PROVE  IndexerInv'
<1>1. node.evidence \in Nat
  BY Numbers DEF IndexerInv
<1>2. pass[p].pc # "fetch" /\ pass[p].pc # "touch"
  BY DEF Started
<1>3. node'.evidence =
        node.evidence + B(pass[p].pc = "touch" /\ Asked(p).count /\ pass[p].seen \notin Oversize)
  BY <1>1, <1>2 DEF B
<1>. QED
  BY <1>2, <1>3, InsideInv

LEMMA MailInv ==
  ASSUME IndexerInv, NEW p \in Processes, AttachMail(p)
  PROVE  IndexerInv'
<1> DEFINE pc == IF ~pass[p].reindex THEN "summary"
                 ELSE IF Asked(p).discover THEN "discover" ELSE "forms"
           new == [pass[p] EXCEPT !.pc = pc]
<1>1. /\ pass[p] \in Pass /\ Under(p) /\ pass[p].pc = "mail"
      /\ StoreOK /\ node \in Properties(Nat) /\ cut \in BOOLEAN /\ PassWell(p)
  BY Here DEF AttachMail, Active
<1>2. pc \in Active \ Started /\ (pc = "summary" => ~pass[p].reindex) /\ pc \notin {"rulings", "write", "unclaim", "claim", "end"}
  BY DEF Active, Started
<1> HIDE DEF pc
<1>3. /\ new \in Pass /\ new.pc = pc /\ new.kind = pass[p].kind /\ new.seen = pass[p].seen
      /\ new.failed = pass[p].failed /\ new.before = pass[p].before
      /\ new.reindex = pass[p].reindex
  BY <1>1, <1>2, GoesOn
<1>4. pass' = [pass EXCEPT ![p] = new] /\ UNCHANGED <<job, bounds, counted, ruled, node, cut>>
  BY DEF AttachMail, Go, pc, history
<1> HIDE DEF new
<1>5. pass'[p] = new
  BY <1>4 DEF IndexerInv, StateOK
<1>6. WhileLinking(p)' /\ AfterLinking(p)'
  BY <1>2, <1>3, <1>5 DEF WhileLinking, AfterLinking
<1>7. StoreOK'
  BY <1>1 DEF AttachMail, StoreOK
<1>. QED
  BY <1>1, <1>2, <1>3, <1>4, <1>6, <1>7, QuietStep DEF Started


(* The names of a text.                                                    *)
LEMMA NamesOfText ==
  ASSUME NEW v \in Texts
  PROVE  In[v] \subseteq Names /\ Admitted(v) \subseteq In[v]
BY IndexerAssumption DEF Admitted

LEMMA DiscoverInv ==
  ASSUME IndexerInv, NEW p \in Processes, Discover(p)
  PROVE  IndexerInv'
<1> DEFINE new == [pass[p] EXCEPT !.pc = "forms"]
<1>1. /\ pass[p] \in Pass /\ Under(p) /\ pass[p].pc = "discover"
      /\ StoreOK /\ node \in Properties(Nat) /\ cut \in BOOLEAN /\ PassWell(p)
  BY Here DEF Discover, Active
<1>3. /\ new \in Pass /\ new.pc = "forms" /\ new.kind = pass[p].kind /\ new.seen = pass[p].seen
      /\ new.failed = pass[p].failed /\ new.before = pass[p].before
  BY ZenonT(60), <1>1, GoesOn DEF Active
<1>4. pass' = [pass EXCEPT ![p] = new] /\ UNCHANGED <<job, bounds, counted, ruled, node, cut>>
  BY DEF Discover, Go, history
<1> HIDE DEF new
<1>5. pass'[p] = new
  BY <1>4 DEF IndexerInv, StateOK
<1>6. WhileLinking(p)' /\ AfterLinking(p)'
  BY <1>3, <1>5 DEF WhileLinking, AfterLinking
<1>7. StoreOK'
  <2>1. PICK S : known' = known \cup (S \cap Admitted(pass[p].seen))
    BY DEF Discover
  <2>2. Admitted(pass[p].seen) \subseteq Names
    BY <1>1, PassFields, NamesOfText
  <2>. QED
    BY <1>1, <2>1, <2>2 DEF Discover, StoreOK
<1>8. new.pc \in Active \ Started /\ pass[p].pc \notin Started
  BY <1>1, <1>3 DEF Active, Started
<1>. QED
  BY <1>1, <1>3, <1>4, <1>6, <1>7, <1>8, QuietStep

LEMMA FormsInv ==
  ASSUME IndexerInv, NEW p \in Processes, ReadForms(p)
  PROVE  IndexerInv'
<1> DEFINE new == [pass[p] EXCEPT !.pc = "clear", !.forms = known]
<1>1. /\ pass[p] \in Pass /\ Under(p) /\ pass[p].pc = "forms"
      /\ StoreOK /\ node \in Properties(Nat) /\ cut \in BOOLEAN /\ PassWell(p)
  BY Here DEF ReadForms, Active
<1>2. known \in SUBSET Names /\ "clear" \in Active
  BY <1>1 DEF StoreOK, Active
<1>3. /\ new \in Pass /\ new.pc = "clear" /\ new.kind = pass[p].kind /\ new.seen = pass[p].seen
      /\ new.failed = pass[p].failed /\ new.before = pass[p].before
  BY <1>1, <1>2 DEF Pass
<1>4. pass' = [pass EXCEPT ![p] = new] /\ UNCHANGED <<job, bounds, counted, store, cut>>
  BY DEF ReadForms, history
<1> HIDE DEF new
<1>5. pass'[p] = new
  BY <1>4 DEF IndexerInv, StateOK
<1>6. WhileLinking(p)' /\ AfterLinking(p)'
  BY <1>3, <1>5 DEF WhileLinking, AfterLinking
<1>7. StoreOK' /\ UNCHANGED <<ruled, node>>
  BY <1>1 DEF ReadForms, StoreOK, store
<1>8. new.pc \in Active \ Started /\ pass[p].pc \notin Started
  BY <1>1, <1>3 DEF Active, Started
<1>. QED
  BY <1>1, <1>3, <1>4, <1>6, <1>7, <1>8, QuietStep

LEMMA ClearInv ==
  ASSUME IndexerInv, NEW p \in Processes, Clear(p)
  PROVE  IndexerInv'
<1> DEFINE new == [pass[p] EXCEPT !.pc = "rulings"]
<1>1. /\ pass[p] \in Pass /\ Under(p) /\ pass[p].pc = "clear"
      /\ StoreOK /\ node \in Properties(Nat) /\ cut \in BOOLEAN /\ PassWell(p)
  BY Here DEF Clear, Active
<1>3. /\ new \in Pass /\ new.pc = "rulings" /\ new.kind = pass[p].kind /\ new.seen = pass[p].seen
      /\ new.failed = pass[p].failed /\ new.before = pass[p].before
  BY ZenonT(60), <1>1, GoesOn DEF Active
<1>4. pass' = [pass EXCEPT ![p] = new] /\ UNCHANGED <<job, bounds, counted, ruled, node, cut>>
  BY DEF Clear, Go, history
<1> HIDE DEF new
<1>5. pass'[p] = new
  BY <1>4 DEF IndexerInv, StateOK
<1>6. WhileLinking(p)' /\ AfterLinking(p)'
  BY <1>3, <1>5 DEF Clear, WhileLinking, AfterLinking
<1>7. StoreOK'
  BY <1>1 DEF Clear, StoreOK
<1>8. new.pc \in Active \ Started /\ pass[p].pc \notin Started
  BY <1>1, <1>3 DEF Active, Started
<1>. QED
  BY <1>1, <1>3, <1>4, <1>6, <1>7, <1>8, QuietStep

(* The curator's rulings are laid over what was detected: nothing rejected *)
(* before the pass began is left to link.                                  *)
LEMMA RulingsInv ==
  ASSUME IndexerInv, NEW p \in Processes, ReadRulings(p)
  PROVE  IndexerInv'
<1> DEFINE names == Detected(p) \ ruled
           new == [pass[p] EXCEPT !.pc = "write", !.left = names]
<1>1. /\ pass[p] \in Pass /\ Under(p) /\ pass[p].pc = "rulings"
      /\ StoreOK /\ node \in Properties(Nat) /\ cut \in BOOLEAN /\ PassWell(p)
  BY Here DEF ReadRulings, Active
<1>2. names \in SUBSET Names
  BY <1>1, PassFields DEF Detected
<1>3. /\ new \in Pass /\ new.pc = "write" /\ new.kind = pass[p].kind /\ new.seen = pass[p].seen
      /\ new.failed = pass[p].failed /\ new.before = pass[p].before
      /\ new.forms = pass[p].forms /\ new.left = names
  <2>1. "write" \in Active
    BY DEF Active
  <2> HIDE DEF names
  <2>. QED
    BY <1>1, <1>2, <2>1 DEF Pass
<1>4. pass' = [pass EXCEPT ![p] = new] /\ UNCHANGED <<job, bounds, counted, store, cut>>
  BY DEF ReadRulings, history, Detected
<1> HIDE DEF new
<1>5. pass'[p] = new /\ Detected(p)' = Detected(p)
  BY <1>3, <1>4 DEF IndexerInv, StateOK, Detected
<1>6. WhileLinking(p)' /\ AfterLinking(p)'
  <2>1. rows = {} /\ rows' = {} /\ ruled' = ruled
    BY <1>1, <1>4 DEF PassWell, WhileLinking, store
  <2>2. pass[p].before \subseteq ruled
    BY <1>1 DEF PassWell, BeforeLinking
  <2>3. Linked(rows)' = {}
    BY <2>1 DEF Linked
  <2>4. OfText(pass[p].seen)'
    BY <2>1 DEF OfText
  <2>5. /\ \A n \in Linked(rows)' \cup pass'[p].left : n \notin pass'[p].before
        /\ Detected(p)' \ ruled' \subseteq Linked(rows)' \cup pass'[p].left
    BY <1>3, <1>5, <2>1, <2>2, <2>3
  <2>6. pass'[p].pc = "write"
    BY <1>3, <1>5
  <2>. QED
    BY <2>4, <2>5, <2>6 DEF WhileLinking, AfterLinking
<1>7. StoreOK' /\ UNCHANGED <<ruled, node>>
  BY <1>1 DEF ReadRulings, StoreOK, store
<1>8. new.pc \in Active \ Started /\ pass[p].pc \notin Started
  BY <1>1, <1>3 DEF Active, Started
<1>. QED
  BY <1>1, <1>3, <1>4, <1>6, <1>7, <1>8, QuietStep


(* Adding one link.                                                        *)
LEMMA LinkedMore ==
  ASSUME NEW links, NEW n, NEW v
  PROVE  Linked(links \cup {<<n, v>>}) = Linked(links) \cup {n}
<1>1. ASSUME NEW x \in Linked(links \cup {<<n, v>>})
      PROVE  x \in Linked(links) \cup {n}
  <2>1. PICK r \in links \cup {<<n, v>>} : x = r[1]
    BY <1>1 DEF Linked
  <2>. QED
    BY <2>1 DEF Linked
<1>2. ASSUME NEW x \in Linked(links)
      PROVE  x \in Linked(links \cup {<<n, v>>})
  <2>1. PICK r \in links : x = r[1]
    BY <1>2 DEF Linked
  <2>. QED
    BY <2>1 DEF Linked
<1>3. n \in Linked(links \cup {<<n, v>>})
  <2>1. <<n, v>> \in links \cup {<<n, v>>} /\ n = <<n, v>>[1]
    OBVIOUS
  <2>. QED
    BY <2>1 DEF Linked
<1>. QED
  BY <1>1, <1>2, <1>3

LEMMA WriteInv ==
  ASSUME IndexerInv, NEW p \in Processes, WriteMention(p)
  PROVE  IndexerInv'
<1>0. PICK n \in pass[p].left :
        /\ rows' = rows \cup {<<n, pass[p].seen>>}
        /\ pass' = [pass EXCEPT ![p].left = @ \ {n}]
  BY DEF WriteMention
<1> DEFINE names == pass[p].left \ {n}
           new == [pass[p] EXCEPT !.left = names]
<1>1. /\ pass[p] \in Pass /\ Under(p) /\ pass[p].pc = "write"
      /\ StoreOK /\ node \in Properties(Nat) /\ cut \in BOOLEAN /\ PassWell(p)
  BY Here DEF WriteMention, Active
<1>2. names \in SUBSET Names /\ n \in Names /\ pass[p].seen \in Texts
  BY <1>1, PassFields
<1>3. /\ new \in Pass /\ new.pc = "write" /\ new.kind = pass[p].kind /\ new.seen = pass[p].seen
      /\ new.failed = pass[p].failed /\ new.before = pass[p].before
      /\ new.forms = pass[p].forms /\ new.left = names
  <2> HIDE DEF names
  <2>. QED
    BY <1>1, <1>2 DEF Pass
<1>4. /\ pass' = [pass EXCEPT ![p] = new]
      /\ UNCHANGED <<job, bounds, counted, ruled, node, cut, text, mail, known, claims>>
  BY <1>0 DEF WriteMention, history
<1> HIDE DEF new
<1>5. pass'[p] = new /\ Detected(p)' = Detected(p)
  BY <1>3, <1>4 DEF IndexerInv, StateOK, Detected
<1>6. WhileLinking(p)' /\ AfterLinking(p)'
  <2>1. /\ OfText(pass[p].seen)
        /\ \A m \in Linked(rows) \cup pass[p].left : m \notin pass[p].before
        /\ Detected(p) \ ruled \subseteq Linked(rows) \cup pass[p].left
    BY <1>1 DEF PassWell, WhileLinking
  <2>2. Linked(rows)' = Linked(rows) \cup {n}
    BY <1>0, LinkedMore
  <2>3. OfText(pass[p].seen)'
    BY <1>0, <1>3, <1>5, <2>1 DEF OfText
  <2>4. /\ \A m \in Linked(rows)' \cup pass'[p].left : m \notin pass'[p].before
        /\ Detected(p)' \ ruled' \subseteq Linked(rows)' \cup pass'[p].left
    BY <1>3, <1>4, <1>5, <2>1, <2>2
  <2>5. pass'[p].pc = "write"
    BY <1>3, <1>5
  <2>. QED
    BY <2>3, <2>4, <2>5 DEF WhileLinking, AfterLinking
<1>7. StoreOK'
  BY <1>0, <1>1, <1>2, <1>4 DEF StoreOK
<1>8. new.pc \in Active \ Started /\ pass[p].pc \notin Started
  BY <1>1, <1>3 DEF Active, Started
<1>. QED
  BY <1>1, <1>3, <1>4, <1>6, <1>7, <1>8, QuietStep

(* With nothing left to link the hash vouches for exactly what is linked.  *)
LEMMA VouchInv ==
  ASSUME IndexerInv, NEW p \in Processes, Vouch(p)
  PROVE  IndexerInv'
<1> DEFINE pc == IF Asked(p).relate THEN "unclaim" ELSE "summary"
           new == [pass[p] EXCEPT !.pc = pc]
<1>1. /\ pass[p] \in Pass /\ Under(p) /\ pass[p].pc = "write"
      /\ StoreOK /\ node \in Properties(Nat) /\ cut \in BOOLEAN /\ PassWell(p)
  BY Here DEF Vouch, Active
<1>2. pc \in Active \ Started /\ pc \notin {"rulings", "write"}
  BY DEF Active, Started
<1>3. /\ new \in Pass /\ new.pc = pc /\ new.kind = pass[p].kind /\ new.seen = pass[p].seen
      /\ new.failed = pass[p].failed /\ new.before = pass[p].before
      /\ new.forms = pass[p].forms
  <2> HIDE DEF pc
  <2>. QED
    BY <1>1, <1>2, GoesOn
<1>4. /\ pass' = [pass EXCEPT ![p] = new] /\ cut' = FALSE
      /\ UNCHANGED <<job, bounds, counted, ruled, rows, text, mail, known, claims>>
      /\ node' = [node EXCEPT !.hash = pass[p].seen, !.extractor = Asked(p).signature]
  BY DEF Vouch, Go
<1> HIDE DEF new, pc
<1>5. pass'[p] = new /\ Detected(p)' = Detected(p)
  BY <1>3, <1>4 DEF IndexerInv, StateOK, Detected
<1>6. /\ node' \in Properties(Nat) /\ node'.evidence = node.evidence
      /\ node'.hash = pass[p].seen
  <2>1. Asked(p).signature \in Signatures /\ pass[p].seen \in Texts
    BY <1>1, PassFields DEF Asked, Demand, Signatures, Full
  <2>. QED
    BY <1>1, <1>4, <2>1 DEF Properties
<1>7. WhileLinking(p)' /\ AfterLinking(p)'
  <2>1. pass[p].left = {}
    BY DEF Vouch
  <2>2. OfText(pass[p].seen) /\ Detected(p) \ ruled \subseteq Linked(rows)
    BY <1>1, <2>1 DEF PassWell, WhileLinking
  <2>3. OfText(pass[p].seen)'
    BY <1>3, <1>4, <1>5, <2>2 DEF OfText
  <2>4. node'.hash = pass'[p].seen /\ Detected(p)' \ ruled' \subseteq Linked(rows)'
    BY <1>3, <1>4, <1>5, <1>6, <2>2
  <2>5. pass'[p].pc \notin {"rulings", "write"}
    BY <1>2, <1>3, <1>5
  <2>. QED
    BY <2>3, <2>4, <2>5 DEF WhileLinking, AfterLinking
<1>8. StoreOK' /\ cut' \in BOOLEAN
  BY <1>1, <1>4 DEF StoreOK
<1>9. new.pc \in Active \ Started /\ pass[p].pc \notin Started
  BY <1>1, <1>2, <1>3 DEF Started
<1>. QED
  BY <1>1, <1>3, <1>4, <1>6, <1>7, <1>8, <1>9, QuietStep

(* What is linked stays while claims and summary are written.              *)
LEMMA LinkedStays ==
  ASSUME IndexerInv, NEW p \in Processes,
         NEW pc \in Active \ (Started \cup {"rulings", "write"}), Under(p), PassWell(p),
         pass' = [pass EXCEPT ![p] = [pass[p] EXCEPT !.pc = pc]],
         UNCHANGED <<rows, ruled>>, node'.hash = node.hash,
         pass[p].pc \in {"unclaim", "claim"} \/ (pass[p].pc \in {"summary", "end"} /\ pass[p].reindex)
           \/ ~(pc \in {"unclaim", "claim"} \/ (pc \in {"summary", "end"} /\ pass[p].reindex))
  PROVE  WhileLinking(p)' /\ AfterLinking(p)'
<1>1. pass[p] \in Pass /\ pass'[p] = [pass[p] EXCEPT !.pc = pc]
  BY DEF IndexerInv, StateOK
<1>2. /\ pass'[p].pc = pc /\ pass'[p].seen = pass[p].seen /\ pass'[p].forms = pass[p].forms
      /\ pass'[p].reindex = pass[p].reindex
  BY <1>1 DEF Pass
<1>3. Detected(p)' = Detected(p) /\ Linked(rows)' = Linked(rows)
  BY <1>2 DEF Detected, Linked
<1>4. OfText(pass[p].seen)' <=> OfText(pass[p].seen)
  BY <1>2 DEF OfText
<1>5. AfterLinking(p)
  BY DEF PassWell
<1>. QED
  BY <1>2, <1>3, <1>4, <1>5 DEF WhileLinking, AfterLinking


LEMMA UnclaimInv ==
  ASSUME IndexerInv, NEW p \in Processes, Unclaim(p)
  PROVE  IndexerInv'
<1> DEFINE new == [pass[p] EXCEPT !.pc = "claim"]
<1>1. /\ pass[p] \in Pass /\ Under(p) /\ pass[p].pc = "unclaim"
      /\ StoreOK /\ node \in Properties(Nat) /\ cut \in BOOLEAN /\ PassWell(p)
  BY Here DEF Unclaim, Active
<1>2. "claim" \in Active \ (Started \cup {"rulings", "write"})
  BY DEF Active, Started
<1>3. /\ new \in Pass /\ new.pc = "claim" /\ new.kind = pass[p].kind /\ new.seen = pass[p].seen
      /\ new.failed = pass[p].failed /\ new.before = pass[p].before
  BY <1>1, GoesOn DEF Active
<1>4. /\ pass' = [pass EXCEPT ![p] = new]
      /\ UNCHANGED <<job, bounds, counted, ruled, rows, node, cut, text, mail, known>>
  BY DEF Unclaim, Go, history
<1>5. WhileLinking(p)' /\ AfterLinking(p)'
  BY <1>1, <1>2, <1>4, LinkedStays
<1>6. StoreOK'
  BY <1>1, <1>4 DEF Unclaim, StoreOK
<1> HIDE DEF new
<1>. QED
  BY <1>1, <1>2, <1>3, <1>4, <1>5, <1>6, QuietStep DEF Started

LEMMA ClaimsInv ==
  ASSUME IndexerInv, NEW p \in Processes, WriteClaims(p)
  PROVE  IndexerInv'
<1> DEFINE new == [pass[p] EXCEPT !.pc = "summary"]
<1>1. /\ pass[p] \in Pass /\ Under(p) /\ pass[p].pc = "claim"
      /\ StoreOK /\ node \in Properties(Nat) /\ cut \in BOOLEAN /\ PassWell(p)
  BY Here DEF WriteClaims, Active
<1>2. "summary" \in Active \ (Started \cup {"rulings", "write"})
  BY DEF Active, Started
<1>3. /\ new \in Pass /\ new.pc = "summary" /\ new.kind = pass[p].kind /\ new.seen = pass[p].seen
      /\ new.failed = pass[p].failed /\ new.before = pass[p].before
  BY <1>1, GoesOn DEF Active
<1>4. /\ pass' = [pass EXCEPT ![p] = new]
      /\ UNCHANGED <<job, bounds, counted, ruled, rows, node, cut, text, mail, known>>
  BY DEF WriteClaims, Go, history
<1>5. WhileLinking(p)' /\ AfterLinking(p)'
  BY <1>1, <1>2, <1>4, LinkedStays
<1>6. StoreOK'
  <2>1. PICK found \in Related(pass[p].seen, pass[p].forms) : claims' = claims \cup found
    BY DEF WriteClaims
  <2>2. found \subseteq {pass[p].seen}
    BY <2>1 DEF Related
  <2>3. pass[p].seen \in Texts
    BY <1>1, PassFields
  <2>. QED
    BY <1>1, <1>4, <2>1, <2>2, <2>3 DEF StoreOK
<1> HIDE DEF new
<1>. QED
  BY <1>1, <1>2, <1>3, <1>4, <1>5, <1>6, QuietStep DEF Started

LEMMA SummaryInv ==
  ASSUME IndexerInv, NEW p \in Processes, Summarize(p)
  PROVE  IndexerInv'
<1> DEFINE new == [pass[p] EXCEPT !.pc = "end"]
<1>1. /\ pass[p] \in Pass /\ Under(p) /\ pass[p].pc = "summary"
      /\ StoreOK /\ node \in Properties(Nat) /\ cut \in BOOLEAN /\ PassWell(p)
  BY Here DEF Summarize, Active
<1>2. "end" \in Active \ (Started \cup {"rulings", "write"})
  BY DEF Active, Started
<1>3. /\ new \in Pass /\ new.pc = "end" /\ new.kind = pass[p].kind /\ new.seen = pass[p].seen
      /\ new.failed = pass[p].failed /\ new.before = pass[p].before
  BY <1>1, GoesOn DEF Active
<1>4. /\ pass' = [pass EXCEPT ![p] = new]
      /\ UNCHANGED <<job, bounds, counted, ruled, rows, cut, text, mail, known, claims>>
  BY DEF Summarize, Go, history
<1>5. node' \in Properties(Nat) /\ node'.evidence = node.evidence /\ node'.hash = node.hash
  <2>1. pass[p].seen \in Texts
    BY <1>1, PassFields
  <2>. QED
    BY <1>1, <2>1 DEF Summarize, Properties
<1>6. WhileLinking(p)' /\ AfterLinking(p)'
  BY <1>1, <1>2, <1>4, <1>5, LinkedStays
<1>7. StoreOK'
  BY <1>1, <1>4 DEF StoreOK
<1> HIDE DEF new
<1>. QED
  BY <1>1, <1>2, <1>3, <1>4, <1>5, <1>6, <1>7, QuietStep DEF Started

(* Touching the document counts its use, and decides what there is to do.  *)
LEMMA TouchInv ==
  ASSUME IndexerInv, NEW p \in Processes, Touch(p)
  PROVE  IndexerInv'
<1> DEFINE stale == node.hash # pass[p].seen \/ node.extractor # Asked(p).signature
           anew == (stale \/ Asked(p).force) /\ pass[p].seen # Empty
           again == (node.analysis # pass[p].seen \/ Asked(p).force) /\ pass[p].seen # Empty
           new == [pass[p] EXCEPT !.pc = "mail", !.reindex = anew, !.summarize = again]
<1>1. /\ pass[p] \in Pass /\ Under(p) /\ pass[p].pc = "touch"
      /\ StoreOK /\ node \in Properties(Nat) /\ cut \in BOOLEAN /\ PassWell(p)
  BY Here DEF Touch, Active
<1>2. "mail" \in Active \ (Started \cup {"rulings", "write"})
  BY DEF Active, Started
<1>3. anew \in BOOLEAN /\ again \in BOOLEAN
  <2>1. Asked(p).force \in BOOLEAN
    BY DEF Asked, Demand
  <2>. QED
    BY <2>1
<1>4. /\ pass' = [pass EXCEPT ![p] = new]
      /\ UNCHANGED <<job, bounds, counted, ruled, rows, cut, text, mail, known, claims>>
      /\ node' = [node EXCEPT !.evidence = @ + (IF Asked(p).count THEN 1 ELSE 0)]
  BY DEF Touch, history
<1> HIDE DEF anew, again
<1>5. /\ new \in Pass /\ new.pc = "mail" /\ new.kind = pass[p].kind /\ new.seen = pass[p].seen
      /\ new.failed = pass[p].failed /\ new.before = pass[p].before
  BY <1>1, <1>2, <1>3 DEF Pass
<1> HIDE DEF new
<1>6. pass'[p] = new
  BY <1>4 DEF IndexerInv, StateOK
<1>7. WhileLinking(p)' /\ AfterLinking(p)'
  BY <1>5, <1>6 DEF WhileLinking, AfterLinking
<1>8. StoreOK'
  BY <1>1, <1>4 DEF StoreOK
<1>9. /\ node' \in Properties(Nat)
      /\ node'.evidence = node.evidence + B(Asked(p).count)
  <2>1. node.evidence \in Nat /\ (IF Asked(p).count THEN 1 ELSE 0) \in Nat
    BY <1>1 DEF Properties
  <2>. QED
    BY <1>1, <1>4, <2>1 DEF Properties, B
<1>10. pass[p].seen \notin Oversize /\ "touch" # "fetch"
  BY <1>1 DEF PassWell, BeforeLinking
<1>11. node'.evidence =
         node.evidence + B(pass[p].pc = "touch" /\ Asked(p).count /\ pass[p].seen \notin Oversize)
  BY <1>1, <1>9, <1>10 DEF B
<1>. QED
  BY <1>1, <1>2, <1>4, <1>5, <1>7, <1>8, <1>9, <1>10, <1>11, InsideInv

(* A step of the one process that may be in index_evidence.                *)
LEMMA SoloStep ==
  ASSUME IndexerInv, NEW p \in Processes, \A q \in Processes \ {p} : Rests(q),
         NEW new \in Pass, pass' = [pass EXCEPT ![p] = new], ruled' = ruled
  PROVE  /\ pass'[p] = new /\ PassOK' /\ (p # Worker => pass'[Worker] = pass[Worker])
         /\ OneAtATime'
         /\ \A q \in Processes \ {p} : PassWell(q)'
         /\ AnyStarted <=> pass[p].pc \in Started
         /\ AnyUsed <=> Used(p)
         /\ AnyCaller <=> (Under(p) /\ p # Worker)
         /\ p # Worker => ~Under(Worker)
         /\ AnyStarted' <=> new.pc \in Started
         /\ AnyUsed' <=> Used(p)'
         /\ AnyCaller' <=> (new.pc \in Active /\ p # Worker)
         /\ p # Worker => ~Under(Worker)'
         /\ Under(p)' <=> new.pc \in Active
<1>1. pass \in [Processes -> Pass] /\ PassOK'
  BY DEF IndexerInv, StateOK, PassOK
<1>2. pass'[p] = new /\ \A q \in Processes \ {p} : pass'[q] = pass[q]
  BY <1>1
<1>3. \A q \in Processes \ {p} : Rests(q)'
  BY <1>2 DEF Rests
<1>4. /\ AnyStarted <=> pass[p].pc \in Started
      /\ AnyUsed <=> Used(p)
      /\ AnyCaller <=> (Under(p) /\ p # Worker)
      /\ p # Worker => ~Under(Worker)
  BY TheOneDecides DEF OneDecides
<1>5. /\ OneAtATime'
      /\ AnyStarted' <=> pass'[p].pc \in Started
      /\ AnyUsed' <=> Used(p)'
      /\ AnyCaller' <=> (Under(p)' /\ p # Worker)
      /\ p # Worker => ~Under(Worker)'
  BY <1>3, StillWell DEF OneDecides
<1>6. Under(p)' <=> new.pc \in Active
  BY <1>2 DEF Under
<1>7. ASSUME NEW q \in Processes \ {p}
      PROVE  PassWell(q)'
  <2>1. PassWell(q) /\ pass'[q] = pass[q] /\ Rests(q)'
    BY <1>2, <1>3 DEF IndexerInv
  <2>2. BeforeLinking(q)'
    BY <2>1 DEF PassWell, BeforeLinking, Under
  <2>. QED
    BY <2>1, <2>2, StillWell DEF RestsWell, PassWell
<1>8. p # Worker => pass'[Worker] = pass[Worker]
  BY <1>2, Processing
<1>. QED
  BY <1>1, <1>2, <1>4, <1>5, <1>6, <1>7, <1>8

(* A failed fetch costs a fault, which pays for what the worker will count *)
(* when it tries again.                                                    *)
LEMMA FetchInv ==
  ASSUME IndexerInv, NEW p \in Processes, Fetch(p)
  PROVE  IndexerInv'
<1>0. PICK source \in Fetched(IF Asked(p).context THEN Snippet ELSE Empty) :
        /\ pass' = [pass EXCEPT
                      ![p].pc = IF source.seen \in Oversize THEN "end" ELSE "touch",
                      ![p].seen = source.seen, ![p].failed = source.failed]
        /\ faults' = faults + (IF source.failed THEN 1 ELSE 0) /\ faults' <= MaxFaults
  BY DEF Fetch
<1> DEFINE pc == IF source.seen \in Oversize THEN "end" ELSE "touch"
           new == [pass[p] EXCEPT !.pc = pc, !.seen = source.seen, !.failed = source.failed]
<1>1. /\ pass[p] \in Pass /\ Under(p) /\ pass[p].pc = "fetch"
      /\ StoreOK /\ node \in Properties(Nat) /\ cut \in BOOLEAN /\ PassWell(p)
  BY Here DEF Fetch, Active
<1>2. /\ source.seen \in Texts /\ source.failed \in BOOLEAN
  <2>1. PICK spare \in {Snippet, Empty} : source \in Fetched(spare)
    BY <1>0
  <2>2. text \in Texts /\ spare \in Texts
    BY <1>1 DEF StoreOK, Texts
  <2>3. \/ source = [seen |-> IF text = Empty THEN spare ELSE text, failed |-> FALSE]
        \/ source = [seen |-> spare, failed |-> TRUE]
    BY <2>1 DEF Fetched
  <2>4. (IF text = Empty THEN spare ELSE text) \in Texts
    BY <2>2
  <2>5. \/ source.seen = (IF text = Empty THEN spare ELSE text) /\ source.failed = FALSE
        \/ source.seen = spare /\ source.failed = TRUE
    BY <2>3
  <2>. QED
    BY <2>2, <2>4, <2>5
<1>3. /\ pc \in Active /\ pc \in {"touch", "end"} /\ pc \notin {"rulings", "write", "unclaim", "claim", "summary"}
      /\ pc = "end" => source.seen \in Oversize
      /\ pc = "touch" => source.seen \notin Oversize
  BY DEF Active
<1>4. /\ pass' = [pass EXCEPT ![p] = new]
      /\ UNCHANGED <<text, node, mail, known, ruled, rows, claims, job, counted, cut, events, edits, rulings>>
  BY <1>0 DEF Fetch, store, history
<1> HIDE DEF pc
<1>5. /\ new \in Pass /\ new.pc = pc /\ new.kind = pass[p].kind /\ new.seen = source.seen
      /\ new.failed = source.failed /\ new.before = pass[p].before /\ new.reindex = pass[p].reindex
  BY <1>1, <1>2, <1>3 DEF Pass
<1> HIDE DEF new
<1>6. \A q \in Processes \ {p} : Rests(q)
  BY <1>1, OthersRest
<1>7. /\ pass'[p] = new /\ PassOK' /\ (p # Worker => pass'[Worker] = pass[Worker])
      /\ OneAtATime'
      /\ \A q \in Processes \ {p} : PassWell(q)'
      /\ AnyStarted
      /\ AnyCaller <=> p # Worker
      /\ Under(Worker) <=> p = Worker
      /\ AnyUsed' <=> Used(p)'
      /\ AnyCaller' <=> p # Worker
      /\ Under(Worker)' <=> p = Worker
  BY <1>1, <1>3, <1>4, <1>5, <1>6, SoloStep DEF Started
<1>8. PassWell(p)'
  <2>1. BeforeLinking(p)'
    BY <1>1, <1>3, <1>4, <1>5, <1>7 DEF PassWell, BeforeLinking, Started, Under
  <2>2. ~pass'[p].reindex
    BY <1>1, <1>5, <1>7 DEF PassWell, BeforeLinking, Started
  <2>. QED
    BY <1>3, <1>5, <1>7, <2>1, <2>2 DEF PassWell, WhileLinking, AfterLinking
<1>9. ~Used(p)'
  BY <1>3, <1>5, <1>7 DEF Used, Started
<1>10. /\ events \in Nat /\ faults \in Nat /\ MaxFaults \in Nat /\ node.evidence \in Nat
       /\ counted \in Nat /\ job.attempts \in Nat /\ MaxAttempts \in Nat
  BY Numbers DEF IndexerInv
<1>11. faults' = faults + B(source.failed) /\ faults' \in 0 .. MaxFaults
  BY <1>0, <1>10 DEF B
<1>12. (Queued' <=> Queued) /\ (HasJob' <=> HasJob)
  BY <1>4, <1>7 DEF Queued, HasJob
<1>13. Accounts'
  <2>1. \A b : B(b) \in {0, 1}
    BY DEF B
  <2>2. AttemptsPaid' /\ EndsPaid'
    BY <1>4, <1>7, <1>10, <1>11, <1>12, <2>1 DEF IndexerInv, Accounts, AttemptsPaid, EndsPaid, B
  <2>3. UsesKept'
    BY <1>4, <1>7, <1>9, <1>10, <2>1 DEF IndexerInv, Accounts, UsesKept, B
  <2>4. UsesPaid'
    <3>1. node.evidence + B(Queued) + 1 + B(pass[Worker].failed) <= events + faults
      BY <1>7 DEF IndexerInv, Accounts, UsesPaid, B
    <3>2. B(Queued)' = B(Queued) /\ B(AnyStarted)' \in {0, 1}
      BY <1>12 DEF B
    <3>3. B(pass[Worker].failed)' <= B(pass[Worker].failed) + B(source.failed)
      BY <1>5, <1>7 DEF B
    <3>4. B(pass[Worker].failed) \in {0, 1} /\ B(pass[Worker].failed)' \in {0, 1}
      BY DEF B
    <3>. QED
      BY <1>4, <1>10, <1>11, <2>1, <3>1, <3>2, <3>3, <3>4 DEF UsesPaid
  <2>. QED
    BY <2>2, <2>3, <2>4 DEF Accounts
<1>14. StoreOK' /\ BoundsOK' /\ node' \in Properties(Nat) /\ cut' \in BOOLEAN
  BY <1>1, <1>4, <1>11, PartsOfType DEF StoreOK, BoundsOK, IndexerInv, TypeParts
<1>15. WorkerHasJob'
  BY <1>4, <1>7 DEF IndexerInv, WorkerHasJob
<1>16. job \in [status : {"none", "pending", "running"}, kind : Kinds \cup {"evidence"},
                attempts : 0 .. MaxAttempts + MaxFaults] /\ job' = job
  BY <1>4 DEF IndexerInv, StateOK
<1>17. \A q \in Processes : PassWell(q)'
  BY <1>7, <1>8
<1>. QED
  BY <1>4, <1>7, <1>10, <1>13, <1>14, <1>15, <1>16, <1>17, PartsMakeWhole

(* A pass begins: the process was idle and every other one is.             *)
LEMMA StartAlone ==
  ASSUME Alone, IndexerInv, NEW p \in Processes, MayStart(p)
  PROVE  /\ Rests(p) /\ \A q \in Processes \ {p} : Rests(q)
         /\ ~pass[p].failed
         /\ ~AnyStarted /\ ~AnyCaller /\ ~AnyUsed /\ ~Under(Worker)
<1>1. Others(p) = {} /\ pass[p].pc = "idle"
  BY DEF MayStart, Alone
<1>2. Rests(p) /\ \A q \in Processes \ {p} : Rests(q)
  BY <1>1 DEF Others, Rests, IndexerInv, StateOK, Pass
<1>3. \A q \in Processes : ~Under(q) /\ pass[q].pc \notin Started /\ ~Used(q)
  BY <1>2, RestingIsWell DEF RestsWell
<1>4. ~pass[p].failed
  BY <1>3 DEF IndexerInv, PassWell, BeforeLinking
<1>. QED
  BY <1>2, <1>3, <1>4, Processing DEF AnyStarted, AnyCaller, AnyUsed

(* What a pass is when it begins.                                          *)
Fresh(k) == [Idle EXCEPT !.pc = "fetch", !.kind = k, !.before = ruled]

LEMMA FreshIsWell ==
  ASSUME IndexerInv, NEW p \in Processes, NEW k \in Kinds \cup {"evidence"},
         pass'[p] = Fresh(k), ruled' = ruled
  PROVE  /\ Fresh(k).pc = "fetch" /\ "fetch" \in Active /\ "fetch" \in Started /\ ~Fresh(k).failed
         /\ PassWell(p)' /\ ~Used(p)'
<1>1. Fresh(k).pc = "fetch" /\ ~Fresh(k).failed /\ ~Fresh(k).reindex /\ Fresh(k).before = ruled
  BY DEF Fresh, Idle
<1>2. "fetch" \in Active /\ "fetch" \in Started
  BY DEF Active, Started
<1>3. ~Used(p)'
  BY <1>1, <1>2 DEF Used
<1>4. BeforeLinking(p)'
  BY <1>1, <1>2 DEF BeforeLinking, Under
<1>5. WhileLinking(p)' /\ AfterLinking(p)'
  BY <1>1 DEF WhileLinking, AfterLinking
<1>. QED
  BY <1>1, <1>2, <1>3, <1>4, <1>5 DEF PassWell

LEMMA FreshPass ==
  ASSUME StateOK, NEW k \in Kinds \cup {"evidence"}
  PROVE  Fresh(k) \in Pass
<1>1. ruled \in SUBSET Names
  BY DEF StateOK
<1>2. Idle \in Pass /\ "fetch" \in Active
  BY IdleWell DEF Active
<1>. QED
  BY <1>1, <1>2 DEF Fresh, Pass

(* The worker takes the job.  What the job was charged for while it waited *)
(* pays for the attempt and for the use it may count.                      *)
LEMMA ClaimInv ==
  ASSUME Alone, IndexerInv, Claim
  PROVE  IndexerInv'
<1>1. /\ MayStart(Worker) /\ job.status = "pending"
      /\ job' = [job EXCEPT !.status = "running", !.attempts = @ + 1]
      /\ pass' = [pass EXCEPT ![Worker] = Fresh(job.kind)]
      /\ UNCHANGED <<text, store, bounds, history>>
  BY DEF Claim, Fresh
<1>2. Worker \in Processes
  BY Processing
<1>3. /\ job \in [status : {"none", "pending", "running"}, kind : Kinds \cup {"evidence"},
                  attempts : 0 .. MaxAttempts + MaxFaults]
      /\ StateOK
  BY DEF IndexerInv, StateOK
<1>4. job.kind \in Kinds \cup {"evidence"} /\ ruled' = ruled
  BY <1>1, <1>3 DEF store
<1>5. Fresh(job.kind) \in Pass
  BY <1>3, <1>4, FreshPass
<1>6. /\ \A q \in Processes \ {Worker} : Rests(q)
      /\ ~pass[Worker].failed
      /\ ~AnyStarted /\ ~AnyCaller /\ ~AnyUsed /\ ~Under(Worker)
  BY <1>1, <1>2, StartAlone
<1>7. pass'[Worker] = Fresh(job.kind)
  BY <1>1, <1>2, <1>3 DEF StateOK
<1>8. /\ Fresh(job.kind).pc = "fetch" /\ "fetch" \in Active /\ "fetch" \in Started
      /\ ~Fresh(job.kind).failed
      /\ PassWell(Worker)' /\ ~Used(Worker)'
  BY <1>2, <1>4, <1>7, FreshIsWell
<1>9. /\ PassOK' /\ OneAtATime'
      /\ \A q \in Processes \ {Worker} : PassWell(q)'
      /\ AnyStarted' /\ ~AnyUsed' /\ ~AnyCaller' /\ Under(Worker)'
  <2> HIDE DEF Fresh
  <2>. QED
    BY <1>1, <1>2, <1>4, <1>5, <1>6, <1>8, SoloStep
<1>10. /\ events \in Nat /\ faults \in Nat /\ node.evidence \in Nat
       /\ counted \in Nat /\ job.attempts \in Nat /\ MaxAttempts \in Nat
  BY <1>3, Numbers
<1>11. /\ job'.status = "running" /\ job'.kind = job.kind /\ job'.attempts = job.attempts + 1
       /\ job' = [status |-> job'.status, kind |-> job'.kind, attempts |-> job'.attempts]
  BY <1>1, <1>3
<1>12. Queued /\ HasJob /\ ~Queued' /\ HasJob' /\ ~pass'[Worker].failed
  BY <1>1, <1>7, <1>8, <1>9, <1>11 DEF Queued, HasJob
<1>13. Accounts'
  <2>1. UNCHANGED <<node, events, faults, counted>>
    BY <1>1 DEF store, bounds, history
  <2>2. AttemptsPaid' /\ EndsPaid'
    BY <1>6, <1>9, <1>10, <1>11, <1>12, <2>1 DEF IndexerInv, Accounts, AttemptsPaid, EndsPaid, B
  <2>3. UsesPaid' /\ UsesKept'
    BY <1>6, <1>9, <1>10, <1>12, <2>1 DEF IndexerInv, Accounts, UsesPaid, UsesKept, B
  <2>. QED
    BY <2>2, <2>3 DEF Accounts
<1>14. StoreOK' /\ BoundsOK' /\ NodeOK /\ node' = node /\ cut' \in BOOLEAN
  BY <1>1, PartsOfType DEF StoreOK, BoundsOK, IndexerInv, TypeParts, store, bounds, history, CountsOK
<1>15. node' \in Properties(Nat)
  <2>1. MaxEvents \in Nat /\ MaxFaults \in Nat
    BY IndexerAssumption
  <2>. QED
    BY <1>14, <2>1 DEF NodeOK, Properties
<1>16. WorkerHasJob'
  BY <1>11 DEF WorkerHasJob
<1>17. \A q \in Processes : PassWell(q)'
  BY <1>8, <1>9
<1>18. counted' \in Nat /\ job'.attempts \in Nat
  BY <1>1, <1>10, <1>11 DEF history
<1>. QED
  BY <1>4, <1>9, <1>11, <1>13, <1>14, <1>15, <1>16, <1>17, <1>18, PartsMakeWhole

LEMMA CallInv ==
  ASSUME Alone, IndexerInv, NEW c \in Callers, NEW k \in Kinds, Call(c, k)
  PROVE  IndexerInv'
<1>1. /\ events < MaxEvents /\ events' = events + 1 /\ MayStart(c)
      /\ pass' = [pass EXCEPT ![c] = Fresh(k)]
      /\ UNCHANGED <<text, node, ruled, rows, mail, known, claims, job, edits, faults, rulings,
                     cut, counted>>
  BY DEF Call, Fresh, store, history
<1>2. c \in Processes /\ c # Worker
  BY Processing
<1>3. /\ job \in [status : {"none", "pending", "running"}, kind : Kinds \cup {"evidence"},
                  attempts : 0 .. MaxAttempts + MaxFaults]
      /\ StateOK
  BY DEF IndexerInv, StateOK
<1>5. Fresh(k) \in Pass
  BY <1>3, FreshPass
<1>6. /\ Rests(c) /\ \A q \in Processes \ {c} : Rests(q)
      /\ ~AnyStarted /\ ~AnyCaller /\ ~AnyUsed /\ ~Under(Worker)
  BY <1>1, <1>2, StartAlone
<1>7. pass'[c] = Fresh(k)
  BY <1>1, <1>2, <1>3 DEF StateOK
<1>8. /\ Fresh(k).pc = "fetch" /\ "fetch" \in Active /\ "fetch" \in Started
      /\ PassWell(c)' /\ ~Used(c)'
  BY <1>1, <1>2, <1>7, FreshIsWell
<1>9. /\ PassOK' /\ OneAtATime' /\ pass'[Worker] = pass[Worker]
      /\ \A q \in Processes \ {c} : PassWell(q)'
      /\ AnyStarted' /\ ~AnyUsed' /\ AnyCaller' /\ ~Under(Worker)'
  <2> HIDE DEF Fresh
  <2>. QED
    BY ZenonT(60), <1>1, <1>2, <1>5, <1>6, <1>8, SoloStep
<1>10. /\ events \in Nat /\ faults \in Nat /\ node.evidence \in Nat /\ MaxEvents \in Nat
       /\ counted \in Nat /\ job.attempts \in Nat /\ MaxAttempts \in Nat
  BY <1>3, Numbers
<1>11. (Queued' <=> Queued) /\ (HasJob' <=> HasJob)
  BY <1>1, <1>6, <1>9 DEF Queued, HasJob
<1>12. Accounts'
  <2>1. AttemptsPaid'
    BY <1>1, <1>11 DEF IndexerInv, Accounts, AttemptsPaid, B
  <2>2. UsesPaid'
    <3>1. node.evidence + B(Queued) + 0 + B(pass[Worker].failed) <= events + faults
      BY <1>6 DEF IndexerInv, Accounts, UsesPaid, B
    <3>2. B(Queued)' = B(Queued) /\ B(AnyStarted)' = 1
          /\ B(pass[Worker].failed)' = B(pass[Worker].failed)
      BY <1>9, <1>11 DEF B
    <3>3. B(Queued) \in Nat /\ B(pass[Worker].failed) \in Nat
      BY DEF B
    <3>. QED
      BY <1>1, <1>10, <3>1, <3>2, <3>3 DEF UsesPaid
  <2>3. EndsPaid'
    BY <1>1, <1>6, <1>9, <1>10, <1>11 DEF IndexerInv, Accounts, EndsPaid, B
  <2>4. UsesKept'
    BY <1>1, <1>6, <1>9, <1>10 DEF IndexerInv, Accounts, UsesKept, B
  <2>. QED
    BY <2>1, <2>2, <2>3, <2>4 DEF Accounts
<1>13. StoreOK' /\ NodeOK /\ cut' \in BOOLEAN
  BY <1>1, PartsOfType DEF StoreOK, IndexerInv, TypeParts, CountsOK
<1>14. BoundsOK'
  <2>1. BoundsOK
    BY PartsOfType DEF IndexerInv, TypeParts
  <2>. QED
    BY <1>1, <1>10, <2>1 DEF BoundsOK
<1>15. node' \in Properties(Nat)
  <2>1. MaxEvents \in Nat /\ MaxFaults \in Nat
    BY IndexerAssumption
  <2>. QED
    BY <1>1, <1>13, <2>1 DEF NodeOK, Properties
<1>16. WorkerHasJob'
  BY <1>9 DEF WorkerHasJob
<1>17. \A q \in Processes : PassWell(q)'
  BY <1>8, <1>9
<1>. QED
  BY <1>1, <1>3, <1>9, <1>10, <1>12, <1>13, <1>14, <1>15, <1>16, <1>17, PartsMakeWhole

(* Steps that leave the processes where they are.                          *)
LEMMA Elsewhere ==
  ASSUME IndexerInv, pass' = pass, UNCHANGED <<node, counted, cut>>
  PROVE  /\ PassOK' /\ node' \in Properties(Nat) /\ cut' \in BOOLEAN /\ counted' \in Nat
         /\ OneAtATime'
         /\ (AnyStarted' <=> AnyStarted) /\ (AnyCaller' <=> AnyCaller) /\ (AnyUsed' <=> AnyUsed)
         /\ (Under(Worker)' <=> Under(Worker))
<1>1. PassOK' /\ NodeOK /\ CountsOK
  BY PartsOfType DEF IndexerInv, TypeParts, PassOK
<1>2. MaxEvents \in Nat /\ MaxFaults \in Nat
  BY IndexerAssumption
<1>3. node' \in Properties(Nat)
  BY <1>1, <1>2 DEF NodeOK, Properties
<1>4. cut' \in BOOLEAN /\ counted' \in Nat
  BY <1>1, <1>2 DEF CountsOK
<1>5. OneAtATime'
  BY DEF IndexerInv, OneAtATime, Under
<1>6. (AnyStarted' <=> AnyStarted) /\ (AnyCaller' <=> AnyCaller) /\ (Under(Worker)' <=> Under(Worker))
  BY DEF AnyStarted, AnyCaller, Under
<1>7. AnyUsed' <=> AnyUsed
  <2>1. \A p \in Processes : Used(p)' <=> Used(p)
    BY DEF Used, Under, Asked
  <2>. QED
    BY <2>1 DEF AnyUsed
<1>. QED
  BY <1>1, <1>3, <1>4, <1>5, <1>6, <1>7

LEMMA EnqueueInv ==
  ASSUME IndexerInv, NEW k \in Kinds, Enqueue(k)
  PROVE  IndexerInv'
<1>1. /\ events < MaxEvents /\ events' = events + 1 /\ job.status = "none"
      /\ job' = [status |-> "pending", kind |-> k, attempts |-> 0]
      /\ UNCHANGED <<text, node, mail, known, ruled, rows, claims, pass, edits, faults, rulings,
                     cut, counted>>
  BY DEF Enqueue, store, history
<1>2. /\ PassOK' /\ node' \in Properties(Nat) /\ cut' \in BOOLEAN /\ counted' \in Nat
      /\ OneAtATime'
      /\ (AnyStarted' <=> AnyStarted) /\ (AnyCaller' <=> AnyCaller) /\ (AnyUsed' <=> AnyUsed)
      /\ (Under(Worker)' <=> Under(Worker))
  BY <1>1, Elsewhere
<1>3. /\ events \in Nat /\ faults \in Nat /\ node.evidence \in Nat /\ MaxEvents \in Nat
      /\ counted \in Nat /\ job.attempts \in Nat /\ MaxAttempts \in Nat /\ MaxAttempts > 0
  BY Numbers DEF IndexerInv
<1>4. ~Queued /\ ~HasJob /\ Queued' /\ HasJob' /\ ~Under(Worker)
  BY <1>1 DEF Queued, HasJob, IndexerInv, WorkerHasJob
<1>5. Accounts'
  <2>1. AttemptsPaid'
    BY <1>1, <1>3, <1>4 DEF AttemptsPaid, B
  <2>2. UsesPaid'
    <3>1. node.evidence + 0 + B(AnyStarted) + B(pass[Worker].failed) <= events + faults
      BY <1>4 DEF IndexerInv, Accounts, UsesPaid, B
    <3>2. B(Queued)' = 1 /\ B(AnyStarted)' = B(AnyStarted)
          /\ B(pass[Worker].failed)' = B(pass[Worker].failed)
      BY <1>1, <1>2, <1>4 DEF B
    <3>3. B(AnyStarted) \in Nat /\ B(pass[Worker].failed) \in Nat
      BY DEF B
    <3>. QED
      BY <1>1, <1>3, <3>1, <3>2, <3>3 DEF UsesPaid
  <2>3. EndsPaid'
    BY <1>1, <1>2, <1>3, <1>4 DEF IndexerInv, Accounts, EndsPaid, B
  <2>4. UsesKept'
    BY <1>1, <1>2, <1>3 DEF IndexerInv, Accounts, UsesKept, B
  <2>. QED
    BY <2>1, <2>2, <2>3, <2>4 DEF Accounts
<1>6. StoreOK'
  BY <1>1, PartsOfType DEF StoreOK, IndexerInv, TypeParts
<1>7. BoundsOK'
  <2>1. BoundsOK
    BY PartsOfType DEF IndexerInv, TypeParts
  <2>. QED
    BY <1>1, <1>3, <2>1 DEF BoundsOK
<1>8. WorkerHasJob'
  BY <1>2, <1>4 DEF WorkerHasJob
<1>9. ASSUME NEW q \in Processes
      PROVE  PassWell(q)'
  <2>1. PassWell(q)
    BY DEF IndexerInv
  <2>. QED
    BY <1>1, <2>1 DEF PassWell, BeforeLinking, WhileLinking, AfterLinking, Under, OfText,
                      Detected, Linked
<1>. QED
  BY <1>1, <1>2, <1>5, <1>6, <1>7, <1>8, <1>9, PartsMakeWhole

(* Changes of the text, of claims, or none at all.                         *)
LEMMA AsideInv ==
  ASSUME IndexerInv,
         UNCHANGED <<node, counted, cut, pass, job, events, faults, mail, known, ruled, rows>>,
         text' \in Versions \cup {Empty}, claims' \subseteq Texts \cup {Manual},
         edits' \in 0 .. MaxEdits, rulings' \in 0 .. MaxRulings
  PROVE  IndexerInv'
<1>2. /\ PassOK' /\ node' \in Properties(Nat) /\ cut' \in BOOLEAN /\ counted' \in Nat
      /\ OneAtATime'
      /\ (AnyStarted' <=> AnyStarted) /\ (AnyCaller' <=> AnyCaller) /\ (AnyUsed' <=> AnyUsed)
      /\ (Under(Worker)' <=> Under(Worker))
  BY Elsewhere
<1>3. (Queued' <=> Queued) /\ (HasJob' <=> HasJob)
  BY <1>2 DEF Queued, HasJob
<1>4. Accounts'
  BY <1>2, <1>3 DEF IndexerInv, Accounts, AttemptsPaid, UsesPaid, EndsPaid, UsesKept, B
<1>5. StoreOK' /\ BoundsOK'
  BY PartsOfType DEF StoreOK, BoundsOK, IndexerInv, TypeParts
<1>6. WorkerHasJob'
  BY <1>2 DEF IndexerInv, WorkerHasJob
<1>7. ASSUME NEW q \in Processes
      PROVE  PassWell(q)'
  <2>1. PassWell(q)
    BY DEF IndexerInv
  <2>. QED
    BY <2>1 DEF PassWell, BeforeLinking, WhileLinking, AfterLinking, Under, OfText,
                Detected, Linked
<1>8. /\ job \in [status : {"none", "pending", "running"}, kind : Kinds \cup {"evidence"},
                  attempts : 0 .. MaxAttempts + MaxFaults]
      /\ job.attempts \in Nat
  BY Numbers DEF IndexerInv, StateOK
<1>. QED
  BY <1>2, <1>4, <1>5, <1>6, <1>7, <1>8, PartsMakeWhole

LEMMA EditInv == ASSUME IndexerInv, Edit PROVE IndexerInv'
<1>1. BoundsOK /\ StoreOK /\ MaxEdits \in Nat
  BY PartsOfType, IndexerAssumption DEF IndexerInv, TypeParts
<1>2. edits' \in 0 .. MaxEdits /\ rulings' \in 0 .. MaxRulings
  BY <1>1 DEF Edit, BoundsOK
<1>. QED
  BY <1>1, <1>2, AsideInv DEF Edit, store, history, StoreOK

LEMMA ByHandInv == ASSUME IndexerInv, ClaimByHand PROVE IndexerInv'
<1>1. BoundsOK /\ StoreOK /\ MaxRulings \in Nat
  BY PartsOfType, IndexerAssumption DEF IndexerInv, TypeParts
<1>2. edits' \in 0 .. MaxEdits /\ rulings' \in 0 .. MaxRulings
  BY <1>1 DEF ClaimByHand, BoundsOK
<1>. QED
  BY <1>1, <1>2, AsideInv DEF ClaimByHand, history, StoreOK

LEMMA StutterInv == ASSUME IndexerInv, UNCHANGED vars PROVE IndexerInv'
<1>1. BoundsOK /\ StoreOK
  BY PartsOfType DEF IndexerInv, TypeParts
<1>. QED
  BY <1>1, AsideInv DEF vars, store, bounds, history, StoreOK, BoundsOK

(* Taking one link away.                                                   *)
LEMMA LinkedLess ==
  ASSUME NEW links, NEW n
  PROVE  Linked({r \in links : r[1] # n}) = Linked(links) \ {n}
BY DEF Linked

(* A ruling takes a name out of the mentions, and out of what a pass under *)
(* way has to vouch for.                                                   *)
LEMMA RuleInv ==
  ASSUME IndexerInv, NEW n \in Names, Rule(n)
  PROVE  IndexerInv'
<1>1. /\ n \in known \ ruled /\ rulings < MaxRulings /\ rulings' = rulings + 1
      /\ ruled' = ruled \cup {n} /\ rows' = {r \in rows : r[1] # n}
      /\ UNCHANGED <<text, node, mail, known, claims, job, pass, edits, events, faults, cut, counted>>
  BY DEF Rule, history
<1>2. /\ PassOK' /\ node' \in Properties(Nat) /\ cut' \in BOOLEAN /\ counted' \in Nat
      /\ OneAtATime'
      /\ (AnyStarted' <=> AnyStarted) /\ (AnyCaller' <=> AnyCaller) /\ (AnyUsed' <=> AnyUsed)
      /\ (Under(Worker)' <=> Under(Worker))
  BY <1>1, Elsewhere
<1>3. (Queued' <=> Queued) /\ (HasJob' <=> HasJob)
  BY <1>1, <1>2 DEF Queued, HasJob
<1>4. Accounts'
  BY <1>1, <1>2, <1>3 DEF IndexerInv, Accounts, AttemptsPaid, UsesPaid, EndsPaid, UsesKept, B
<1>5. StoreOK'
  BY <1>1, PartsOfType DEF StoreOK, IndexerInv, TypeParts
<1>6. BoundsOK'
  <2>1. BoundsOK /\ MaxRulings \in Nat
    BY PartsOfType, IndexerAssumption DEF IndexerInv, TypeParts
  <2>. QED
    BY <1>1, <2>1 DEF BoundsOK
<1>7. WorkerHasJob'
  BY <1>1, <1>2 DEF IndexerInv, WorkerHasJob
<1>8. Linked(rows)' = Linked(rows) \ {n}
  BY <1>1, LinkedLess
<1>9. ASSUME NEW q \in Processes
      PROVE  PassWell(q)'
  <2>1. PassWell(q)
    BY DEF IndexerInv
  <2>2. BeforeLinking(q)'
    BY <1>1, <2>1 DEF PassWell, BeforeLinking, Under
  <2>3. Detected(q)' = Detected(q) /\ pass'[q] = pass[q]
    BY <1>1 DEF Detected
  <2>4. OfText(pass[q].seen) => OfText(pass[q].seen)'
    BY <1>1 DEF OfText
  <2>5. WhileLinking(q)'
    BY <1>1, <1>8, <2>1, <2>3, <2>4 DEF PassWell, WhileLinking
  <2>6. AfterLinking(q)'
    BY <1>1, <1>8, <2>1, <2>3, <2>4 DEF PassWell, AfterLinking
  <2>. QED
    BY <2>2, <2>5, <2>6 DEF PassWell
<1>10. /\ job \in [status : {"none", "pending", "running"}, kind : Kinds \cup {"evidence"},
                   attempts : 0 .. MaxAttempts + MaxFaults]
       /\ job.attempts \in Nat
  BY Numbers DEF IndexerInv, StateOK
<1>. QED
  BY <1>1, <1>2, <1>4, <1>5, <1>6, <1>7, <1>9, <1>10, PartsMakeWhole

-----------------------------------------------------------------------------
(* How a pass ends.  What the worker's next attempt costs is paid for by   *)
(* the fault that ended this one, or by that of its fetch.                 *)
Rest == {Idle, [Idle EXCEPT !.pc = "down"]}

LEMMA LeaveInv ==
  ASSUME IndexerInv, NEW p \in Processes, Under(p), NEW new \in Rest,
         pass' = [pass EXCEPT ![p] = new],
         UNCHANGED <<text, node, mail, ruled, rows, claims, edits, events, rulings>>,
         known \subseteq known', known' \subseteq Names, cut' \in BOOLEAN,
         faults' \in 0 .. MaxFaults, faults' = faults \/ faults' = faults + 1,
         job'.status \in {"none", "pending", "running"}, job'.kind \in Kinds \cup {"evidence"},
         job'.attempts \in Nat,
         job' = [status |-> job'.status, kind |-> job'.kind, attempts |-> job'.attempts],
         p # Worker => job' = job, HasJob' => HasJob,
         p = Worker /\ Queued' =>
           /\ job'.attempts + 1 <= MaxAttempts + faults'
           /\ faults' = faults + 1 \/ pass[p].failed,
         job'.attempts <= MaxAttempts + faults',
         counted' = counted \/ (counted' = counted + 1 /\ Used(p) /\ (p = Worker => ~HasJob'))
  PROVE  IndexerInv'
<1>1. /\ new \in Pass /\ new.pc \notin Active /\ new.pc \notin Started /\ ~new.failed
      /\ ~new.reindex /\ new.before = {} /\ new.pc \in {"idle", "down"}
  BY IdleWell DEF Rest, Active, Started, Idle
<1>2. \A q \in Processes \ {p} : Rests(q)
  BY OthersRest
<1>3. /\ pass'[p] = new /\ PassOK' /\ (p # Worker => pass'[Worker] = pass[Worker])
      /\ OneAtATime'
      /\ \A q \in Processes \ {p} : PassWell(q)'
      /\ AnyUsed <=> Used(p)
      /\ AnyCaller <=> p # Worker
      /\ p # Worker => ~Under(Worker)
      /\ ~AnyStarted'
      /\ AnyUsed' <=> Used(p)'
      /\ ~AnyCaller'
      /\ ~Under(Worker)'
      /\ ~Under(p)'
  BY <1>1, <1>2, SoloStep
<1>4. ~AnyUsed'
  BY <1>3 DEF Used
<1>5. PassWell(p)'
  <2>1. BeforeLinking(p)'
    BY <1>1, <1>3 DEF BeforeLinking
  <2>. QED
    BY <1>1, <1>3, <2>1 DEF PassWell, WhileLinking, AfterLinking
<1>6. /\ events \in Nat /\ faults \in Nat /\ node.evidence \in Nat /\ MaxFaults \in Nat
      /\ counted \in Nat /\ job.attempts \in Nat /\ MaxAttempts \in Nat
  BY Numbers DEF IndexerInv
<1>7. faults' \in Nat /\ faults' >= faults /\ counted' \in Nat
  BY <1>6
<1>8. ~pass'[Worker].failed \/ p # Worker
  BY <1>1, <1>3
<1>9. p = Worker => ~Queued /\ HasJob
  BY DEF Queued, HasJob, IndexerInv, WorkerHasJob
<1>10. p # Worker => (Queued' <=> Queued) /\ (HasJob' <=> HasJob)
  BY <1>3 DEF Queued, HasJob
<1>11. Accounts'
  <2>1. \A b : B(b) = 0 \/ B(b) = 1
    BY DEF B
  <2>2. AttemptsPaid'
    <3>1. CASE p = Worker
      BY <1>6, <1>7, <3>1 DEF AttemptsPaid, B
    <3>2. CASE p # Worker
      <4>1. B(Queued)' = B(Queued) /\ job' = job /\ B(Queued) \in Nat
        BY <1>10, <3>2 DEF B
      <4>. QED
        BY <1>6, <1>7, <4>1 DEF IndexerInv, Accounts, AttemptsPaid
    <3>. QED
      BY <3>1, <3>2
  <2>3. UsesPaid'
    <3>1. node.evidence + B(Queued) + B(AnyStarted) + B(pass[Worker].failed) <= events + faults
      BY DEF IndexerInv, Accounts, UsesPaid
    <3>2. B(AnyStarted)' = 0 /\ B(AnyStarted) \in Nat
          /\ B(Queued) \in Nat /\ B(pass[Worker].failed) \in Nat
      BY <1>3 DEF B
    <3>3. CASE p = Worker
      <4>1. B(pass[Worker].failed)' = 0 /\ B(Queued) = 0
        BY <1>8, <1>9, <3>3 DEF B
      <4>2. B(Queued)' <= (faults' - faults) + B(pass[Worker].failed) /\ B(Queued)' \in Nat
        BY <1>6, <1>7, <3>3 DEF B
      <4>. QED
        BY <1>6, <1>7, <3>1, <3>2, <4>1, <4>2 DEF UsesPaid
    <3>4. CASE p # Worker
      <4>1. B(pass[Worker].failed)' = B(pass[Worker].failed) /\ B(Queued)' = B(Queued)
        BY <1>3, <1>10, <3>4 DEF B
      <4>. QED
        BY <1>6, <1>7, <3>1, <3>2, <4>1 DEF UsesPaid
    <3>. QED
      BY <3>3, <3>4
  <2>4. EndsPaid'
    <3>1. counted + B(HasJob) + B(AnyCaller) <= events
      BY DEF IndexerInv, Accounts, EndsPaid
    <3>2. CASE p = Worker
      BY <1>3, <1>6, <1>7, <1>9, <3>1, <3>2 DEF EndsPaid, B
    <3>3. CASE p # Worker
      BY <1>3, <1>6, <1>7, <1>10, <3>1, <3>3 DEF EndsPaid, B
    <3>. QED
      BY <3>2, <3>3
  <2>5. UsesKept'
    BY <1>3, <1>4, <1>6, <1>7 DEF IndexerInv, Accounts, UsesKept, B
  <2>. QED
    BY <2>2, <2>3, <2>4, <2>5 DEF Accounts
<1>12. StoreOK'
  BY PartsOfType DEF StoreOK, IndexerInv, TypeParts
<1>13. BoundsOK'
  BY PartsOfType DEF BoundsOK, IndexerInv, TypeParts
<1>14. node' \in Properties(Nat)
  BY <1>6 DEF IndexerInv, StateOK, Properties
<1>15. WorkerHasJob'
  BY <1>3 DEF WorkerHasJob
<1>16. \A q \in Processes : PassWell(q)'
  BY <1>3, <1>5
<1>. QED
  BY <1>3, <1>7, <1>11, <1>12, <1>13, <1>14, <1>15, <1>16, PartsMakeWhole

(* What becomes of the job when the worker's attempt failed.               *)
LEMMA FailedJob ==
  ASSUME IndexerInv, NEW p \in Processes, Under(p), Failed(p)
  PROVE  /\ job'.status \in {"none", "pending", "running"} /\ job'.kind \in Kinds \cup {"evidence"}
         /\ job'.attempts \in Nat
         /\ job' = [status |-> job'.status, kind |-> job'.kind, attempts |-> job'.attempts]
         /\ p # Worker => job' = job
         /\ HasJob' => HasJob
         /\ p = Worker /\ Queued' => job'.attempts + 1 <= MaxAttempts
         /\ job'.attempts <= MaxAttempts + faults
<1>1. /\ job \in [status : {"none", "pending", "running"}, kind : Kinds \cup {"evidence"},
                  attempts : 0 .. MaxAttempts + MaxFaults]
      /\ job.attempts \in Nat /\ MaxAttempts \in Nat /\ faults \in Nat
  BY Numbers DEF IndexerInv, StateOK
<1>2. job.attempts <= MaxAttempts + faults
  BY <1>1 DEF IndexerInv, Accounts, AttemptsPaid, B
<1>3. CASE p # Worker
  BY <1>1, <1>2, <1>3 DEF Failed, HasJob
<1>4. CASE p = Worker /\ job.attempts < MaxAttempts
  <2>1. job' = [job EXCEPT !.status = "pending"] /\ HasJob
    BY <1>4 DEF Failed, IndexerInv, WorkerHasJob, HasJob
  <2>. QED
    BY <1>1, <1>2, <1>4, <2>1
<1>5. CASE p = Worker /\ ~(job.attempts < MaxAttempts)
  <2>1. job' = NoJob
    BY <1>5 DEF Failed
  <2>2. job'.status = "none" /\ job'.kind = "evidence" /\ job'.attempts = 0
    BY <2>1 DEF NoJob
  <2>3. ~HasJob' /\ ~Queued'
    BY <2>2 DEF HasJob, Queued
  <2>. QED
    BY <1>1, <1>5, <2>1, <2>2, <2>3 DEF NoJob
<1>. QED
  BY <1>3, <1>4, <1>5

LEMMA FinishInv ==
  ASSUME IndexerInv, NEW p \in Processes, Finish(p)
  PROVE  IndexerInv'
<1>1. /\ pass[p] \in Pass /\ Under(p) /\ pass[p].pc = "end"
      /\ StoreOK /\ node \in Properties(Nat) /\ cut \in BOOLEAN /\ PassWell(p)
  BY Here DEF Finish, Active
<1>2. /\ pass' = [pass EXCEPT ![p] = Idle] /\ Idle \in Rest
      /\ UNCHANGED <<text, node, mail, known, ruled, rows, claims, edits, events, faults, rulings, cut>>
  BY DEF Finish, store, bounds, Rest
<1>3. faults \in 0 .. MaxFaults /\ faults \in Nat /\ MaxAttempts \in Nat
  BY Numbers DEF IndexerInv, StateOK
<1>4. known' \subseteq Names
  BY <1>1, <1>2 DEF StoreOK
<1>5. CASE pass[p].failed
  <2>1. Failed(p) /\ counted' = counted
    BY <1>5 DEF Finish
  <2>2. /\ job'.status \in {"none", "pending", "running"} /\ job'.kind \in Kinds \cup {"evidence"}
        /\ job'.attempts \in Nat
        /\ job' = [status |-> job'.status, kind |-> job'.kind, attempts |-> job'.attempts]
        /\ p # Worker => job' = job
        /\ HasJob' => HasJob
        /\ p = Worker /\ Queued' => job'.attempts + 1 <= MaxAttempts
        /\ job'.attempts <= MaxAttempts + faults
    BY <1>1, <2>1, FailedJob
  <2>3. p = Worker /\ Queued' => job'.attempts + 1 <= MaxAttempts + faults'
    BY <1>2, <1>3, <2>2
  <2>4. faults' \in 0 .. MaxFaults /\ faults' = faults /\ cut' \in BOOLEAN
    BY <1>1, <1>2, <1>3
  <2>. QED
    BY <1>1, <1>2, <1>4, <1>5, <2>1, <2>2, <2>3, <2>4, LeaveInv
<1>6. CASE ~pass[p].failed
  <2>1. /\ job' = IF p = Worker THEN NoJob ELSE job
        /\ counted' = counted + (IF Asked(p).count /\ pass[p].seen \notin Oversize THEN 1 ELSE 0)
    BY <1>6 DEF Finish
  <2>2. job \in [status : {"none", "pending", "running"}, kind : Kinds \cup {"evidence"},
                 attempts : 0 .. MaxAttempts + MaxFaults] /\ job.attempts \in Nat /\ counted \in Nat
    BY Numbers DEF IndexerInv, StateOK
  <2>3. job.attempts <= MaxAttempts + faults
    BY <1>3, <2>2 DEF IndexerInv, Accounts, AttemptsPaid, B
  <2>4. /\ job'.status \in {"none", "pending", "running"} /\ job'.kind \in Kinds \cup {"evidence"}
        /\ job'.attempts \in Nat
        /\ job' = [status |-> job'.status, kind |-> job'.kind, attempts |-> job'.attempts]
        /\ p # Worker => job' = job
        /\ HasJob' => HasJob
        /\ job'.attempts <= MaxAttempts + faults
        /\ p = Worker => ~HasJob' /\ ~Queued'
    BY <1>3, <2>1, <2>2, <2>3 DEF NoJob, HasJob, Queued
  <2>5. counted' = counted \/ (counted' = counted + 1 /\ Used(p))
    BY <1>1, <2>1, <2>2 DEF Used, Started
  <2>6. faults' \in 0 .. MaxFaults /\ faults' = faults /\ cut' \in BOOLEAN
    BY <1>1, <1>2, <1>3
  <2>. QED
    BY <1>1, <1>2, <1>4, <2>4, <2>5, <2>6, LeaveInv
<1>. QED
  BY <1>5, <1>6

LEMMA RaiseInv ==
  ASSUME IndexerInv, NEW p \in Processes, Raise(p)
  PROVE  IndexerInv'
<1>1. /\ Under(p) /\ faults < MaxFaults /\ faults' = faults + 1
      /\ pass' = [pass EXCEPT ![p] = Idle] /\ Idle \in Rest /\ Failed(p)
      /\ cut' = (cut \/ Torn(p))
      /\ UNCHANGED <<text, node, mail, ruled, rows, claims, edits, events, rulings, counted>>
  BY DEF Raise, Under, Rest
<1>2. faults \in Nat /\ MaxFaults \in Nat /\ MaxAttempts \in Nat
  BY Numbers DEF IndexerInv
<1>3. known \subseteq known' /\ known' \subseteq Names
  <2>1. known \subseteq Names /\ pass[p].seen \in Texts
    BY PassFields DEF IndexerInv, StateOK
  <2>2. Admitted(pass[p].seen) \subseteq Names
    BY <2>1, NamesOfText
  <2>3. \/ \E S \in SUBSET Admitted(pass[p].seen) : known' = known \cup S
        \/ known' = known
    BY DEF Raise
  <2>. QED
    BY <2>1, <2>2, <2>3
<1>4. cut' \in BOOLEAN
  <2>1. cut \in BOOLEAN /\ Torn(p) \in BOOLEAN
    BY DEF IndexerInv, StateOK, Torn
  <2>. QED
    BY <1>1, <2>1
<1>5. /\ job'.status \in {"none", "pending", "running"} /\ job'.kind \in Kinds \cup {"evidence"}
      /\ job'.attempts \in Nat
      /\ job' = [status |-> job'.status, kind |-> job'.kind, attempts |-> job'.attempts]
      /\ p # Worker => job' = job
      /\ HasJob' => HasJob
      /\ p = Worker /\ Queued' => job'.attempts + 1 <= MaxAttempts
      /\ job'.attempts <= MaxAttempts + faults
  BY <1>1, FailedJob
<1>6. /\ faults' \in 0 .. MaxFaults
      /\ p = Worker /\ Queued' => job'.attempts + 1 <= MaxAttempts + faults'
      /\ job'.attempts <= MaxAttempts + faults'
  BY <1>1, <1>2, <1>5
<1>. QED
  BY <1>1, <1>3, <1>4, <1>5, <1>6, LeaveInv

LEMMA CrashInv ==
  ASSUME IndexerInv, NEW p \in Processes, Crash(p)
  PROVE  IndexerInv'
<1> DEFINE dead == [Idle EXCEPT !.pc = "down"]
<1>1. /\ Under(p) /\ faults < MaxFaults /\ faults' = faults + 1
      /\ pass' = [pass EXCEPT ![p] = dead] /\ dead \in Rest
      /\ cut' = (cut \/ Torn(p))
      /\ UNCHANGED <<text, node, mail, known, ruled, rows, claims, job, edits, events, rulings, counted>>
  BY DEF Crash, Under, Rest, store
<1> HIDE DEF dead
<1>2. faults \in Nat /\ MaxFaults \in Nat /\ MaxAttempts \in Nat
  BY Numbers DEF IndexerInv
<1>3. known' \subseteq Names
  BY <1>1 DEF IndexerInv, StateOK
<1>4. cut' \in BOOLEAN
  <2>1. cut \in BOOLEAN /\ Torn(p) \in BOOLEAN
    BY DEF IndexerInv, StateOK, Torn
  <2>. QED
    BY <1>1, <2>1
<1>5. /\ job \in [status : {"none", "pending", "running"}, kind : Kinds \cup {"evidence"},
                  attempts : 0 .. MaxAttempts + MaxFaults]
      /\ job.attempts \in Nat
  BY Numbers DEF IndexerInv, StateOK
<1>6. job.attempts <= MaxAttempts + faults
  BY <1>2, <1>5 DEF IndexerInv, Accounts, AttemptsPaid, B
<1>7. /\ faults' \in 0 .. MaxFaults
      /\ job.attempts + 1 <= MaxAttempts + faults'
      /\ job.attempts <= MaxAttempts + faults'
  BY <1>1, <1>2, <1>5, <1>6
<1>8. HasJob' => HasJob
  BY <1>1 DEF HasJob
<1>. QED
  BY <1>1, <1>3, <1>4, <1>5, <1>7, <1>8, LeaveInv

(* A new process finds its job waiting, or leaves it where it is.          *)
LEMMA RestartInv ==
  ASSUME IndexerInv, NEW p \in Processes, Restart(p)
  PROVE  IndexerInv'
<1> DEFINE new == [pass[p] EXCEPT !.pc = "idle"]
<1>1. /\ pass[p] \in Pass /\ pass[p].pc = "down" /\ pass' = [pass EXCEPT ![p] = new]
      /\ UNCHANGED <<text, node, mail, known, ruled, rows, claims, edits, events, faults, rulings,
                     cut, counted>>
  BY DEF Restart, At, Go, IndexerInv, StateOK, store, bounds, history
<1>2. /\ new \in Pass /\ new.pc = "idle" /\ new.failed = pass[p].failed /\ new.before = pass[p].before
  BY <1>1 DEF Pass
<1> HIDE DEF new
<1>3. /\ pass'[p] = new /\ PassOK' /\ \A q \in Processes \ {p} : pass'[q] = pass[q]
      /\ "idle" \notin Active /\ "down" \notin Active /\ {"idle", "down"} \cap Started = {}
  BY <1>1, <1>2 DEF IndexerInv, StateOK, PassOK, Active, Started
<1>4. \A q \in Processes : (Under(q)' <=> Under(q)) /\ (pass'[q].pc \in Started <=> pass[q].pc \in Started)
  BY <1>1, <1>2, <1>3 DEF Under
<1>5. \A q \in Processes : Used(q)' <=> Used(q)
  <2>1. \A q \in Processes \ {p} : Asked(q)' = Asked(q)
    BY <1>3 DEF Asked
  <2>2. ~Used(p) /\ ~Used(p)'
    BY <1>1, <1>2, <1>3, <1>4 DEF Used, Under
  <2>3. \A q \in Processes \ {p} : Used(q)' <=> Used(q)
    BY <1>3, <1>4, <2>1 DEF Used
  <2>. QED
    BY <2>2, <2>3
<1>6. /\ OneAtATime' /\ (AnyStarted' <=> AnyStarted) /\ (AnyCaller' <=> AnyCaller)
      /\ (AnyUsed' <=> AnyUsed) /\ (Under(Worker)' <=> Under(Worker))
  BY <1>4, <1>5, Processing DEF IndexerInv, OneAtATime, AnyStarted, AnyCaller, AnyUsed
<1>7. /\ job \in [status : {"none", "pending", "running"}, kind : Kinds \cup {"evidence"},
                  attempts : 0 .. MaxAttempts + MaxFaults]
      /\ job.attempts \in Nat
  BY Numbers DEF IndexerInv, StateOK
<1>8. \/ job' = job
      \/ p = Worker /\ job.status = "running" /\ job' = [job EXCEPT !.status = "pending"]
  BY DEF Restart
<1>9. p = Worker => ~Under(Worker)
  BY <1>1, <1>3 DEF Under
<1>10. /\ job'.status \in {"none", "pending", "running"} /\ job'.kind \in Kinds \cup {"evidence"}
       /\ job'.attempts = job.attempts
       /\ job' = [status |-> job'.status, kind |-> job'.kind, attempts |-> job'.attempts]
  BY <1>7, <1>8
<1>11. (Queued' <=> Queued) /\ (HasJob' <=> HasJob) /\ WorkerHasJob'
  <2>1. CASE job' = job
    BY <1>6, <2>1 DEF Queued, HasJob, WorkerHasJob, IndexerInv
  <2>2. CASE p = Worker /\ job.status = "running" /\ job' = [job EXCEPT !.status = "pending"]
    <3>1. job'.status = "pending"
      BY <1>7, <2>2
    <3>. QED
      BY <1>6, <1>9, <2>2, <3>1 DEF Queued, HasJob, WorkerHasJob
  <2>. QED
    BY <1>8, <2>1, <2>2
<1>12. pass'[Worker].failed = pass[Worker].failed
  BY <1>2, <1>3, Processing
<1>13. Accounts'
  BY <1>1, <1>6, <1>10, <1>11, <1>12
     DEF IndexerInv, Accounts, AttemptsPaid, UsesPaid, EndsPaid, UsesKept, B
<1>14. ASSUME NEW q \in Processes
       PROVE  PassWell(q)'
  <2>1. PassWell(q)
    BY DEF IndexerInv
  <2>2. CASE q = p
    <3>1. BeforeLinking(p)'
      BY <1>1, <1>2, <1>3, <1>4, <2>1, <2>2 DEF PassWell, BeforeLinking, Under, Started
    <3>. QED
      BY <1>2, <1>3, <2>2, <3>1 DEF PassWell, WhileLinking, AfterLinking
  <2>3. CASE q # p
    <3>1. pass'[q] = pass[q]
      BY <1>3, <2>3
    <3>. QED
      BY <1>1, <2>1, <3>1 DEF PassWell, BeforeLinking, WhileLinking, AfterLinking, Under, OfText,
                              Detected, Linked
  <2>. QED
    BY <2>2, <2>3
<1>15. StoreOK' /\ BoundsOK' /\ CountsOK'
  BY <1>1, PartsOfType DEF StoreOK, BoundsOK, CountsOK, IndexerInv, TypeParts
<1>16. node' \in Properties(Nat) /\ counted' \in Nat
  <2>1. MaxEvents \in Nat /\ MaxFaults \in Nat /\ counted \in Nat
    BY Numbers DEF IndexerInv
  <2>. QED
    BY <1>1, <2>1 DEF IndexerInv, StateOK, Properties
<1>. QED
  BY <1>3, <1>6, <1>7, <1>10, <1>11, <1>13, <1>14, <1>15, <1>16, PartsMakeWhole DEF CountsOK

LEMMA NextInv == Alone /\ IndexerInv /\ [Next]_vars => IndexerInv'
<1> SUFFICES ASSUME Alone, IndexerInv, [Next]_vars PROVE IndexerInv'
  OBVIOUS
<1>1. CASE UNCHANGED vars
  BY <1>1, StutterInv
<1>2. CASE Claim
  BY <1>2, ClaimInv
<1>3. CASE \E k \in Kinds : Enqueue(k) \/ \E c \in Callers : Call(c, k)
  BY <1>3, EnqueueInv, CallInv
<1>4. CASE Edit \/ ClaimByHand \/ \E n \in Names : Rule(n)
  BY <1>4, EditInv, ByHandInv, RuleInv
<1>5. CASE \E p \in Processes : Step(p)
  <2>1. PICK p \in Processes : Step(p)
    BY <1>5
  <2>. QED
    BY <2>1, FetchInv, TouchInv, MailInv, DiscoverInv, FormsInv, ClearInv, RulingsInv, WriteInv,
       VouchInv, UnclaimInv, ClaimsInv, SummaryInv, FinishInv, RaiseInv, CrashInv, RestartInv
       DEF Step
<1>. QED
  BY <1>1, <1>2, <1>3, <1>4, <1>5 DEF Next

(* The inductive invariant of the indexer: one process at a time is in     *)
(* index_evidence, every count is paid for, and each pass finds what the   *)
(* place it has reached takes for granted.                                 *)
THEOREM IndexerInvariant == ASSUME Alone PROVE Spec => []IndexerInv
<1>1. Init => IndexerInv
  BY InitInv
<1>2. IndexerInv /\ [Next]_vars => IndexerInv'
  BY NextInv
<1>. QED
  BY <1>1, <1>2, PTL DEF Spec

(* What discovery has been through, and whether a pass was blind, are      *)
(* written by two steps only.                                              *)
Search == {"never", "partly", "wholly"}
HistoryOK == searched \in [Texts -> Search] /\ blind \in BOOLEAN

LEMMA SearchedBy ==
  ASSUME [Next]_vars
  PROVE  \/ UNCHANGED <<searched, blind>>
         \/ searched' = searched /\ \E p \in Processes : Vouch(p)
         \/ blind' = blind /\ \E p \in Processes : Discover(p)
<1> USE DEF store, history
<1>1. CASE \E p \in Processes : Step(p)
  <2>1. PICK p \in Processes : Step(p)
    BY <1>1
  <2>2. CASE Discover(p) \/ Vouch(p)
    BY <2>2 DEF Discover, Vouch
  <2>3. CASE ~(Discover(p) \/ Vouch(p))
    BY <2>1, <2>3 DEF Step, Fetch, Touch, AttachMail, ReadForms, Clear, ReadRulings, WriteMention,
       Unclaim, WriteClaims, Summarize, Finish, Raise, Crash, Restart
  <2>. QED
    BY <2>2, <2>3
<1>2. CASE Claim \/ Edit \/ ClaimByHand \/ \E n \in Names : Rule(n)
  BY <1>2 DEF Claim, Edit, ClaimByHand, Rule
<1>3. CASE \E k \in Kinds : Enqueue(k) \/ \E c \in Callers : Call(c, k)
  BY <1>3 DEF Enqueue, Call
<1>. QED
  BY <1>1, <1>2, <1>3 DEF Next, vars

LEMMA HistoryTypes ==
  ASSUME StateOK, HistoryOK, [Next]_vars
  PROVE  HistoryOK'
<1>1. CASE UNCHANGED <<searched, blind>>
  BY <1>1 DEF HistoryOK
<1>2. CASE searched' = searched /\ \E p \in Processes : Vouch(p)
  BY <1>2 DEF HistoryOK, Vouch, Blind
<1>3. CASE blind' = blind /\ \E p \in Processes : Discover(p)
  BY <1>3 DEF HistoryOK, Discover, Search
<1>. QED
  BY <1>1, <1>2, <1>3, SearchedBy

(* IndexerInv together with the types of the histories of discovery.       *)
THEOREM HistoryInvariant == ASSUME Alone PROVE Spec => [](IndexerInv /\ HistoryOK)
<1>1. Init => HistoryOK
  BY DEF Init, HistoryOK, Search
<1>2. IndexerInv /\ HistoryOK /\ [Next]_vars => HistoryOK'
  BY HistoryTypes DEF IndexerInv
<1>. QED
  BY <1>1, <1>2, IndexerInvariant, PTL DEF Spec

(* Every variable keeps its type: neither the counter of attempts nor that *)
(* of the evidence runs away with faults.                                  *)
THEOREM IndexerTypeCorrect == ASSUME Alone PROVE Spec => []TypeOK
<1>1. IndexerInv /\ HistoryOK => TypeOK
  BY DEF IndexerInv, HistoryOK, Search, TypeOK
<1>. QED
  BY <1>1, HistoryInvariant, PTL

(* touch_evidence_document comes before the work it counts: no use that    *)
(* ended well is missing from evidence_count, whatever failed on the way.  *)
THEOREM EvidenceIsCounted == ASSUME Alone PROVE Spec => []EvidenceCounted
<1>1. IndexerInv => EvidenceCounted
  <2> SUFFICES ASSUME IndexerInv PROVE EvidenceCounted
    OBVIOUS
  <2>1. counted \in Nat /\ node.evidence \in Nat
    BY Numbers DEF IndexerInv
  <2>. QED
    BY <2>1 DEF IndexerInv, Accounts, UsesKept, EvidenceCounted, B
<1>. QED
  BY <1>1, IndexerInvariant, PTL

-----------------------------------------------------------------------------
(* What the state of a document vouches for.  A text discovery has been    *)
(* through wholly has its names known for good; a pass that discovers has  *)
(* been through its text when it reads the forms; and the forms it has     *)
(* read have every name of a text discovered wholly.                       *)
NamesKnown == \A v \in Texts : searched[v] = "wholly" => Admitted(v) \subseteq known

Replacing == {"clear", "rulings", "write"}
Discovered(p) ==
  /\ Asked(p).discover /\ pass[p].pc \in {"forms"} \cup Replacing => searched[pass[p].seen] # "never"
  /\ pass[p].pc \in Replacing /\ searched[pass[p].seen] = "wholly" =>
       Admitted(pass[p].seen) \subseteq pass[p].forms
AllDiscovered == \A p \in Processes : Discovered(p)

Knowing == HistoryOK /\ NamesKnown /\ AllDiscovered

(* A pass that is not between discovery and vouching has nothing to show.  *)
LEMMA NothingToShow ==
  ASSUME NEW p \in Processes, pass'[p].pc \notin {"forms"} \cup Replacing
  PROVE  Discovered(p)'
BY DEF Discovered

LEMMA DiscoveredElsewhere ==
  ASSUME AllDiscovered, NEW p \in Processes, \A q \in Processes \ {p} : pass'[q] = pass[q],
         searched' = searched \/ \A q \in Processes \ {p} : Rests(q),
         Discovered(p)'
  PROVE  AllDiscovered'
<1>1. ASSUME NEW q \in Processes \ {p}
      PROVE  Discovered(q)'
  <2>1. Asked(q)' = Asked(q) /\ pass'[q] = pass[q]
    BY DEF Asked
  <2>2. CASE searched' = searched
    BY <2>1, <2>2 DEF AllDiscovered, Discovered, Admitted, Creates, Eligible
  <2>3. CASE Rests(q)
    BY <2>1, <2>3, NothingToShow DEF Rests, Replacing
  <2>. QED
    BY <2>2, <2>3
<1>. QED
  BY <1>1 DEF AllDiscovered

LEMMA NamesStayKnown ==
  ASSUME NamesKnown, searched' = searched, known \subseteq known'
  PROVE  NamesKnown'
<1>1. \A v \in Texts : Admitted(v)' = Admitted(v)
  BY DEF Admitted, Creates, Eligible
<1>. QED
  BY <1>1 DEF NamesKnown

LEMMA DiscoverKnows ==
  ASSUME IndexerInv, Knowing, NEW p \in Processes, Discover(p)
  PROVE  NamesKnown' /\ AllDiscovered'
<1> USE DEF Go, At
<1>1. /\ pass \in [Processes -> Pass] /\ pass[p] \in Pass /\ pass[p].seen \in Texts
      /\ searched \in [Texts -> Search] /\ pass[p].pc = "discover"
  BY PassFields DEF IndexerInv, StateOK, Knowing, HistoryOK, Discover
<1>2. /\ \A q \in Processes \ {p} : pass'[q] = pass[q]
      /\ pass'[p].pc = "forms" /\ pass'[p].seen = pass[p].seen
  BY <1>1 DEF Discover, Pass
<1>3. PICK S \in Found(pass[p].seen) :
        /\ known' = known \cup (S \cap Admitted(pass[p].seen))
        /\ searched' = [searched EXCEPT ![pass[p].seen] =
                          IF S = In[pass[p].seen] \/ @ = "wholly" THEN "wholly" ELSE "partly"]
  BY DEF Discover
<1>4. ASSUME NEW v \in Texts, searched'[v] = "wholly"
      PROVE  Admitted(v) \subseteq known'
  <2>1. CASE searched[v] = "wholly"
    BY <1>3, <2>1 DEF Knowing, NamesKnown
  <2>2. CASE searched[v] # "wholly"
    <3>1. v = pass[p].seen /\ S = In[v]
      BY <1>1, <1>3, <1>4, <2>2
    <3>2. Admitted(v) \subseteq In[v]
      BY NamesOfText
    <3>. QED
      BY <1>3, <3>1, <3>2
  <2>. QED
    BY <2>1, <2>2
<1>5. NamesKnown'
  <2>1. \A v \in Texts : Admitted(v)' = Admitted(v)
    BY DEF Admitted, Creates, Eligible
  <2>. QED
    BY <1>4, <2>1 DEF NamesKnown
<1>6. searched'[pass[p].seen] # "never"
  BY <1>1, <1>3
<1>7. Discovered(p)'
  BY <1>2, <1>6 DEF Discovered, Replacing
<1>8. \A q \in Processes \ {p} : Rests(q)
  BY <1>1, OthersRest DEF Under, Active
<1>. QED
  BY <1>2, <1>5, <1>7, <1>8, DiscoveredElsewhere DEF Knowing

LEMMA StepKnows ==
  ASSUME IndexerInv, Knowing, NEW p \in Processes, Step(p)
  PROVE  NamesKnown' /\ AllDiscovered'
<1> USE DEF Go, At, store, history
<1>1. /\ pass \in [Processes -> Pass] /\ pass[p] \in Pass /\ Discovered(p) /\ AllDiscovered
      /\ pass[p].seen \in Texts /\ NamesKnown
  BY PassFields DEF IndexerInv, StateOK, Knowing, AllDiscovered
<1>2. CASE Discover(p)
  BY <1>2, DiscoverKnows
<1>3. SUFFICES ASSUME ~Discover(p)
               PROVE  /\ searched' = searched /\ known \subseteq known'
                      /\ \A q \in Processes \ {p} : pass'[q] = pass[q]
                      /\ Discovered(p)'
  BY <1>1, <1>2, NamesStayKnown, DiscoveredElsewhere
<1>4. CASE Fetch(p)
  <2>1. PICK source : pass' = [pass EXCEPT
            ![p].pc = IF source.seen \in Oversize THEN "end" ELSE "touch",
            ![p].seen = source.seen, ![p].failed = source.failed]
    BY <1>4 DEF Fetch
  <2>2. pass'[p].pc \in {"end", "touch"} /\ \A q \in Processes \ {p} : pass'[q] = pass[q]
    BY <1>1, <2>1 DEF Pass
  <2>. QED
    BY <1>4, <2>2, NothingToShow DEF Fetch, Replacing
<1>5. CASE Touch(p)
  <2>1. pass'[p].pc = "mail" /\ \A q \in Processes \ {p} : pass'[q] = pass[q]
    BY <1>1, <1>5 DEF Touch, Pass
  <2>. QED
    BY <1>5, <2>1, NothingToShow DEF Touch, Replacing
<1>6. CASE AttachMail(p)
  <2>1. /\ \A q \in Processes \ {p} : pass'[q] = pass[q]
        /\ pass'[p].kind = pass[p].kind
        /\ pass'[p].pc \in {"summary", "discover"} \/ ~Asked(p).discover
        /\ pass'[p].pc \in {"summary", "discover", "forms"}
    BY <1>1, <1>6 DEF AttachMail, Pass
  <2>2. Asked(p)' = Asked(p)
    BY <2>1 DEF Asked
  <2>3. Discovered(p)'
    BY <2>1, <2>2 DEF Discovered, Replacing
  <2>. QED
    BY <1>6, <2>1, <2>3 DEF AttachMail
<1>7. CASE ReadForms(p)
  <2>1. /\ \A q \in Processes \ {p} : pass'[q] = pass[q]
        /\ known' = known /\ searched' = searched
        /\ pass'[p].pc = "clear" /\ pass'[p].seen = pass[p].seen /\ pass'[p].forms = known
        /\ pass'[p].kind = pass[p].kind /\ pass[p].pc = "forms"
    BY <1>1, <1>7 DEF ReadForms, Pass
  <2>2. Asked(p)' = Asked(p)
    BY <2>1 DEF Asked
  <2>3. Discovered(p)'
    BY <1>1, <2>1, <2>2 DEF Discovered, NamesKnown, Admitted, Creates, Eligible
  <2>. QED
    BY <1>7, <2>1, <2>3 DEF ReadForms
<1>8. CASE Clear(p) \/ ReadRulings(p) \/ WriteMention(p)
  <2>1. /\ \A q \in Processes \ {p} : pass'[q] = pass[q]
        /\ pass'[p].seen = pass[p].seen /\ pass'[p].forms = pass[p].forms
        /\ pass'[p].kind = pass[p].kind
        /\ pass[p].pc \in Replacing
    <3>1. CASE Clear(p)
      BY <1>1, <3>1 DEF Clear, Pass, Replacing
    <3>2. CASE ReadRulings(p)
      BY <1>1, <3>2 DEF ReadRulings, Pass, Replacing
    <3>3. CASE WriteMention(p)
      BY <1>1, <3>3 DEF WriteMention, Pass, Replacing
    <3>. QED
      BY <1>8, <3>1, <3>2, <3>3
  <2>2. Asked(p)' = Asked(p)
    BY <2>1 DEF Asked
  <2>3. known' = known /\ searched' = searched
    BY <1>8 DEF Clear, ReadRulings, WriteMention
  <2>4. Discovered(p)'
    BY <1>1, <2>1, <2>2, <2>3 DEF Discovered, Admitted, Creates, Eligible
  <2>. QED
    BY <2>1, <2>3, <2>4
<1>9. CASE Vouch(p) \/ Unclaim(p) \/ WriteClaims(p) \/ Summarize(p)
  <2>1. /\ \A q \in Processes \ {p} : pass'[q] = pass[q]
        /\ pass'[p].pc \in {"unclaim", "claim", "summary", "end"}
    <3>1. CASE Vouch(p)
      BY <1>1, <3>1 DEF Vouch, Pass
    <3>2. CASE Unclaim(p) \/ WriteClaims(p) \/ Summarize(p)
      BY <1>1, <3>2 DEF Unclaim, WriteClaims, Summarize, Pass
    <3>. QED
      BY <1>9, <3>1, <3>2
  <2>2. known' = known /\ searched' = searched
    BY <1>9 DEF Vouch, Unclaim, WriteClaims, Summarize
  <2>. QED
    BY <2>1, <2>2, NothingToShow DEF Replacing
<1>10. CASE Finish(p) \/ Raise(p) \/ Crash(p) \/ Restart(p)
  <2>1. /\ \A q \in Processes \ {p} : pass'[q] = pass[q]
        /\ pass'[p].pc \in {"idle", "down"}
    <3>1. CASE Finish(p) \/ Raise(p) \/ Crash(p)
      BY <1>1, <3>1 DEF Finish, Raise, Crash, Idle
    <3>2. CASE Restart(p)
      BY <1>1, <3>2 DEF Restart, Pass
    <3>. QED
      BY <1>10, <3>1, <3>2
  <2>2. known \subseteq known' /\ searched' = searched
    <3>1. CASE Raise(p)
      BY <3>1 DEF Raise
    <3>2. CASE Finish(p) \/ Crash(p) \/ Restart(p)
      BY <3>2 DEF Finish, Crash, Restart
    <3>. QED
      BY <1>10, <3>1, <3>2
  <2>. QED
    BY <2>1, <2>2, NothingToShow DEF Replacing
<1>. QED
  BY <1>3, <1>4, <1>5, <1>6, <1>7, <1>8, <1>9, <1>10 DEF Step

LEMMA NextKnows ==
  ASSUME IndexerInv, Knowing, [Next]_vars
  PROVE  Knowing'
<1>1. HistoryOK' /\ StateOK /\ AllDiscovered /\ NamesKnown
  BY HistoryTypes DEF IndexerInv, Knowing
<1>2. CASE \E p \in Processes : Step(p)
  BY <1>1, <1>2, StepKnows DEF Knowing
<1>3. CASE ~\E p \in Processes : Step(p)
  <2>1. known' = known
    BY <1>3 DEF Next, vars, store, Claim, Call, Enqueue, Edit, ClaimByHand, Rule
  <2>2. searched' = searched
    BY <1>3, SearchedBy DEF Step
  <2>3. NamesKnown'
    BY <1>1, <2>1, <2>2, NamesStayKnown
  <2>4. CASE pass' = pass
    <3>1. \A p \in Processes : Asked(p)' = Asked(p)
      BY <2>4 DEF Asked
    <3>. QED
      BY <1>1, <2>2, <2>3, <2>4, <3>1 DEF Knowing, AllDiscovered, Discovered, Admitted, Creates, Eligible
  <2>5. CASE Claim \/ \E k \in Kinds : \E c \in Callers : Call(c, k)
    <3>1. PICK p \in Processes :
            pass'[p].pc = "fetch" /\ \A q \in Processes \ {p} : pass'[q] = pass[q]
      <4>1. CASE Claim
        BY <1>1, <4>1, Processing DEF Claim, StateOK, Idle
      <4>2. CASE \E k \in Kinds : \E c \in Callers : Call(c, k)
        BY <1>1, <4>2, Processing DEF Call, StateOK, Idle
      <4>. QED
        BY <2>5, <4>1, <4>2
    <3>2. AllDiscovered'
      BY <1>1, <2>2, <3>1, NothingToShow, DiscoveredElsewhere DEF Replacing
    <3>. QED
      BY <1>1, <2>3, <3>2 DEF Knowing
  <2>. QED
    BY <1>3, <2>4, <2>5 DEF Next, vars, Enqueue, Edit, ClaimByHand, Rule
<1>. QED
  BY <1>2, <1>3

(* StateVouches without the types.                                         *)
Vouching == node.hash # None /\ ~cut /\ \A p \in Processes : ~Torn(p)
States(v, complete) == OfText(v) /\ (complete => Admitted(v) \ ruled \subseteq Linked(rows))
Complete == node.extractor = Full /\ ~blind
Vouches == Vouching => States(node.hash, Complete)

(* Steps that neither touch the mentions nor what states their text.       *)
LEMMA VouchesStill ==
  ASSUME Vouches, UNCHANGED <<rows, ruled, blind>>, node'.hash = node.hash,
         node'.extractor = node.extractor, ~cut' => ~cut,
         ~cut' /\ (\A p \in Processes : ~Torn(p)') => \A p \in Processes : ~Torn(p)
  PROVE  Vouches'
<1>1. PICK v : v = node.hash /\ v = node'.hash
  OBVIOUS
<1>2. Complete' <=> Complete
  BY DEF Complete
<1>3. States(v, Complete)' <=> States(v, Complete)
  BY <1>2 DEF States, OfText, Admitted, Creates, Eligible, Linked
<1>4. /\ States(node.hash, Complete) <=> States(v, Complete)
      /\ States(node.hash, Complete)' <=> States(v, Complete)'
  BY <1>1 DEF States, OfText, Admitted
<1>. QED
  BY <1>3, <1>4 DEF Vouches, Vouching

LEMMA TornElsewhere ==
  ASSUME NEW p \in Processes, \A q \in Processes \ {p} : pass'[q] = pass[q],
         Torn(p) => cut' \/ Torn(p)', \A q \in Processes : ~Torn(q)', ~cut'
  PROVE  \A q \in Processes : ~Torn(q)
BY DEF Torn

(* Only a pass that discovers states a complete extraction, or one that    *)
(* takes the first phase of the rebuild to have done so.                   *)
LEMMA FullDiscovers ==
  ASSUME NEW p \in Processes, pass[p].kind \in Kinds \cup {"evidence"},
         Asked(p).signature = Full
  PROVE  Asked(p).discover \/ pass[p].kind = "relink phase"
<1>1. pass[p].kind \in {"evidence", "relink", "discover phase", "relink phase"}
  BY IndexerAssumption
<1>2. CASE pass[p].kind \in {"evidence", "discover phase"}
  BY <1>2 DEF Asked, Demand
<1>3. CASE pass[p].kind = "relink"
  <2>1. Asked(p).signature.discovery = FALSE
    BY <1>3 DEF Asked, Demand
  <2>2. Full.discovery = TRUE
    BY DEF Full
  <2>. QED
    BY <2>1, <2>2
<1>. QED
  BY <1>1, <1>2, <1>3

LEMMA VouchStates ==
  ASSUME IndexerInv, Knowing, NEW p \in Processes, Vouch(p)
  PROVE  Vouches'
<1> USE DEF Go, At
<1>1. /\ pass \in [Processes -> Pass] /\ pass[p] \in Pass /\ Discovered(p) /\ PassWell(p)
      /\ node \in [hash : Texts \cup {None}, extractor : Signatures \cup {None},
                   evidence : 0 .. MaxEvents + MaxFaults, analysis : Texts \cup {None}]
      /\ searched \in [Texts -> Search]
  BY DEF IndexerInv, StateOK, Knowing, AllDiscovered, HistoryOK
<1>2. /\ pass[p].pc = "write" /\ pass[p].left = {} /\ UNCHANGED <<rows, ruled>>
      /\ node' = [node EXCEPT !.hash = pass[p].seen, !.extractor = Asked(p).signature]
      /\ blind' = Blind(p)
  BY DEF Vouch
<1>3. node'.hash = pass[p].seen /\ node'.extractor = Asked(p).signature
  BY <1>1, <1>2
<1>4. PICK v \in Texts : v = pass[p].seen
  BY <1>1, PassFields
<1>5. Complete' => Asked(p).signature = Full /\ ~Blind(p)
  BY <1>2, <1>3 DEF Complete
<1>6. Asked(p).signature = Full /\ ~Blind(p) => searched[v] = "wholly"
  <2>1. SUFFICES ASSUME Asked(p).signature = Full, ~Blind(p) PROVE searched[v] = "wholly"
    OBVIOUS
  <2>2. Asked(p).discover \/ pass[p].kind = "relink phase"
    BY <1>1, <2>1, FullDiscovers, PassFields
  <2>3. searched[v] # "never"
    BY <1>1, <1>2, <1>4, <2>1, <2>2 DEF Discovered, Blind, Replacing
  <2>4. searched[v] # "partly" /\ searched[v] \in Search
    BY <1>1, <1>4, <2>1 DEF Blind
  <2>. QED
    BY <2>3, <2>4 DEF Search
<1>7. OfText(pass[p].seen) /\ Detected(p) \ ruled \subseteq Linked(rows)
  BY <1>1, <1>2 DEF PassWell, WhileLinking
<1>8. searched[v] = "wholly" => Admitted(v) \subseteq Detected(p)
  BY <1>1, <1>2, <1>4, NamesOfText DEF Discovered, Detected, Replacing
<1>9. Complete' => Admitted(v) \ ruled \subseteq Linked(rows)
  BY <1>5, <1>6, <1>7, <1>8
<1>10. OfText(v)
  BY <1>4, <1>7
<1>11. States(v, Complete)'
  <2>1. Admitted(v)' = Admitted(v) /\ ruled' = ruled /\ rows' = rows
    BY <1>2 DEF Admitted, Creates, Eligible
  <2>. QED
    BY <1>9, <1>10, <2>1 DEF States, OfText, Linked
<1>12. States(node.hash, Complete)' <=> States(v, Complete)'
  BY <1>3, <1>4 DEF States, OfText, Admitted
<1>. QED
  BY <1>11, <1>12 DEF Vouches

LEMMA StepVouches ==
  ASSUME IndexerInv, Knowing, Vouches, NEW p \in Processes, Step(p)
  PROVE  Vouches'
<1> USE DEF Go, At, store, history
<1>1. /\ pass \in [Processes -> Pass] /\ pass[p] \in Pass
      /\ node \in [hash : Texts \cup {None}, extractor : Signatures \cup {None},
                   evidence : 0 .. MaxEvents + MaxFaults, analysis : Texts \cup {None}]
  BY DEF IndexerInv, StateOK
<1>2. CASE Fetch(p) \/ Touch(p) \/ AttachMail(p) \/ Discover(p) \/ ReadForms(p) \/ Unclaim(p)
           \/ WriteClaims(p) \/ Summarize(p) \/ Finish(p) \/ Raise(p) \/ Crash(p) \/ Restart(p)
  <2>1. /\ \A q \in Processes \ {p} : pass'[q] = pass[q]
        /\ UNCHANGED <<rows, ruled, blind>> /\ (~cut' => ~cut)
        /\ Torn(p) => cut' \/ Torn(p)'
    <3>1. CASE Fetch(p)
      BY <1>1, <3>1 DEF Fetch, Torn
    <3>2. CASE Touch(p) \/ AttachMail(p) \/ Discover(p) \/ ReadForms(p)
      BY <1>1, <3>2 DEF Touch, AttachMail, Discover, ReadForms, Torn
    <3>3. CASE Unclaim(p) \/ WriteClaims(p) \/ Summarize(p)
      BY <1>1, <3>3 DEF Unclaim, WriteClaims, Summarize, Torn
    <3>4. CASE Finish(p) \/ Restart(p)
      BY <1>1, <3>4 DEF Finish, Restart, Torn
    <3>5. CASE Raise(p)
      BY <1>1, <3>5 DEF Raise
    <3>6. CASE Crash(p)
      BY <1>1, <3>6 DEF Crash
    <3>. QED
      BY <1>2, <3>1, <3>2, <3>3, <3>4, <3>5, <3>6
  <2>2. node'.hash = node.hash /\ node'.extractor = node.extractor
    <3>1. CASE Touch(p) \/ Summarize(p)
      BY <1>1, <3>1 DEF Touch, Summarize
    <3>2. CASE ~(Touch(p) \/ Summarize(p))
      BY <1>2, <3>2 DEF Fetch, AttachMail, Discover, ReadForms, Unclaim, WriteClaims, Finish,
                        Raise, Crash, Restart
    <3>. QED
      BY <3>1, <3>2
  <2>3. ~cut' /\ (\A q \in Processes : ~Torn(q)') => \A q \in Processes : ~Torn(q)
    BY <2>1, TornElsewhere
  <2>. QED
    BY <2>1, <2>2, <2>3, VouchesStill
<1>3. CASE Clear(p) \/ ReadRulings(p) \/ WriteMention(p)
  <2>1. pass'[p].pc \in {"rulings", "write"}
    <3>1. CASE Clear(p)
      BY <1>1, <3>1 DEF Clear, Pass
    <3>2. CASE ReadRulings(p)
      BY <1>1, <3>2 DEF ReadRulings, Pass
    <3>3. CASE WriteMention(p)
      BY <1>1, <3>3 DEF WriteMention, Pass
    <3>. QED
      BY <1>3, <3>1, <3>2, <3>3
  <2>2. Torn(p)'
    BY <2>1 DEF Torn
  <2>. QED
    BY <2>2 DEF Vouches, Vouching
<1>4. CASE Vouch(p)
  BY <1>4, VouchStates
<1>. QED
  BY <1>2, <1>3, <1>4 DEF Step

LEMMA NextVouches ==
  ASSUME IndexerInv, Knowing, Vouches, [Next]_vars
  PROVE  Vouches'
<1> USE DEF store, history
<1>1. CASE UNCHANGED <<pass, rows, ruled, node, cut, blind>>
  BY <1>1, VouchesStill DEF Torn
<1>2. CASE Claim \/ \E k \in Kinds : \E c \in Callers : Call(c, k)
  <2>1. PICK p \in Processes :
          pass[p].pc = "idle" /\ \A q \in Processes \ {p} : pass'[q] = pass[q]
    <3>1. CASE Claim
      BY <3>1, Processing DEF Claim, MayStart, IndexerInv, StateOK
    <3>2. CASE \E k \in Kinds : \E c \in Callers : Call(c, k)
      BY <3>2, Processing DEF Call, MayStart, IndexerInv, StateOK
    <3>. QED
      BY <1>2, <3>1, <3>2
  <2>2. \A q \in Processes \ {p} : pass'[q] = pass[q]
    BY <2>1
  <2>3. ~cut' /\ (\A q \in Processes : ~Torn(q)') => \A q \in Processes : ~Torn(q)
    BY <2>1, <2>2, TornElsewhere DEF Torn
  <2>4. UNCHANGED <<rows, ruled, node, cut, blind>>
    BY <1>2 DEF Claim, Call
  <2>. QED
    BY <2>3, <2>4, VouchesStill
<1>3. CASE \E n \in Names : Rule(n)
  <2>1. PICK n \in Names : Rule(n)
    BY <1>3
  <2>2. /\ UNCHANGED <<node, cut, blind, pass>> /\ ruled' = ruled \cup {n}
        /\ rows' = {r \in rows : r[1] # n}
    BY <2>1 DEF Rule
  <2>3. Linked(rows)' = Linked(rows) \ {n}
    BY <2>2, LinkedLess
  <2>4. States(node.hash, Complete) => States(node.hash, Complete)'
    <3>1. SUFFICES ASSUME States(node.hash, Complete) PROVE States(node.hash, Complete)'
      OBVIOUS
    <3>2. OfText(node.hash) /\ (Complete => Admitted(node.hash) \ ruled \subseteq Linked(rows))
      BY <3>1 DEF States
    <3>3. Admitted(node.hash)' = Admitted(node.hash) /\ (Complete' <=> Complete)
      BY <2>2 DEF Admitted, Creates, Eligible, Complete
    <3>4. Complete' => Admitted(node.hash)' \ ruled' \subseteq Linked(rows)'
      BY <2>2, <2>3, <3>2, <3>3
    <3>5. OfText(node.hash)'
      BY <2>2, <3>2 DEF OfText
    <3>. QED
      BY <3>4, <3>5 DEF States
  <2>5. Vouching' => Vouching
    BY <2>2 DEF Vouching, Torn
  <2>. QED
    BY <2>4, <2>5 DEF Vouches
<1>4. CASE \E p \in Processes : Step(p)
  BY <1>4, StepVouches
<1>5. CASE UNCHANGED vars \/ Edit \/ ClaimByHand \/ \E k \in Kinds : Enqueue(k)
  BY <1>1, <1>5 DEF vars, Edit, ClaimByHand, Enqueue
<1>. QED
  BY <1>2, <1>3, <1>4, <1>5 DEF Next

(* A document whose node states a text has the mentions of exactly this    *)
(* text; one whose node states the complete extraction as well has every   *)
(* admitted name linked.  Excepted are what StateVouches excepts: a        *)
(* replacement that was cut off, lost chunks, a relink phase over a text   *)
(* never discovered.                                                       *)
THEOREM WhatTheNodeVouchesFor == ASSUME Alone PROVE Spec => []StateVouches
<1>1. Init => Knowing /\ Vouches
  <2> SUFFICES ASSUME Init PROVE Knowing /\ Vouches
    OBVIOUS
  <2>1. \A p \in Processes : pass[p].pc = "idle"
    BY IdleWell DEF Init
  <2>2. /\ node.hash = None
        /\ searched = [v \in Texts |-> "never"] /\ blind = FALSE
    BY DEF Init
  <2>3. HistoryOK /\ NamesKnown
    BY <2>2 DEF HistoryOK, NamesKnown, Search
  <2>. QED
    BY <2>1, <2>2, <2>3 DEF Knowing, AllDiscovered, Discovered, Replacing, Vouches, Vouching
<1>2. IndexerInv /\ Knowing /\ Vouches /\ [Next]_vars => Knowing' /\ Vouches'
  BY NextKnows, NextVouches
<1>3. IndexerInv /\ Knowing /\ Vouches => StateVouches
  <2>1. IndexerInv /\ Knowing => TypeOK
    BY DEF IndexerInv, Knowing, HistoryOK, Search, TypeOK
  <2>. QED
    BY <2>1 DEF StateVouches, Vouches, Vouching, States, Complete
<1>. QED
  BY <1>1, <1>2, <1>3, IndexerInvariant, PTL DEF Spec

(* A pass that ends well has linked what it detected, for it is still      *)
(* linked: between vouching and the end only this pass and curators reach  *)
(* the mentions.                                                           *)
THEOREM DoneIsLinked == ASSUME Alone PROVE Spec => DoneMeansLinked
<1>1. ASSUME IndexerInv, NEW p \in Processes, pass[p].pc = "end", pass[p].reindex
      PROVE  /\ node.hash = pass[p].seen /\ \A r \in rows : r[2] = pass[p].seen
             /\ (In[pass[p].seen] \cap pass[p].forms) \ ruled \subseteq {r[1] : r \in rows}
  BY <1>1 DEF IndexerInv, PassWell, AfterLinking, OfText, Detected, Linked
<1>2. IndexerInv =>
        \A p \in Processes :
          /\ pass[p].pc = "end" /\ pass'[p].pc = "idle" /\ ~pass[p].failed
          /\ pass[p].seen \notin Oversize \cup {Empty} /\ pass[p].reindex
          => /\ node.hash = pass[p].seen
             /\ \A r \in rows : r[2] = pass[p].seen
             /\ (In[pass[p].seen] \cap pass[p].forms) \ ruled \subseteq {r[1] : r \in rows}
  BY <1>1
<1>. QED
  BY <1>2, IndexerInvariant, PTL DEF DoneMeansLinked

(* Who leaves the stretch between clearing and vouching and is still in    *)
(* index_evidence has vouched.                                             *)
LEMMA OnlyVouching ==
  ASSUME IndexerInv, [Next]_vars, NEW p \in Processes, Torn(p), pass'[p].pc \in Active, ~Torn(p)'
  PROVE  Vouch(p)
<1> USE DEF Torn
<1>1. pass \in [Processes -> Pass] /\ pass[p] \in Pass /\ pass'[p] # pass[p]
  BY DEF IndexerInv, StateOK
<1>2. ~Claim /\ ~\E k \in Kinds : \E c \in Callers : Call(c, k)
  <2>1. ASSUME NEW q \in Processes, pass[q].pc = "idle", NEW new, pass' = [pass EXCEPT ![q] = new]
        PROVE  FALSE
    BY <1>1, <2>1
  <2>2. ~Claim
    BY <2>1, Processing DEF Claim, MayStart
  <2>3. ~\E k \in Kinds : \E c \in Callers : Call(c, k)
    BY <2>1, Processing DEF Call, MayStart
  <2>. QED
    BY <2>2, <2>3
<1>3. PICK q \in Processes : Step(q)
  BY <1>1, <1>2 DEF Next, vars, Enqueue, Edit, ClaimByHand, Rule
<1>4. q = p
  BY <1>1, <1>3 DEF Step, Fetch, Touch, AttachMail, Discover, ReadForms, Clear, ReadRulings,
     WriteMention, Vouch, Unclaim, WriteClaims, Summarize, Finish, Raise, Crash, Restart, Go
<1>5. ~(Fetch(p) \/ Touch(p) \/ AttachMail(p) \/ Discover(p) \/ ReadForms(p) \/ Clear(p)
        \/ Unclaim(p) \/ WriteClaims(p) \/ Summarize(p) \/ Finish(p) \/ Restart(p))
  BY DEF Fetch, Touch, AttachMail, Discover, ReadForms, Clear, Unclaim, WriteClaims, Summarize,
     Finish, Restart, At
<1>6. ~(Raise(p) \/ Crash(p))
  BY <1>1 DEF Raise, Crash, Idle, Active
<1>7. ~(ReadRulings(p) \/ WriteMention(p))
  <2>1. ~ReadRulings(p)
    BY <1>1 DEF ReadRulings, Pass
  <2>2. ~WriteMention(p)
    BY <1>1 DEF WriteMention, Pass, At
  <2>. QED
    BY <2>1, <2>2
<1>. QED
  BY <1>3, <1>4, <1>5, <1>6, <1>7 DEF Step

LEMMA ManualStays ==
  ASSUME [Next]_vars, Manual \in claims
  PROVE  Manual \in claims'
<1>1. CASE \E p \in Processes : Step(p)
  <2>1. PICK p \in Processes : Step(p)
    BY <1>1
  <2>2. CASE Unclaim(p) \/ WriteClaims(p)
    BY <2>2 DEF Unclaim, WriteClaims
  <2>3. CASE ~(Unclaim(p) \/ WriteClaims(p))
    BY <2>1, <2>3 DEF Step, Fetch, Touch, AttachMail, Discover, ReadForms, Clear, ReadRulings,
       WriteMention, Vouch, Summarize, Finish, Raise, Crash, Restart, store
  <2>. QED
    BY <2>2, <2>3
<1>. QED
  BY <1>1 DEF Next, vars, store, Claim, Call, Enqueue, Edit, ClaimByHand, Rule

(* What a curator decided before a pass began outlives the pass: a claim   *)
(* made by hand stays, a rejected name is not linked.                      *)
THEOREM CuratedWorkIsKept == ASSUME Alone PROVE Spec => CuratedWorkKept
<1>1. ASSUME IndexerInv, [Next]_vars
      PROVE  /\ Manual \in claims => Manual \in claims'
             /\ \A p \in Processes : Torn(p) /\ pass'[p].pc \in Active /\ ~Torn(p)'
                  => \A r \in rows' : r[1] \notin pass[p].before
  <2>1. Manual \in claims => Manual \in claims'
    BY <1>1, ManualStays
  <2>2. ASSUME NEW p \in Processes, Torn(p), pass'[p].pc \in Active, ~Torn(p)',
               NEW r \in rows'
        PROVE  r[1] \notin pass[p].before
    <3>1. Vouch(p)
      BY <1>1, <2>2, OnlyVouching
    <3>2. pass[p].pc = "write" /\ r \in rows /\ PassWell(p)
      BY <1>1, <2>2, <3>1 DEF Vouch, At, IndexerInv
    <3>3. r[1] \in Linked(rows)
      BY <3>2 DEF Linked
    <3>. QED
      BY <3>2, <3>3 DEF PassWell, WhileLinking
  <2>. QED
    BY <2>1, <2>2
<1>. QED
  BY <1>1, IndexerInvariant, PTL DEF CuratedWorkKept, Spec

=============================================================================

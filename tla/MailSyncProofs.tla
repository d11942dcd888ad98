--------------------------- MODULE MailSyncProofs ---------------------------
(***************************************************************************)
(* Proofs about MailSync, for every number of messages, numberings, passes *)
(* and cut-off passes: MailInv is an invariant as long as runs do not      *)
(* overlap and the cutoff is not moved to an earlier date, and NothingLost *)
(* is part of it.                                                          *)
(*                                                                         *)
(* Proofs about SourceOrigin, which tells the imported mail from ordinary  *)
(* documents, are at the end: the two modules share no state and no name   *)
(* but None.                                                               *)
(***************************************************************************)
EXTENDS MailSync, SourceOrigin, FiniteSetTheorems, WellFoundedInduction, TLAPS

Orderly == Overlapping = FALSE /\ Expanding = FALSE

-----------------------------------------------------------------------------
(* Least and greatest UIDs of a set.                                       *)

Less == {p \in Nat \X Nat : p[1] < p[2]}

LEMMA LessWellFounded == IsWellFoundedOn(Less, Nat)
BY NatLessThanWellFounded, Zenon DEF OpToRel, Less

LEMMA Least ==
  ASSUME NEW S \in SUBSET Nat, S # {}
  PROVE  \E n \in S : \A m \in S : n <= m
<1>1. PICK n \in S : \A m \in S : ~ (<<m, n>> \in Less)
  BY LessWellFounded, WFMin, Zenon
<1>2. \A m \in S : ~ (m < n)
  BY <1>1 DEF Less
<1>. QED
  BY <1>2

LEMMA UidsType == MaxUid \in Nat /\ Uids \in SUBSET Nat /\ IsFiniteSet(Uids)
<1>1. MaxUid \in Nat
  BY ParameterAssumption
<1>2. 1 \in Int /\ MaxUid \in Int
  BY <1>1
<1>3. IsFiniteSet(1 .. MaxUid)
  BY <1>2, FS_Interval
<1>. QED
  BY <1>1, <1>3 DEF Uids

LEMMA BottomIsLeast ==
  ASSUME NEW S \in SUBSET Uids, S # {}
  PROVE  Bottom(S) \in S /\ \A m \in S : Bottom(S) <= m
<1>1. S \in SUBSET Nat
  BY UidsType
<1>2. \E n \in S : \A m \in S : n <= m
  BY <1>1, Least
<1>. QED
  BY <1>2, Zenon DEF Bottom

LEMMA TopIsGreatest ==
  ASSUME NEW S \in SUBSET Uids, S # {}
  PROVE  Top(S) \in S /\ \A m \in S : m <= Top(S)
<1>. DEFINE T == {MaxUid - u : u \in S}
<1>1. T \in SUBSET Nat /\ T # {}
  <2>1. ASSUME NEW u \in S PROVE MaxUid - u \in Nat
    BY UidsType DEF Uids
  <2>. QED
    BY <2>1
<1>2. \E n \in T : \A m \in T : n <= m
  <2>. HIDE DEF T
  <2>. QED
    BY <1>1, Least
<1>3. PICK n \in T : \A m \in T : n <= m
  BY <1>2, Zenon
<1>4. PICK u \in S : n = MaxUid - u
  BY Zenon
<1>5. ASSUME NEW v \in S PROVE v <= u
  <2>1. n <= MaxUid - v
    BY <1>3
  <2>2. u \in Nat /\ v \in Nat
    BY UidsType
  <2>. QED
    BY <2>1, <2>2, <1>4, UidsType
<1>6. \E k \in S : \A m \in S : m <= k
  BY <1>5, Zenon
<1>. QED
  BY <1>6, Zenon DEF Top

(* A batch leaves out no UID on its cursor's side.                         *)
LEMMA LowestIsClosed ==
  ASSUME NEW S \in SUBSET Uids, NEW n \in Int,
         NEW w \in Lowest(S, n), NEW v \in S, v < w
  PROVE  v \in Lowest(S, n)
<1>. DEFINE A == {x \in S : x < v}
            B == {x \in S : x < w}
<1>1. A \subseteq B /\ B \in SUBSET Uids
  <2>1. S \subseteq Nat /\ w \in S
    BY UidsType DEF Lowest
  <2>2. \A x \in S : x < v => x < w
    BY <2>1
  <2>. QED
    BY <2>2
<1>2. IsFiniteSet(B)
  BY <1>1, UidsType, FS_Subset
<1>3. IsFiniteSet(A) /\ Cardinality(A) <= Cardinality(B)
  BY <1>1, <1>2, FS_Subset
<1>4. Cardinality(A) \in Nat /\ Cardinality(B) \in Nat
  BY <1>2, <1>3, FS_CardinalityType
<1>5. n = 0 \/ Cardinality(B) < n
  BY DEF Lowest
<1>6. n = 0 \/ Cardinality(A) < n
  BY <1>3, <1>4, <1>5
<1>. QED
  BY <1>6 DEF Lowest

LEMMA HighestIsClosed ==
  ASSUME NEW S \in SUBSET Uids, NEW n \in Int,
         NEW w \in Highest(S, n), NEW v \in S, w < v
  PROVE  v \in Highest(S, n)
<1>. DEFINE A == {x \in S : x > v}
            B == {x \in S : x > w}
<1>1. A \subseteq B /\ B \in SUBSET Uids
  <2>1. S \subseteq Nat /\ w \in S
    BY UidsType DEF Highest
  <2>2. \A x \in S : x > v => x > w
    BY <2>1
  <2>. QED
    BY <2>2
<1>2. IsFiniteSet(B)
  BY <1>1, UidsType, FS_Subset
<1>3. IsFiniteSet(A) /\ Cardinality(A) <= Cardinality(B)
  BY <1>1, <1>2, FS_Subset
<1>4. Cardinality(A) \in Nat /\ Cardinality(B) \in Nat
  BY <1>2, <1>3, FS_CardinalityType
<1>5. n = 0 \/ Cardinality(B) < n
  BY DEF Highest
<1>6. n = 0 \/ Cardinality(A) < n
  BY <1>3, <1>4, <1>5
<1>. QED
  BY <1>6 DEF Highest

-----------------------------------------------------------------------------
(* Types of a run's fields.                                                *)
LEMMA RunFields ==
  ASSUME NEW r \in RunState
  PROVE  /\ r.pc \in PC /\ r.numbering \in Nat /\ r.validity \in Validities
         /\ r.budget \in Nat /\ r.cutoff \in Nat /\ r.head \in Nat
         /\ r.found \in SUBSET Uids /\ r.live \in SUBSET Uids
         /\ r.backfill \in SUBSET Uids
<1>1. /\ r.pc \in PC /\ r.numbering \in Nat /\ r.validity \in Validities
      /\ r.budget \in Budgets \cup {0} /\ r.cutoff \in Cutoffs \cup {0}
      /\ r.head \in 0 .. MaxUid
      /\ r.found \in SUBSET Uids /\ r.live \in SUBSET Uids
      /\ r.backfill \in SUBSET Uids
  BY DEF RunState
<1>2. Budgets \cup {0} \subseteq Nat /\ Cutoffs \cup {0} \subseteq Nat
  BY ParameterAssumption
<1>3. r.budget \in Nat /\ r.cutoff \in Nat
  BY <1>1, <1>2, Zenon
<1>4. r.head \in Nat
  BY <1>1, UidsType
<1>. QED
  BY <1>1, <1>3, <1>4, Zenon

LEMMA ClosedType == Closed \in RunState
BY UidsType, ParameterAssumption DEF Closed, RunState, PC, Validities

(* The batches of a run, from what it found and the cursors.               *)
LEMMA PlannedBatches ==
  ASSUME NEW r \in RunState, NEW c \in Row, NEW p, p = Planned(r, c), p # Closed
  PROVE  /\ p \in RunState /\ p.pc = "fetch"
         /\ p.numbering = r.numbering /\ p.validity = r.validity
         /\ p.live \cup p.backfill # {}
         /\ \A w \in p.live :
              /\ w \in r.found /\ c.live < w
              /\ \A u \in r.found : c.live < u /\ u < w => u \in p.live
         /\ \A w \in p.backfill :
              /\ w \in r.found /\ c.legacy < w /\ w < c.before
              /\ \A u \in r.found : w < u /\ u < c.before => u \in p.backfill
<1>. DEFINE livePending == {u \in r.found : u > c.live}
            backfillPending == {u \in r.found : c.legacy < u /\ u < c.before}
            L == Lowest(livePending, r.budget)
            left == r.budget - Cardinality(L)
            n == IF r.budget = 0 THEN 0 ELSE left
            B == IF r.budget > 0 /\ left = 0 THEN {} ELSE Highest(backfillPending, n)
            q == [Closed EXCEPT !.pc = "fetch", !.numbering = r.numbering,
                                !.validity = r.validity, !.live = L, !.backfill = B]
<1>1. /\ livePending \in SUBSET Uids /\ backfillPending \in SUBSET Uids
      /\ L \subseteq livePending /\ B \subseteq backfillPending
  BY DEF RunState, Lowest, Highest
<1>2. r.budget \in Nat /\ Cardinality(L) \in Nat /\ n \in Int
  <2>1. r.budget \in Nat
    BY RunFields
  <2>2. IsFiniteSet(L)
    BY <1>1, UidsType, FS_Subset
  <2>. QED
    BY <2>1, <2>2, FS_CardinalityType
<1>3. p = q /\ L \cup B # {}
  BY DEF Planned
<1>4. /\ q \in RunState /\ q.pc = "fetch"
      /\ q.numbering = r.numbering /\ q.validity = r.validity
      /\ q.live = L /\ q.backfill = B
  <2>. HIDE DEF L, B
  <2>1. L \in SUBSET Uids /\ B \in SUBSET Uids
    BY <1>1
  <2>. QED
    BY <2>1, RunFields, ClosedType DEF RunState, PC
<1>5. ASSUME NEW w \in L
      PROVE  /\ w \in r.found /\ c.live < w
             /\ \A u \in r.found : c.live < u /\ u < w => u \in L
  <2>1. w \in livePending
    BY <1>1
  <2>2. ASSUME NEW u \in r.found, c.live < u, u < w PROVE u \in L
    BY <1>1, <1>2, <2>2, LowestIsClosed
  <2>. QED
    BY <2>1, <2>2, UidsType DEF RunState, Row
<1>6. ASSUME NEW w \in B
      PROVE  /\ w \in r.found /\ c.legacy < w /\ w < c.before
             /\ \A u \in r.found : w < u /\ u < c.before => u \in B
  <2>1. w \in backfillPending /\ w \in Highest(backfillPending, n)
        /\ B = Highest(backfillPending, n)
    BY <1>1
  <2>2. ASSUME NEW u \in r.found, w < u, u < c.before PROVE u \in B
    <3>1. u \in backfillPending
      BY <2>1, <2>2, UidsType DEF RunState, Row
    <3>2. u \in Highest(backfillPending, n)
      BY <1>1, <1>2, <2>1, <2>2, <3>1, HighestIsClosed
    <3>. QED
      BY <2>1, <3>2
  <2>. QED
    BY <2>1, <2>2
<1>. HIDE DEF q, L, B
<1>. QED
  BY <1>3, <1>4, <1>5, <1>6, Zenon

-----------------------------------------------------------------------------
(* What the type invariant says of the fields.                             *)
LEMMA MailboxFields ==
  ASSUME mailbox \in Mailbox, DOMAIN mailbox.mails \subseteq 1 .. mailbox.top
  PROVE  /\ mailbox.numbering \in Numberings /\ mailbox.top \in 0 .. MaxUid
         /\ mailbox.numbering \in Nat \ {0} /\ mailbox.top \in Nat
         /\ mailbox.silent \in BOOLEAN
         /\ mailbox.mails \in [DOMAIN mailbox.mails -> Dates]
         /\ DOMAIN mailbox.mails \in SUBSET Uids
         /\ \A u \in DOMAIN mailbox.mails :
              u \in Nat \ {0} /\ u <= mailbox.top /\ mailbox.mails[u] \in Nat \ {0}
<1>1. /\ mailbox.numbering \in Numberings /\ mailbox.top \in 0 .. MaxUid
      /\ mailbox.silent \in BOOLEAN
      /\ mailbox.mails \in UNION {[S -> Dates] : S \in SUBSET Uids}
  BY DEF Mailbox
<1>2. mailbox.numbering \in Nat \ {0} /\ mailbox.top \in Nat
  BY <1>1, UidsType, ParameterAssumption DEF Numberings
<1>3. PICK S \in SUBSET Uids : mailbox.mails \in [S -> Dates]
  BY <1>1
<1>4. /\ mailbox.mails \in [DOMAIN mailbox.mails -> Dates]
      /\ DOMAIN mailbox.mails \in SUBSET Uids
  BY <1>3
<1>5. ASSUME NEW u \in DOMAIN mailbox.mails
      PROVE  u \in Nat \ {0} /\ u <= mailbox.top /\ mailbox.mails[u] \in Nat \ {0}
  <2>1. u \in 1 .. mailbox.top
    BY Zenon
  <2>2. u \in Nat \ {0} /\ u <= mailbox.top
    BY <2>1, <1>2
  <2>3. mailbox.mails[u] \in Dates
    BY <1>4
  <2>4. Dates \subseteq Nat \ {0}
    BY ParameterAssumption
  <2>. QED
    BY <2>2, <2>3, <2>4, Zenon
<1>. QED
  BY <1>1, <1>2, <1>4, <1>5

LEMMA RowFields ==
  ASSUME row \in Row \cup {None}, row # None
  PROVE  /\ row \in Row
         /\ row.validity \in Validities /\ row.validity \in Nat
         /\ row.live \in Nat /\ row.before \in Nat /\ row.legacy \in Nat
<1>1. row \in Row
  BY Zenon
<1>2. row.validity \in Validities /\ row.live \in Nat /\ row.before \in Nat
      /\ row.legacy \in Nat
  BY <1>1 DEF Row
<1>3. Validities \subseteq Nat
  BY ParameterAssumption DEF Validities
<1>. QED
  BY <1>1, <1>2, <1>3, Zenon

LEMMA LegacyFields ==
  ASSUME legacy \in Legacy \cup {None}, legacy # None
  PROVE  legacy.validity \in Nat /\ legacy.last \in Nat
<1>1. legacy \in Legacy
  BY Zenon
<1>2. legacy.validity \in Validities /\ legacy.last \in LastUids
  BY <1>1 DEF Legacy
<1>3. Validities \subseteq Nat /\ LastUids \subseteq Nat
  BY ParameterAssumption DEF Validities
<1>. QED
  BY <1>2, <1>3, Zenon

(* The cursor of an old installation counts in the first numbering only.   *)
LEMMA LegacyLater ==
  ASSUME NEW v \in Nat, v > 1, legacy # None => legacy.validity = 1
  PROVE  LegacyCursor(v) = 0
BY DEF LegacyCursor, SameNumbering

LEMMA LegacyType ==
  ASSUME legacy \in Legacy \cup {None}, NEW v
  PROVE  LegacyCursor(v) \in Nat
BY LegacyFields DEF LegacyCursor

-----------------------------------------------------------------------------
(* A step of one run, the others being closed: what is left to show of it. *)
LEMMA OneRunSteps ==
  ASSUME TypeOK, Numbered, NEW s \in Runs, NEW r \in RunState,
         \A t \in Runs \ {s} : run[t].pc = "closed",
         run' = [run EXCEPT ![s] = r], UNCHANGED <<mailbox, cutoff, legacy>>,
         row' \in Row \cup {None}, archived' \subseteq Numberings \X Uids,
         aborts' \in 0 .. MaxAborts,
         row' # None => Known(row'.validity),
         r.pc # "closed" =>
           /\ r.numbering \in 1 .. mailbox.numbering
           /\ r.validity = r.numbering \/ (r.validity = 0 /\ mailbox.silent),
         CursorsInside', Underway(s)', NothingLost'
  PROVE  MailInv'
<1>1. run \in [Runs -> RunState]
  BY DEF TypeOK
<1>2. run' \in [Runs -> RunState] /\ run'[s] = r
  BY <1>1
<1>3. \A t \in Runs \ {s} : run'[t] = run[t] /\ run'[t].pc = "closed"
  BY <1>1
<1>4. TypeOK'
  BY <1>2 DEF TypeOK
<1>5. OneRun'
  BY <1>3 DEF OneRun
<1>6. Numbered'
  <2>1. \A t \in Runs : run'[t].pc # "closed" =>
          /\ run'[t].numbering \in 1 .. mailbox.numbering
          /\ run'[t].validity = run'[t].numbering
             \/ (run'[t].validity = 0 /\ mailbox.silent)
    BY <1>2, <1>3, Zenon
  <2>2. row' # None =>
          row'.validity <= mailbox.numbering /\ (row'.validity = 0 => mailbox.silent)
    BY Zenon DEF Known
  <2>. QED
    BY <2>1, <2>2, Zenon DEF Numbered, Known
<1>7. \A t \in Runs : Underway(t)'
  <2>1. ASSUME NEW t \in Runs \ {s} PROVE Underway(t)'
    BY <1>3 DEF Underway
  <2>. QED
    BY <2>1, Zenon
<1>. QED
  BY <1>4, <1>5, <1>6, <1>7, Zenon DEF MailInv

LEMMA RestUnchanged ==
  ASSUME MailInv, UNCHANGED <<mailbox, cutoff, legacy, row, archived>>
  PROVE  /\ CursorsInside' /\ NothingLost'
         /\ row' \in Row \cup {None} /\ archived' \subseteq Numberings \X Uids
         /\ row' # None => Known(row'.validity)
<1>1. TypeOK /\ Numbered /\ CursorsInside /\ NothingLost
  BY DEF MailInv
<1>2. CursorsInside'
  BY <1>1 DEF CursorsInside, Current, Outdated
<1>3. NothingLost'
  BY <1>1 DEF NothingLost, Pending, Eligible, Outdated, LegacyCursor
<1>. QED
  BY <1>1, <1>2, <1>3, Zenon DEF TypeOK, Numbered

LEMMA Acting ==
  ASSUME MailInv, NEW s \in Runs, run[s].pc # "closed"
  PROVE  /\ TypeOK /\ Numbered /\ Underway(s)
         /\ \A t \in Runs \ {s} : run[t].pc = "closed"
         /\ run[s] \in RunState /\ aborts \in 0 .. MaxAborts
         /\ run[s].numbering \in 1 .. mailbox.numbering
         /\ run[s].validity = run[s].numbering
            \/ (run[s].validity = 0 /\ mailbox.silent)
<1>1. TypeOK /\ OneRun /\ Numbered /\ Underway(s)
  BY DEF MailInv
<1>2. \A t \in Runs \ {s} : run[t].pc = "closed"
  BY <1>1, Zenon DEF OneRun
<1>3. run[s] \in RunState /\ aborts \in 0 .. MaxAborts
  BY <1>1 DEF TypeOK
<1>. QED
  BY <1>1, <1>2, <1>3, Zenon DEF Numbered

(* A run that ends leaves the rest as it is.                               *)
LEMMA RunEnds ==
  ASSUME MailInv, NEW s \in Runs, run[s].pc # "closed",
         run' = [run EXCEPT ![s] = Closed], aborts' \in 0 .. MaxAborts,
         UNCHANGED <<mailbox, cutoff, legacy, row, archived>>
  PROVE  MailInv'
<1>1. run'[s] = Closed /\ Closed.pc = "closed"
  BY Acting DEF TypeOK, Closed
<1>2. Underway(s)'
  BY <1>1 DEF Underway
<1>. QED
  BY <1>1, <1>2, Acting, RestUnchanged, ClosedType, OneRunSteps

LEMMA MailTypes ==
  ASSUME MailInv
  PROVE  /\ mailbox \in Mailbox /\ DOMAIN mailbox.mails \subseteq 1 .. mailbox.top
         /\ cutoff \in Cutoffs /\ cutoff \in Nat
         /\ legacy \in Legacy \cup {None} /\ row \in Row \cup {None}
         /\ archived \subseteq Numberings \X Uids
         /\ run \in [Runs -> RunState] /\ aborts \in 0 .. MaxAborts
<1>1. Cutoffs \subseteq Nat
  BY ParameterAssumption
<1>. QED
  BY <1>1, Zenon DEF MailInv, TypeOK

(* In a later numbering the old cursor counts for nothing.                 *)
LEMMA LegacyRenumbered ==
  ASSUME MailInv, mailbox.numbering # 1
  PROVE  ~mailbox.silent /\ LegacyCursor(mailbox.numbering) = 0
<1>1. mailbox.numbering \in Nat \ {0} /\ mailbox.silent \in BOOLEAN
  BY MailTypes, MailboxFields
<1>2. Numbered
  BY DEF MailInv
<1>3. ~mailbox.silent
  BY <1>2 DEF Numbered
<1>4. legacy # None => legacy.validity = 1
  BY <1>2, <1>3, MailTypes, LegacyFields DEF Numbered, Known
<1>. QED
  BY <1>1, <1>3, <1>4, LegacyLater

(* A session of an earlier numbering was told which one.                   *)
LEMMA DeadSession ==
  ASSUME MailInv, NEW s \in Runs, run[s].pc # "closed", ~SessionLives(run[s])
  PROVE  /\ mailbox.numbering # 1 /\ ~mailbox.silent
         /\ run[s].validity = run[s].numbering
         /\ run[s].validity # 0 /\ run[s].validity # mailbox.numbering
<1>1. mailbox.numbering \in Nat \ {0}
  BY MailTypes, MailboxFields
<1>2. /\ run[s].numbering \in 1 .. mailbox.numbering
      /\ run[s].validity = run[s].numbering \/ (run[s].validity = 0 /\ mailbox.silent)
  BY Acting
<1>3. run[s].numbering # mailbox.numbering
  BY DEF SessionLives
<1>4. mailbox.numbering # 1 /\ run[s].numbering # 0
  BY <1>1, <1>2, <1>3
<1>. QED
  BY <1>2, <1>3, <1>4, LegacyRenumbered

-----------------------------------------------------------------------------
(* One lemma per step of a run.                                            *)
LEMMA Selecting ==
  ASSUME MailInv, Orderly, NEW s \in Runs, NEW b \in Budgets, Select(s, b)
  PROVE  MailInv'
<1>. DEFINE uids == DOMAIN mailbox.mails
            head == IF uids = {} THEN 0 ELSE Top(uids)
<1>1. PICK v \in {0, mailbox.numbering} :
        /\ v = 0 => mailbox.silent
        /\ run' = [run EXCEPT ![s] =
                     [Closed EXCEPT !.pc = "search", !.numbering = mailbox.numbering,
                                    !.validity = v, !.budget = b, !.cutoff = cutoff,
                                    !.found = uids, !.head = head]]
  <2>1. mailbox.numbering # 0
    BY MailTypes, MailboxFields
  <2>. QED
    BY <2>1 DEF Select
<1>. DEFINE r == [Closed EXCEPT !.pc = "search", !.numbering = mailbox.numbering,
                                !.validity = v, !.budget = b, !.cutoff = cutoff,
                                !.found = uids, !.head = head]
<1>2. /\ \A t \in Runs \ {s} : run[t].pc = "closed"
      /\ UNCHANGED <<mailbox, cutoff, legacy, row, archived, aborts>>
  BY Zenon DEF Select, Orderly
<1>3. /\ mailbox.numbering \in Nat \ {0} /\ mailbox.numbering \in Validities
      /\ mailbox.top \in Nat /\ uids \in SUBSET Uids
      /\ \A u \in uids : u \in Nat \ {0} /\ u <= mailbox.top
  BY MailTypes, MailboxFields, ParameterAssumption DEF Numberings, Validities
<1>4. head \in 0 .. MaxUid /\ head <= mailbox.top
  <2>1. CASE uids = {}
    BY <2>1, <1>3, UidsType
  <2>2. CASE uids # {}
    <3>1. Top(uids) \in uids
      BY <2>2, <1>3, TopIsGreatest
    <3>2. Top(uids) \in 0 .. MaxUid
      BY <3>1, <1>3, UidsType DEF Uids
    <3>. QED
      BY <2>2, <3>1, <3>2, <1>3
  <2>. QED
    BY <2>1, <2>2
<1>5. v \in Validities /\ (v = 0 \/ v = mailbox.numbering)
  BY <1>3, ParameterAssumption DEF Validities
<1>6. /\ r \in RunState /\ r.pc = "search" /\ r.numbering = mailbox.numbering
      /\ r.validity = v /\ r.cutoff = cutoff /\ r.found = uids /\ r.head = head
  <2>. HIDE DEF uids, head
  <2>. QED
    BY <1>3, <1>4, <1>5, ClosedType, MailTypes DEF RunState, PC
<1>7. run' = [run EXCEPT ![s] = r]
  BY <1>1
<1>. HIDE DEF r, head
<1>8. run'[s] = r
  BY <1>7, MailTypes
<1>9. Underway(s)'
  <2>1. Found(s)'
    BY <1>2, <1>3, <1>4, <1>6, <1>8, MailTypes DEF Found
  <2>. QED
    BY <2>1, <1>6, <1>8 DEF Underway
<1>10. TypeOK /\ Numbered
  BY DEF MailInv
<1>11. aborts' \in 0 .. MaxAborts /\ r.numbering \in 1 .. mailbox.numbering
       /\ (r.validity = r.numbering \/ (r.validity = 0 /\ mailbox.silent))
  BY <1>1, <1>2, <1>3, <1>5, <1>6, MailTypes
<1>. QED
  BY <1>2, <1>6, <1>7, <1>9, <1>10, <1>11, RestUnchanged, OneRunSteps

LEMMA Searching ==
  ASSUME MailInv, NEW s \in Runs, Search(s)
  PROVE  MailInv'
<1>. DEFINE r == run[s]
            eligible == {u \in DOMAIN mailbox.mails : Eligible(u, r.cutoff)}
<1>1. /\ r.pc = "search" /\ r.pc # "closed"
      /\ UNCHANGED <<mailbox, cutoff, legacy, row, archived, aborts>>
  BY DEF Search
<1>2. ASSUME NEW q \in RunState, run' = [run EXCEPT ![s] = q], q.pc = "load",
             q.numbering = r.numbering, q.validity = r.validity,
             SessionLives(q) => Found(s)'
      PROVE  MailInv'
  <2>1. run'[s] = q
    BY <1>2, MailTypes
  <2>2. Underway(s)'
    BY <2>1, <1>2, <1>1 DEF Underway, SessionLives
  <2>. QED
    BY <1>1, <1>2, <2>2, Acting, RestUnchanged, OneRunSteps
<1>3. r \in RunState /\ Underway(s)
  BY <1>1, Acting
<1>4. CASE r.cutoff = 0
  <2>. DEFINE q == [r EXCEPT !.pc = "load"]
  <2>1. run' = [run EXCEPT ![s] = q]
    BY <1>4 DEF Search
  <2>2. /\ q \in RunState /\ q.pc = "load" /\ q.numbering = r.numbering
        /\ q.validity = r.validity /\ q.found = r.found /\ q.head = r.head
        /\ q.cutoff = r.cutoff
    BY <1>3 DEF RunState, PC
  <2>3. ASSUME SessionLives(q) PROVE Found(s)'
    <3>1. Found(s)
      BY <2>2, <2>3, <1>1, <1>3 DEF Underway, SessionLives
    <3>2. run'[s] = q
      BY <2>1, MailTypes
    <3>. QED
      BY <3>1, <3>2, <2>2, <1>1 DEF Found, Eligible, Current, Outdated
  <2>. HIDE DEF q
  <2>. QED
    BY <2>1, <2>2, <2>3, <1>2
<1>5. CASE r.cutoff # 0 /\ SessionLives(r)
  <2>. DEFINE q == [r EXCEPT !.pc = "load", !.found = eligible]
  <2>1. run' = [run EXCEPT ![s] = q]
    BY <1>5 DEF Search
  <2>2. /\ q \in RunState /\ q.pc = "load" /\ q.numbering = r.numbering
        /\ q.validity = r.validity /\ q.found = eligible /\ q.head = r.head
        /\ q.cutoff = r.cutoff
    <3>1. eligible \in SUBSET Uids
      BY MailTypes, MailboxFields
    <3>. HIDE DEF eligible
    <3>. QED
      BY <3>1, <1>3 DEF RunState, PC
  <2>3. ASSUME SessionLives(q) PROVE Found(s)'
    <3>1. Found(s)
      BY <1>1, <1>3, <1>5 DEF Underway
    <3>2. run'[s] = q
      BY <2>1, MailTypes
    <3>3. r.cutoff \in Nat /\ cutoff \in Nat /\ r.cutoff <= cutoff
      BY <3>1, <1>3, RunFields, MailTypes DEF Found
    <3>4. \A u \in DOMAIN mailbox.mails : Eligible(u, cutoff) => u \in eligible
      BY <3>3, <1>5, MailTypes, MailboxFields DEF Eligible
    <3>5. eligible \subseteq 1 .. mailbox.top
      BY MailTypes
    <3>. HIDE DEF eligible
    <3>. QED
      BY <3>1, <3>2, <3>3, <3>4, <3>5, <2>2, <1>1 DEF Found, Eligible
  <2>. HIDE DEF q
  <2>. QED
    BY <2>1, <2>2, <2>3, <1>2
<1>6. CASE r.cutoff # 0 /\ ~SessionLives(r)
  BY <1>1, <1>6, RunEnds, MailTypes DEF Search
<1>. QED
  BY <1>4, <1>5, <1>6

(* The planned batches lie next to the cursors they are planned from.      *)
LEMMA PlannedAdjacent ==
  ASSUME MailInv, NEW s \in Runs, run[s].pc \in {"load", "insert"},
         SessionLives(run[s]), NEW c \in Row, NEW p,
         p = Planned(run[s], c), p # Closed,
         \A u \in DOMAIN mailbox.mails \ run[s].found :
           Eligible(u, cutoff) => c.before <= u,
         run'[s] = p, row' = c, UNCHANGED <<mailbox, cutoff>>, Current'
  PROVE  Adjacent(s)'
<1>. DEFINE r == run[s]
<1>1. r \in RunState /\ Found(s)
  BY Acting DEF Underway
<1>2. /\ \A w \in p.live :
           /\ w \in r.found /\ c.live < w
           /\ \A u \in r.found : c.live < u /\ u < w => u \in p.live
      /\ \A w \in p.backfill :
           /\ w \in r.found /\ c.legacy < w /\ w < c.before
           /\ \A u \in r.found : w < u /\ u < c.before => u \in p.backfill
  BY <1>1, PlannedBatches
<1>3. /\ r.found \subseteq 1 .. mailbox.top
      /\ \A u \in DOMAIN mailbox.mails \ r.found :
           Eligible(u, cutoff) => \A w \in r.found : w < u
  BY <1>1 DEF Found
<1>4. /\ \A u \in r.found : u \in Nat /\ u <= mailbox.top
      /\ \A u \in DOMAIN mailbox.mails : u \in Nat
      /\ c.before \in Nat
  BY <1>3, MailTypes, MailboxFields DEF Row
<1>5. ASSUME NEW w \in p.live
      PROVE  /\ c.live < w /\ w <= mailbox.top
             /\ \A u \in DOMAIN mailbox.mails :
                  Eligible(u, cutoff) /\ c.live < u /\ u < w => u \in p.live
  <2>1. ASSUME NEW u \in DOMAIN mailbox.mails, Eligible(u, cutoff), c.live < u, u < w
        PROVE  u \in p.live
    <3>1. w \in r.found
      BY <1>2
    <3>2. CASE u \in r.found
      BY <1>2, <2>1, <3>2
    <3>3. CASE u \notin r.found
      BY <1>3, <1>4, <2>1, <3>1, <3>3
    <3>. QED
      BY <3>2, <3>3
  <2>. QED
    BY <1>2, <1>4, <2>1
<1>6. ASSUME NEW w \in p.backfill
      PROVE  /\ c.legacy < w /\ w < c.before
             /\ \A u \in DOMAIN mailbox.mails :
                  Eligible(u, cutoff) /\ w < u /\ u < c.before => u \in p.backfill
  <2>1. ASSUME NEW u \in DOMAIN mailbox.mails, Eligible(u, cutoff), w < u, u < c.before
        PROVE  u \in p.backfill
    <3>1. CASE u \in r.found
      BY <1>2, <2>1, <3>1
    <3>2. CASE u \notin r.found
      BY <1>4, <2>1, <3>2
    <3>. QED
      BY <3>1, <3>2
  <2>. QED
    BY <1>2, <2>1
<1>. QED
  BY <1>5, <1>6 DEF Adjacent, Eligible

(* A row a live session may use is a current one.                          *)
LEMMA LiveSession ==
  ASSUME MailInv, NEW s \in Runs, run[s].pc # "closed", SessionLives(run[s])
  PROVE  /\ run[s].numbering = mailbox.numbering /\ mailbox.numbering # 0
         /\ run[s].validity = mailbox.numbering \/ (run[s].validity = 0 /\ mailbox.silent)
BY Acting, MailTypes, MailboxFields DEF SessionLives

LEMMA Loading ==
  ASSUME MailInv, NEW s \in Runs, LoadOrInitialize(s)
  PROVE  MailInv'
<1>. DEFINE r == run[s]
<1>1. /\ r.pc = "load" /\ r.pc # "closed"
      /\ UNCHANGED <<mailbox, cutoff, legacy, archived, aborts>>
  BY DEF LoadOrInitialize
<1>2. r \in RunState /\ Underway(s)
  BY <1>1, Acting
<1>3. CASE row # None /\ SameNumbering(r.validity, row.validity)
  <2>. DEFINE p == Planned(r, row)
  <2>1. run' = [run EXCEPT ![s] = p] /\ UNCHANGED row
    BY <1>3 DEF LoadOrInitialize
  <2>. HIDE DEF p
  <2>2. CASE p = Closed
    BY <1>1, <2>1, <2>2, RunEnds, MailTypes
  <2>3. CASE p # Closed
    <3>1. row \in Row
      BY <1>3, MailTypes, RowFields
    <3>2. /\ p \in RunState /\ p.pc = "fetch" /\ p.numbering = r.numbering
          /\ p.validity = r.validity /\ p.live \cup p.backfill # {}
      BY <1>2, <2>3, <3>1, PlannedBatches DEF p
    <3>3. run'[s] = p
      BY <2>1, MailTypes
    <3>4. ASSUME SessionLives(r) PROVE Adjacent(s)'
      <4>1. Current
        BY <1>1, <1>3, <3>4, LiveSession DEF Current, Outdated, SameNumbering
      <4>2. Current'
        BY <4>1, <1>1, <2>1 DEF Current, Outdated
      <4>3. Found(s)
        BY <1>1, <1>2, <3>4 DEF Underway
      <4>4. \A u \in DOMAIN mailbox.mails \ r.found :
              Eligible(u, cutoff) => row.before <= u
        BY <4>1, <4>3 DEF Found
      <4>. QED
        BY <1>1, <2>1, <2>3, <3>1, <3>3, <3>4, <4>2, <4>4, PlannedAdjacent DEF p
    <3>5. Underway(s)'
      BY <1>1, <3>2, <3>3, <3>4 DEF Underway, SessionLives
    <3>. QED
      BY <1>1, <2>1, <3>2, <3>5, Acting, RestUnchanged, OneRunSteps
  <2>. QED
    BY <2>2, <2>3
<1>4. CASE ~(row # None /\ SameNumbering(r.validity, row.validity))
  <2>. DEFINE q == [r EXCEPT !.pc = "insert"]
  <2>1. run' = [run EXCEPT ![s] = q] /\ row' = None
    BY <1>4 DEF LoadOrInitialize
  <2>2. /\ q \in RunState /\ q.pc = "insert" /\ q.numbering = r.numbering
        /\ q.validity = r.validity /\ q.found = r.found /\ q.head = r.head
        /\ q.cutoff = r.cutoff
    BY <1>2 DEF RunState, PC
  <2>. HIDE DEF q
  <2>3. run'[s] = q
    BY <2>1, MailTypes
  <2>4. ~Current'
    BY <2>1 DEF Current
  <2>5. ASSUME SessionLives(r) PROVE Found(s)'
    <3>1. Found(s)
      BY <1>1, <1>2, <2>5 DEF Underway
    <3>. QED
      BY <3>1, <1>1, <2>2, <2>3, <2>4 DEF Found, Eligible
  <2>6. Underway(s)'
    BY <1>1, <2>1, <2>2, <2>3, <2>5 DEF Underway, SessionLives
  <2>7. CASE row = None
    BY <1>1, <2>1, <2>2, <2>6, <2>7, Acting, RestUnchanged, OneRunSteps
  <2>8. CASE row # None
    <3>1. \A u \in DOMAIN mailbox.mails :
            Eligible(u, cutoff) =>
              <<mailbox.numbering, u>> \in archived \/ u > LegacyCursor(mailbox.numbering)
      <4>1. CASE Outdated
        BY <2>8, <4>1 DEF MailInv, NothingLost, Pending
      <4>2. CASE ~Outdated
        <5>1. /\ r.validity # 0 /\ row.validity # 0 /\ r.validity # row.validity
              /\ mailbox.silent \/ row.validity = mailbox.numbering
          BY <1>4, <2>8, <4>2 DEF SameNumbering, Outdated
        <5>2. mailbox.numbering # 1
          BY <1>1, <2>8, <5>1, Acting, MailTypes, MailboxFields, RowFields
             DEF Numbered, Known
        <5>. QED
          BY <5>2, LegacyRenumbered, MailTypes, MailboxFields
      <4>. QED
        BY <4>1, <4>2
    <3>2. NothingLost'
      BY <1>1, <2>1, <3>1 DEF NothingLost, Pending, Eligible, LegacyCursor
    <3>3. CursorsInside'
      BY <2>4 DEF CursorsInside
    <3>. QED
      BY <1>1, <2>1, <2>2, <2>6, <3>2, <3>3, Acting, MailTypes, OneRunSteps
  <2>. QED
    BY <2>7, <2>8
<1>. QED
  BY <1>3, <1>4

LEMMA Initializing ==
  ASSUME MailInv, NEW s \in Runs, Initialize(s)
  PROVE  MailInv'
<1>. DEFINE r == run[s]
            new == [validity |-> r.validity, live |-> r.head, before |-> r.head + 1,
                    legacy |-> LegacyCursor(r.validity)]
            p == Planned(r, new)
<1>1. /\ r.pc = "insert" /\ r.pc # "closed"
      /\ UNCHANGED <<mailbox, cutoff, legacy, archived, aborts>>
  BY DEF Initialize
<1>2. r \in RunState /\ Underway(s)
  BY <1>1, Acting
<1>3. CASE row # None
  BY <1>1, <1>3, RunEnds, MailTypes DEF Initialize
<1>4. CASE row = None
  <2>1. run' = [run EXCEPT ![s] = p] /\ row' = new
    BY <1>4 DEF Initialize
  <2>2. /\ new \in Row /\ new # None
        /\ r.validity \in Nat /\ r.head \in Nat
    <3>1. r.validity \in Validities /\ r.head \in Nat
      BY <1>2, RunFields
    <3>2. LegacyCursor(r.validity) \in Nat
      BY MailTypes, LegacyType
    <3>3. new \in Row
      BY <3>1, <3>2 DEF Row
    <3>4. r.validity \in Nat
      BY <3>1, ParameterAssumption DEF Validities
    <3>. QED
      BY <3>1, <3>3, <3>4, NoneAssumption
  <2>3. /\ new.validity = r.validity /\ new.live = r.head
        /\ new.before = r.head + 1 /\ new.legacy = LegacyCursor(r.validity)
    OBVIOUS
  <2>. HIDE DEF new, p
  <2>4. run'[s] = p
    BY <2>1, MailTypes
  <2>5. \A u \in DOMAIN mailbox.mails :
          Eligible(u, cutoff) =>
            <<mailbox.numbering, u>> \in archived \/ u > LegacyCursor(mailbox.numbering)
    BY <1>4 DEF MailInv, NothingLost, Pending
  <2>6. ASSUME SessionLives(r)
        PROVE  CursorsInside' /\ NothingLost' /\ (p # Closed => Adjacent(s)')
    <3>1. Found(s)
      BY <1>1, <1>2, <2>6 DEF Underway
    <3>2. Current'
      BY <1>1, <2>1, <2>2, <2>3, <2>6, LiveSession DEF Current, Outdated
    <3>3. CursorsInside'
      BY <1>1, <2>1, <2>2, <2>3, <3>1, MailTypes, MailboxFields
         DEF CursorsInside, Found
    <3>4. LegacyCursor(r.validity) = LegacyCursor(mailbox.numbering)
      <4>1. CASE r.validity = mailbox.numbering
        BY <4>1
      <4>2. CASE r.validity = 0 /\ mailbox.silent
        <5>1. mailbox.numbering = 1
          BY <4>2, LegacyRenumbered
        <5>2. legacy # None => legacy.validity \in {0, 1}
          BY Acting, <1>1, MailTypes, LegacyFields DEF Numbered
        <5>. QED
          BY <4>2, <5>1, <5>2 DEF LegacyCursor, SameNumbering
      <4>. QED
        BY <1>1, <2>6, <4>1, <4>2, LiveSession
    <3>5. NothingLost'
      <4>1. ASSUME NEW u \in DOMAIN mailbox.mails, u > LegacyCursor(r.validity)
            PROVE  u > new.live \/ (new.legacy < u /\ u < new.before)
        BY <4>1, <2>2, <2>3, MailTypes, MailboxFields
      <4>2. ~Outdated' /\ row' # None
        BY <3>2 DEF Current
      <4>. QED
        BY <1>1, <2>1, <2>5, <3>4, <4>1, <4>2 DEF NothingLost, Pending, Eligible
    <3>6. p # Closed => Adjacent(s)'
      <4>1. \A u \in DOMAIN mailbox.mails \ r.found :
              Eligible(u, cutoff) => new.before <= u
        BY <2>2, <2>3, <3>1, MailTypes, MailboxFields DEF Found
      <4>. QED
        BY <1>1, <2>1, <2>2, <2>4, <2>6, <3>2, <4>1, PlannedAdjacent DEF p
    <3>. QED
      BY <3>3, <3>5, <3>6
  <2>7. ASSUME ~SessionLives(r) PROVE CursorsInside' /\ NothingLost'
    <3>1. /\ mailbox.numbering # 1 /\ ~mailbox.silent
          /\ r.validity # 0 /\ r.validity # mailbox.numbering
      BY <1>1, <2>7, DeadSession
    <3>2. Outdated' /\ ~Current'
      BY <1>1, <2>1, <2>3, <3>1 DEF Outdated, Current
    <3>3. CursorsInside'
      BY <3>2 DEF CursorsInside
    <3>4. NothingLost'
      BY <1>1, <2>5, <3>2 DEF NothingLost, Pending, Eligible, LegacyCursor
    <3>. QED
      BY <3>3, <3>4
  <2>8. CursorsInside' /\ NothingLost' /\ (SessionLives(r) /\ p # Closed => Adjacent(s)')
    BY <2>6, <2>7
  <2>9. Underway(s)' /\ p \in RunState
        /\ (p.pc # "closed" => p.numbering = r.numbering /\ p.validity = r.validity)
    <3>1. CASE p = Closed
      <4>1. p.pc = "closed"
        BY <3>1 DEF Closed
      <4>. QED
        BY <2>4, <3>1, <4>1, ClosedType DEF Underway
    <3>2. CASE p # Closed
      <4>1. /\ p \in RunState /\ p.pc = "fetch" /\ p.numbering = r.numbering
            /\ p.validity = r.validity /\ p.live \cup p.backfill # {}
        BY <1>2, <2>2, <3>2, PlannedBatches DEF p
      <4>. QED
        BY <1>1, <2>4, <2>8, <3>2, <4>1 DEF Underway, SessionLives
    <3>. QED
      BY <3>1, <3>2
  <2>10. Known(r.validity)
    BY <1>1, Acting, MailTypes, MailboxFields DEF Known
  <2>. QED
    BY <1>1, <2>1, <2>2, <2>3, <2>8, <2>9, <2>10, Acting, MailTypes, OneRunSteps
<1>. QED
  BY <1>3, <1>4

LEMMA Fetching ==
  ASSUME MailInv, NEW s \in Runs, Fetch(s)
  PROVE  MailInv'
<1>. DEFINE r == run[s]
            q == [r EXCEPT !.pc = "put"]
<1>1. /\ r.pc = "fetch" /\ r.pc # "closed"
      /\ UNCHANGED <<mailbox, cutoff, legacy, row, archived, aborts>>
      /\ run' = [run EXCEPT ![s] = Closed]
         \/ (SessionLives(r) /\ run' = [run EXCEPT ![s] = q])
  BY DEF Fetch
<1>2. CASE run' = [run EXCEPT ![s] = Closed]
  BY <1>1, <1>2, RunEnds, MailTypes
<1>3. CASE SessionLives(r) /\ run' = [run EXCEPT ![s] = q]
  <2>1. r \in RunState /\ Underway(s)
    BY <1>1, Acting
  <2>2. /\ q \in RunState /\ q.pc = "put" /\ q.numbering = r.numbering
        /\ q.validity = r.validity /\ q.live = r.live /\ q.backfill = r.backfill
    BY <2>1 DEF RunState, PC
  <2>. HIDE DEF q
  <2>3. run'[s] = q
    BY <1>3, MailTypes
  <2>4. Adjacent(s)
    BY <1>1, <1>3, <2>1 DEF Underway
  <2>5. Adjacent(s)'
    BY <1>1, <2>2, <2>3, <2>4 DEF Adjacent, Current, Outdated, Eligible
  <2>6. Underway(s)'
    BY <1>1, <2>1, <2>2, <2>3, <2>5 DEF Underway
  <2>. QED
    BY <1>1, <1>3, <2>2, <2>6, Acting, RestUnchanged, OneRunSteps
<1>. QED
  BY <1>1, <1>2, <1>3

(* The message in hand is the batch's one next to its cursor.              *)
LEMMA UidNext ==
  ASSUME NEW r \in RunState, r.live \cup r.backfill # {}
  PROVE  /\ Uid(r) \in Uids
         /\ r.live # {} => Uid(r) \in r.live /\ \A w \in r.live : Uid(r) <= w
         /\ r.live = {} => Uid(r) \in r.backfill /\ \A w \in r.backfill : w <= Uid(r)
<1>1. r.live \in SUBSET Uids /\ r.backfill \in SUBSET Uids
  BY RunFields
<1>2. CASE r.live # {}
  BY <1>1, <1>2, BottomIsLeast DEF Uid
<1>3. CASE r.live = {}
  BY <1>1, <1>3, TopIsGreatest DEF Uid
<1>. QED
  BY <1>2, <1>3

LEMMA Putting ==
  ASSUME MailInv, NEW s \in Runs, Put(s)
  PROVE  MailInv'
<1>. DEFINE r == run[s]
            q == [r EXCEPT !.pc = "save"]
<1>1. /\ r.pc = "put" /\ r.pc # "closed"
      /\ archived' = archived \cup {<<r.numbering, Uid(r)>>}
      /\ run' = [run EXCEPT ![s] = q]
      /\ UNCHANGED <<mailbox, cutoff, legacy, row, aborts>>
  BY DEF Put
<1>2. r \in RunState /\ Underway(s)
  BY <1>1, Acting
<1>3. /\ q \in RunState /\ q.pc = "save" /\ q.numbering = r.numbering
      /\ q.validity = r.validity /\ q.live = r.live /\ q.backfill = r.backfill
  BY <1>2 DEF RunState, PC
<1>. HIDE DEF q
<1>4. run'[s] = q /\ Uid(q) = Uid(r)
  BY <1>1, <1>3, MailTypes DEF Uid
<1>5. r.live \cup r.backfill # {}
  BY <1>1, <1>2 DEF Underway
<1>6. archived' \subseteq Numberings \X Uids
  <2>1. r.numbering \in Numberings
    BY <1>1, Acting, MailTypes, MailboxFields, ParameterAssumption DEF Numberings
  <2>2. Uid(r) \in Uids
    BY <1>2, <1>5, UidNext
  <2>. QED
    BY <1>1, <2>1, <2>2, MailTypes
<1>7. ASSUME SessionLives(r) PROVE Adjacent(s)'
  <2>1. Adjacent(s)
    BY <1>1, <1>2, <1>7 DEF Underway
  <2>. QED
    BY <2>1, <1>1, <1>3, <1>4 DEF Adjacent, Current, Outdated, Eligible
<1>8. Underway(s)'
  BY <1>1, <1>3, <1>4, <1>5, <1>7 DEF Underway, SessionLives, Uid
<1>9. CursorsInside'
  BY <1>1 DEF MailInv, CursorsInside, Current, Outdated
<1>10. NothingLost'
  BY <1>1 DEF MailInv, NothingLost, Pending, Eligible, Outdated, LegacyCursor
<1>11. row' \in Row \cup {None} /\ (row' # None => Known(row'.validity))
  BY <1>1, MailTypes DEF MailInv, Numbered
<1>. QED
  BY <1>1, <1>3, <1>6, <1>8, <1>9, <1>10, <1>11, Acting, OneRunSteps

LEMMA Saving ==
  ASSUME MailInv, NEW s \in Runs, Save(s)
  PROVE  MailInv'
<1>. DEFINE r == run[s]
            u0 == Uid(r)
            q == Done(r)
            rest == [r EXCEPT !.pc = "fetch", !.live = @ \ {u0},
                              !.backfill = IF r.live # {} THEN @ ELSE @ \ {u0}]
<1>1. /\ r.pc = "save" /\ r.pc # "closed"
      /\ row' = IF row = None THEN None ELSE Moved(row, r)
      /\ run' = [run EXCEPT ![s] = q]
      /\ UNCHANGED <<mailbox, cutoff, legacy, archived, aborts>>
  BY DEF Save
<1>2. r \in RunState /\ Underway(s) /\ r.live \cup r.backfill # {}
  BY <1>1, Acting DEF Underway
<1>3. /\ u0 \in Nat /\ r.live \in SUBSET Uids /\ r.backfill \in SUBSET Uids
      /\ r.live # {} => u0 \in r.live /\ \A w \in r.live : u0 <= w
      /\ r.live = {} => u0 \in r.backfill /\ \A w \in r.backfill : w <= u0
  BY <1>2, UidNext, UidsType, RunFields
<1>4. /\ rest \in RunState /\ rest.pc = "fetch" /\ rest.numbering = r.numbering
      /\ rest.validity = r.validity /\ rest.live = r.live \ {u0}
      /\ rest.backfill = IF r.live # {} THEN r.backfill ELSE r.backfill \ {u0}
  <2>. HIDE DEF u0
  <2>. QED
    BY <1>2, <1>3 DEF RunState, PC
<1>5. q = Closed \/ (q = rest /\ q.live \cup q.backfill # {})
  BY DEF Done
<1>6. /\ q \in RunState /\ run'[s] = q
      /\ q.pc # "closed" => /\ q = rest /\ q.live \cup q.backfill # {}
                            /\ q.numbering = r.numbering /\ q.validity = r.validity
  <2>1. Closed.pc = "closed"
    BY DEF Closed
  <2>. HIDE DEF q, rest
  <2>. QED
    BY <1>1, <1>4, <1>5, <2>1, ClosedType, MailTypes
<1>. HIDE DEF q, rest, u0
<1>7. row # None =>
        /\ row' \in Row /\ row' # None /\ row \in Row
        /\ row'.validity = r.validity /\ row'.legacy = row.legacy
        /\ row'.live = IF r.live # {} THEN u0 ELSE row.live
        /\ row'.before = IF r.live # {} THEN row.before ELSE u0
  <2>1. ASSUME row # None PROVE row \in Row
    BY <2>1, MailTypes, RowFields
  <2>2. r.validity \in Validities
    BY <1>2, RunFields
  <2>3. ASSUME row # None
        PROVE  /\ row' \in Row
               /\ row'.validity = r.validity /\ row'.legacy = row.legacy
               /\ row'.live = IF r.live # {} THEN u0 ELSE row.live
               /\ row'.before = IF r.live # {} THEN row.before ELSE u0
    BY <2>1, <2>2, <2>3, <1>1, <1>3 DEF Row, Moved, u0
  <2>. QED
    BY <2>1, <2>3, NoneAssumption
<1>8. Known(r.validity)
  BY <1>1, Acting, MailTypes, MailboxFields DEF Known
<1>9. ASSUME ~SessionLives(r)
      PROVE  CursorsInside' /\ NothingLost'
  <2>1. /\ mailbox.numbering # 1 /\ ~mailbox.silent
        /\ r.validity # 0 /\ r.validity # mailbox.numbering
    BY <1>1, <1>9, DeadSession
  <2>2. row' = None \/ Outdated'
    BY <1>1, <1>7, <2>1 DEF Outdated
  <2>3. CursorsInside'
    BY <2>2 DEF CursorsInside, Current
  <2>4. LegacyCursor(mailbox.numbering) = 0
    BY <2>1, LegacyRenumbered
  <2>5. \A u \in DOMAIN mailbox.mails : u > LegacyCursor(mailbox.numbering)
    BY <2>4, MailTypes, MailboxFields
  <2>6. NothingLost'
    BY <1>1, <2>2, <2>5 DEF NothingLost, Pending, LegacyCursor
  <2>. QED
    BY <2>3, <2>6
<1>10. ASSUME SessionLives(r)
       PROVE  CursorsInside' /\ NothingLost' /\ Current' /\ Adjacent(s)
  <2>1. /\ Adjacent(s) /\ Current /\ row # None /\ ~Outdated
        /\ <<mailbox.numbering, u0>> \in archived
    BY <1>1, <1>2, <1>10 DEF Underway, Adjacent, Current, SessionLives, u0
  <2>2. Current'
    BY <1>1, <1>7, <1>10, <2>1, LiveSession DEF Current, Outdated
  <2>3. /\ row.live \in Nat /\ row.before \in Nat /\ row.legacy \in Nat
        /\ mailbox.top \in Nat
        /\ \A u \in DOMAIN mailbox.mails : u \in Nat
    BY <2>1, MailTypes, RowFields, MailboxFields
  <2>4. CursorsInside'
    <3>1. row.live <= mailbox.top /\ row.before <= mailbox.top + 1
      BY <2>1 DEF MailInv, CursorsInside
    <3>2. r.live # {} => u0 <= mailbox.top
      BY <1>3, <2>1 DEF Adjacent
    <3>3. r.live = {} => u0 < row.before
      BY <1>3, <2>1 DEF Adjacent
    <3>4. row'.live <= mailbox.top /\ row'.before <= mailbox.top + 1
      BY <1>3, <1>7, <2>1, <2>3, <3>1, <3>2, <3>3
    <3>. QED
      BY <1>1, <3>4 DEF CursorsInside
  <2>5. ASSUME NEW u \in DOMAIN mailbox.mails, Eligible(u, cutoff),
               <<mailbox.numbering, u>> \notin archived
        PROVE  u > row'.live \/ (row'.legacy < u /\ u < row'.before)
    <3>1. u > row.live \/ (row.legacy < u /\ u < row.before)
      BY <2>1, <2>5 DEF MailInv, NothingLost, Pending
    <3>2. u # u0
      BY <2>1, <2>5
    <3>3. CASE r.live # {}
      <4>1. u0 \in r.live /\ ~(row.live < u /\ u < u0)
        <5>1. u0 \in r.live
          BY <1>3, <3>3
        <5>2. row.live < u /\ u < u0 => u \in r.live
          BY <2>1, <2>5, <5>1 DEF Adjacent
        <5>. QED
          BY <5>1, <5>2, <1>3, <3>3, <2>3
      <4>. QED
        BY <1>3, <1>7, <2>1, <2>3, <3>1, <3>2, <3>3, <4>1
    <3>4. CASE r.live = {}
      <4>1. u0 \in r.backfill /\ ~(u0 < u /\ u < row.before)
        <5>1. u0 \in r.backfill
          BY <1>3, <3>4
        <5>2. u0 < u /\ u < row.before => u \in r.backfill
          BY <2>1, <2>5, <5>1 DEF Adjacent
        <5>. QED
          BY <5>1, <5>2, <1>3, <3>4, <2>3
      <4>. QED
        BY <1>3, <1>7, <2>1, <2>3, <3>1, <3>2, <3>4, <4>1
    <3>. QED
      BY <3>3, <3>4
  <2>6. NothingLost'
    <3>1. ~Outdated' /\ row' # None
      BY <2>2 DEF Current
    <3>. QED
      BY <1>1, <2>5, <3>1 DEF NothingLost, Pending, Eligible
  <2>. QED
    BY <2>1, <2>2, <2>4, <2>6
<1>11. ASSUME SessionLives(r), q.pc # "closed" PROVE Adjacent(s)'
  <2>1. Adjacent(s) /\ Current' /\ row # None
    BY <1>10, <1>11 DEF Adjacent, Current
  <2>2. /\ row.live \in Nat /\ row.before \in Nat /\ row.legacy \in Nat
        /\ \A u \in DOMAIN mailbox.mails : u \in Nat
        /\ \A w \in r.live : w \in Nat
        /\ \A w \in r.backfill : w \in Nat
    BY <2>1, <1>3, MailTypes, RowFields, MailboxFields, UidsType
  <2>3. /\ q.live = r.live \ {u0}
        /\ q.backfill = IF r.live # {} THEN r.backfill ELSE r.backfill \ {u0}
    BY <1>4, <1>6, <1>11
  <2>4. ASSUME NEW w \in q.live
        PROVE  /\ row'.live < w /\ w <= mailbox.top
               /\ \A u \in DOMAIN mailbox.mails :
                    Eligible(u, cutoff) /\ row'.live < u /\ u < w => u \in q.live
    <3>1. w \in r.live /\ w # u0 /\ u0 \in r.live /\ row'.live = u0 /\ u0 < w
      BY <1>3, <1>7, <2>1, <2>2, <2>3
    <3>2. row.live < u0 /\ w <= mailbox.top
      BY <2>1, <3>1 DEF Adjacent
    <3>3. ASSUME NEW u \in DOMAIN mailbox.mails, Eligible(u, cutoff), u0 < u, u < w
          PROVE  u \in q.live
      <4>1. row.live < u
        BY <1>3, <2>2, <3>2, <3>3
      <4>2. u \in r.live
        BY <2>1, <3>1, <3>3, <4>1 DEF Adjacent
      <4>. QED
        BY <1>3, <2>2, <2>3, <3>3, <4>2
    <3>. QED
      BY <3>1, <3>2, <3>3
  <2>5. ASSUME NEW w \in q.backfill
        PROVE  /\ row'.legacy < w /\ w < row'.before
               /\ \A u \in DOMAIN mailbox.mails :
                    Eligible(u, cutoff) /\ w < u /\ u < row'.before => u \in q.backfill
    <3>1. w \in r.backfill /\ row.legacy < w /\ w < row.before
      BY <2>1, <2>3 DEF Adjacent
    <3>2. CASE r.live # {}
      BY <1>7, <2>1, <2>3, <3>1, <3>2 DEF Adjacent
    <3>3. CASE r.live = {}
      <4>1. /\ u0 \in r.backfill /\ w < u0 /\ row'.before = u0 /\ u0 < row.before
            /\ row'.legacy = row.legacy
        BY <1>3, <1>7, <2>1, <2>2, <2>3, <3>3 DEF Adjacent
      <4>2. ASSUME NEW u \in DOMAIN mailbox.mails, Eligible(u, cutoff), w < u, u < u0
            PROVE  u \in q.backfill
        <5>1. u < row.before
          BY <1>3, <2>2, <4>1, <4>2
        <5>2. u \in r.backfill
          BY <2>1, <3>1, <4>2, <5>1 DEF Adjacent
        <5>. QED
          BY <1>3, <2>2, <2>3, <4>2, <5>2
      <4>. QED
        BY <3>1, <4>1, <4>2
    <3>. QED
      BY <3>2, <3>3
  <2>. QED
    BY <1>1, <1>6, <2>1, <2>4, <2>5 DEF Adjacent, Eligible
<1>12. Underway(s)'
  <2>1. CASE q.pc = "closed"
    BY <1>6, <2>1 DEF Underway
  <2>2. CASE q.pc # "closed"
    BY <1>1, <1>4, <1>6, <1>11, <2>2 DEF Underway, SessionLives
  <2>. QED
    BY <2>1, <2>2
<1>13. CursorsInside' /\ NothingLost'
  BY <1>9, <1>10
<1>14. row' \in Row \cup {None} /\ (row' # None => Known(row'.validity))
  BY <1>1, <1>7, <1>8
<1>. QED
  BY <1>1, <1>6, <1>12, <1>13, <1>14, Acting, MailTypes, OneRunSteps

-----------------------------------------------------------------------------
(* One lemma per step of the environment; runs and row stay as they are.   *)
LEMMA MailboxSteps ==
  ASSUME MailInv, UNCHANGED <<legacy, row, archived, run, aborts>>,
         mailbox' \in Mailbox, DOMAIN mailbox'.mails \subseteq 1 .. mailbox'.top,
         cutoff' \in Cutoffs,
         Numbered', CursorsInside', NothingLost',
         \A s \in Runs : run[s].pc # "closed" /\ SessionLives(run[s])' =>
           /\ SessionLives(run[s])
           /\ Found(s) => Found(s)'
           /\ Adjacent(s) => Adjacent(s)'
  PROVE  MailInv'
<1>1. TypeOK' /\ OneRun'
  BY DEF MailInv, TypeOK, OneRun
<1>2. ASSUME NEW s \in Runs PROVE Underway(s)'
  <2>1. Underway(s) /\ run'[s] = run[s]
    BY DEF MailInv
  <2>2. CASE run[s].pc = "closed"
    BY <2>1, <2>2 DEF Underway
  <2>3. CASE run[s].pc # "closed"
    <3>1. /\ run[s].pc = "insert" => row' = None
          /\ run[s].pc \in {"fetch", "put", "save"} =>
               run[s].live \cup run[s].backfill # {}
      BY <2>1 DEF Underway
    <3>2. ASSUME SessionLives(run[s])'
          PROVE  /\ run[s].pc \in {"search", "load", "insert"} => Found(s)'
                 /\ run[s].pc \in {"fetch", "put", "save"} => Adjacent(s)'
                 /\ run[s].pc = "save" => <<run[s].numbering, Uid(run[s])>> \in archived
      <4>1. SessionLives(run[s]) /\ (Found(s) => Found(s)') /\ (Adjacent(s) => Adjacent(s)')
        BY <2>3, <3>2
      <4>. QED
        BY <2>1, <4>1, Zenon DEF Underway
    <3>. QED
      BY <2>1, <3>1, <3>2 DEF Underway, SessionLives, Uid
  <2>. QED
    BY <2>2, <2>3
<1>. QED
  BY <1>1, <1>2 DEF MailInv

LEMMA Arriving ==
  ASSUME MailInv, Arrive
  PROVE  MailInv'
<1>. DEFINE new == mailbox.top + 1
            old == DOMAIN mailbox.mails
<1>1. PICK d \in Dates :
        mailbox' = [mailbox EXCEPT !.top = @ + 1,
                      !.mails = [u \in DOMAIN @ \cup {mailbox.top + 1} |->
                                   IF u \in DOMAIN @ THEN @[u] ELSE d]]
  BY DEF Arrive
<1>. DEFINE mails == [u \in old \cup {new} |-> IF u \in old THEN mailbox.mails[u] ELSE d]
<1>2. /\ mailbox.top < MaxUid
      /\ UNCHANGED <<cutoff, legacy, row, archived, run, aborts>>
  BY DEF Arrive
<1>3. /\ mailbox.top \in Nat /\ mailbox.numbering \in Numberings
      /\ mailbox.numbering \in Nat \ {0} /\ mailbox.silent \in BOOLEAN
      /\ mailbox.mails \in [old -> Dates] /\ old \in SUBSET Uids
      /\ \A u \in old : u \in Nat \ {0} /\ u <= mailbox.top /\ u # new
  BY MailTypes, MailboxFields
<1>4. new \in Uids /\ new \in 0 .. MaxUid
  BY <1>2, <1>3, UidsType DEF Uids
<1>5. /\ mailbox'.numbering = mailbox.numbering /\ mailbox'.silent = mailbox.silent
      /\ mailbox'.top = new /\ mailbox'.mails = mails
  BY <1>1, MailTypes DEF Mailbox
<1>6. mails \in UNION {[S -> Dates] : S \in SUBSET Uids}
  <2>1. mails \in [old \cup {new} -> Dates]
    BY <1>3
  <2>2. old \cup {new} \in SUBSET Uids
    BY <1>3, <1>4
  <2>. HIDE DEF mails
  <2>. QED
    BY <2>1, <2>2
<1>7. /\ mailbox' \in Mailbox
      /\ DOMAIN mailbox'.mails = old \cup {new}
      /\ \A u \in old : mailbox'.mails[u] = mailbox.mails[u]
  <2>1. DOMAIN mails = old \cup {new} /\ \A u \in old : mails[u] = mailbox.mails[u]
    OBVIOUS
  <2>2. mailbox' = [mailbox EXCEPT !.top = new, !.mails = mails]
    BY <1>1
  <2>. HIDE DEF mails, new
  <2>3. mailbox' \in Mailbox
    BY <2>2, <1>4, <1>6, MailTypes DEF Mailbox
  <2>. QED
    BY <2>1, <2>3, <1>5
<1>. HIDE DEF mails
<1>8. \A u \in old \cup {new} : u \in 1 .. new
  BY <1>3
<1>9. \A u \in old : Eligible(u, cutoff)' <=> Eligible(u, cutoff)
  BY <1>2, <1>7 DEF Eligible
<1>10. (Current' <=> Current) /\ (row # None => (Outdated' <=> Outdated))
  BY <1>2, <1>5 DEF Current, Outdated
<1>11. Numbered'
  BY <1>2, <1>3, <1>5, MailTypes, LegacyFields DEF MailInv, Numbered, Known
<1>12. CursorsInside'
  BY <1>2, <1>3, <1>5, <1>10, MailTypes, RowFields
     DEF MailInv, CursorsInside, Current
<1>13. NothingLost'
  <2>1. ASSUME NEW u \in old, Eligible(u, cutoff)'
        PROVE  (<<mailbox.numbering, u>> \in archived \/ Pending(u))'
    <3>1. <<mailbox.numbering, u>> \in archived \/ Pending(u)
      BY <1>9, <2>1 DEF MailInv, NothingLost
    <3>. QED
      BY <3>1, <1>2, <1>5, <1>10 DEF Pending, LegacyCursor
  <2>2. ASSUME NEW u, u = new PROVE Pending(u)'
    <3>1. CASE row = None \/ Outdated
      <4>1. LegacyCursor(mailbox.numbering) < new
        <5>1. CASE mailbox.numbering = 1
          BY <5>1, <1>3, MailTypes, LegacyFields DEF MailInv, Numbered, LegacyCursor
        <5>2. CASE mailbox.numbering # 1
          BY <5>2, <1>3, LegacyRenumbered
        <5>. QED
          BY <5>1, <5>2
      <4>2. LegacyCursor(mailbox.numbering)' = LegacyCursor(mailbox.numbering)
        BY <1>2, <1>5 DEF LegacyCursor
      <4>3. LegacyCursor(mailbox.numbering) \in Nat
        BY MailTypes, LegacyType
      <4>. QED
        BY <2>2, <3>1, <4>1, <4>2, <4>3, <1>2, <1>3, <1>10 DEF Pending
    <3>2. CASE row # None /\ ~Outdated
      <4>1. row.live \in Nat /\ row.live <= mailbox.top
        BY <3>2, MailTypes, RowFields DEF MailInv, CursorsInside, Current
      <4>. QED
        BY <2>2, <3>2, <4>1, <1>2, <1>3, <1>10 DEF Pending
    <3>. QED
      BY <3>1, <3>2
  <2>. QED
    BY <1>7, <2>1, <2>2 DEF NothingLost
<1>14. ASSUME NEW s \in Runs, run[s].pc # "closed", SessionLives(run[s])'
       PROVE  /\ SessionLives(run[s])
              /\ Found(s) => Found(s)'
              /\ Adjacent(s) => Adjacent(s)'
  <2>1. SessionLives(run[s])
    BY <1>2, <1>5, <1>14 DEF SessionLives
  <2>2. ASSUME Found(s) PROVE Found(s)'
    <3>1. /\ run[s].head \in Nat /\ run[s].head <= mailbox.top
          /\ run[s].found \subseteq 1 .. mailbox.top
          /\ run[s].cutoff <= cutoff
      BY <1>14, <2>2, Acting, RunFields DEF Found
    <3>2. /\ run[s].head <= new /\ run[s].found \subseteq 1 .. new
          /\ run[s].head < new /\ \A w \in run[s].found : w < new
      BY <3>1, <1>3
    <3>3. Current => row.before <= new
      BY DEF MailInv, CursorsInside
    <3>. QED
      BY <2>2, <3>1, <3>2, <3>3, <1>2, <1>5, <1>7, <1>9, <1>10 DEF Found
  <2>3. ASSUME Adjacent(s) PROVE Adjacent(s)'
    <3>1. Current /\ row.before <= new /\ row.before \in Nat
      BY <2>3, MailTypes, RowFields DEF MailInv, CursorsInside, Adjacent, Current
    <3>2. \A w \in run[s].live : w \in Nat /\ w <= mailbox.top
      BY <2>3, <1>14, Acting, RunFields, UidsType DEF Adjacent
    <3>3. /\ \A w \in run[s].live : w <= new /\ ~(new < w)
          /\ ~(new < row.before)
      BY <3>1, <3>2, <1>3
    <3>. QED
      BY <2>3, <3>1, <3>2, <3>3, <1>2, <1>5, <1>7, <1>9, <1>10 DEF Adjacent
  <2>. QED
    BY <2>1, <2>2, <2>3
<1>. QED
  BY <1>2, <1>5, <1>7, <1>8, <1>11, <1>12, <1>13, <1>14, MailTypes, MailboxSteps

LEMMA Expunging ==
  ASSUME MailInv, NEW u \in Uids, Expunge(u)
  PROVE  MailInv'
<1>. DEFINE old == DOMAIN mailbox.mails
            mails == [w \in old \ {u} |-> mailbox.mails[w]]
<1>1. /\ mailbox' = [mailbox EXCEPT !.mails = mails]
      /\ UNCHANGED <<cutoff, legacy, row, archived, run, aborts>>
  BY DEF Expunge
<1>2. mailbox.mails \in [old -> Dates] /\ old \in SUBSET Uids
  BY MailTypes, MailboxFields
<1>3. mails \in UNION {[S -> Dates] : S \in SUBSET Uids}
  <2>1. mails \in [old \ {u} -> Dates] /\ old \ {u} \in SUBSET Uids
    BY <1>2
  <2>. HIDE DEF mails
  <2>. QED
    BY <2>1
<1>4. DOMAIN mails = old \ {u} /\ \A w \in old \ {u} : mails[w] = mailbox.mails[w]
  OBVIOUS
<1>. HIDE DEF mails
<1>5. /\ mailbox' \in Mailbox
      /\ mailbox'.numbering = mailbox.numbering /\ mailbox'.silent = mailbox.silent
      /\ mailbox'.top = mailbox.top /\ mailbox'.mails = mails
  BY <1>1, <1>3, MailTypes DEF Mailbox
<1>6. /\ DOMAIN mailbox'.mails \subseteq old
      /\ \A w \in DOMAIN mailbox'.mails : Eligible(w, cutoff)' <=> Eligible(w, cutoff)
  BY <1>1, <1>4, <1>5 DEF Eligible
<1>7. (Current' <=> Current) /\ (row # None => (Outdated' <=> Outdated))
  BY <1>1, <1>5 DEF Current, Outdated
<1>8. Numbered'
  BY <1>1, <1>5 DEF MailInv, Numbered, Known
<1>9. CursorsInside'
  BY <1>1, <1>5, <1>7 DEF MailInv, CursorsInside
<1>10. NothingLost'
  <2>1. ASSUME NEW w \in DOMAIN mailbox'.mails, Eligible(w, cutoff)'
        PROVE  (<<mailbox.numbering, w>> \in archived \/ Pending(w))'
    <3>1. <<mailbox.numbering, w>> \in archived \/ Pending(w)
      BY <1>6, <2>1 DEF MailInv, NothingLost
    <3>. QED
      BY <3>1, <1>1, <1>5, <1>7 DEF Pending, LegacyCursor
  <2>. QED
    BY <2>1 DEF NothingLost
<1>11. ASSUME NEW s \in Runs, SessionLives(run[s])'
       PROVE  /\ SessionLives(run[s])
              /\ Found(s) => Found(s)'
              /\ Adjacent(s) => Adjacent(s)'
  <2>1. SessionLives(run[s])
    BY <1>1, <1>5, <1>11 DEF SessionLives
  <2>2. Found(s) => Found(s)'
    BY <1>1, <1>5, <1>6, <1>7 DEF Found
  <2>3. Adjacent(s) => Adjacent(s)'
    BY <1>1, <1>5, <1>6, <1>7 DEF Adjacent
  <2>. QED
    BY <2>1, <2>2, <2>3
<1>12. DOMAIN mailbox'.mails \subseteq 1 .. mailbox'.top
  BY <1>5, <1>6, MailTypes
<1>. QED
  BY <1>1, <1>5, <1>8, <1>9, <1>10, <1>11, <1>12, MailTypes, MailboxSteps

LEMMA Renumbering ==
  ASSUME MailInv, Renumber
  PROVE  MailInv'
<1>0. PICK n \in 0 .. MaxUid : \E m \in [1 .. n -> Dates] :
        mailbox' = [mailbox EXCEPT !.numbering = @ + 1, !.mails = m, !.top = n]
  BY DEF Renumber
<1>1. PICK m \in [1 .. n -> Dates] :
        mailbox' = [mailbox EXCEPT !.numbering = @ + 1, !.mails = m, !.top = n]
  BY <1>0
<1>2. /\ mailbox.numbering < MaxNumbering /\ ~mailbox.silent
      /\ UNCHANGED <<cutoff, legacy, row, archived, run, aborts>>
  BY DEF Renumber
<1>3. /\ mailbox.numbering \in Nat \ {0} /\ mailbox.numbering + 1 \in Numberings
      /\ n \in Nat /\ DOMAIN m = 1 .. n
  BY <1>2, MailTypes, MailboxFields, UidsType, ParameterAssumption DEF Numberings
<1>4. m \in UNION {[S -> Dates] : S \in SUBSET Uids}
  <2>1. 1 .. n \in SUBSET Uids
    BY <1>3, UidsType DEF Uids
  <2>. QED
    BY <2>1
<1>5. /\ mailbox' \in Mailbox
      /\ mailbox'.numbering = mailbox.numbering + 1
      /\ mailbox'.silent = mailbox.silent /\ ~mailbox'.silent
      /\ mailbox'.top = n /\ mailbox'.mails = m
  BY <1>1, <1>2, <1>3, <1>4, MailTypes DEF Mailbox
<1>6. row # None => Outdated'
  BY <1>2, <1>3, <1>5, MailTypes, RowFields DEF MailInv, Numbered, Known, Outdated
<1>7. Numbered'
  <2>1. legacy # None =>
          /\ legacy.validity \in Nat /\ legacy.validity <= mailbox.numbering + 1
          /\ legacy.validity # 0 /\ legacy.validity <= 1
    BY <1>2, <1>3, MailTypes, LegacyFields DEF MailInv, Numbered, Known
  <2>2. row # None => row.validity <= mailbox.numbering + 1 /\ row.validity # 0
    BY <1>2, <1>3, MailTypes, RowFields DEF MailInv, Numbered, Known
  <2>3. ASSUME NEW s \in Runs, run[s].pc # "closed"
        PROVE  /\ run[s].numbering \in 1 .. mailbox.numbering + 1
               /\ run[s].validity = run[s].numbering
    BY <1>2, <1>3, <2>3, Acting
  <2>. QED
    BY <1>2, <1>3, <1>5, <2>1, <2>2, <2>3 DEF Numbered, Known
<1>8. CursorsInside'
  BY <1>2, <1>6 DEF CursorsInside, Current
<1>9. NothingLost'
  <2>1. legacy # None => legacy.validity = 1
    BY <1>2, MailTypes, LegacyFields DEF MailInv, Numbered, Known
  <2>2. LegacyCursor(mailbox.numbering + 1) = 0
    BY <1>3, <2>1, LegacyLater
  <2>3. LegacyCursor(mailbox.numbering)' = 0
    BY <1>2, <1>5, <2>2 DEF LegacyCursor
  <2>4. \A u \in DOMAIN mailbox'.mails : u > 0
    BY <1>3, <1>5
  <2>. QED
    BY <1>2, <1>6, <2>3, <2>4 DEF NothingLost, Pending
<1>10. ASSUME NEW s \in Runs, run[s].pc # "closed" PROVE ~SessionLives(run[s])'
  BY <1>2, <1>3, <1>5, <1>10, Acting DEF SessionLives
<1>11. DOMAIN mailbox'.mails \subseteq 1 .. mailbox'.top
  BY <1>3, <1>5
<1>. QED
  BY <1>2, <1>5, <1>7, <1>8, <1>9, <1>10, <1>11, MailTypes, MailboxSteps

LEMMA MovingCutoff ==
  ASSUME MailInv, Orderly, NEW c \in Cutoffs, MoveCutoff(c)
  PROVE  MailInv'
<1>1. /\ c > cutoff /\ cutoff' = c
      /\ UNCHANGED <<mailbox, legacy, row, archived, run, aborts>>
  BY DEF MoveCutoff, Orderly
<1>2. c \in Nat /\ cutoff \in Nat
  BY MailTypes, ParameterAssumption
<1>3. \A u \in DOMAIN mailbox.mails : Eligible(u, cutoff)' => Eligible(u, cutoff)
  BY <1>1, <1>2, MailTypes, MailboxFields DEF Eligible
<1>4. Numbered' /\ CursorsInside'
  BY <1>1 DEF MailInv, Numbered, Known, CursorsInside, Current, Outdated
<1>5. NothingLost'
  BY <1>1, <1>3 DEF MailInv, NothingLost, Pending, Outdated, LegacyCursor
<1>6. ASSUME NEW s \in Runs, run[s].pc # "closed"
      PROVE  /\ Found(s) => Found(s)'
             /\ Adjacent(s) => Adjacent(s)'
  <2>1. run[s].cutoff \in Nat
    BY <1>6, Acting, RunFields
  <2>2. Found(s) => Found(s)'
    BY <1>1, <1>2, <1>3, <2>1 DEF Found, Current, Outdated
  <2>3. Adjacent(s) => Adjacent(s)'
    BY <1>1, <1>3 DEF Adjacent, Current, Outdated
  <2>. QED
    BY <2>2, <2>3
<1>7. \A s \in Runs : SessionLives(run[s])' => SessionLives(run[s])
  BY <1>1 DEF SessionLives
<1>. QED
  BY <1>1, <1>4, <1>5, <1>6, <1>7, MailTypes, MailboxSteps

-----------------------------------------------------------------------------
LEMMA MailInit == Init => MailInv
<1>. SUFFICES ASSUME Init PROVE MailInv
  OBVIOUS
<1>1. /\ mailbox \in Mailbox /\ mailbox.numbering = 1
      /\ DOMAIN mailbox.mails = 1 .. mailbox.top
      /\ cutoff \in Cutoffs /\ row = None /\ aborts = 0
      /\ run = [s \in Runs |-> Closed]
      /\ archived = IF legacy = None THEN {} ELSE {<<1, u>> : u \in 1 .. legacy.last}
  BY DEF Init
<1>2. /\ legacy \in Legacy \cup {None}
      /\ legacy # None =>
           /\ legacy.last <= mailbox.top
           /\ legacy.validity \in (IF mailbox.silent THEN {0, 1} ELSE {1})
  BY DEF Init
<1>3. mailbox.top \in 0 .. MaxUid /\ mailbox.top \in Nat
  BY <1>1, MailboxFields
<1>4. legacy # None =>
        /\ legacy.last \in Nat
        /\ legacy.validity = 1 \/ (legacy.validity = 0 /\ mailbox.silent)
  BY <1>2, LegacyFields
<1>5. \A s \in Runs : run[s] = Closed /\ run[s].pc = "closed"
  BY <1>1 DEF Closed
<1>6. TypeOK
  <2>1. archived \subseteq Numberings \X Uids
    <3>1. 1 \in Numberings
      BY ParameterAssumption DEF Numberings
    <3>2. legacy # None => 1 .. legacy.last \subseteq Uids
      BY <1>2, <1>3, <1>4, UidsType DEF Uids
    <3>. QED
      BY <1>1, <3>1, <3>2
  <2>2. run \in [Runs -> RunState]
    BY <1>1, ClosedType
  <2>3. aborts \in 0 .. MaxAborts
    BY <1>1, ParameterAssumption
  <2>. QED
    BY <1>1, <1>2, <2>1, <2>2, <2>3 DEF TypeOK
<1>7. OneRun /\ \A s \in Runs : Underway(s)
  BY <1>5 DEF OneRun, Underway
<1>8. Numbered
  BY <1>1, <1>2, <1>4, <1>5 DEF Numbered, Known
<1>9. CursorsInside
  BY <1>1 DEF CursorsInside, Current
<1>10. NothingLost
  <2>1. ASSUME NEW u \in DOMAIN mailbox.mails
        PROVE  <<1, u>> \in archived \/ u > LegacyCursor(1)
    <3>1. u \in 1 .. mailbox.top
      BY <1>1
    <3>2. CASE legacy = None
      BY <3>1, <3>2, <1>3 DEF LegacyCursor
    <3>3. CASE legacy # None
      <4>1. LegacyCursor(1) = legacy.last
        BY <3>3, <1>4 DEF LegacyCursor, SameNumbering
      <4>2. u \in 1 .. legacy.last => <<1, u>> \in archived
        BY <3>3, <1>1
      <4>. QED
        BY <3>1, <3>3, <4>1, <4>2, <1>3, <1>4
    <3>. QED
      BY <3>2, <3>3
  <2>. QED
    BY <1>1, <2>1 DEF NothingLost, Pending
<1>. QED
  BY <1>6, <1>7, <1>8, <1>9, <1>10 DEF MailInv

LEMMA MailNext == Orderly /\ MailInv /\ [Next]_vars => MailInv'
<1>. SUFFICES ASSUME Orderly, MailInv, [Next]_vars PROVE MailInv'
  OBVIOUS
<1>1. ASSUME NEW s \in Runs, NEW b \in Budgets, Select(s, b) PROVE MailInv'
  BY <1>1, Selecting
<1>2. ASSUME NEW s \in Runs, Step(s) PROVE MailInv'
  BY <1>2, Searching, Loading, Initializing, Fetching, Putting, Saving, Zenon DEF Step
<1>3. ASSUME NEW s \in Runs, Abort(s) PROVE MailInv'
  <2>1. aborts' \in 0 .. MaxAborts
    BY <1>3, MailTypes, ParameterAssumption DEF Abort
  <2>. QED
    BY <1>3, <2>1, RunEnds DEF Abort
<1>4. ASSUME Environment PROVE MailInv'
  BY <1>4, Arriving, Expunging, Renumbering, MovingCutoff, Zenon DEF Environment
<1>5. CASE UNCHANGED vars
  BY <1>5 DEF vars, MailInv, TypeOK, OneRun, Numbered, Known, CursorsInside, Current,
     Outdated, Underway, SessionLives, Found, Adjacent, Eligible, Uid, NothingLost,
     Pending, LegacyCursor
<1>. QED
  BY <1>1, <1>2, <1>3, <1>4, <1>5, Zenon DEF Next

(* The cursors, the batch of the run under way and what it has found fit    *)
(* together in every reachable state (sync_mailbox, save_live and           *)
(* save_backfill_before of rag/mail_sync.py), whatever the server does.     *)
THEOREM MailInvariant == Orderly => (Spec => []MailInv)
<1>. SUFFICES ASSUME Orderly PROVE Spec => []MailInv
  OBVIOUS
<1>1. Init => MailInv
  BY MailInit
<1>2. MailInv /\ [Next]_vars => MailInv'
  BY MailNext
<1>. QED
  BY <1>1, <1>2, PTL DEF Spec

(* Every variable of the mail import keeps its type: a message in hand      *)
(* always exists, and what is archived is a message of a real numbering.    *)
THEOREM MailTypeCorrect == Orderly => (Spec => []TypeOK)
<1>. SUFFICES ASSUME Orderly PROVE Spec => []TypeOK
  OBVIOUS
<1>1. Spec => []MailInv
  BY MailInvariant
<1>2. MailInv => TypeOK
  BY DEF MailInv
<1>. QED
  BY <1>1, <1>2, PTL

(* No message of the mailbox falls between the live cursor, the backfill    *)
(* cursor and the cursor of an old installation without being archived.     *)
THEOREM NoMessageLost == Orderly => (Spec => []NothingLost)
<1>. SUFFICES ASSUME Orderly PROVE Spec => []NothingLost
  OBVIOUS
<1>1. Spec => []MailInv
  BY MailInvariant
<1>2. MailInv => NothingLost
  BY DEF MailInv
<1>. QED
  BY <1>1, <1>2, PTL

-----------------------------------------------------------------------------
(* Which documents are archive material.  OriginInv is inductive: it       *)
(* follows what an ordinary search must keep out from its beginning to its *)
(* answer, through every step the others take meanwhile.                   *)

Scan == [by : {None, "sync", "reconcile"}, known : [Docs -> Origins],
         copy : [Docs -> Copies], todo : SUBSET Docs, pending : SUBSET (Docs \X Kinds),
         doc : Docs \cup {None}, root : Places \cup {None}, payload : Copies]
SearchState == [pc : {"idle", "update", "query", "filter", "vectors", "judge"}, scope : Origins,
                vouched : SUBSET Docs, vectorVouched : SUBSET Docs, current : BOOLEAN,
                rows : [Docs -> Origins], copy : [Docs -> Copies], answer : SUBSET Docs,
                chunks : [Docs -> SUBSET Payloads], vectorAnswer : SUBSET Docs]

\* an importer that is at work has a kind and a folder, and a document once it is stored
ImportReady ==
  /\ importing.pc # "idle" => importing.kind \in Kinds /\ importing.root \in Roots
  /\ importing.pc = "register" => importing.doc \in Docs

\* a traversal is about documents the index holds, and never loses again
ScanOfIndexed ==
  /\ scan \in Scan
  /\ scan.todo \subseteq Indexed
  /\ \A p \in scan.pending : p[1] \in Indexed
  /\ \A d \in scan.todo : scan.copy[d] # Absent
  /\ scan.doc # None => scan.root \in Places
  /\ scan.payload # Absent => scan.doc # None /\ scan.payload.root = scan.root

\* only an ordinary search has anything to keep out; until it has queried the index
\* that is known by id or by folder, ...
VouchedKnown ==
  /\ search \in SearchState
  /\ search.scope # None => search.vouched = {}
  /\ search.pc \in {"update", "query"} =>
       \A d \in search.vouched : registry[d] # None \/ index[d].root \in Archives

\* ... and of what the query let through it is known by id, for no folder was an
\* archive and no origin was mirrored
HitsKnown ==
  search.pc = "filter" /\ search.scope = None =>
    \A d \in Hits : search.copy[d].origin = None
                    /\ (d \in search.vouched => registry[d] # None)

\* until it has asked Qdrant the same is known by id or by the folder of every chunk,
\* and then of the chunks it was given
VectorsKnown ==
  \A d \in search.vectorVouched :
    \/ registry[d] # None
    \/ /\ search.pc \in {"update", "query", "filter", "vectors"} =>
            \A p \in points[d] : p.root \in Archives
       /\ search.pc = "judge" => \A p \in search.chunks[d] : p.root \in Archives
    \/ search.pc = "idle"

AnswersOrdinary ==
  /\ search.answer \cap search.vouched = {}
  /\ search.vectorAnswer \cap search.vectorVouched = {}

OriginInv ==
  /\ OriginTypeOK
  /\ ImportReady
  /\ ScanOfIndexed
  /\ VouchedKnown
  /\ HitsKnown
  /\ VectorsKnown
  /\ AnswersOrdinary

LEMMA OriginBasics ==
  /\ None \notin Roots /\ None \notin Places /\ None \notin Docs /\ Roots \subseteq Places
  /\ ChatRoots \subseteq Roots /\ Elsewhere \in Places /\ None \notin Kinds /\ Kinds \subseteq Origins
  /\ None \in Origins /\ "mail" \in Kinds /\ "chat" \in Kinds
  /\ Absent \in Copies /\ Absent.root = None /\ Absent.origin = None
  /\ Payloads \subseteq Copies /\ \A c \in Copies : c # Absent <=> c \in Payloads
BY OriginAssumption DEF Places, Kinds, Origins, Absent, Copies, Payloads

LEMMA EmptyScan == NoScan \in Scan /\ NoScan.todo = {} /\ NoScan.pending = {} /\ NoScan.by = None
                  /\ NoScan.doc = None /\ NoScan.root = None /\ NoScan.payload = Absent
BY OriginBasics DEF NoScan, Scan

LEMMA EmptySearch ==
  /\ NoSearch \in SearchState /\ NoSearch.pc = "idle" /\ NoSearch.scope = None
  /\ NoSearch.vouched = {} /\ NoSearch.answer = {}
  /\ NoSearch.vectorVouched = {} /\ NoSearch.vectorAnswer = {}
BY OriginBasics DEF NoSearch, SearchState

LEMMA OriginInitInv == OriginInit => OriginInv
<1>. SUFFICES ASSUME OriginInit PROVE OriginInv
  OBVIOUS
<1>1. scan.todo = {} /\ scan.pending = {} /\ scan \in Scan /\ scan.doc = None /\ scan.payload = Absent
  BY EmptyScan DEF OriginInit
<1>2. /\ search \in SearchState /\ search.pc = "idle" /\ search.scope = None
      /\ search.vouched = {} /\ search.answer = {}
      /\ search.vectorVouched = {} /\ search.vectorAnswer = {}
  BY EmptySearch DEF OriginInit
<1>3. ImportReady
  BY DEF OriginInit, ImportReady, NoImport
<1>4. importing \in [pc : {"idle", "put", "register"}, kind : Origins,
                     root : Roots \cup {None}, doc : Docs \cup {None}]
  BY OriginBasics DEF OriginInit, NoImport
<1>5. OriginTypeOK
  BY <1>1, <1>2, <1>4, OriginBasics, OriginAssumption
     DEF OriginInit, OriginTypeOK, Scan, SearchState
<1>6. ScanOfIndexed /\ VouchedKnown /\ HitsKnown /\ VectorsKnown /\ AnswersOrdinary
  BY <1>1, <1>2 DEF ScanOfIndexed, VouchedKnown, HitsKnown, VectorsKnown, AnswersOrdinary
<1>. QED
  BY <1>2, <1>3, <1>5, <1>6 DEF OriginInv

-----------------------------------------------------------------------------
(* What is known of a document only grows.                                 *)

LEMMA ChangeType ==
  ASSUME OriginInv
  PROVE  /\ Change => changes' \in 0 .. MaxChanges
         /\ MoveOrIndex => moves' \in 0 .. MaxMoves
         /\ Fault => faults' \in 0 .. MaxFaults
BY OriginAssumption DEF Change, MoveOrIndex, Fault, OriginInv, OriginTypeOK

\* the search in progress loses nothing it knew
LEMMA SearchGoesOn ==
  ASSUME OriginInv, search' \in {search, [search EXCEPT !.current = FALSE]},
         \A d \in Docs : registry[d] # None => registry'[d] # None,
         Archives \subseteq Archives',
         \A d \in Docs : index'[d].root = index[d].root,
         points' = points
  PROVE  VouchedKnown' /\ HitsKnown' /\ VectorsKnown' /\ AnswersOrdinary'
<1>1. search \in SearchState
  BY DEF OriginInv, VouchedKnown
<1>2. /\ search' \in SearchState /\ search'.pc = search.pc /\ search'.scope = search.scope
      /\ search'.vouched = search.vouched /\ search'.copy = search.copy
      /\ search'.answer = search.answer /\ search'.vectorVouched = search.vectorVouched
      /\ search'.chunks = search.chunks /\ search'.vectorAnswer = search.vectorAnswer
  BY <1>1 DEF SearchState
<1>3. VouchedKnown'
  <2>1. ASSUME search'.pc \in {"update", "query"}, NEW d \in search'.vouched
        PROVE  registry'[d] # None \/ index'[d].root \in Archives'
    BY <1>1, <1>2, <2>1 DEF OriginInv, VouchedKnown, SearchState
  <2>. QED
    BY <1>2, <2>1 DEF OriginInv, VouchedKnown
<1>4. HitsKnown'
  BY <1>2 DEF OriginInv, HitsKnown, Hits
<1>5. VectorsKnown'
  <2>1. SUFFICES ASSUME NEW d \in search.vectorVouched
                 PROVE  \/ registry'[d] # None
                        \/ /\ search.pc \in {"update", "query", "filter", "vectors"} =>
                                \A p \in points[d] : p.root \in Archives'
                           /\ search.pc = "judge" => \A p \in search.chunks[d] : p.root \in Archives'
                        \/ search.pc = "idle"
    BY <1>2 DEF VectorsKnown
  <2>. QED
    BY <1>1, <2>1 DEF OriginInv, VectorsKnown, SearchState
<1>6. AnswersOrdinary'
  BY <1>2 DEF OriginInv, AnswersOrdinary
<1>. QED
  BY <1>3, <1>4, <1>5, <1>6

\* a step that only searches, or only traverses, keeps the types of all the rest
LEMMA SearchStepTypes ==
  ASSUME OriginInv, search' \in SearchState, faults' \in 0 .. MaxFaults,
         UNCHANGED <<settings, history, saving, place, importing, registry, index, points, scan,
                     mirror, spoiled, changes, moves, scans>>
  PROVE  OriginTypeOK'
<1>1. /\ search'.pc \in {"idle", "update", "query", "filter", "vectors", "judge"}
      /\ search'.scope \in Origins /\ search'.vouched \subseteq Docs
      /\ search'.vectorVouched \subseteq Docs /\ search'.current \in BOOLEAN
      /\ search'.rows \in [Docs -> Origins] /\ search'.copy \in [Docs -> Copies]
      /\ search'.answer \subseteq Docs /\ search'.chunks \in [Docs -> SUBSET Payloads]
      /\ search'.vectorAnswer \subseteq Docs
  BY DEF SearchState
<1>. QED
  BY <1>1 DEF OriginInv, OriginTypeOK

LEMMA ScanStepTypes ==
  ASSUME OriginInv, scan' \in Scan, faults' \in 0 .. MaxFaults,
         UNCHANGED <<settings, history, saving, place, importing, registry, index, points, search,
                     mirror, spoiled, changes, moves, scans>>
  PROVE  OriginTypeOK'
<1>1. /\ scan'.by \in {None, "sync", "reconcile"} /\ scan'.known \in [Docs -> Origins]
      /\ scan'.copy \in [Docs -> Copies] /\ scan'.todo \subseteq Docs
      /\ scan'.pending \subseteq Docs \X Kinds
      /\ scan'.doc \in Docs \cup {None} /\ scan'.root \in Places \cup {None}
      /\ scan'.payload \in Copies
  BY DEF Scan
<1>. QED
  BY <1>1 DEF OriginInv, OriginTypeOK

LEMMA FaultsType == OriginInv => faults \in 0 .. MaxFaults
BY DEF OriginInv, OriginTypeOK

LEMMA CommitKeeps ==
  ASSUME OriginInv, NEW rows \in [Docs -> Origins], Commit(rows),
         \A d \in Docs : registry[d] # None => rows[d] # None
  PROVE  /\ registry' \in [Docs -> Origins]
         /\ \A d \in Docs : registry[d] # None => registry'[d] # None
         /\ mirror' \in [current : BOOLEAN, missing : BOOLEAN]
         /\ spoiled' \subseteq Docs
BY DEF Commit, OriginInv, OriginTypeOK

\* the origins a mirror or a traversal has found are written to documents that are there
LEMMA UpdatedKeeps ==
  ASSUME OriginInv, NEW updates \in SUBSET (Docs \X Kinds), \A p \in updates : p[1] \in Indexed
  PROVE  /\ Updated(updates) \in [Docs -> Copies]
         /\ \A d \in Docs : /\ Updated(updates)[d].root = index[d].root
                            /\ Updated(updates)[d] # Absent <=> index[d] # Absent
<1>1. ASSUME NEW d \in Docs
      PROVE  /\ Updated(updates)[d] \in Copies
             /\ Updated(updates)[d].root = index[d].root
             /\ Updated(updates)[d] # Absent <=> index[d] # Absent
  <2>1. CASE \E k \in Kinds : <<d, k>> \in updates
    <3>1. PICK k \in Kinds : k = CHOOSE x \in Kinds : <<d, x>> \in updates
      BY <2>1
    <3>2. Updated(updates)[d] = [index[d] EXCEPT !.origin = k]
      BY <2>1, <3>1 DEF Updated
    <3>3. d \in Indexed
      BY <2>1
    <3>4. index[d] \in [root : Places, origin : Origins]
      BY <3>3 DEF Indexed, OriginInv, OriginTypeOK, Copies, Payloads
    <3>5. /\ [index[d] EXCEPT !.origin = k] \in [root : Places, origin : Origins]
          /\ [index[d] EXCEPT !.origin = k].root = index[d].root
      BY <3>4, OriginBasics
    <3>6. index[d].root # None
      BY <3>4, OriginBasics
    <3>. QED
      BY <3>2, <3>3, <3>4, <3>5, <3>6, OriginBasics DEF Copies, Payloads
  <2>2. CASE ~ \E k \in Kinds : <<d, k>> \in updates
    <3>1. Updated(updates)[d] = index[d]
      BY <2>2 DEF Updated
    <3>. QED
      BY <3>1 DEF OriginInv, OriginTypeOK
  <2>. QED
    BY <2>1, <2>2
<1>. QED
  BY <1>1 DEF Updated

-----------------------------------------------------------------------------
(* The administrator.                                                      *)

LEMMA SetChatSettingsInv ==
  ASSUME OriginInv, NEW r \in ChatRoots, SetChatSettings(r)
  PROVE  OriginInv'
<1>1. /\ settings' = [settings EXCEPT !["chat"] = r]
      /\ history' = [history EXCEPT !["chat"] = @ \cup {r}] /\ Change
      /\ UNCHANGED <<saving, place, importing, registry, index, points, scan, mirror, search,
                     spoiled, moves, scans, faults>>
  BY DEF SetChatSettings
<1>2. /\ settings' \in [Kinds -> Roots \cup {None}] /\ history' \in [Kinds -> SUBSET Roots]
      /\ settings'["chat"] \in history'["chat"]
      /\ \A k \in Kinds : history[k] \subseteq history'[k]
  BY <1>1, OriginBasics DEF OriginInv, OriginTypeOK
<1>3. Archives \subseteq Archives'
  BY <1>2, OriginBasics DEF Archives
<1>4. VouchedKnown' /\ HitsKnown' /\ VectorsKnown' /\ AnswersOrdinary'
  BY <1>1, <1>3, SearchGoesOn
<1>5. changes' \in 0 .. MaxChanges
  BY <1>1, ChangeType
<1>6. OriginTypeOK'
  BY <1>1, <1>2, <1>5 DEF OriginInv, OriginTypeOK
<1>. QED
  BY <1>1, <1>4, <1>6 DEF OriginInv, ImportReady, ScanOfIndexed, Indexed

LEMMA SaveMailAccountInv ==
  ASSUME OriginInv, NEW r \in Roots, SaveMailAccount(r)
  PROVE  OriginInv'
<1>1. /\ settings' = [settings EXCEPT !["mail"] = r] /\ saving' = r /\ Change
      /\ UNCHANGED <<history, place, importing, registry, index, points, scan, mirror, search,
                     spoiled, moves, scans, faults>>
  BY DEF SaveMailAccount
<1>2. settings' \in [Kinds -> Roots \cup {None}] /\ settings'["chat"] = settings["chat"]
  BY <1>1, OriginBasics DEF OriginInv, OriginTypeOK
<1>3. Archives \subseteq Archives'
  BY <1>1 DEF Archives
<1>4. VouchedKnown' /\ HitsKnown' /\ VectorsKnown' /\ AnswersOrdinary'
  BY <1>1, <1>3, SearchGoesOn
<1>5. changes' \in 0 .. MaxChanges
  BY <1>1, ChangeType
<1>6. OriginTypeOK'
  BY <1>1, <1>2, <1>5 DEF OriginInv, OriginTypeOK
<1>. QED
  BY <1>1, <1>4, <1>6 DEF OriginInv, ImportReady, ScanOfIndexed, Indexed

LEMMA SaveMailRootsInv ==
  ASSUME OriginInv, SaveMailRoots
  PROVE  OriginInv'
<1>1. /\ history' = [history EXCEPT !["mail"] = @ \cup {saving}] /\ saving' = None /\ saving # None
      /\ UNCHANGED <<settings, place, importing, registry, index, points, scan, mirror, search,
                     spoiled, changes, moves, scans, faults>>
  BY DEF SaveMailRoots
<1>2. /\ history' \in [Kinds -> SUBSET Roots] /\ history'["chat"] = history["chat"]
      /\ \A k \in Kinds : history[k] \subseteq history'[k]
  BY <1>1, OriginBasics DEF OriginInv, OriginTypeOK
<1>3. Archives \subseteq Archives'
  BY <1>2, OriginBasics DEF Archives
<1>4. VouchedKnown' /\ HitsKnown' /\ VectorsKnown' /\ AnswersOrdinary'
  BY <1>1, <1>3, SearchGoesOn
<1>5. OriginTypeOK'
  BY <1>1, <1>2 DEF OriginInv, OriginTypeOK
<1>. QED
  BY <1>1, <1>4, <1>5 DEF OriginInv, ImportReady, ScanOfIndexed, Indexed

LEMMA DieBetweenSavesInv ==
  ASSUME OriginInv, DieBetweenSaves
  PROVE  OriginInv'
<1>1. /\ saving' = None /\ Fault
      /\ UNCHANGED <<settings, history, place, importing, registry, index, points, scan, mirror, search,
                     spoiled, changes, moves, scans>>
  BY DEF DieBetweenSaves
<1>2. Archives \subseteq Archives'
  BY <1>1 DEF Archives
<1>3. VouchedKnown' /\ HitsKnown' /\ VectorsKnown' /\ AnswersOrdinary'
  BY <1>1, <1>2, SearchGoesOn
<1>4. faults' \in 0 .. MaxFaults
  BY <1>1, ChangeType
<1>5. OriginTypeOK'
  BY <1>1, <1>4 DEF OriginInv, OriginTypeOK
<1>. QED
  BY <1>1, <1>3, <1>5 DEF OriginInv, ImportReady, ScanOfIndexed, Indexed

LEMMA DeleteMailAccountInv ==
  ASSUME OriginInv, DeleteMailAccount
  PROVE  OriginInv'
<1>1. /\ settings' = [settings EXCEPT !["mail"] = None] /\ Change
      /\ UNCHANGED <<history, saving, place, importing, registry, index, points, scan, mirror, search,
                     spoiled, moves, scans, faults>>
  BY DEF DeleteMailAccount
<1>2. settings' \in [Kinds -> Roots \cup {None}] /\ settings'["chat"] = settings["chat"]
  BY <1>1, OriginBasics DEF OriginInv, OriginTypeOK
<1>3. Archives \subseteq Archives'
  BY <1>1 DEF Archives
<1>4. VouchedKnown' /\ HitsKnown' /\ VectorsKnown' /\ AnswersOrdinary'
  BY <1>1, <1>3, SearchGoesOn
<1>5. changes' \in 0 .. MaxChanges
  BY <1>1, ChangeType
<1>6. OriginTypeOK'
  BY <1>1, <1>2, <1>5 DEF OriginInv, OriginTypeOK
<1>. QED
  BY <1>1, <1>4, <1>6 DEF OriginInv, ImportReady, ScanOfIndexed, Indexed

-----------------------------------------------------------------------------
(* Importers and users.                                                    *)

Importing == [pc : {"idle", "put", "register"}, kind : Origins,
              root : Roots \cup {None}, doc : Docs \cup {None}]

LEMMA NoImportType == NoImport \in Importing /\ NoImport.pc = "idle"
BY OriginBasics DEF NoImport, Importing

LEMMA StartImportInv ==
  ASSUME OriginInv, NEW k \in Kinds, StartImport(k)
  PROVE  OriginInv'
<1>1. /\ importing' = [pc |-> "put", kind |-> k, root |-> settings[k], doc |-> None]
      /\ settings[k] \in Roots
      /\ UNCHANGED <<settings, history, saving, place, registry, index, points, scan, mirror, search,
                     spoiled, changes, moves, scans, faults>>
  BY DEF StartImport, OriginInv, OriginTypeOK
<1>2. importing' \in Importing /\ ImportReady'
  BY <1>1, OriginBasics DEF Importing, ImportReady
<1>3. Archives \subseteq Archives'
  BY <1>1 DEF Archives
<1>4. VouchedKnown' /\ HitsKnown' /\ VectorsKnown' /\ AnswersOrdinary'
  BY <1>1, <1>3, SearchGoesOn
<1>5. OriginTypeOK'
  BY <1>1, <1>2 DEF OriginInv, OriginTypeOK, Importing
<1>. QED
  BY <1>1, <1>2, <1>4, <1>5 DEF OriginInv, ScanOfIndexed, Indexed

LEMMA PutArchivedInv ==
  ASSUME OriginInv, NEW d \in Docs, PutArchived(d)
  PROVE  OriginInv'
<1>1. /\ importing.pc = "put" /\ importing.kind \in Kinds /\ importing.root \in Roots
      /\ importing \in Importing
      /\ UNCHANGED <<settings, history, saving, registry, index, points, scan, mirror, search,
                     spoiled, changes, moves, scans, faults>>
  BY DEF PutArchived, OriginInv, OriginTypeOK, ImportReady, Importing
<1>2. importing' \in Importing /\ ImportReady'
  BY <1>1 DEF PutArchived, Importing, ImportReady
<1>3. /\ place' \in [Docs -> Places \cup {None}]
      /\ \A e \in Docs : place[e] # None => place'[e] # None
  BY <1>1, OriginBasics DEF PutArchived, OriginInv, OriginTypeOK
<1>4. Archives \subseteq Archives'
  BY <1>1 DEF Archives
<1>5. VouchedKnown' /\ HitsKnown' /\ VectorsKnown' /\ AnswersOrdinary'
  BY <1>1, <1>4, SearchGoesOn
<1>6. OriginTypeOK'
  BY <1>1, <1>2, <1>3 DEF OriginInv, OriginTypeOK, Importing
<1>. QED
  BY <1>1, <1>2, <1>5, <1>6 DEF OriginInv, ScanOfIndexed, Indexed

LEMMA RegisterImportInv ==
  ASSUME OriginInv, RegisterImport
  PROVE  OriginInv'
<1>1. /\ importing.pc = "register" /\ importing.kind \in Kinds /\ importing.doc \in Docs
      /\ importing' = NoImport /\ search' \in {search, [search EXCEPT !.current = FALSE]}
      /\ UNCHANGED <<settings, history, saving, place, index, points, scan, changes, moves, scans, faults>>
  BY DEF RegisterImport, OriginInv, ImportReady
<1>. DEFINE rows == [registry EXCEPT ![importing.doc] = importing.kind]
<1>2. /\ rows \in [Docs -> Origins]
      /\ \A d \in Docs : registry[d] # None => rows[d] # None
  BY <1>1, OriginBasics DEF OriginInv, OriginTypeOK
<1>3. /\ registry' \in [Docs -> Origins]
      /\ \A d \in Docs : registry[d] # None => registry'[d] # None
      /\ mirror' \in [current : BOOLEAN, missing : BOOLEAN]
      /\ spoiled' \subseteq Docs
  <2>1. CASE Commit(rows)
    <3>. HIDE DEF rows
    <3>. QED
      BY <1>2, <2>1, CommitKeeps
  <2>2. CASE UNCHANGED <<registry, mirror, spoiled>>
    BY <2>2 DEF OriginInv, OriginTypeOK
  <2>. QED
    BY <2>1, <2>2 DEF RegisterImport
<1>4. Archives \subseteq Archives'
  BY <1>1 DEF Archives
<1>5. VouchedKnown' /\ HitsKnown' /\ VectorsKnown' /\ AnswersOrdinary'
  BY <1>1, <1>3, <1>4, SearchGoesOn
<1>6. OriginTypeOK'
  BY <1>1, <1>3, <1>5, NoImportType
     DEF OriginInv, OriginTypeOK, Importing, VouchedKnown, SearchState
<1>. QED
  BY <1>1, <1>5, <1>6, NoImportType DEF OriginInv, ScanOfIndexed, Indexed, ImportReady

LEMMA LoseRegistrationInv ==
  ASSUME OriginInv, LoseRegistration
  PROVE  OriginInv'
<1>1. /\ importing' = NoImport /\ Fault
      /\ UNCHANGED <<settings, history, saving, place, registry, index, points, scan, mirror, search,
                     spoiled, changes, moves, scans>>
  BY DEF LoseRegistration
<1>2. Archives \subseteq Archives'
  BY <1>1 DEF Archives
<1>3. VouchedKnown' /\ HitsKnown' /\ VectorsKnown' /\ AnswersOrdinary'
  BY <1>1, <1>2, SearchGoesOn
<1>4. faults' \in 0 .. MaxFaults
  BY <1>1, ChangeType
<1>5. OriginTypeOK'
  BY <1>1, <1>4, NoImportType DEF OriginInv, OriginTypeOK, Importing
<1>. QED
  BY <1>1, <1>3, <1>5, NoImportType DEF OriginInv, ScanOfIndexed, Indexed, ImportReady

LEMMA CreateOrdinaryInv ==
  ASSUME OriginInv, NEW d \in Docs, CreateOrdinary(d)
  PROVE  OriginInv'
<1>1. /\ place' = [place EXCEPT ![d] = Elsewhere]
      /\ UNCHANGED <<settings, history, saving, importing, registry, index, points, scan, mirror, search,
                     spoiled, changes, moves, scans, faults>>
  BY DEF CreateOrdinary
<1>2. /\ place' \in [Docs -> Places \cup {None}]
      /\ \A e \in Docs : place[e] # None => place'[e] # None
  BY <1>1, OriginBasics DEF OriginInv, OriginTypeOK
<1>3. Archives \subseteq Archives'
  BY <1>1 DEF Archives
<1>4. VouchedKnown' /\ HitsKnown' /\ VectorsKnown' /\ AnswersOrdinary'
  BY <1>1, <1>3, SearchGoesOn
<1>5. OriginTypeOK'
  BY <1>1, <1>2 DEF OriginInv, OriginTypeOK
<1>. QED
  BY <1>1, <1>4, <1>5 DEF OriginInv, ImportReady, ScanOfIndexed, Indexed

LEMMA MoveInv ==
  ASSUME OriginInv, NEW d \in Docs, NEW to \in Places, Move(d, to)
  PROVE  OriginInv'
<1>1. /\ place' = [place EXCEPT ![d] = to] /\ MoveOrIndex
      /\ UNCHANGED <<settings, history, saving, importing, registry, index, points, scan, mirror, search,
                     spoiled, changes, scans, faults>>
  BY DEF Move
<1>2. /\ place' \in [Docs -> Places \cup {None}]
      /\ \A e \in Docs : place[e] # None => place'[e] # None
  BY <1>1, OriginBasics DEF OriginInv, OriginTypeOK
<1>3. Archives \subseteq Archives'
  BY <1>1 DEF Archives
<1>4. VouchedKnown' /\ HitsKnown' /\ VectorsKnown' /\ AnswersOrdinary'
  BY <1>1, <1>3, SearchGoesOn
<1>5. moves' \in 0 .. MaxMoves
  BY <1>1, ChangeType
<1>6. OriginTypeOK'
  BY <1>1, <1>2, <1>5 DEF OriginInv, OriginTypeOK
<1>. QED
  BY <1>1, <1>4, <1>6 DEF OriginInv, ImportReady, ScanOfIndexed, Indexed

\* A document that is indexed anew loses its folder and its origin: it is known
\* by its id, or not at all.
LEMMA ReindexInv ==
  ASSUME OriginInv, NEW d \in Docs, Reindex(d)
  PROVE  OriginInv'
<1>. DEFINE copy == [root |-> place[d], origin |-> None]
            vouched == {e \in search.vouched : e # d \/ registry[d] # None \/ place[d] \in Archives}
<1>1. /\ index' = [index EXCEPT ![d] = copy]
      /\ search' = [search EXCEPT !.vouched = vouched]
      /\ UNCHANGED <<settings, history, saving, place, importing, registry, points, scan, mirror,
                     changes, scans, faults>>
  BY DEF Reindex
<1>2. copy \in [root : Places, origin : Origins] /\ place[d] # None
  BY OriginBasics DEF Reindex, OriginInv, OriginTypeOK
<1>3. copy \in Copies /\ copy # Absent
  <2>1. copy.root # Absent.root
    BY <1>2, OriginBasics
  <2>. QED
    BY <1>2, <2>1 DEF Copies, Payloads
<1>4. /\ index' \in [Docs -> Copies] /\ index'[d] # Absent /\ index'[d].root = place[d]
      /\ \A e \in Docs : e # d => index'[e] = index[e]
  <2>1. copy.root = place[d]
    OBVIOUS
  <2>. HIDE DEF copy
  <2>. QED
    BY <1>1, <1>3, <2>1 DEF OriginInv, OriginTypeOK
<1>5. Indexed \subseteq Indexed'
  BY <1>4 DEF Indexed
<1>6. ScanOfIndexed'
  BY <1>1, <1>5 DEF OriginInv, ScanOfIndexed
<1>7. moves' \in 0 .. MaxMoves /\ spoiled' \subseteq Docs
  BY ChangeType DEF Reindex, OriginInv, OriginTypeOK
<1>8. search \in SearchState
  BY DEF OriginInv, VouchedKnown
<1>9. /\ search' \in SearchState /\ search'.pc = search.pc /\ search'.scope = search.scope
      /\ search'.vouched = vouched /\ search'.copy = search.copy
      /\ search'.answer = search.answer /\ search'.vectorVouched = search.vectorVouched
      /\ search'.chunks = search.chunks /\ search'.vectorAnswer = search.vectorAnswer
  BY <1>1, <1>8 DEF SearchState
<1>10. VouchedKnown'
  <2>1. ASSUME search'.pc \in {"update", "query"}, NEW e \in search'.vouched
        PROVE  registry'[e] # None \/ index'[e].root \in Archives'
    <3>1. /\ e \in search.vouched /\ e \in Docs
          /\ e # d \/ registry[d] # None \/ place[d] \in Archives
          /\ registry' = registry /\ Archives' = Archives
      BY <1>1, <1>8, <1>9, <2>1 DEF SearchState, Archives
    <3>2. registry[e] # None \/ index[e].root \in Archives
      BY <1>9, <2>1, <3>1 DEF OriginInv, VouchedKnown
    <3>. QED
      BY <1>4, <3>1, <3>2
  <2>2. search'.scope # None => search'.vouched = {}
    BY <1>9 DEF OriginInv, VouchedKnown
  <2>. QED
    BY <1>9, <2>1, <2>2 DEF VouchedKnown
<1>11. HitsKnown'
  BY <1>1, <1>9 DEF OriginInv, HitsKnown, Hits
<1>12. VectorsKnown' /\ AnswersOrdinary'
  BY <1>1, <1>9 DEF OriginInv, VectorsKnown, AnswersOrdinary, Archives
<1>13. \A e \in Docs : index'[e] # Absent => place'[e] # None
  BY <1>1, <1>2, <1>4 DEF OriginInv, OriginTypeOK
<1>14. OriginTypeOK'
  BY <1>1, <1>4, <1>7, <1>9, <1>13 DEF OriginInv, OriginTypeOK, SearchState
<1>. QED
  BY <1>1, <1>6, <1>10, <1>11, <1>12, <1>14 DEF OriginInv, ImportReady

-----------------------------------------------------------------------------
(* Traversals.                                                             *)

LEMMA StartScanInv ==
  ASSUME OriginInv, NEW by \in {"sync", "reconcile"}, StartScan(by)
  PROVE  OriginInv'
<1>. DEFINE new == [by |-> by, known |-> IF by = "reconcile" THEN registry ELSE NoScan.known,
                    copy |-> index, todo |-> Indexed, pending |-> {},
                    doc |-> None, root |-> None, payload |-> Absent]
<1>1. /\ scan' = new /\ scans < MaxScans /\ scans' = scans + 1
      /\ UNCHANGED <<settings, history, saving, place, importing, registry, index, points, mirror, search,
                     spoiled, changes, moves, faults>>
  BY DEF StartScan
<1>2. NoScan.known \in [Docs -> Origins] /\ registry \in [Docs -> Origins] /\ index \in [Docs -> Copies]
  BY EmptyScan DEF Scan, OriginInv, OriginTypeOK
<1>3. /\ new \in Scan /\ new.todo = Indexed /\ new.pending = {} /\ new.copy = index
      /\ new.doc = None /\ new.payload = Absent
  BY <1>2, OriginBasics DEF Scan, Indexed
<1>4. scan' \in Scan /\ ScanOfIndexed'
  <2>. HIDE DEF new
  <2>. QED
    BY <1>1, <1>3 DEF ScanOfIndexed, Indexed
<1>5. scans' \in 0 .. MaxScans
  BY <1>1, OriginAssumption DEF OriginInv, OriginTypeOK
<1>6. Archives \subseteq Archives'
  BY <1>1 DEF Archives
<1>7. VouchedKnown' /\ HitsKnown' /\ VectorsKnown' /\ AnswersOrdinary'
  BY <1>1, <1>6, SearchGoesOn
<1>8. OriginTypeOK'
  BY <1>1, <1>4, <1>5 DEF OriginInv, OriginTypeOK, Scan
<1>. QED
  BY <1>1, <1>4, <1>7, <1>8 DEF OriginInv, ImportReady

LEMMA OriginByPath == \A root : OriginOfPath(root) \in Origins
BY OriginBasics DEF OriginOfPath

LEMMA ClassifyScannedInv ==
  ASSUME OriginInv, NEW d \in Docs, ClassifyScanned(d)
  PROVE  OriginInv'
<1>. DEFINE was == scan.copy[d]
            origin == IF scan.by = "sync" THEN Classify(d, was.root)
                      ELSE IF scan.known[d] # None THEN scan.known[d] ELSE OriginOfPath(was.root)
            writes == origin # None /\ (scan.by = "sync" \/ scan.known[d] = None)
            rows == [registry EXCEPT ![d] = origin]
            pending == IF origin \notin {None, was.origin} THEN scan.pending \cup {<<d, origin>>}
                       ELSE scan.pending
<1>1. /\ d \in scan.todo /\ scan.doc = None
      /\ IF writes THEN Commit(rows) ELSE UNCHANGED <<registry, mirror, spoiled>>
      /\ search' \in {search, [search EXCEPT !.current = FALSE]}
      /\ \E changed \in BOOLEAN :
           scan' = [scan EXCEPT !.todo = @ \ {d}, !.known[d] = None, !.copy[d] = Absent,
                      !.pending = pending, !.doc = IF changed THEN d ELSE None,
                      !.root = IF changed THEN was.root ELSE None]
      /\ UNCHANGED <<settings, history, saving, place, importing, index, points, changes, moves, scans,
                     faults>>
  BY DEF ClassifyScanned
<1>2. scan \in Scan /\ registry \in [Docs -> Origins]
  BY DEF OriginInv, ScanOfIndexed, OriginTypeOK
<1>3. origin \in Origins
  BY <1>2, OriginByPath, OriginBasics DEF Scan, Classify
<1>4. pending \in SUBSET (Docs \X Kinds) /\ \A p \in pending : p[1] \in Indexed
  <2>1. origin # None => origin \in Kinds
    BY <1>3 DEF Origins
  <2>2. scan.pending \in SUBSET (Docs \X Kinds) /\ d \in Indexed
        /\ \A p \in scan.pending : p[1] \in Indexed
    BY <1>1, <1>2 DEF Scan, OriginInv, ScanOfIndexed
  <2>. HIDE DEF origin
  <2>. QED
    BY <2>1, <2>2
<1>. HIDE DEF pending
<1>5. /\ scan' \in Scan /\ scan'.todo = scan.todo \ {d} /\ scan'.pending = pending
      /\ \A e \in scan'.todo : scan'.copy[e] # Absent
      /\ scan'.doc # None => scan'.root \in Places
      /\ scan'.payload = scan.payload
  <2>. PICK changed \in BOOLEAN :
           scan' = [scan EXCEPT !.todo = @ \ {d}, !.known[d] = None, !.copy[d] = Absent,
                      !.pending = pending, !.doc = IF changed THEN d ELSE None,
                      !.root = IF changed THEN was.root ELSE None]
    BY <1>1
  <2>3. was.root \in Places /\ \A e \in scan.todo : e \in Docs /\ scan.copy[e] # Absent
    BY <1>1, <1>2, OriginBasics DEF Scan, Payloads, OriginInv, ScanOfIndexed
  <2>1. /\ [scan.known EXCEPT ![d] = None] \in [Docs -> Origins]
        /\ [scan.copy EXCEPT ![d] = Absent] \in [Docs -> Copies]
    BY <1>2, OriginBasics DEF Scan
  <2>2. scan' = [scan EXCEPT !.todo = scan.todo \ {d},
                             !.known = [scan.known EXCEPT ![d] = None],
                             !.copy = [scan.copy EXCEPT ![d] = Absent], !.pending = pending,
                             !.doc = IF changed THEN d ELSE None,
                             !.root = IF changed THEN was.root ELSE None]
    BY <1>2 DEF Scan
  <2>4. scan' \in Scan
    <3>1. /\ (IF changed THEN d ELSE None) \in Docs \cup {None}
          /\ (IF changed THEN was.root ELSE None) \in Places \cup {None}
          /\ scan.todo \ {d} \in SUBSET Docs
      BY <1>1, <1>2, <2>3 DEF Scan
    <3>. HIDE DEF was
    <3>. QED
      BY <1>2, <1>4, <2>1, <2>2, <3>1 DEF Scan
  <2>5. /\ scan'.todo = scan.todo \ {d} /\ scan'.pending = pending
        /\ scan'.copy = [scan.copy EXCEPT ![d] = Absent] /\ scan'.payload = scan.payload
        /\ scan'.doc = (IF changed THEN d ELSE None)
        /\ scan'.root = (IF changed THEN was.root ELSE None)
    <3>. HIDE DEF was
    <3>. QED
      BY <1>2, <2>2 DEF Scan
  <2>. QED
    BY <1>2, <2>3, <2>4, <2>5 DEF Scan
<1>6. ScanOfIndexed'
  BY <1>1, <1>4, <1>5 DEF ScanOfIndexed, Indexed, OriginInv
<1>7. /\ registry' \in [Docs -> Origins]
      /\ \A e \in Docs : registry[e] # None => registry'[e] # None
      /\ mirror' \in [current : BOOLEAN, missing : BOOLEAN]
      /\ spoiled' \subseteq Docs
  <2>. HIDE DEF origin
  <2>1. CASE writes
    <3>1. Commit(rows) /\ origin # None
      BY <1>1, <2>1
    <3>2. rows \in [Docs -> Origins] /\ \A e \in Docs : registry[e] # None => rows[e] # None
      BY <1>2, <1>3, <3>1
    <3>. HIDE DEF rows
    <3>. QED
      BY <3>1, <3>2, CommitKeeps
  <2>2. CASE ~ writes
    BY <1>1, <2>2 DEF OriginInv, OriginTypeOK
  <2>. QED
    BY <2>1, <2>2
<1>8. Archives \subseteq Archives'
  BY <1>1 DEF Archives
<1>9. VouchedKnown' /\ HitsKnown' /\ VectorsKnown' /\ AnswersOrdinary'
  BY <1>1, <1>7, <1>8, SearchGoesOn
<1>10. OriginTypeOK'
  BY <1>1, <1>5, <1>7, <1>9 DEF OriginInv, OriginTypeOK, VouchedKnown, SearchState, Scan
<1>. QED
  BY <1>1, <1>6, <1>9, <1>10 DEF OriginInv, ImportReady

LEMMA DescribeChunksInv ==
  ASSUME OriginInv, DescribeChunks
  PROVE  OriginInv'
<1>. DEFINE origin == Classify(scan.doc, scan.root)
            rows == [registry EXCEPT ![scan.doc] = origin]
            payload == [root |-> scan.root, origin |-> origin]
<1>1. /\ scan.doc # None
      /\ IF origin # None THEN Commit(rows) ELSE UNCHANGED <<registry, mirror, spoiled>>
      /\ search' \in {search, [search EXCEPT !.current = FALSE]}
      /\ scan' = [scan EXCEPT !.payload = payload]
      /\ UNCHANGED <<settings, history, saving, place, importing, index, points, changes, moves,
                     scans, faults>>
  BY DEF DescribeChunks
<1>2. scan \in Scan /\ registry \in [Docs -> Origins] /\ scan.doc \in Docs /\ scan.root \in Places
  BY <1>1 DEF OriginInv, ScanOfIndexed, OriginTypeOK, Scan
<1>3. origin \in Origins
  BY <1>2, OriginByPath DEF Classify
<1>4. payload \in Payloads /\ payload \in Copies /\ payload.root = scan.root
  BY <1>2, <1>3, OriginBasics DEF Payloads
<1>. HIDE DEF payload
<1>5. scan' \in Scan /\ scan' = [scan EXCEPT !.payload = payload]
  BY <1>1, <1>2, <1>4 DEF Scan
<1>6. ScanOfIndexed'
  BY <1>1, <1>2, <1>4, <1>5 DEF Scan, ScanOfIndexed, Indexed, OriginInv
<1>7. /\ registry' \in [Docs -> Origins]
      /\ \A e \in Docs : registry[e] # None => registry'[e] # None
      /\ mirror' \in [current : BOOLEAN, missing : BOOLEAN]
      /\ spoiled' \subseteq Docs
  <2>. HIDE DEF origin
  <2>1. CASE origin # None
    <3>1. Commit(rows)
      BY <1>1, <2>1
    <3>2. rows \in [Docs -> Origins] /\ \A e \in Docs : registry[e] # None => rows[e] # None
      BY <1>2, <1>3, <2>1
    <3>. HIDE DEF rows
    <3>. QED
      BY <3>1, <3>2, CommitKeeps
  <2>2. CASE origin = None
    BY <1>1, <2>2 DEF OriginInv, OriginTypeOK
  <2>. QED
    BY <2>1, <2>2
<1>8. Archives \subseteq Archives'
  BY <1>1 DEF Archives
<1>9. VouchedKnown' /\ HitsKnown' /\ VectorsKnown' /\ AnswersOrdinary'
  BY <1>1, <1>7, <1>8, SearchGoesOn
<1>10. OriginTypeOK'
  BY <1>1, <1>5, <1>7, <1>9 DEF OriginInv, OriginTypeOK, VouchedKnown, SearchState, Scan
<1>. QED
  BY <1>1, <1>6, <1>9, <1>10 DEF OriginInv, ImportReady

\* Chunks that are written anew lose their folder: a search knows their document by
\* its id, or not at all, unless the new folder is an archive too.
LEMMA UpsertChunksInv ==
  ASSUME OriginInv, NEW rest \in BOOLEAN, UpsertChunks(rest)
  PROVE  OriginInv'
<1>. DEFINE vouched == {e \in search.vectorVouched :
                          e # scan.doc \/ registry[scan.doc] # None \/ scan.root \in Archives}
<1>1. /\ scan.payload # Absent
      /\ points' = [points EXCEPT ![scan.doc] = (IF rest THEN {} ELSE @) \cup {scan.payload}]
      /\ search' = [search EXCEPT !.vectorVouched = vouched]
      /\ scan' \in {scan, [scan EXCEPT !.doc = None, !.root = None, !.payload = Absent]}
      /\ UNCHANGED <<settings, history, saving, place, importing, registry, index, mirror,
                     spoiled, changes, moves, scans, faults>>
  BY DEF UpsertChunks
<1>2. /\ scan \in Scan /\ scan.doc \in Docs /\ scan.payload \in Payloads
      /\ scan.payload.root = scan.root
  BY <1>1, OriginBasics DEF OriginInv, ScanOfIndexed, Scan
<1>3. scan' \in Scan /\ ScanOfIndexed'
  BY <1>1, <1>2, OriginBasics DEF Scan, OriginInv, ScanOfIndexed, Indexed
<1>4. /\ points' \in [Docs -> SUBSET Payloads]
      /\ \A d \in Docs : points'[d] \subseteq points[d] \cup (IF d = scan.doc THEN {scan.payload} ELSE {})
  BY <1>1, <1>2 DEF OriginInv, OriginTypeOK
<1>5. search \in SearchState
  BY DEF OriginInv, VouchedKnown
<1>6. /\ search' \in SearchState /\ search'.pc = search.pc /\ search'.scope = search.scope
      /\ search'.vouched = search.vouched /\ search'.copy = search.copy
      /\ search'.answer = search.answer /\ search'.vectorVouched = vouched
      /\ search'.chunks = search.chunks /\ search'.vectorAnswer = search.vectorAnswer
  BY <1>1, <1>5 DEF SearchState
<1>7. VouchedKnown' /\ HitsKnown' /\ AnswersOrdinary'
  BY <1>1, <1>6 DEF OriginInv, VouchedKnown, HitsKnown, AnswersOrdinary, Hits, Archives
<1>8. VectorsKnown'
  <2>1. SUFFICES ASSUME NEW d \in vouched
                 PROVE  \/ registry[d] # None
                        \/ /\ search.pc \in {"update", "query", "filter", "vectors"} =>
                                \A p \in points'[d] : p.root \in Archives
                           /\ search.pc = "judge" => \A p \in search.chunks[d] : p.root \in Archives
                        \/ search.pc = "idle"
    BY <1>1, <1>6 DEF VectorsKnown, Archives
  <2>2. d \in Docs /\ d \in search.vectorVouched
    BY <1>5 DEF SearchState
  <2>. QED
    BY <1>2, <1>4, <2>1, <2>2 DEF OriginInv, VectorsKnown
<1>9. OriginTypeOK'
  BY <1>1, <1>3, <1>4, <1>6 DEF OriginInv, OriginTypeOK, SearchState, Scan
<1>. QED
  BY <1>1, <1>3, <1>7, <1>8, <1>9 DEF OriginInv, ImportReady

LEMMA KeepChunksInv ==
  ASSUME OriginInv, KeepChunks
  PROVE  OriginInv'
<1>1. /\ scan' = [scan EXCEPT !.doc = None, !.root = None, !.payload = Absent]
      /\ UNCHANGED <<settings, history, saving, place, importing, registry, index, points, mirror,
                     search, spoiled, changes, moves, scans, faults>>
  BY DEF KeepChunks
<1>2. scan' \in Scan /\ ScanOfIndexed'
  BY <1>1, OriginBasics DEF Scan, OriginInv, ScanOfIndexed, Indexed
<1>3. Archives \subseteq Archives'
  BY <1>1 DEF Archives
<1>4. VouchedKnown' /\ HitsKnown' /\ VectorsKnown' /\ AnswersOrdinary'
  BY <1>1, <1>3, SearchGoesOn
<1>5. OriginTypeOK'
  BY <1>1, <1>2, FaultsType, ScanStepTypes
<1>. QED
  BY <1>1, <1>2, <1>4, <1>5 DEF OriginInv, ImportReady

LEMMA ScanKilledInv ==
  ASSUME OriginInv, ScanKilled
  PROVE  OriginInv'
<1>1. /\ scan' = NoScan /\ Fault
      /\ UNCHANGED <<settings, history, saving, place, importing, registry, index, points, mirror,
                     search, spoiled, changes, moves, scans>>
  BY DEF ScanKilled
<1>2. scan' \in Scan /\ ScanOfIndexed'
  BY <1>1, EmptyScan DEF ScanOfIndexed
<1>3. Archives \subseteq Archives'
  BY <1>1 DEF Archives
<1>4. VouchedKnown' /\ HitsKnown' /\ VectorsKnown' /\ AnswersOrdinary'
  BY <1>1, <1>3, SearchGoesOn
<1>5. faults' \in 0 .. MaxFaults
  BY <1>1, ChangeType
<1>6. OriginTypeOK'
  BY <1>1, <1>2, <1>5, ScanStepTypes
<1>. QED
  BY <1>1, <1>2, <1>4, <1>6 DEF OriginInv, ImportReady

LEMMA EndScanInv ==
  ASSUME OriginInv, EndScan
  PROVE  OriginInv'
<1>1. /\ index' = Updated(scan.pending) /\ scan' = NoScan /\ spoiled' \subseteq Docs
      /\ UNCHANGED <<settings, history, saving, place, importing, registry, points, mirror, search,
                     changes, moves, scans, faults>>
  BY DEF EndScan, OriginInv, OriginTypeOK
<1>2. scan.pending \in SUBSET (Docs \X Kinds) /\ \A p \in scan.pending : p[1] \in Indexed
  BY DEF OriginInv, ScanOfIndexed, Scan
<1>3. /\ index' \in [Docs -> Copies]
      /\ \A d \in Docs : index'[d].root = index[d].root /\ (index'[d] # Absent <=> index[d] # Absent)
  BY <1>1, <1>2, UpdatedKeeps
<1>4. Archives \subseteq Archives'
  BY <1>1 DEF Archives
<1>5. VouchedKnown' /\ HitsKnown' /\ VectorsKnown' /\ AnswersOrdinary'
  BY <1>1, <1>3, <1>4, SearchGoesOn
<1>6. ScanOfIndexed'
  BY <1>1, EmptyScan DEF ScanOfIndexed
<1>7. OriginTypeOK'
  BY <1>1, <1>3, EmptyScan DEF OriginInv, OriginTypeOK, Scan
<1>. QED
  BY <1>1, <1>5, <1>6, <1>7 DEF OriginInv, ImportReady

-----------------------------------------------------------------------------
(* Searches.                                                               *)

\* a search begins with what the registry and the history know
LEMMA SearchBegins ==
  ASSUME OriginInv, NEW scope \in Scopes, NEW pc \in {"update", "query"},
         NEW rows \in [Docs -> Origins], NEW current \in BOOLEAN,
         search' = [Asked(scope, pc) EXCEPT !.rows = rows, !.current = current],
         UNCHANGED <<settings, history, saving, place, importing, registry, index, points, scan, mirror,
                     spoiled, changes, moves, scans, faults>>
  PROVE  OriginInv'
<1>1. /\ Asked(scope, pc) \in SearchState /\ Asked(scope, pc).pc = pc
      /\ Asked(scope, pc).scope = scope
      /\ Asked(scope, pc).vouched = IF scope = None THEN Vouched ELSE {}
      /\ Asked(scope, pc).vectorVouched = IF scope = None THEN VectorVouched ELSE {}
      /\ Asked(scope, pc).answer = {} /\ Asked(scope, pc).vectorAnswer = {}
  BY EmptySearch, OriginAssumption
     DEF Asked, SearchState, Vouched, VectorVouched, Origins, Kinds
<1>2. /\ search' \in SearchState /\ search'.pc = pc /\ search'.scope = scope
      /\ search'.vouched = IF scope = None THEN Vouched ELSE {}
      /\ search'.vectorVouched = IF scope = None THEN VectorVouched ELSE {}
      /\ search'.answer = {} /\ search'.vectorAnswer = {}
  BY <1>1 DEF SearchState
<1>3. VouchedKnown'
  BY <1>2 DEF VouchedKnown, Vouched, Archives
<1>4. HitsKnown'
  BY <1>2 DEF HitsKnown
<1>5. VectorsKnown' /\ AnswersOrdinary'
  BY <1>2 DEF VectorsKnown, AnswersOrdinary, VectorVouched, Archives
<1>6. OriginTypeOK'
  BY <1>2, FaultsType, SearchStepTypes
<1>. QED
  BY <1>3, <1>4, <1>5, <1>6 DEF OriginInv, ImportReady, ScanOfIndexed, Indexed

LEMMA MirrorFirstInv ==
  ASSUME OriginInv, NEW scope \in Scopes, MirrorFirst(scope)
  PROVE  OriginInv'
<1>1. registry \in [Docs -> Origins]
  BY DEF OriginInv, OriginTypeOK
<1>. QED
  BY <1>1, SearchBegins DEF MirrorFirst

LEMMA SearchAsIsInv ==
  ASSUME OriginInv, NEW scope \in Scopes, SearchAsIs(scope)
  PROVE  OriginInv'
<1>. DEFINE asked == Asked(scope, "query")
<1>1. asked \in SearchState
  BY EmptySearch, OriginAssumption
     DEF Asked, SearchState, Vouched, VectorVouched, Origins, Kinds
<1>2. asked.rows \in [Docs -> Origins] /\ asked.current \in BOOLEAN
  BY <1>1 DEF SearchState
<1>3. asked = [asked EXCEPT !.rows = asked.rows, !.current = asked.current]
  BY <1>1 DEF SearchState
<1>. HIDE DEF asked
<1>4. search' = [asked EXCEPT !.rows = asked.rows, !.current = asked.current]
  BY <1>3 DEF SearchAsIs, asked
<1>5. PICK rows \in [Docs -> Origins], current \in BOOLEAN :
        search' = [Asked(scope, "query") EXCEPT !.rows = rows, !.current = current]
  BY <1>2, <1>4 DEF asked
<1>. QED
  BY <1>5, SearchBegins DEF SearchAsIs

\* on to the query, whatever became of the mirror
LEMMA GoesToQuery ==
  ASSUME OriginInv, search.pc = "update", search' = ToQuery,
         UNCHANGED <<registry, history, points>>,
         \A d \in Docs : index'[d].root = index[d].root
  PROVE  /\ search' \in SearchState /\ VouchedKnown' /\ HitsKnown'
         /\ VectorsKnown' /\ AnswersOrdinary'
<1>1. search \in SearchState /\ NoSearch.rows \in [Docs -> Origins]
  BY EmptySearch DEF OriginInv, VouchedKnown, SearchState
<1>2. /\ search' \in SearchState /\ search'.pc = "query" /\ search'.scope = search.scope
      /\ search'.vouched = search.vouched /\ search'.vectorVouched = search.vectorVouched
      /\ search'.answer = search.answer /\ search'.vectorAnswer = search.vectorAnswer
  BY <1>1 DEF ToQuery, SearchState
<1>3. ASSUME NEW d \in search.vouched
      PROVE  registry'[d] # None \/ index'[d].root \in Archives'
  BY <1>1 DEF OriginInv, VouchedKnown, SearchState, Archives
<1>4. VectorsKnown' /\ AnswersOrdinary'
  BY <1>2 DEF OriginInv, VectorsKnown, AnswersOrdinary, Archives
<1>. QED
  BY <1>2, <1>3, <1>4 DEF OriginInv, VouchedKnown, HitsKnown

LEMMA UpdateMirrorInv ==
  ASSUME OriginInv, UpdateMirror
  PROVE  OriginInv'
<1>. DEFINE expected == {d \in Docs : search.rows[d] # None}
            found == {e \in expected \cap Indexed : index[e].origin # search.rows[e]}
            updates == {<<d, search.rows[d]>> : d \in found}
<1>1. /\ search.pc = "update" /\ index' = Updated(updates) /\ search' = ToQuery
      /\ mirror' = [current |-> search.current, missing |-> expected \cap Indexed # expected]
      /\ UNCHANGED <<settings, history, saving, place, importing, registry, points, scan,
                     spoiled, changes, moves, scans, faults>>
  BY DEF UpdateMirror
<1>2. search \in SearchState
  BY DEF OriginInv, VouchedKnown
<1>3. updates \in SUBSET (Docs \X Kinds) /\ \A p \in updates : p[1] \in Indexed
  BY <1>2 DEF SearchState, Origins, Indexed
<1>4. mirror' \in [current : BOOLEAN, missing : BOOLEAN]
  BY <1>1, <1>2 DEF SearchState
<1>. HIDE DEF updates
<1>5. /\ index' \in [Docs -> Copies]
      /\ \A d \in Docs : index'[d].root = index[d].root /\ (index'[d] # Absent <=> index[d] # Absent)
  BY <1>1, <1>3, UpdatedKeeps
<1>6. /\ search' \in SearchState /\ VouchedKnown' /\ HitsKnown' /\ VectorsKnown' /\ AnswersOrdinary'
  BY <1>1, <1>5, GoesToQuery
<1>7. ScanOfIndexed'
  BY <1>1, <1>5 DEF OriginInv, ScanOfIndexed, Indexed
<1>8. OriginTypeOK'
  BY <1>1, <1>4, <1>5, <1>6 DEF OriginInv, OriginTypeOK, SearchState
<1>. QED
  BY <1>1, <1>6, <1>7, <1>8 DEF OriginInv, ImportReady

LEMMA MirrorFailsInv ==
  ASSUME OriginInv, MirrorFails
  PROVE  OriginInv'
<1>1. /\ search.pc = "update" /\ search' = ToQuery /\ Fault
      /\ UNCHANGED <<settings, history, saving, place, importing, registry, index, points, scan, mirror,
                     spoiled, changes, moves, scans>>
  BY DEF MirrorFails
<1>2. /\ search' \in SearchState /\ VouchedKnown' /\ HitsKnown' /\ VectorsKnown' /\ AnswersOrdinary'
  BY <1>1, GoesToQuery
<1>3. faults' \in 0 .. MaxFaults
  BY <1>1, ChangeType
<1>4. OriginTypeOK'
  BY <1>1, <1>2, <1>3, SearchStepTypes
<1>. QED
  BY <1>1, <1>2, <1>4 DEF OriginInv, ImportReady, ScanOfIndexed, Indexed

\* An ordinary query lets nothing through that carries an origin or lies in a
\* folder ever used: what is vouched for and comes through is in the registry.
LEMMA QueryInv ==
  ASSUME OriginInv, Query
  PROVE  OriginInv'
<1>. DEFINE through(d) == /\ index[d] # Absent
                          /\ IF search.scope = None THEN \A k \in Kinds : ~Clause(k, index[d])
                                                    ELSE Clause(search.scope, index[d])
            copies == [d \in Docs |-> IF through(d) THEN index[d] ELSE Absent]
<1>1. /\ search.pc = "query" /\ search' = [search EXCEPT !.pc = "filter", !.copy = copies]
      /\ UNCHANGED <<settings, history, saving, place, importing, registry, index, points, scan, mirror,
                     spoiled, changes, moves, scans, faults>>
  BY DEF Query
<1>2. search \in SearchState /\ index \in [Docs -> Copies]
  BY DEF OriginInv, VouchedKnown, OriginTypeOK
<1>3. copies \in [Docs -> Copies]
  BY <1>2, OriginBasics
<1>4. /\ search' \in SearchState /\ search'.pc = "filter" /\ search'.scope = search.scope
      /\ search'.vouched = search.vouched /\ search'.copy = copies
      /\ search'.vectorVouched = search.vectorVouched
      /\ search'.answer = search.answer /\ search'.vectorAnswer = search.vectorAnswer
  <2>. HIDE DEF copies
  <2>. QED
    BY <1>1, <1>2, <1>3 DEF SearchState
<1>5. VouchedKnown'
  BY <1>4 DEF OriginInv, VouchedKnown
<1>6. HitsKnown'
  <2>1. SUFFICES ASSUME search.scope = None, NEW d \in Docs, copies[d] # Absent
                 PROVE  /\ copies[d].origin = None
                        /\ d \in search.vouched => registry[d] # None
    <3>. HIDE DEF copies
    <3>. QED
      BY <1>1, <1>4 DEF HitsKnown, Hits
  <2>2. /\ copies[d] = index[d] /\ index[d] # Absent
        /\ \A k \in Kinds : index[d].origin # k /\ index[d].root \notin RootsOf(k)
    BY <2>1 DEF Clause
  <2>3. index[d] \in [root : Places, origin : Origins]
    BY <1>2, <2>2 DEF Copies, Payloads
  <2>4. index[d].origin = None
    BY <2>2, <2>3 DEF Origins
  <2>5. index[d].root \notin Archives
    BY <2>2, OriginBasics DEF Archives, RootsOf
  <2>6. d \in search.vouched => registry[d] # None
    BY <1>1, <2>5 DEF OriginInv, VouchedKnown
  <2>. QED
    BY <2>2, <2>4, <2>6
<1>7. OriginTypeOK'
  BY <1>1, <1>4, FaultsType, SearchStepTypes
<1>8. VectorsKnown' /\ AnswersOrdinary'
  BY <1>1, <1>4 DEF OriginInv, VectorsKnown, AnswersOrdinary, Archives
<1>. QED
  BY <1>1, <1>5, <1>6, <1>7, <1>8 DEF OriginInv, ImportReady, ScanOfIndexed, Indexed

LEMMA QueryFailsInv ==
  ASSUME OriginInv, QueryFails
  PROVE  OriginInv'
<1>1. /\ search.pc = "query" /\ Fault
      /\ search' \in {NoSearch, [search EXCEPT !.pc = "vectors"]}
      /\ UNCHANGED <<settings, history, saving, place, importing, registry, index, points, scan,
                     mirror, spoiled, changes, moves, scans>>
  BY DEF QueryFails
<1>2. search \in SearchState /\ search' \in SearchState
  BY <1>1, EmptySearch DEF OriginInv, VouchedKnown, SearchState
<1>3. VouchedKnown' /\ HitsKnown' /\ VectorsKnown' /\ AnswersOrdinary'
  <2>1. CASE search' = NoSearch
    BY <1>2, <2>1, EmptySearch DEF VouchedKnown, HitsKnown, VectorsKnown, AnswersOrdinary
  <2>2. CASE search' = [search EXCEPT !.pc = "vectors"]
    <3>1. /\ search'.pc = "vectors" /\ search'.scope = search.scope
          /\ search'.vouched = search.vouched /\ search'.vectorVouched = search.vectorVouched
          /\ search'.answer = search.answer /\ search'.vectorAnswer = search.vectorAnswer
      BY <1>2, <2>2 DEF SearchState
    <3>2. VouchedKnown' /\ HitsKnown'
      BY <1>2, <3>1 DEF OriginInv, VouchedKnown, HitsKnown
    <3>3. VectorsKnown' /\ AnswersOrdinary'
      BY <1>1, <3>1 DEF OriginInv, VectorsKnown, AnswersOrdinary, Archives
    <3>. QED
      BY <3>2, <3>3
  <2>. QED
    BY <1>1, <2>1, <2>2
<1>4. faults' \in 0 .. MaxFaults
  BY <1>1, ChangeType
<1>5. OriginTypeOK'
  BY <1>1, <1>2, <1>4, SearchStepTypes
<1>. QED
  BY <1>1, <1>3, <1>5 DEF OriginInv, ImportReady, ScanOfIndexed, Indexed

LEMMA FilterInv ==
  ASSUME OriginInv, Filter
  PROVE  OriginInv'
<1>. DEFINE healed == {d \in Hits : search.copy[d].origin = None /\ HitOrigin(d) # None}
            rows == [d \in Docs |-> IF d \in healed THEN HitOrigin(d) ELSE registry[d]]
            answer == {d \in Hits : HitOrigin(d) = None}
<1>1. /\ search.pc = "filter"
      /\ Commit(rows) \/ UNCHANGED <<registry, mirror, spoiled>>
      /\ search' = IF search.scope # None THEN NoSearch
                   ELSE [search EXCEPT !.pc = "vectors", !.current = FALSE, !.copy = NoSearch.copy,
                           !.answer = answer]
      /\ UNCHANGED <<settings, history, saving, place, importing, index, points, scan, changes, moves,
                     scans, faults>>
  BY DEF Filter
<1>2. search \in SearchState /\ registry \in [Docs -> Origins]
  BY DEF OriginInv, VouchedKnown, OriginTypeOK
<1>3. ASSUME NEW d \in Hits PROVE HitOrigin(d) \in Origins
  <2>1. search.copy[d] \in [root : Places, origin : Origins]
    BY <1>2, <1>3 DEF Hits, SearchState, Copies, Payloads
  <2>. QED
    BY <1>2, <1>3, <2>1, OriginByPath DEF HitOrigin, Classify, Hits
<1>4. rows \in [Docs -> Origins] /\ \A d \in Docs : registry[d] # None => rows[d] # None
  BY <1>2, <1>3
<1>5. /\ registry' \in [Docs -> Origins]
      /\ mirror' \in [current : BOOLEAN, missing : BOOLEAN]
      /\ spoiled' \subseteq Docs
  <2>1. CASE Commit(rows)
    <3>. HIDE DEF rows
    <3>. QED
      BY <1>4, <2>1, CommitKeeps
  <2>2. CASE UNCHANGED <<registry, mirror, spoiled>>
    BY <2>2 DEF OriginInv, OriginTypeOK
  <2>. QED
    BY <1>1, <2>1, <2>2
<1>6. answer \in SUBSET Docs
  BY DEF Hits
<1>7. search.scope = None => answer \cap search.vouched = {}
  <2>1. SUFFICES ASSUME NEW d \in Hits, HitOrigin(d) = None, search.scope = None,
                        d \in search.vouched
                 PROVE  FALSE
    OBVIOUS
  <2>2. search.copy[d].origin = None /\ registry[d] # None
    BY <1>1, <2>1 DEF OriginInv, HitsKnown
  <2>. QED
    BY <2>1, <2>2 DEF HitOrigin, Classify
<1>. HIDE DEF answer
<1>8. search' \in SearchState /\ VouchedKnown' /\ HitsKnown' /\ VectorsKnown' /\ AnswersOrdinary'
  <2>1. CASE search.scope # None
    BY <1>1, <2>1, EmptySearch DEF VouchedKnown, HitsKnown, VectorsKnown, AnswersOrdinary
  <2>2. CASE search.scope = None
    <3>1. NoSearch.copy \in [Docs -> Copies]
      BY EmptySearch DEF SearchState
    <3>2. /\ search' \in SearchState /\ search'.pc = "vectors" /\ search'.scope = None
          /\ search'.vouched = search.vouched /\ search'.vectorVouched = search.vectorVouched
          /\ search'.answer = answer /\ search'.vectorAnswer = search.vectorAnswer
      BY <1>1, <1>2, <1>6, <2>2, <3>1 DEF SearchState
    <3>3. VouchedKnown' /\ HitsKnown'
      BY <3>2 DEF VouchedKnown, HitsKnown
    <3>4. VectorsKnown'
      <4>1. \A d \in search.vectorVouched : d \in Docs
        BY <1>2 DEF SearchState
      <4>2. \A d \in Docs : registry[d] # None => registry'[d] # None
        <5>. HIDE DEF rows
        <5>1. CASE Commit(rows)
          BY <1>4, <5>1, CommitKeeps
        <5>2. CASE UNCHANGED <<registry, mirror, spoiled>>
          BY <5>2
        <5>. QED
          BY <1>1, <5>1, <5>2
      <4>. QED
        BY <1>1, <3>2, <4>1, <4>2 DEF OriginInv, VectorsKnown, Archives
    <3>5. AnswersOrdinary'
      BY <1>7, <2>2, <3>2 DEF OriginInv, AnswersOrdinary
    <3>. QED
      BY <3>2, <3>3, <3>4, <3>5
  <2>. QED
    BY <2>1, <2>2
<1>9. OriginTypeOK'
  BY <1>1, <1>5, <1>8 DEF OriginInv, OriginTypeOK, SearchState
<1>. QED
  BY <1>1, <1>8, <1>9 DEF OriginInv, ImportReady, ScanOfIndexed, Indexed

LEMMA QueryVectorsInv ==
  ASSUME OriginInv, QueryVectors
  PROVE  OriginInv'
<1>. DEFINE chunks == [d \in Docs |-> {p \in points[d] : p.origin = None}]
<1>1. /\ search.pc = "vectors" /\ search' = [search EXCEPT !.pc = "judge", !.chunks = chunks]
      /\ UNCHANGED <<settings, history, saving, place, importing, registry, index, points, scan,
                     mirror, spoiled, changes, moves, scans, faults>>
  BY DEF QueryVectors
<1>2. search \in SearchState /\ points \in [Docs -> SUBSET Payloads]
  BY DEF OriginInv, VouchedKnown, OriginTypeOK
<1>3. chunks \in [Docs -> SUBSET Payloads] /\ \A d \in Docs : chunks[d] \subseteq points[d]
  BY <1>2
<1>. HIDE DEF chunks
<1>4. /\ search' \in SearchState /\ search'.pc = "judge" /\ search'.scope = search.scope
      /\ search'.vouched = search.vouched /\ search'.vectorVouched = search.vectorVouched
      /\ search'.answer = search.answer /\ search'.vectorAnswer = search.vectorAnswer
      /\ search'.chunks = chunks
  BY <1>1, <1>2, <1>3 DEF SearchState
<1>5. VouchedKnown' /\ HitsKnown' /\ AnswersOrdinary'
  BY <1>4 DEF OriginInv, VouchedKnown, HitsKnown, AnswersOrdinary
<1>6. VectorsKnown'
  <2>1. \A d \in search.vectorVouched : d \in Docs
    BY <1>2 DEF SearchState
  <2>. QED
    BY <1>1, <1>3, <1>4, <2>1 DEF OriginInv, VectorsKnown, Archives
<1>7. OriginTypeOK'
  BY <1>1, <1>4, FaultsType, SearchStepTypes
<1>. QED
  BY <1>1, <1>5, <1>6, <1>7 DEF OriginInv, ImportReady, ScanOfIndexed, Indexed

\* A chunk that comes through is of no registered document, and its folder was never
\* an archive: so it is none of those vouched for.
LEMMA FilterVectorsInv ==
  ASSUME OriginInv, FilterVectors
  PROVE  OriginInv'
<1>. DEFINE answer == {d \in Docs : \E p \in search.chunks[d] : Classify(d, p.root) = None}
<1>1. /\ search.pc = "judge"
      /\ search' = [search EXCEPT !.pc = "idle", !.chunks = NoSearch.chunks,
                                  !.vectorAnswer = answer]
      /\ UNCHANGED <<settings, history, saving, place, importing, registry, index, points, scan,
                     mirror, spoiled, changes, moves, scans, faults>>
  BY DEF FilterVectors
<1>2. search \in SearchState /\ NoSearch.chunks \in [Docs -> SUBSET Payloads]
  BY EmptySearch DEF OriginInv, VouchedKnown, SearchState
<1>3. answer \cap search.vectorVouched = {}
  <2>1. SUFFICES ASSUME NEW d \in Docs, NEW p \in search.chunks[d], Classify(d, p.root) = None,
                        d \in search.vectorVouched
                 PROVE  FALSE
    OBVIOUS
  <2>2. registry[d] = None /\ OriginOfPath(p.root) = None
    BY <2>1 DEF Classify
  <2>3. p.root \in Archives
    BY <1>1, <2>1, <2>2 DEF OriginInv, VectorsKnown
  <2>. QED
    BY <2>2, <2>3, OriginBasics DEF OriginOfPath, RootsOf, Archives, Kinds
<1>4. answer \in SUBSET Docs
  OBVIOUS
<1>. HIDE DEF answer
<1>5. /\ search' \in SearchState /\ search'.pc = "idle" /\ search'.scope = search.scope
      /\ search'.vouched = search.vouched /\ search'.vectorVouched = search.vectorVouched
      /\ search'.answer = search.answer /\ search'.vectorAnswer = answer
  BY <1>1, <1>2, <1>4 DEF SearchState
<1>6. VouchedKnown' /\ HitsKnown' /\ VectorsKnown' /\ AnswersOrdinary'
  BY <1>3, <1>5 DEF OriginInv, VouchedKnown, HitsKnown, VectorsKnown, AnswersOrdinary
<1>7. OriginTypeOK'
  BY <1>1, <1>5, FaultsType, SearchStepTypes
<1>. QED
  BY <1>1, <1>6, <1>7 DEF OriginInv, ImportReady, ScanOfIndexed, Indexed

LEMMA RestartApiInv ==
  ASSUME OriginInv, RestartApi
  PROVE  OriginInv'
<1>1. /\ search' = NoSearch /\ mirror' = [current |-> FALSE, missing |-> FALSE] /\ Fault
      /\ UNCHANGED <<settings, history, saving, place, importing, registry, index, points, scan,
                     spoiled, changes, moves, scans>>
  BY DEF RestartApi
<1>2. /\ VouchedKnown' /\ HitsKnown' /\ VectorsKnown' /\ AnswersOrdinary'
      /\ search' \in SearchState
  BY <1>1, EmptySearch DEF VouchedKnown, HitsKnown, VectorsKnown, AnswersOrdinary
<1>3. faults' \in 0 .. MaxFaults
  BY <1>1, ChangeType
<1>4. OriginTypeOK'
  BY <1>1, <1>2, <1>3 DEF OriginInv, OriginTypeOK, SearchState
<1>. QED
  BY <1>1, <1>2, <1>4 DEF OriginInv, ImportReady, ScanOfIndexed, Indexed

LEMMA OriginNextInv ==
  ASSUME OriginInv, [OriginNext]_originVars
  PROVE  OriginInv'
<1>1. CASE Settings
  BY <1>1, SetChatSettingsInv, SaveMailAccountInv, SaveMailRootsInv, DieBetweenSavesInv,
     DeleteMailAccountInv DEF Settings
<1>2. CASE Files
  BY <1>2, StartImportInv, PutArchivedInv, CreateOrdinaryInv, ReindexInv, RegisterImportInv,
     LoseRegistrationInv, MoveInv DEF Files
<1>3. CASE Traversal
  BY <1>3, StartScanInv, ClassifyScannedInv, DescribeChunksInv, UpsertChunksInv, KeepChunksInv,
     EndScanInv, ScanKilledInv DEF Traversal
<1>4. CASE SearchStep
  BY <1>4, MirrorFirstInv, SearchAsIsInv, UpdateMirrorInv, QueryInv, FilterInv,
     QueryVectorsInv, FilterVectorsInv DEF SearchStep, Retry
<1>5. CASE MirrorFails \/ QueryFails \/ RestartApi
  BY <1>5, MirrorFailsInv, QueryFailsInv, RestartApiInv
<1>6. CASE UNCHANGED originVars
  BY <1>6 DEF originVars, OriginInv, OriginTypeOK, ImportReady, ScanOfIndexed, VouchedKnown,
     HitsKnown, VectorsKnown, AnswersOrdinary, Indexed, Archives, Hits
<1>. QED
  BY <1>1, <1>2, <1>3, <1>4, <1>5, <1>6 DEF OriginNext

\* OriginInv is an invariant.
THEOREM OriginInvariant == OriginSpec => []OriginInv
<1>1. OriginInit => OriginInv
  BY OriginInitInv
<1>2. OriginInv /\ [OriginNext]_originVars => OriginInv'
  BY OriginNextInv
<1>. QED
  BY <1>1, <1>2, PTL DEF OriginSpec

\* source_scope_allows_record and the clauses of the query: whatever administrators,
\* importers, users, indexers and traversals do while an ordinary search is under way,
\* neither of its arms returns what was known as archive material when it began; but
\* for a document nobody registered whose copy is rewritten meanwhile with a folder
\* that never was an archive.
THEOREM OrdinarySearchesStayOrdinary == OriginSpec => []ArchivedStaysOut
<1>1. OriginInv => ArchivedStaysOut
  BY DEF OriginInv, AnswersOrdinary, ArchivedStaysOut
<1>. QED
  BY <1>1, OriginInvariant, PTL

=============================================================================

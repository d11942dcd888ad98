------------------------------ MODULE MailSync ------------------------------
(***************************************************************************)
(* rag/mail_sync.py: the incremental import of one IMAP mailbox into the   *)
(* Nextcloud archive, and rag/mail_worker.py, which starts it again and    *)
(* again.  A mailbox has one row in mail_sync_state with two cursors: the  *)
(* live cursor climbs over new messages, the backfill cursor descends      *)
(* through the history, and below the cursor of an old installation        *)
(* (mail_cursors) everything counts as imported.                           *)
(*                                                                         *)
(* A run is a process: SELECT and the searches, reading or initialising    *)
(* the row, then fetch, WebDAV write and cursor update for one message     *)
(* after the other.  Each of these is a step, because messages arrive, are *)
(* expunged and are renumbered meanwhile, a second run (the command line   *)
(* beside the worker, which nothing keeps apart) uses the same row, and a  *)
(* process may end anywhere.                                               *)
(*                                                                         *)
(* One mailbox of one account: the rows of two mailboxes are independent.  *)
(* An exception ends the whole account, so the mailboxes behind this one   *)
(* are not reached either.  Parsing, file names and the post-sync commands *)
(* are left out.                                                           *)
(***************************************************************************)
EXTENDS Integers, FiniteSets, NoValue

CONSTANTS
  Runs,          \* processes that may run rag.mail_sync
  Workers,       \* those of them rag.mail_worker starts again and again
  MaxUid,        \* bound: highest UID a numbering gives out
  MaxNumbering,  \* bound: number of UIDVALIDITY values the mailbox has
  Dates,         \* the INTERNALDATEs messages have, positive numbers
  Cutoffs,       \* values of mail.not_before, 0 for none
  Budgets,       \* values of max_messages, 0 for no limit
  LastUids,      \* the last_uid values an old installation may have left
  Refused,       \* UIDs whose import always raises
  MaxAborts,     \* bound: runs that are killed or lose a connection
  Expanding,     \* TRUE: not_before may also be moved to an earlier date
  Overlapping   \* TRUE: a run may start while another one is under way

Uids == 1 .. MaxUid
Numberings == 1 .. MaxNumbering

ASSUME ParameterAssumption ==
  /\ Workers \subseteq Runs
  /\ MaxUid \in Nat /\ MaxNumbering \in Nat \ {0} /\ MaxAborts \in Nat
  /\ Dates \subseteq Nat \ {0} /\ Cutoffs \subseteq Nat /\ Budgets \subseteq Nat
  /\ LastUids \subseteq Nat /\ Refused \subseteq Nat
  /\ Expanding \in BOOLEAN /\ Overlapping \in BOOLEAN

VARIABLES
  mailbox,   \* the IMAP mailbox: numbering, dates by UID, highest UID given out
  cutoff,    \* mail.not_before of the account, 0 for none
  legacy,    \* row of the old table mail_cursors, never written
  row,       \* row of mail_sync_state
  archived,  \* messages whose files are all in Nextcloud, <<numbering, UID>>
  run,       \* local state of every run
  aborts     \* runs cut off so far

vars == <<mailbox, cutoff, legacy, row, archived, run, aborts>>

Top(S) == CHOOSE n \in S : \A m \in S : m <= n
Bottom(S) == CHOOSE n \in S : \A m \in S : n <= m

Validities == 0 .. MaxNumbering   \* 0: the server did not say
Legacy == [validity : Validities, last : LastUids]
Row == [validity : Validities, live : Nat, before : Nat, legacy : Nat]
ASSUME NoneAssumption == None \notin Row
PC == {"closed", "search", "load", "insert", "fetch", "put", "save"}

\* numbering is the numbering the session was opened in, whatever it was told.
RunState ==
  [pc : PC, numbering : Nat, validity : Validities, budget : Budgets \cup {0},
   cutoff : Cutoffs \cup {0}, head : 0 .. MaxUid, found : SUBSET Uids,
   live : SUBSET Uids, backfill : SUBSET Uids]

Closed ==
  [pc |-> "closed", numbering |-> 0, validity |-> 0, budget |-> 0, cutoff |-> 0,
   head |-> 0, found |-> {}, live |-> {}, backfill |-> {}]

Mailbox ==
  [numbering : Numberings, mails : UNION {[S -> Dates] : S \in SUBSET Uids},
   top : 0 .. MaxUid, silent : BOOLEAN]

TypeOK ==
  /\ mailbox \in Mailbox /\ DOMAIN mailbox.mails \subseteq 1 .. mailbox.top
  /\ cutoff \in Cutoffs
  /\ legacy \in Legacy \cup {None}
  /\ row \in Row \cup {None}
  /\ archived \subseteq Numberings \X Uids
  /\ run \in [Runs -> RunState]
  /\ aborts \in 0 .. MaxAborts

(***************************************************************************)
(* A mailbox the importer meets for the first time, or one an old          *)
(* installation has imported up to legacy.last.  Only an installation that *)
(* was not told the numbering has left a cursor without one.               *)
(***************************************************************************)
Init ==
  /\ mailbox \in {m \in Mailbox : m.numbering = 1 /\ DOMAIN m.mails = 1 .. m.top}
  /\ cutoff \in Cutoffs
  /\ legacy \in {l \in Legacy : l.last <= mailbox.top
                                /\ l.validity \in (IF mailbox.silent THEN {0, 1} ELSE {1})}
               \cup {None}
  /\ row = None
  /\ archived = IF legacy = None THEN {} ELSE {<<1, u>> : u \in 1 .. legacy.last}
  /\ run = [s \in Runs |-> Closed]
  /\ aborts = 0

-----------------------------------------------------------------------------
(* One run.                                                                *)

\* A session does not survive a renumbering: the next request to it fails.
SessionLives(r) == r.numbering = mailbox.numbering

Eligible(u, c) == c = 0 \/ mailbox.mails[u] >= c

\* SELECT, UIDVALIDITY and the search for all messages.
Select(s, b) ==
  /\ run[s].pc = "closed"
  /\ Overlapping \/ \A t \in Runs : run[t].pc = "closed"
  /\ \E v \in IF mailbox.silent THEN {0, mailbox.numbering} ELSE {mailbox.numbering} :
       LET uids == DOMAIN mailbox.mails
       IN  run' = [run EXCEPT ![s] =
                     [Closed EXCEPT !.pc = "search", !.numbering = mailbox.numbering,
                                    !.validity = v, !.budget = b, !.cutoff = cutoff,
                                    !.found = uids,
                                    !.head = IF uids = {} THEN 0 ELSE Top(uids)]]
  /\ UNCHANGED <<mailbox, cutoff, legacy, row, archived, aborts>>

\* The second search, for the messages since the cutoff, if there is one.
Search(s) ==
  LET r == run[s] IN
  /\ r.pc = "search"
  /\ run' = [run EXCEPT ![s] =
       IF r.cutoff = 0 THEN [r EXCEPT !.pc = "load"]
       ELSE IF SessionLives(r)
         THEN [r EXCEPT !.pc = "load",
                        !.found = {u \in DOMAIN mailbox.mails : Eligible(u, r.cutoff)}]
         ELSE Closed]
  /\ UNCHANGED <<mailbox, cutoff, legacy, row, archived, aborts>>

\* The n lowest and the n highest of a set of UIDs; 0 stands for no limit.
Lowest(S, n) == {u \in S : n = 0 \/ Cardinality({v \in S : v < u}) < n}
Highest(S, n) == {u \in S : n = 0 \/ Cardinality({v \in S : v > u}) < n}

\* New messages come first; the history gets what they leave of the budget.
Planned(r, c) ==
  LET livePending == {u \in r.found : u > c.live}
      backfillPending == {u \in r.found : c.legacy < u /\ u < c.before}
      liveBatch == Lowest(livePending, r.budget)
      left == r.budget - Cardinality(liveBatch)
      backfillBatch == IF r.budget > 0 /\ left = 0 THEN {}
                       ELSE Highest(backfillPending, IF r.budget = 0 THEN 0 ELSE left)
  IN  IF liveBatch \cup backfillBatch = {} THEN Closed
      ELSE [Closed EXCEPT !.pc = "fetch", !.numbering = r.numbering,
                          !.validity = r.validity,
                          !.live = liveBatch, !.backfill = backfillBatch]

\* Mutant: an unknown numbering is taken for another one.
SameNumberingKnown(v, w) == v # 0 /\ v = w

SameNumbering(v, w) == v = 0 \/ w = 0 \/ v = w

\* The row is used as it is, deleted in a transaction of its own, or missing.
LoadOrInitialize(s) ==
  LET r == run[s] IN
  /\ r.pc = "load"
  /\ IF row # None /\ SameNumbering(r.validity, row.validity)
       THEN run' = [run EXCEPT ![s] = Planned(r, row)] /\ UNCHANGED row
       ELSE run' = [run EXCEPT ![s].pc = "insert"] /\ row' = None
  /\ UNCHANGED <<mailbox, cutoff, legacy, archived, aborts>>

\* Mutant: the old cursor counts in every numbering.
LegacyCursorAlways(v) == IF legacy = None THEN 0 ELSE legacy.last

LegacyCursor(v) ==
  IF legacy = None THEN 0
  ELSE IF SameNumbering(v, legacy.validity) THEN legacy.last ELSE 0

\* INSERT; it raises when another run has inserted the row in the meantime.
Initialize(s) ==
  LET r == run[s]
      new == [validity |-> r.validity, live |-> r.head, before |-> r.head + 1,
              legacy |-> LegacyCursor(r.validity)]
  IN
  /\ r.pc = "insert"
  /\ IF row = None
       THEN row' = new /\ run' = [run EXCEPT ![s] = Planned(r, new)]
       ELSE run' = [run EXCEPT ![s] = Closed] /\ UNCHANGED row
  /\ UNCHANGED <<mailbox, cutoff, legacy, archived, aborts>>

\* Mutant: the history is worked off in ascending order, like new messages.
UidAscending(r) == IF r.live # {} THEN Bottom(r.live) ELSE Bottom(r.backfill)

\* Live messages in ascending order, then the history in descending order.
Uid(r) == IF r.live # {} THEN Bottom(r.live) ELSE Top(r.backfill)

\* A message that is gone or refused raises, which ends the account's run.
Fetch(s) ==
  LET r == run[s] IN
  /\ r.pc = "fetch"
  /\ run' = [run EXCEPT ![s] =
       IF SessionLives(r) /\ Uid(r) \in DOMAIN mailbox.mails \ Refused
         THEN [r EXCEPT !.pc = "put"]
         ELSE Closed]
  /\ UNCHANGED <<mailbox, cutoff, legacy, row, archived, aborts>>

(***************************************************************************)
(* All files of the message.  They are written one by one under names that *)
(* a later attempt uses again, so a run cut off between two of them has    *)
(* done no more than one cut off before the first.                         *)
(***************************************************************************)
Put(s) ==
  LET r == run[s] IN
  /\ r.pc = "put"
  /\ archived' = archived \cup {<<r.numbering, Uid(r)>>}
  /\ run' = [run EXCEPT ![s].pc = "save"]
  /\ UNCHANGED <<mailbox, cutoff, legacy, row, aborts>>

Moved(c, r) ==
  IF r.live # {} THEN [c EXCEPT !.validity = r.validity, !.live = Uid(r)]
  ELSE [c EXCEPT !.validity = r.validity, !.before = Uid(r)]

Done(r) ==
  LET rest == [r EXCEPT !.pc = "fetch", !.live = @ \ {Uid(r)},
                        !.backfill = IF r.live # {} THEN @ ELSE @ \ {Uid(r)}]
  IN  IF rest.live \cup rest.backfill = {} THEN Closed ELSE rest

\* save_live or save_backfill_before: an UPDATE, without effect on no row.
Save(s) ==
  LET r == run[s] IN
  /\ r.pc = "save"
  /\ row' = IF row = None THEN None ELSE Moved(row, r)
  /\ run' = [run EXCEPT ![s] = Done(r)]
  /\ UNCHANGED <<mailbox, cutoff, legacy, archived, aborts>>

Step(s) ==
  Search(s) \/ LoadOrInitialize(s) \/ Initialize(s) \/ Fetch(s) \/ Put(s) \/ Save(s)

\* Killed, or an IMAP or WebDAV request failed.
Abort(s) ==
  /\ run[s].pc # "closed"
  /\ aborts < MaxAborts
  /\ aborts' = aborts + 1
  /\ run' = [run EXCEPT ![s] = Closed]
  /\ UNCHANGED <<mailbox, cutoff, legacy, row, archived>>

-----------------------------------------------------------------------------
(* The mail server, the administrator and the calendar.                    *)

Arrive ==
  /\ mailbox.top < MaxUid
  /\ \E d \in Dates :
       mailbox' = [mailbox EXCEPT !.top = @ + 1,
                     !.mails = [u \in DOMAIN @ \cup {mailbox.top + 1} |->
                                  IF u \in DOMAIN @ THEN @[u] ELSE d]]
  /\ UNCHANGED <<cutoff, legacy, row, archived, run, aborts>>

Expunge(u) ==
  /\ u \in DOMAIN mailbox.mails
  /\ mailbox' = [mailbox EXCEPT !.mails = [w \in DOMAIN @ \ {u} |-> @[w]]]
  /\ UNCHANGED <<cutoff, legacy, row, archived, run, aborts>>

(***************************************************************************)
(* The server gives every message a new UID.  A server that does not       *)
(* report its numbering is taken to keep it: the importer has nothing else *)
(* to notice the change by.                                                *)
(***************************************************************************)
Renumber ==
  /\ mailbox.numbering < MaxNumbering /\ ~mailbox.silent
  /\ \E n \in 0 .. MaxUid : \E m \in [1 .. n -> Dates] :
       mailbox' = [mailbox EXCEPT !.numbering = @ + 1, !.mails = m, !.top = n]
  /\ UNCHANGED <<cutoff, legacy, row, archived, run, aborts>>

\* not_before is edited, or max_age_years moves it on as time passes.
MoveCutoff(c) ==
  /\ Expanding \/ c > cutoff
  /\ c # cutoff
  /\ cutoff' = c
  /\ UNCHANGED <<mailbox, legacy, row, archived, run, aborts>>

Environment ==
  \/ Arrive
  \/ \E u \in Uids : Expunge(u)
  \/ Renumber
  \/ \E c \in Cutoffs : MoveCutoff(c)

Next ==
  \/ \E s \in Runs : (\E b \in Budgets : Select(s, b)) \/ Step(s) \/ Abort(s)
  \/ Environment

Spec == Init /\ [][Next]_vars

(***************************************************************************)
(* Processes run, and rag.mail_worker starts the next pass after each one, *)
(* whatever its exit code was: strongly fair, because without Overlapping  *)
(* a pass waits here for a run from the command line to end, which the     *)
(* loop does not do.  Nothing is assumed of the command line or of the     *)
(* environment.                                                            *)
(***************************************************************************)
Fairness ==
  /\ \A s \in Runs : WF_vars(Step(s))
  /\ \A s \in Workers : SF_vars(\E b \in Budgets : Select(s, b))

FairSpec == Spec /\ Fairness

-----------------------------------------------------------------------------
(* Properties.                                                             *)

\* The numbering the next run is told differs from the row's for certain.
Outdated == ~mailbox.silent /\ row.validity \notin {0, mailbox.numbering}

\* The next run will find the message, now or after runs before it.
Pending(u) ==
  IF row = None \/ Outdated THEN u > LegacyCursor(mailbox.numbering)
  ELSE u > row.live \/ (row.legacy < u /\ u < row.before)

(***************************************************************************)
(* No message falls between the cursors: every message of the mailbox the  *)
(* cutoff admits is in the archive or still ahead of a cursor, through     *)
(* runs cut off anywhere, messages expunged in the middle of a batch,      *)
(* renumbering, and cursors of an old installation.  Provided not_before   *)
(* is not moved to an earlier date and runs do not overlap.                *)
(***************************************************************************)
NothingLost ==
  \A u \in DOMAIN mailbox.mails :
    Eligible(u, cutoff) => <<mailbox.numbering, u>> \in archived \/ Pending(u)

(* The parts of the inductive strengthening of NothingLost.                *)

OneRun ==
  \A s, t \in Runs : run[s].pc # "closed" /\ run[t].pc # "closed" => s = t

\* A numbering is known unless the server is silent, and then it is the first.
Known(v) == v <= mailbox.numbering /\ (v = 0 => mailbox.silent)

Numbered ==
  /\ mailbox.silent => mailbox.numbering = 1
  /\ legacy # None =>
       /\ Known(legacy.validity) /\ legacy.validity <= 1
       /\ mailbox.numbering = 1 => legacy.last <= mailbox.top
  /\ row # None => Known(row.validity)
  /\ \A s \in Runs : run[s].pc # "closed" =>
       /\ run[s].numbering \in 1 .. mailbox.numbering
       /\ run[s].validity = run[s].numbering \/ (run[s].validity = 0 /\ mailbox.silent)

Current == row # None /\ ~Outdated

\* The cursors stay within the UIDs given out, so what arrives is new.
CursorsInside ==
  Current => row.live <= mailbox.top /\ row.before <= mailbox.top + 1

\* What the searches have not found has arrived since, beyond the cursors.
Found(s) ==
  /\ run[s].head <= mailbox.top /\ run[s].found \subseteq 1 .. mailbox.top
  /\ run[s].cutoff <= cutoff
  /\ \A u \in DOMAIN mailbox.mails \ run[s].found :
       Eligible(u, cutoff) =>
         /\ run[s].head < u /\ \A w \in run[s].found : w < u
         /\ Current => row.before <= u

\* The batches are what lies next to the two cursors, without a gap.
Adjacent(s) ==
  /\ Current
  /\ \A w \in run[s].live :
       /\ row.live < w /\ w <= mailbox.top
       /\ \A u \in DOMAIN mailbox.mails :
            Eligible(u, cutoff) /\ row.live < u /\ u < w => u \in run[s].live
  /\ \A w \in run[s].backfill :
       /\ row.legacy < w /\ w < row.before
       /\ \A u \in DOMAIN mailbox.mails :
            Eligible(u, cutoff) /\ w < u /\ u < row.before => u \in run[s].backfill

Underway(s) ==
  /\ run[s].pc = "insert" => row = None
  /\ run[s].pc \in {"fetch", "put", "save"} => run[s].live \cup run[s].backfill # {}
  /\ SessionLives(run[s]) =>
       /\ run[s].pc \in {"search", "load", "insert"} => Found(s)
       /\ run[s].pc \in {"fetch", "put", "save"} => Adjacent(s)
       /\ run[s].pc = "save" => <<run[s].numbering, Uid(run[s])>> \in archived

(***************************************************************************)
(* Cursors, found messages and batches of sync_mailbox fit together: what  *)
(* a run has not found has arrived since, and its batches are what lies    *)
(* next to the cursors, without a gap, whatever the server does meanwhile. *)
(* Inductive when Overlapping and Expanding are FALSE.                     *)
(***************************************************************************)
MailInv ==
  /\ TypeOK /\ OneRun /\ Numbered /\ CursorsInside
  /\ \A s \in Runs : Underway(s)
  /\ NothingLost

(***************************************************************************)
(* Once the mailbox and the cutoff rest, the worker's passes bring every   *)
(* admitted message that can be imported at all into the archive, whatever *)
(* the budget of a pass is (the text in mail_sync.py:5, "pro Nachricht").  *)
(***************************************************************************)
AllImported ==
  <>[][FALSE]_<<mailbox, cutoff>> =>
    <>[](\A u \in DOMAIN mailbox.mails \ Refused :
           Eligible(u, cutoff) => <<mailbox.numbering, u>> \in archived)

=============================================================================

---------------------------- MODULE GraphIndexer ----------------------------
(***************************************************************************)
(* rag/graph_indexer.py, index_evidence, for one document, transaction by  *)
(* transaction: fetch from Elasticsearch, touch the Document node, attach  *)
(* mail metadata, discover names, replace the mentions and vouch for them  *)
(* with graph_hash and graph_extractor, replace the claims, summarize.     *)
(* Neo4j has no transaction around them, and each model call in between    *)
(* takes minutes: the pass may end by an exception or with its process     *)
(* anywhere, the text may change and a curator may decide.                 *)
(*                                                                         *)
(* Passes are started by the worker (rag/graph_worker.py), for evidence of *)
(* a chat or a relink after a change of contacts, with retries, and by     *)
(* rag/graph_rebuild.py and POST /graph/index-evidence, without.  The      *)
(* queue is taken for what DocumentQueue promises: at most one active job  *)
(* for a document.  What a name resolves to is in KnowledgeGraph; here a   *)
(* name is known or not, and rejected by a curator or not.                 *)
(***************************************************************************)
EXTENDS Integers, FiniteSets, NoValue

CONSTANTS
  Versions,      \* texts the document has had in Elasticsearch
  Snippet,       \* the passage a chat sends along with its evidence
  Empty,         \* no text at all
  Names,         \* names of people
  In,            \* names in a text
  Signal,        \* what the model says of a name, where it stands
  Kind,          \* Person or Organization
  Oversize,      \* texts beyond graph_queue.auto_limits
  Worker,        \* the queue's worker
  Callers,       \* rebuild and API processes
  Kinds,         \* demands in use
  Manual,        \* a claim a curator has made
  MaxAttempts,   \* graph_queue.max_attempts
  LostChunks,    \* some, but not all, chunks of a text may fail in discovery
  Overlapping,   \* callers may run beside the worker
  MaxEdits, MaxEvents, MaxFaults, MaxRulings  \* bounds

Texts == Versions \cup {Snippet, Empty}

ASSUME IndexerAssumption ==
  /\ Snippet \notin Versions /\ Empty \notin Versions \cup {Snippet}
  /\ {Manual, None} \cap Texts = {}
  /\ In \in [Texts -> SUBSET Names] /\ In[Empty] = {}
  /\ Oversize \subseteq Versions
  /\ Kind \in [Names -> {"Person", "Organization"}]
  /\ Signal \in [Names -> [garbage : BOOLEAN,     \* a generic or implausible name
                           context : {"actor", "identity_metadata", "quoted", "incidental"},
                           tokens  : Nat,
                           cue     : BOOLEAN,     \* role, legal form or institution named
                           trust   : 0 .. 3]]     \* confidence: below, near, at or well
                                                  \* above the threshold for new identities
  /\ Worker \notin Callers
  /\ Kinds \subseteq {"evidence", "relink", "discover phase", "relink phase"}
  /\ MaxAttempts \in Nat \ {0}
  /\ {LostChunks, Overlapping} \subseteq BOOLEAN
  /\ {MaxEdits, MaxEvents, MaxFaults, MaxRulings} \subseteq Nat

VARIABLES
  text,      \* the text Elasticsearch has, Empty if it has none
  node,      \* properties of the Document node
  mail,      \* its mail relations: none, linked, threaded (with the reply edge)
  known,     \* names that have an identity
  ruled,     \* names a curator has rejected for this document
  rows,      \* MENTIONS: <<name, text it was found in>>
  claims,    \* RelationObservations, by the text they were found in
  job,       \* the active row of the queue
  pass,      \* what every process is doing
  edits, events, faults, rulings,
  cut,       \* history: a pass ended between clearing and vouching, and none has vouched since
  counted,   \* history: passes that were to count their evidence and ended well
  searched,  \* history: how much of every text discovery has been through
  blind      \* history: the pass that vouched last may not have known all names

store == <<node, mail, known, ruled, rows, claims>>
bounds == <<edits, events, faults, rulings>>
history == <<cut, counted, searched, blind>>
vars == <<text, store, job, pass, bounds, history>>

Processes == {Worker} \cup Callers

\* _build_extractor_signature, as far as a job changes it
Signatures == [discovery : BOOLEAN, relations : BOOLEAN]
Full == [discovery |-> TRUE, relations |-> TRUE]

\* what a job, a rebuild phase or a call asks of index_evidence
Demand(k) ==
  [force     |-> k # "evidence",
   discover  |-> k \in {"evidence", "discover phase"},
   relate    |-> k # "discover phase",
   count     |-> k \in {"evidence", "discover phase"},
   context   |-> k = "evidence",
   signature |-> IF k = "relink phase" THEN Full
                 ELSE [discovery |-> k # "relink", relations |-> k # "discover phase"]]

Active == {"fetch", "touch", "mail", "discover", "forms", "clear", "rulings", "write",
           "unclaim", "claim", "summary", "end"}
Pass == [pc : Active \cup {"idle", "down"}, kind : Kinds \cup {"evidence"}, seen : Texts,
         failed : BOOLEAN,          \* the fetch failed
         reindex : BOOLEAN,         \* needs_reindex, for a text that is not empty
         summarize : BOOLEAN,       \* needs_summary
         forms : SUBSET Names,      \* name_forms as read
         left : SUBSET Names,       \* names not yet linked
         before : SUBSET Names]     \* history: ruled when the pass began
Idle == [pc |-> "idle", kind |-> "evidence", seen |-> Empty, failed |-> FALSE,
         reindex |-> FALSE, summarize |-> FALSE, forms |-> {}, left |-> {}, before |-> {}]
NoJob == [status |-> "none", kind |-> "evidence", attempts |-> 0]

StateOK ==
  /\ text \in Versions \cup {Empty}
  /\ node \in [hash : Texts \cup {None}, extractor : Signatures \cup {None},
               evidence : 0 .. MaxEvents + MaxFaults,
               analysis : Texts \cup {None}]
  /\ mail \in {"none", "linked", "threaded"}
  /\ known \subseteq Names /\ ruled \subseteq known
  /\ rows \subseteq Names \X Texts
  /\ claims \subseteq Texts \cup {Manual}
  /\ job \in [status : {"none", "pending", "running"}, kind : Kinds \cup {"evidence"},
              attempts : 0 .. MaxAttempts + MaxFaults]
  /\ pass \in [Processes -> Pass]
  /\ edits \in 0 .. MaxEdits /\ events \in 0 .. MaxEvents
  /\ faults \in 0 .. MaxFaults /\ rulings \in 0 .. MaxRulings
  /\ cut \in BOOLEAN /\ counted \in 0 .. MaxEvents
TypeOK ==
  /\ StateOK
  /\ searched \in [Texts -> {"never", "partly", "wholly"}] /\ blind \in BOOLEAN

Init ==
  /\ text \in Versions
  /\ node = [hash |-> None, extractor |-> None, evidence |-> 0, analysis |-> None]
  /\ mail = "none" /\ known = {} /\ ruled = {} /\ rows = {} /\ claims = {}
  /\ job = NoJob /\ pass = [p \in Processes |-> Idle]
  /\ edits = 0 /\ events = 0 /\ faults = 0 /\ rulings = 0
  /\ cut = FALSE /\ counted = 0
  /\ searched = [v \in Texts |-> "never"] /\ blind = FALSE

-----------------------------------------------------------------------------
(* Who starts a pass.                                                      *)

Others(p) == {q \in Processes \ {p} : pass[q].pc \in Active}
MayStart(p) == pass[p].pc = "idle" /\ (Overlapping \/ Others(p) = {})

\* the provider's evidence event, or a relink after a change of contacts
Enqueue(k) ==
  /\ k \in Kinds \cap {"evidence", "relink"}
  /\ events < MaxEvents /\ events' = events + 1
  /\ job.status = "none"
  /\ job' = [status |-> "pending", kind |-> k, attempts |-> 0]
  /\ UNCHANGED <<text, store, pass, edits, faults, rulings, history>>

Claim ==
  /\ MayStart(Worker) /\ job.status = "pending"
  /\ job' = [job EXCEPT !.status = "running", !.attempts = @ + 1]
  /\ pass' = [pass EXCEPT ![Worker] =
                [Idle EXCEPT !.pc = "fetch", !.kind = job.kind, !.before = ruled]]
  /\ UNCHANGED <<text, store, bounds, history>>

\* a phase of graph_rebuild, or the API endpoint
Call(c, k) ==
  /\ k \in Kinds \ {"relink"}
  /\ events < MaxEvents /\ events' = events + 1
  /\ MayStart(c)
  /\ pass' = [pass EXCEPT ![c] = [Idle EXCEPT !.pc = "fetch", !.kind = k, !.before = ruled]]
  /\ UNCHANGED <<text, store, job, edits, faults, rulings, history>>

-----------------------------------------------------------------------------
(* index_evidence.                                                         *)

At(p, pc) == pass[p].pc = pc
Asked(p) == Demand(pass[p].kind)
Go(p, pc) == pass' = [pass EXCEPT ![p].pc = pc]

\* _fetch_documents: a document that is not there, and an error, leave the
\* passage that came with the evidence; the error is reported at the end only
Fetched(spare) ==
  {[seen |-> IF text = Empty THEN spare ELSE text, failed |-> FALSE],
   [seen |-> spare, failed |-> TRUE]}

Fetch(p) ==
  /\ At(p, "fetch")
  /\ \E source \in Fetched(IF Asked(p).context THEN Snippet ELSE Empty) :
       /\ pass' = [pass EXCEPT
                     ![p].pc = IF source.seen \in Oversize THEN "end" ELSE "touch",
                     ![p].seen = source.seen, ![p].failed = source.failed]
       /\ faults' = faults + (IF source.failed THEN 1 ELSE 0) /\ faults' <= MaxFaults
  /\ UNCHANGED <<text, store, job, edits, events, rulings, history>>

\* mistake: evidence counts only when the document is indexed anew
TouchCountsNew(p) ==
  LET new == \/ node.hash # pass[p].seen \/ node.extractor # Asked(p).signature
             \/ Asked(p).force
  IN  /\ At(p, "touch")
      /\ node' = [node EXCEPT !.evidence = @ + (IF Asked(p).count /\ new THEN 1 ELSE 0)]
      /\ pass' = [pass EXCEPT ![p].pc = "mail",
                    ![p].reindex = new /\ pass[p].seen # Empty,
                    ![p].summarize = new /\ pass[p].seen # Empty]
      /\ UNCHANGED <<text, mail, known, ruled, rows, claims, job, bounds, history>>

\* touch_evidence_document and the decisions taken from what it returns
Touch(p) ==
  LET me    == pass[p]
      stale == node.hash # me.seen \/ node.extractor # Asked(p).signature
  IN  /\ At(p, "touch")
      /\ node' = [node EXCEPT !.evidence = @ + (IF Asked(p).count THEN 1 ELSE 0)]
      /\ pass' = [pass EXCEPT ![p].pc = "mail",
                    ![p].reindex = (stale \/ Asked(p).force) /\ me.seen # Empty,
                    ![p].summarize = (node.analysis # me.seen \/ Asked(p).force)
                                     /\ me.seen # Empty]
      /\ UNCHANGED <<text, mail, known, ruled, rows, claims, job, bounds, history>>

\* attach_mail_metadata: link, drop the reply edge, make it anew; it may end
\* in an exception after each, which is noted and does not end the pass
AttachMail(p) ==
  /\ At(p, "mail")
  /\ mail' \in {mail, "linked", "threaded"}
  /\ Go(p, IF ~pass[p].reindex THEN "summary"
           ELSE IF Asked(p).discover THEN "discover" ELSE "forms")
  /\ UNCHANGED <<text, node, known, ruled, rows, claims, job, bounds, history>>

\* discover_entities: names whose chunk failed, alone or among others, are
\* not found, and nothing says so
Found(v) == {S \in SUBSET In[v] : S = In[v] \/ (LostChunks /\ S # {})}

\* _admission_decision: which names may resolve an identity, and create one
Eligible(n) ==
  /\ ~Signal[n].garbage /\ Signal[n].context \notin {"quoted", "incidental"}
  /\ Signal[n].context = "identity_metadata"
     \/ Signal[n].tokens \in (IF Kind[n] = "Person" THEN 2 .. 7 ELSE 1 .. 14)
Creates(n) ==
  /\ Eligible(n)
  /\ LET s == Signal[n] IN
     IF s.context = "identity_metadata" THEN s.cue /\ s.tokens >= 2 /\ s.trust = 3
     ELSE IF Kind[n] = "Person" THEN s.cue /\ s.trust >= 2
     ELSE (s.cue /\ s.trust >= 1) \/ (s.tokens >= 2 /\ s.trust >= 2)
Admitted(v) == {n \in In[v] : Creates(n)}

Discover(p) ==
  /\ At(p, "discover") /\ Go(p, "forms")
  /\ LET v == pass[p].seen IN
     \E S \in Found(v) :
       /\ known' = known \cup (S \cap Admitted(v))
       /\ searched' = [searched EXCEPT ![v] =
                         IF S = In[v] \/ @ = "wholly" THEN "wholly" ELSE "partly"]
  /\ UNCHANGED <<text, node, mail, ruled, rows, claims, job, bounds, cut, counted, blind>>

\* name_forms, read once for mentions and relations
ReadForms(p) ==
  /\ At(p, "forms")
  /\ pass' = [pass EXCEPT ![p].pc = "clear", ![p].forms = known]
  /\ UNCHANGED <<text, store, job, bounds, history>>

\* mistake: only the mentions of the same text are replaced
ClearOwn(p) ==
  /\ At(p, "clear") /\ Go(p, "rulings")
  /\ rows' = {r \in rows : r[2] # pass[p].seen}
  /\ UNCHANGED <<text, node, mail, known, ruled, claims, job, bounds, history>>

\* replace_document_mentions, first part: all mentions go, of any extractor
Clear(p) ==
  /\ At(p, "clear") /\ Go(p, "rulings")
  /\ rows' = {}
  /\ UNCHANGED <<text, node, mail, known, ruled, claims, job, bounds, history>>

\* mistake: what the curator has rejected is linked again
ReadNoRulings(p) ==
  /\ At(p, "rulings")
  /\ pass' = [pass EXCEPT ![p].pc = "write",
                          ![p].left = In[pass[p].seen] \cap pass[p].forms]
  /\ UNCHANGED <<text, store, job, bounds, history>>

\* the curator's decisions are laid over what was detected
ReadRulings(p) ==
  /\ At(p, "rulings")
  /\ pass' = [pass EXCEPT ![p].pc = "write",
                          ![p].left = (In[pass[p].seen] \cap pass[p].forms) \ ruled]
  /\ UNCHANGED <<text, store, job, bounds, history>>

WriteMention(p) ==
  /\ At(p, "write")
  /\ \E n \in pass[p].left :
       /\ rows' = rows \cup {<<n, pass[p].seen>>}
       /\ pass' = [pass EXCEPT ![p].left = @ \ {n}]
  /\ UNCHANGED <<text, node, mail, known, ruled, claims, job, bounds, history>>

\* A chunk was lost, or a relink phase states a complete extraction of a text that
\* no discovery has been through.
Blind(p) ==
  \/ searched[pass[p].seen] = "partly"
  \/ pass[p].kind = "relink phase" /\ searched[pass[p].seen] = "never"

\* mistake: the hash is set before the mentions are written
VouchEarly(p) ==
  /\ At(p, "write")
  /\ node' = [node EXCEPT !.hash = pass[p].seen, !.extractor = Asked(p).signature]
  /\ cut' = FALSE /\ blind' = Blind(p)
  /\ Go(p, IF Asked(p).relate THEN "unclaim" ELSE "summary")
  /\ UNCHANGED <<text, mail, known, ruled, rows, claims, job, bounds, counted, searched>>

\* the last statement of replace_document_mentions: graph_hash, graph_extractor
Vouch(p) ==
  /\ At(p, "write") /\ pass[p].left = {}
  /\ node' = [node EXCEPT !.hash = pass[p].seen, !.extractor = Asked(p).signature]
  /\ cut' = FALSE /\ blind' = Blind(p)
  /\ Go(p, IF Asked(p).relate THEN "unclaim" ELSE "summary")
  /\ UNCHANGED <<text, mail, known, ruled, rows, claims, job, bounds, counted, searched>>

\* discover_relations: with fewer than two names known in a passage the model
\* is not asked; a chunk that fails yields nothing, and nothing says so
Related(v, forms) ==
  IF Cardinality(In[v] \cap forms) < 2 THEN {{}}
  ELSE {{v}} \cup (IF LostChunks THEN {{}} ELSE {})

\* the machine's claims are deleted
Unclaim(p) ==
  /\ At(p, "unclaim") /\ Go(p, "claim")
  /\ claims' = claims \cap {Manual}
  /\ UNCHANGED <<text, node, mail, known, ruled, rows, job, bounds, history>>

WriteClaims(p) ==
  /\ At(p, "claim") /\ Go(p, "summary")
  /\ \E new \in Related(pass[p].seen, pass[p].forms) : claims' = claims \cup new
  /\ UNCHANGED <<text, node, mail, known, ruled, rows, job, bounds, history>>

\* _llm_document_summary and store_document_analysis; a failure is noted and
\* tried again with the next pass, since analysis_hash stays
Summarize(p) ==
  /\ At(p, "summary") /\ Go(p, "end")
  /\ \/ pass[p].summarize /\ node' = [node EXCEPT !.analysis = pass[p].seen]
     \/ UNCHANGED node
  /\ UNCHANGED <<text, mail, known, ruled, rows, claims, job, bounds, history>>

-----------------------------------------------------------------------------
(* How a pass ends.                                                        *)

\* the worker's loop: retry while attempts remain
Failed(p) ==
  job' = IF p # Worker THEN job
         ELSE IF job.attempts < MaxAttempts THEN [job EXCEPT !.status = "pending"] ELSE NoJob

Finish(p) ==
  /\ At(p, "end")
  /\ pass' = [pass EXCEPT ![p] = Idle]
  /\ IF pass[p].failed THEN Failed(p) /\ UNCHANGED counted
     ELSE /\ job' = IF p = Worker THEN NoJob ELSE job
          /\ counted' = counted + (IF Asked(p).count /\ pass[p].seen \notin Oversize
                                   THEN 1 ELSE 0)
  /\ UNCHANGED <<text, store, bounds, cut, searched, blind>>

Torn(p) == pass[p].pc \in {"rulings", "write"}

\* an exception in the document's try block; discovery may have recorded
\* some names before it
Raise(p) ==
  /\ pass[p].pc \in Active \ {"fetch", "mail", "summary", "end"}
  /\ faults < MaxFaults /\ faults' = faults + 1
  /\ pass' = [pass EXCEPT ![p] = Idle] /\ Failed(p)
  /\ cut' = (cut \/ Torn(p))
  /\ IF At(p, "discover") THEN \E S \in SUBSET Admitted(pass[p].seen) : known' = known \cup S
     ELSE UNCHANGED known
  /\ UNCHANGED <<text, node, mail, ruled, rows, claims, edits, events, rulings, counted, searched, blind>>

\* the process is killed; the worker's row stays running
Crash(p) ==
  /\ pass[p].pc \in Active
  /\ faults < MaxFaults /\ faults' = faults + 1
  /\ pass' = [pass EXCEPT ![p] = [Idle EXCEPT !.pc = "down"]]
  /\ cut' = (cut \/ Torn(p))
  /\ UNCHANGED <<text, store, job, edits, events, rulings, counted, searched, blind>>

\* a new process; a row left running is recovered if it is old enough by now
Restart(p) ==
  /\ At(p, "down") /\ Go(p, "idle")
  /\ IF p = Worker /\ job.status = "running"
     THEN job' \in {job, [job EXCEPT !.status = "pending"]} ELSE UNCHANGED job
  /\ UNCHANGED <<text, store, bounds, history>>

-----------------------------------------------------------------------------
(* Around the indexer.                                                     *)

Edit ==
  /\ edits < MaxEdits /\ edits' = edits + 1
  /\ text' \in (Versions \cup {Empty}) \ {text}
  /\ UNCHANGED <<store, job, pass, events, faults, rulings, history>>

\* a curator says that a name in this document is no person
Rule(n) ==
  /\ n \in known \ ruled
  /\ rulings < MaxRulings /\ rulings' = rulings + 1
  /\ ruled' = ruled \cup {n}
  /\ rows' = {r \in rows : r[1] # n}
  /\ UNCHANGED <<text, node, mail, known, claims, job, pass, edits, events, faults, history>>

\* create_research_finding_claim
ClaimByHand ==
  /\ rulings < MaxRulings /\ rulings' = rulings + 1
  /\ Manual \notin claims /\ claims' = claims \cup {Manual}
  /\ UNCHANGED <<text, node, mail, known, ruled, rows, job, pass, edits, events, faults, history>>

Step(p) ==
  \/ Fetch(p) \/ Touch(p) \/ AttachMail(p) \/ Discover(p) \/ ReadForms(p) \/ Clear(p)
  \/ ReadRulings(p) \/ WriteMention(p) \/ Vouch(p) \/ Unclaim(p) \/ WriteClaims(p)
  \/ Summarize(p) \/ Finish(p) \/ Raise(p) \/ Crash(p) \/ Restart(p)

Next ==
  \/ \E k \in Kinds : Enqueue(k) \/ \E c \in Callers : Call(c, k)
  \/ Claim \/ \E p \in Processes : Step(p)
  \/ Edit \/ ClaimByHand \/ \E n \in Names : Rule(n)

Spec == Init /\ [][Next]_vars

-----------------------------------------------------------------------------
(* Properties.                                                             *)

OfText(v) == \A r \in rows : r[2] = v
Linked(links) == {r[1] : r \in links}

(* graph_hash and graph_extractor are what touch_evidence_document goes by *)
(* to leave a document alone.  Whenever they state a text, the mentions    *)
(* are those of exactly this text; and whenever they state the complete    *)
(* extraction as well, every name discovery admits is linked, but for what *)
(* a curator rejected: through retries, crashes, changes of the text while *)
(* a pass runs, relinks of the queue and both phases of a rebuild.         *)
(* Excepted from both is a document whose last replacement of mentions was *)
(* cut off, of which the code keeps no trace; from the second, one whose   *)
(* text discovery has lost chunks of, and one whose text a relink phase    *)
(* vouched for that no pass had discovered names in, because it changed or *)
(* discovery failed after the first phase.  (And every variable keeps its  *)
(* type.)                                                                  *)
StateVouches ==
  /\ TypeOK
  /\ node.hash # None /\ ~cut /\ (\A p \in Processes : ~Torn(p))
       => /\ OfText(node.hash)
          /\ node.extractor = Full /\ ~blind => Admitted(node.hash) \ ruled \subseteq Linked(rows)

(* A job that ends done has done what it is for: the document states the   *)
(* text the pass has read, and its mentions are those found in it; nothing *)
(* an earlier attempt did counts for it unless it was finished.            *)
DoneMeansLinked ==
  [][\A p \in Processes :
       /\ pass[p].pc = "end" /\ pass'[p].pc = "idle" /\ ~pass[p].failed
       /\ pass[p].seen \notin Oversize \cup {Empty} /\ pass[p].reindex
       => /\ node.hash = pass[p].seen
          /\ \A r \in rows : r[2] = pass[p].seen
          /\ (In[pass[p].seen] \cap pass[p].forms) \ ruled \subseteq {r[1] : r \in rows}]_vars

(* The evidence counter never loses a use: it is at least the number of    *)
(* passes that were to count one and ended well (a retried pass may count  *)
(* twice, a document too large is not counted).                            *)
EvidenceCounted == node.evidence >= counted

(* No pass undoes what a curator decided before it began: a rejected name  *)
(* is not linked, and a claim made by hand stays.                          *)
CuratedWorkKept ==
  [][/\ Manual \in claims => Manual \in claims'
     /\ \A p \in Processes : Torn(p) /\ pass'[p].pc \in Active /\ ~Torn(p)'
          => \A r \in rows' : r[1] \notin pass[p].before]_vars

(* "Re-indexing therefore replaces this derived layer wholesale, just like *)
(* MENTIONS edges" (replace_document_relation_observations): when a pass   *)
(* that is to relate has ended well, no claim is left of an earlier text.  *)
ClaimsReplaced ==
  [][\A p \in Processes :
       /\ pass[p].pc = "end" /\ pass'[p].pc = "idle" /\ ~pass[p].failed
       /\ pass[p].seen \notin Oversize \cup {Empty} /\ Asked(p).relate
       => claims \subseteq {pass[p].seen, Manual}]_vars

=============================================================================

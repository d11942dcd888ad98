-------------------------- MODULE ResearchFindings --------------------------
(***************************************************************************)
(* Research findings in rag/graph.py: verified matches of a chat request   *)
(* become findings shared by all runs that produce them; a curator decides *)
(* what their entity texts name, makes claims from them and closes them;   *)
(* a user whose live ACL denies the document loses his provenance, and an  *)
(* uncurated finding nobody refers to is deleted.  Entities are merged and *)
(* deleted meanwhile (KnowledgeGraph has these operations in full), and    *)
(* documents are linked again, statement by statement.                     *)
(*                                                                         *)
(* A step is one Cypher statement of the curation of a text, of the        *)
(* clean-up and of a relink.  Claims and closing are taken together with   *)
(* their validation, as is the change of an alias: one curator is at work  *)
(* at a time.  A merge and a deletion, several statements in the code, are *)
(* one step each here, and no document is linked by two passes at once     *)
(* (GraphIndexer is about that).                                           *)
(***************************************************************************)
EXTENDS Naturals, FiniteSets, NoValue

CONSTANTS
  Findings, Texts, Entities, Runs, Users, Docs,
  TextsOf,       \* entity texts of a finding
  DocOf,         \* its supporting document
  Finds,         \* the finding a run verifies
  UserOf,        \* who asked
  NamesOf,       \* names of the entities that exist at first, {} for the others
  FoundIn,       \* entities the linker may find in a document
  Compatible,    \* pairs the relation ontology admits
  MaxActs,       \* bound: decisions of the curator
  MaxChanges,    \* bound: merges, deletions, relinks begun, cut-off curations
  MaxWork        \* bound: both of them and twice the runs stored, together

ASSUME FindingsAssumption ==
  /\ TextsOf \in [Findings -> SUBSET Texts] /\ DocOf \in [Findings -> Docs]
  /\ Finds \in [Runs -> Findings] /\ Users \subseteq {UserOf[r] : r \in Runs}
  /\ NamesOf \in [Entities -> SUBSET Texts] /\ FoundIn \in [Docs -> SUBSET Entities]
  /\ Compatible \subseteq Entities \X Entities
  /\ None \notin Entities
  /\ MaxActs \in Nat /\ MaxChanges \in Nat /\ MaxWork \in Nat

VARIABLES
  finding,   \* ResearchFinding nodes with CURATED_ENTITY and QUERY_ENTITY edges
  edge,      \* PRODUCED: absent, pending or dismissed
  run,       \* ResearchRun: its status and how far it has been stored
  decision,  \* EntityFormDecision of a text
  entity,    \* Entity nodes with names and manual contextual aliases
  obs,       \* the EntityObservation of a finding and a text
  mentions,  \* Document-[:MENTIONS]->Entity
  claims,    \* manual RelationObservations, by finding and endpoints at creation
  curator,   \* what the curator is doing
  purge,     \* what the clean-up of every user is doing
  acts, changes,
  cut,       \* history: findings a curation was cut off in, after its write
  heir,      \* history: the entity that another was merged into, or itself
  relink,    \* how far the linking of a document is; "torn": it was cut off
  missed     \* history: texts whose last write matched nothing: no such target

vars == <<finding, edge, run, decision, entity, obs, mentions, claims, curator, purge,
          acts, changes, cut, heir, relink, missed>>

EntityOrNone == Entities \cup {None}
Finding == [stored : BOOLEAN, status : {"", "suppressed", "mentions_only"},
            suppressed : SUBSET Texts,
            curated : [Texts -> EntityOrNone],     \* CURATED_ENTITY
            linked : [Texts -> EntityOrNone]]      \* QUERY_ENTITY
Nobody == [t \in Texts |-> None]
Blank == [stored |-> FALSE, status |-> "", suppressed |-> {}, curated |-> Nobody,
          linked |-> Nobody]
Decision == [kind : {"", "entity", "not_entity"}, target : EntityOrNone, alias : BOOLEAN]
Entity == [status : {"unused", "live", "merged", "deleted"},
           names : SUBSET Texts, alias : SUBSET Texts]
Observation == [kind : {"", "entity", "not_entity"},
                target : EntityOrNone,             \* curator_target_entity_id
                resolved : EntityOrNone]           \* RESOLVED_TO
NotSeen == [kind |-> "", target |-> None, resolved |-> None]
Claim == [status : {"", "manual_claim", "review_required", "superseded", "withdrawn"},
          subject : SUBSET Entities, object : SUBSET Entities]
NoClaim == [status |-> "", subject |-> {}, object |-> {}]
Task == [text : Texts, action : {"assign", "assign_alias", "create", "suppress"},
         target : EntityOrNone]
Curator == [pc : {"idle", "form", "write", "decide", "review", "mention"},
            finding : Findings \cup {None}, task : Task \cup {None},
            old : EntityOrNone,                    \* CURATED_ENTITY before
            alias : EntityOrNone,                  \* who had the text as an alias
            todo : SUBSET Task]
Idle == [pc |-> "idle", finding |-> None, task |-> None, old |-> None, alias |-> None,
         todo |-> {}]
Relink == [pc : {"whole", "cleared", "linking", "torn"},
           found : SUBSET Entities,                \* still to be linked
           restored : SUBSET Entities]             \* targets still to be restored
Linked == [pc |-> "whole", found |-> {}, restored |-> {}]

TypeOK ==
  /\ finding \in [Findings -> Finding]
  /\ edge \in [Runs -> [Findings -> {"", "pending", "dismissed"}]]
  /\ run \in [Runs -> [pc : {"new", "read", "stored"}, dismissed : BOOLEAN,
                       finding : Findings \cup {None}, resolved : [Texts -> EntityOrNone]]]
  /\ decision \in [Texts -> Decision]
  /\ entity \in [Entities -> Entity]
  /\ obs \in [Findings -> [Texts -> Observation]]
  /\ mentions \subseteq Docs \X Entities
  /\ claims \in [Findings -> [Compatible -> Claim]]
  /\ curator \in Curator
  /\ purge \in [Users -> [pc : {"idle", "detach", "orphans", "delete"},
                          ids : SUBSET Findings]]
  /\ acts \in 0 .. MaxActs /\ changes \in 0 .. MaxChanges
  /\ cut \subseteq Findings /\ heir \in [Entities -> Entities]
  /\ relink \in [Docs -> Relink] /\ missed \subseteq Findings \X Texts

Init ==
  /\ finding = [f \in Findings |-> Blank]
  /\ edge = [r \in Runs |-> [f \in Findings |-> ""]]
  /\ run = [r \in Runs |-> [pc |-> "new", dismissed |-> FALSE, finding |-> None,
                            resolved |-> Nobody]]
  /\ decision = [t \in Texts |-> [kind |-> "", target |-> None, alias |-> FALSE]]
  /\ entity = [e \in Entities |-> [status |-> IF NamesOf[e] = {} THEN "unused" ELSE "live",
                                   names |-> NamesOf[e], alias |-> {}]]
  /\ obs = [f \in Findings |-> [t \in Texts |-> NotSeen]]
  /\ mentions = {}
  /\ claims = [f \in Findings |-> [p \in Compatible |-> NoClaim]]
  /\ curator = Idle
  /\ purge = [u \in Users |-> [pc |-> "idle", ids |-> {}]]
  /\ acts = 0 /\ changes = 0 /\ cut = {}
  /\ heir = [e \in Entities |-> e]
  /\ relink = [d \in Docs |-> Linked] /\ missed = {}

Live(e) == e \in Entities /\ entity[e].status = "live"
Gone == {e \in Entities : entity[e].status = "deleted"}
Work == acts + changes + 2 * Cardinality({r \in Runs : run[r].pc # "new"})
Act == acts < MaxActs /\ Work < MaxWork /\ acts' = acts + 1
Change == changes < MaxChanges /\ Work < MaxWork /\ changes' = changes + 1

-----------------------------------------------------------------------------
(* Storing what a run has verified.                                        *)

\* _resolve_existing_query_entity: a global decision, else a unique exact form
Resolve(t) ==
  LET d == decision[t]
      holders == {e \in Entities : Live(e) /\ t \in entity[e].names \cup entity[e].alias}
  IN  CASE d.kind = "not_entity" -> None
        [] d.kind = "entity" /\ Live(d.target) -> d.target
        [] OTHER -> IF Cardinality(holders) = 1 THEN CHOOSE e \in holders : TRUE ELSE None

\* store_research_findings, first part: what the texts name
StoreRead(r) ==
  /\ run[r].pc = "new" /\ Work + 2 <= MaxWork
  /\ run' = [run EXCEPT ![r].pc = "read", ![r].finding = Finds[r],
                        ![r].resolved = [t \in Texts |->
                          IF t \in TextsOf[Finds[r]] THEN Resolve(t) ELSE None]]
  /\ UNCHANGED <<finding, edge, decision, entity, obs, mentions, claims, curator,
                 purge, acts, changes, cut, heir, relink, missed>>

\* ... second part: MERGE of the run, the finding, PRODUCED and QUERY_ENTITY;
\* an entity that is gone by then is not linked
StoreWrite(r) ==
  LET f == run[r].finding
      link(t) == LET e == run[r].resolved[t] IN
                 IF e \in Entities \ Gone THEN e ELSE finding[f].linked[t]
  IN  /\ run[r].pc = "read"
      /\ finding' = [finding EXCEPT ![f].stored = TRUE,
                                    ![f].linked = [t \in Texts |-> link(t)]]
      /\ edge' = [edge EXCEPT ![r][f] = IF @ = "" THEN "pending" ELSE @]
      /\ run' = [run EXCEPT ![r].pc = "stored", ![r].finding = None, ![r].resolved = Nobody]
      /\ UNCHANGED <<decision, entity, obs, mentions, claims, curator, purge,
                     acts, changes, cut, heir, relink, missed>>

\* dismiss_research_run
DismissRun(r) ==
  /\ run[r].pc = "stored" /\ ~run[r].dismissed /\ Act
  /\ run' = [run EXCEPT ![r].dismissed = TRUE]
  /\ edge' = [edge EXCEPT ![r] = [f \in Findings |->
                IF @[f] = "pending" THEN "dismissed" ELSE @[f]]]
  /\ UNCHANGED <<finding, decision, entity, obs, mentions, claims, curator, purge,
                 changes, cut, heir, relink, missed>>

\* set_research_run_finding_disposition
SetDisposition(r, f) ==
  /\ edge[r][f] # "" /\ Act
  /\ \E d \in {"pending", "dismissed"} \ {edge[r][f]} : edge' = [edge EXCEPT ![r][f] = d]
  /\ UNCHANGED <<finding, run, decision, entity, obs, mentions, claims, curator,
                 purge, changes, cut, heir, relink, missed>>

-----------------------------------------------------------------------------
(* Curation of entity texts.                                               *)

Tasks(f, e) ==
  [text : TextsOf[f], target : {e},
   action : IF e = None THEN {"suppress"}
            ELSE IF entity[e].status = "live" THEN {"assign", "assign_alias"}
            ELSE IF entity[e].status = "unused" THEN {"create"} ELSE {}]

\* curate_research_finding_entity_preview and what is read before the first
\* write: the entity the text had, and the one that had it for an alias
Begin(f, task, todo) ==
  LET d == decision[task.text] IN
  curator' = [pc |-> "form", finding |-> f, task |-> task, todo |-> todo,
              old |-> finding[f].curated[task.text],
              alias |-> IF d.alias THEN d.target ELSE None]

CurateEntity(f) ==
  /\ curator.pc = "idle" /\ finding[f].stored /\ Act
  /\ \E e \in EntityOrNone : \E task \in Tasks(f, e) : Begin(f, task, {})
  /\ UNCHANGED <<finding, edge, run, decision, entity, obs, mentions, claims,
                 purge, changes, cut, heir, relink, missed>>

\* research_finding_entity_options: the default of a text nobody has decided
DefaultOf(f, t) ==
  IF finding[f].curated[t] # None \/ t \in finding[f].suppressed
     \/ decision[t].kind = "not_entity" THEN None
  ELSE IF finding[f].linked[t] # None THEN finding[f].linked[t] ELSE Resolve(t)

\* accept_research_finding_entity_defaults: one curation after the other
AcceptDefaults(f) ==
  LET byAlias(t) == t \in entity[DefaultOf(f, t)].alias \ entity[DefaultOf(f, t)].names
      todo == {[text |-> t, target |-> DefaultOf(f, t),
                action |-> IF byAlias(t) THEN "assign_alias" ELSE "assign"] :
               t \in {t \in TextsOf[f] : DefaultOf(f, t) # None}}
  IN  /\ curator.pc = "idle" /\ finding[f].stored /\ todo # {} /\ Act
      /\ \E task \in todo : Live(task.target) /\ Begin(f, task, todo \ {task})
      /\ UNCHANGED <<finding, edge, run, decision, entity, obs, mentions, claims,
                     purge, changes, cut, heir, relink, missed>>

Me == curator.task
Go(pc) == curator' = [curator EXCEPT !.pc = pc]
WithoutAlias(es, e, t) ==                          \* _remove_manual_alias_form
  IF e \in Entities THEN [es EXCEPT ![e].alias = @ \ {t}] ELSE es

\* an alias another entity had is withdrawn, a new entity is created, a new
\* alias added; both refusals come after the withdrawal: add_alias has an
\* identity that is not live refused, the summary one that is gone
SettleForm ==
  LET kept == Me.action = "assign_alias" /\ curator.alias = Me.target
      freed == IF Me.action = "suppress" \/ kept THEN entity
               ELSE WithoutAlias(entity, curator.alias, Me.text)
      refused == \/ Me.action = "assign_alias" /\ ~Live(Me.target)
                 \/ Me.action = "assign" /\ Me.target \in Gone
  IN  /\ curator.pc = "form"
      /\ entity' = IF refused THEN freed
                   ELSE CASE Me.action = "create" ->
                               [freed EXCEPT ![Me.target] =
                                  [status |-> "live", names |-> {Me.text}, alias |-> {}]]
                          [] Me.action = "assign_alias" ->
                               [freed EXCEPT ![Me.target].alias = @ \cup {Me.text}]
                          [] OTHER -> freed
      /\ IF refused THEN curator' = Idle ELSE Go("write")
      /\ UNCHANGED <<finding, edge, run, decision, obs, mentions, claims, purge,
                     acts, changes, cut, heir, relink, missed>>

\* the statement that writes edge, observation and mention; it matches nothing
\* when the finding or the target is gone meanwhile, and nobody looks
WriteCuration ==
  LET f == curator.finding  t == Me.text  e == Me.target IN
  /\ curator.pc = "write"
  /\ IF ~finding[f].stored \/ e \in Gone
     THEN /\ missed' = IF e \in Gone THEN missed \cup {<<f, t>>} ELSE missed
          /\ UNCHANGED <<finding, obs, mentions>>
     ELSE IF Me.action = "suppress"
     THEN /\ finding' = [finding EXCEPT ![f].curated[t] = None, ![f].status = "",
                                        ![f].suppressed = @ \cup {t}]
          /\ obs' = [obs EXCEPT ![f][t] = [kind |-> "not_entity", target |-> obs[f][t].target,
                                           resolved |-> None]]
          /\ missed' = missed \ {<<f, t>>}
          /\ UNCHANGED mentions
     ELSE /\ finding' = [finding EXCEPT ![f].curated[t] = e, ![f].status = "",
                                        ![f].suppressed = @ \ {t}]
          /\ obs' = [obs EXCEPT ![f][t] = [kind |-> "entity", target |-> e, resolved |-> e]]
          /\ mentions' = mentions \cup {<<DocOf[f], e>>}
          /\ missed' = missed \ {<<f, t>>}
  /\ Go("decide")
  /\ UNCHANGED <<edge, run, decision, entity, claims, purge, acts, changes, cut,
                 heir, relink>>

\* _set_entity_form_decision
Decide ==
  /\ curator.pc = "decide"
  /\ decision' = [decision EXCEPT ![Me.text] =
       [kind |-> IF Me.action = "suppress" THEN "not_entity" ELSE "entity",
        target |-> Me.target, alias |-> Me.action = "assign_alias"]]
  /\ entity' = IF Me.action = "suppress" THEN WithoutAlias(entity, curator.alias, Me.text)
               ELSE entity
  /\ Go("review")
  /\ UNCHANGED <<finding, edge, run, obs, mentions, claims, purge, acts, changes,
                 cut, heir, relink, missed>>

Replaced == curator.old # None /\ curator.old # Me.target
InReview(f) ==
  [p \in Compatible |-> IF claims[f][p].status = "manual_claim"
                        THEN [claims[f][p] EXCEPT !.status = "review_required"]
                        ELSE claims[f][p]]

\* mistake: only a suppressed entity sends claims to review
MarkSuppressedOnly ==
  /\ curator.pc = "review"
  /\ claims' = IF Replaced /\ Me.action = "suppress"
               THEN [claims EXCEPT ![curator.finding] = InReview(curator.finding)] ELSE claims
  /\ Go("mention")
  /\ UNCHANGED <<finding, edge, run, decision, entity, obs, mentions, purge, acts,
                 changes, cut, heir, relink, missed>>

\* _mark_research_finding_claims_for_review
MarkForReview ==
  /\ curator.pc = "review"
  /\ claims' = IF Replaced
               THEN [claims EXCEPT ![curator.finding] = InReview(curator.finding)] ELSE claims
  /\ Go("mention")
  /\ UNCHANGED <<finding, edge, run, decision, entity, obs, mentions, purge, acts,
                 changes, cut, heir, relink, missed>>

NextTask ==
  IF curator.todo = {} THEN curator' = Idle
  ELSE \E task \in curator.todo : IF Live(task.target)
         THEN Begin(curator.finding, task, curator.todo \ {task}) ELSE curator' = Idle

\* mistake: the mention goes although other findings of the document need it
CleanupAlways ==
  /\ curator.pc = "mention"
  /\ mentions' = IF Replaced THEN mentions \ {<<DocOf[curator.finding], curator.old>>}
                 ELSE mentions
  /\ NextTask
  /\ UNCHANGED <<finding, edge, run, decision, entity, obs, claims, purge, acts,
                 changes, cut, heir, relink, missed>>

\* _cleanup_document_mention_if_unsupported
CleanupMention ==
  LET d == DocOf[curator.finding]
      supported == \E f \in Findings, t \in Texts :
                     /\ DocOf[f] = d /\ <<f, t>> # <<curator.finding, Me.text>>
                     /\ obs[f][t].resolved = curator.old /\ obs[f][t].kind # "not_entity"
  IN  /\ curator.pc = "mention"
      /\ mentions' = IF Replaced /\ ~supported THEN mentions \ {<<d, curator.old>>}
                     ELSE mentions
      /\ NextTask
      /\ UNCHANGED <<finding, edge, run, decision, entity, obs, claims, purge,
                     acts, changes, cut, heir, relink, missed>>

\* an exception or a kill between two statements
CutOff ==
  /\ curator.pc # "idle" /\ Change
  /\ cut' = IF curator.pc \in {"decide", "review", "mention"}
            THEN cut \cup {curator.finding} ELSE cut
  /\ curator' = Idle
  /\ UNCHANGED <<finding, edge, run, decision, entity, obs, mentions, claims,
                 purge, acts, heir, relink, missed>>

-----------------------------------------------------------------------------
(* Claims and closing.                                                     *)

Curated(f) == {finding[f].curated[t] : t \in Texts} \ {None}
Active(f) == {p \in Compatible : claims[f][p].status \in {"manual_claim", "review_required"}}

\* research_finding_claim_preview and create_research_finding_claim; MERGE adds
\* to the endpoints a claim of this key already has
CreateClaim(f, p) ==
  /\ curator.pc = "idle" /\ finding[f].stored /\ Act
  /\ p[1] # p[2] /\ {p[1], p[2]} \subseteq Curated(f)
  /\ claims' = [claims EXCEPT ![f][p] = [status |-> "manual_claim",
                                         subject |-> @.subject \cup {p[1]},
                                         object |-> @.object \cup {p[2]}]]
  /\ finding' = [finding EXCEPT ![f].status = ""]
  /\ UNCHANGED <<edge, run, decision, entity, obs, mentions, curator, purge,
                 changes, cut, heir, relink, missed>>

\* review_research_finding_claim
ReviewClaim(f, p) ==
  LET c == claims[f][p] IN
  /\ curator.pc = "idle" /\ finding[f].stored /\ Act
  /\ \E status \in {"manual_claim", "superseded", "withdrawn"} :
       /\ status = "manual_claim" =>
            /\ c.status = "review_required"
            /\ \E s \in c.subject, o \in c.object :
                 s # o /\ <<s, o>> \in Compatible /\ {s, o} \subseteq Curated(f)
       /\ status = "superseded" => c.status = "review_required"
       /\ status = "withdrawn" => p \in Active(f)
       /\ claims' = [claims EXCEPT ![f][p].status = status]
  /\ UNCHANGED <<finding, edge, run, decision, entity, obs, mentions, curator,
                 purge, changes, cut, heir, relink, missed>>

\* curate_research_finding
MayClose(f) ==
  /\ TextsOf[f] # {} /\ Active(f) = {}
  /\ \A t \in TextsOf[f] : finding[f].curated[t] # None \/ t \in finding[f].suppressed
SetStatus(f) ==
  /\ curator.pc = "idle" /\ finding[f].stored /\ Act
  /\ \E status \in {"", "suppressed", "mentions_only"} \ {finding[f].status} :
       /\ status = "mentions_only" => MayClose(f)
       /\ finding' = [finding EXCEPT ![f].status = status]
  /\ UNCHANGED <<edge, run, decision, entity, obs, mentions, claims, curator,
                 purge, changes, cut, heir, relink, missed>>

-----------------------------------------------------------------------------
(* purge_denied_uncurated_research_findings_for_user                       *)

Uncurated(f) ==
  /\ finding[f].stored /\ finding[f].status = "" /\ finding[f].suppressed = {}
  /\ Curated(f) = {} /\ \A p \in Compatible : claims[f][p].status = ""
Produced(f) == \E r \in Runs : edge[r][f] # ""
Mine(u) == {r \in Runs : UserOf[r] = u}

\* the live ACL has answered definitely, and the eligible findings are read
PurgeRead(u) ==
  /\ purge[u].pc = "idle"
  /\ \E denied \in SUBSET {f \in Findings : \E r \in Mine(u) : edge[r][f] # ""} :
       LET ids == {f \in denied : Uncurated(f)} IN
       ids # {} /\ purge' = [purge EXCEPT ![u] = [pc |-> "detach", ids |-> ids]]
  /\ UNCHANGED <<finding, edge, run, decision, entity, obs, mentions, claims,
                 curator, acts, changes, cut, heir, relink, missed>>

PurgeDetach(u) ==
  /\ purge[u].pc = "detach"
  /\ edge' = [r \in Runs |-> IF r \notin Mine(u) THEN edge[r] ELSE
               [f \in Findings |-> IF f \in purge[u].ids /\ Uncurated(f) THEN ""
                                   ELSE edge[r][f]]]
  /\ purge' = [purge EXCEPT ![u].pc = "orphans"]
  /\ UNCHANGED <<finding, run, decision, entity, obs, mentions, claims, curator,
                 acts, changes, cut, heir, relink, missed>>

PurgeOrphans(u) ==
  /\ purge[u].pc = "orphans"
  /\ purge' = [purge EXCEPT ![u] =
       LET ids == {f \in @.ids : Uncurated(f) /\ ~Produced(f)} IN
       [pc |-> IF ids = {} THEN "idle" ELSE "delete", ids |-> ids]]
  /\ UNCHANGED <<finding, edge, run, decision, entity, obs, mentions, claims,
                 curator, acts, changes, cut, heir, relink, missed>>

\* mistake: what was an orphan is deleted without looking again
DeleteUnchecked(u) ==
  /\ purge[u].pc = "delete"
  /\ finding' = [f \in Findings |-> IF f \in purge[u].ids THEN Blank ELSE finding[f]]
  /\ purge' = [purge EXCEPT ![u] = [pc |-> "idle", ids |-> {}]]
  /\ UNCHANGED <<edge, run, decision, entity, obs, mentions, claims, curator,
                 acts, changes, cut, heir, relink, missed>>

PurgeDelete(u) ==
  /\ purge[u].pc = "delete"
  /\ finding' = [f \in Findings |->
       IF f \in purge[u].ids /\ Uncurated(f) /\ ~Produced(f) THEN Blank ELSE finding[f]]
  /\ purge' = [purge EXCEPT ![u] = [pc |-> "idle", ids |-> {}]]
  /\ UNCHANGED <<edge, run, decision, entity, obs, mentions, claims, curator,
                 acts, changes, cut, heir, relink, missed>>

-----------------------------------------------------------------------------
(* What the rest of the graph does to findings.                            *)

\* merge_entities: claims, observations and mentions follow, CURATED_ENTITY,
\* the targets of observations and of decisions do not
Merge(e, k) ==
  LET moved(S) == IF e \in S THEN (S \ {e}) \cup {k} ELSE S
      follow(c) == LET n == [c EXCEPT !.subject = moved(@), !.object = moved(@)] IN
                   IF n.subject \cap n.object # {} THEN NoClaim ELSE n
  IN  /\ Live(e) /\ Live(k) /\ e # k /\ Change
      /\ entity' = [entity EXCEPT ![e].status = "merged", ![e].names = {}, ![e].alias = {},
                                  ![k].names = @ \cup entity[e].names,
                                  ![k].alias = @ \cup entity[e].alias]
      /\ claims' = [f \in Findings |-> [p \in Compatible |-> follow(claims[f][p])]]
      /\ obs' = [f \in Findings |-> [t \in Texts |->
                   IF obs[f][t].resolved = e THEN [obs[f][t] EXCEPT !.resolved = k]
                   ELSE obs[f][t]]]
      /\ mentions' = {IF m[2] = e THEN <<m[1], k>> ELSE m : m \in mentions}
      /\ UNCHANGED <<finding, edge, run, decision, curator, purge, acts, cut,
                     relink, missed>>
      /\ heir' = [x \in Entities |-> IF heir[x] = e THEN k ELSE heir[x]]

\* delete_entity: claims about it are deleted with it
DeleteEntity(e) ==
  LET without(g) == [t \in Texts |-> IF g[t] = e THEN None ELSE g[t]] IN
  /\ Live(e) /\ Change
  /\ entity' = [entity EXCEPT ![e] = [status |-> "deleted", names |-> {}, alias |-> {}]]
  /\ finding' = [f \in Findings |-> [finding[f] EXCEPT !.curated = without(@),
                                                       !.linked = without(@)]]
  /\ obs' = [f \in Findings |-> [t \in Texts |->
               IF obs[f][t].resolved = e
               THEN [kind |-> "not_entity", target |-> None, resolved |-> None]
               ELSE obs[f][t]]]
  /\ claims' = [f \in Findings |-> [p \in Compatible |->
               IF e \in claims[f][p].subject \cup claims[f][p].object THEN NoClaim
               ELSE claims[f][p]]]
  /\ mentions' = {m \in mentions : m[2] # e}
  /\ UNCHANGED <<edge, run, decision, curator, purge, acts, cut, heir, relink, missed>>

\* replace_document_mentions, with what the linker has found in the document:
\* all mentions go,
RelinkClear(d) ==
  /\ relink[d].pc \in {"whole", "torn"} /\ Change
  /\ \E found \in SUBSET {e \in FoundIn[d] : Live(e)} :
       relink' = [relink EXCEPT ![d] = [pc |-> "cleared", found |-> found, restored |-> {}]]
  /\ mentions' = {m \in mentions : m[1] # d}
  /\ UNCHANGED <<finding, edge, run, decision, entity, obs, claims, curator,
                 purge, acts, cut, heir, missed>>

\* the targets of the curated findings of the document are read,
RelinkRead(d) ==
  /\ relink[d].pc = "cleared"
  /\ relink' = [relink EXCEPT ![d].pc = "linking", ![d].restored =
       {e \in Entities : \E f \in Findings, t \in Texts :
          DocOf[f] = d /\ obs[f][t].kind = "entity" /\ obs[f][t].target = e}]
  /\ UNCHANGED <<finding, edge, run, decision, entity, obs, mentions, claims, curator,
                 purge, acts, changes, cut, heir, missed>>

\* what was found is linked one by one, whatever has become of its identity,
RelinkLink(d) ==
  /\ relink[d].pc = "linking"
  /\ \E e \in relink[d].found :
       /\ relink' = [relink EXCEPT ![d].found = @ \ {e}]
       /\ mentions' = IF e \in Gone THEN mentions ELSE mentions \cup {<<d, e>>}
  /\ UNCHANGED <<finding, edge, run, decision, entity, obs, claims, curator,
                 purge, acts, changes, cut, heir, missed>>

\* then the targets are restored one by one, those that are still live
RelinkRestore(d) ==
  /\ relink[d].pc = "linking" /\ relink[d].found = {}
  /\ \E e \in relink[d].restored :
       /\ relink' = [relink EXCEPT ![d].restored = @ \ {e}]
       /\ mentions' = IF Live(e) THEN mentions \cup {<<d, e>>} ELSE mentions
  /\ UNCHANGED <<finding, edge, run, decision, entity, obs, claims, curator,
                 purge, acts, changes, cut, heir, missed>>

\* the document is stamped as linked
RelinkEnd(d) ==
  /\ relink[d].pc = "linking" /\ relink[d].found = {} /\ relink[d].restored = {}
  /\ relink' = [relink EXCEPT ![d] = Linked]
  /\ UNCHANGED <<finding, edge, run, decision, entity, obs, mentions, claims, curator,
                 purge, acts, changes, cut, heir, missed>>

\* an exception or a kill between two of its statements
RelinkKilled(d) ==
  /\ relink[d].pc \in {"cleared", "linking"}
  /\ relink' = [relink EXCEPT ![d] = [pc |-> "torn", found |-> {}, restored |-> {}]]
  /\ UNCHANGED <<finding, edge, run, decision, entity, obs, mentions, claims, curator,
                 purge, acts, changes, cut, heir, missed>>

CuratorStep == SettleForm \/ WriteCuration \/ Decide \/ MarkForReview \/ CleanupMention
Relinking(d) == \/ RelinkClear(d) \/ RelinkRead(d) \/ RelinkLink(d)
                \/ RelinkRestore(d) \/ RelinkEnd(d) \/ RelinkKilled(d)
Purging(u) == PurgeRead(u) \/ PurgeDetach(u) \/ PurgeOrphans(u) \/ PurgeDelete(u)

Next ==
  \/ \E r \in Runs : StoreRead(r) \/ StoreWrite(r) \/ DismissRun(r)
  \/ \E r \in Runs, f \in Findings : SetDisposition(r, f)
  \/ \E f \in Findings : CurateEntity(f) \/ AcceptDefaults(f) \/ SetStatus(f)
  \/ CuratorStep \/ CutOff
  \/ \E f \in Findings, p \in Compatible : CreateClaim(f, p) \/ ReviewClaim(f, p)
  \/ \E u \in Users : Purging(u)
  \/ \E e, k \in Entities : Merge(e, k)
  \/ \E e \in Entities : DeleteEntity(e)
  \/ \E d \in Docs : Relinking(d)

Spec == Init /\ [][Next]_vars

-----------------------------------------------------------------------------
(* Properties.                                                             *)

\* list_research_findings: the state a finding is shown in
GraphState(f) ==
  LET has(s) == \E p \in Compatible : claims[f][p].status = s
      decided(t) == \/ finding[f].curated[t] # None \/ t \in finding[f].suppressed
                    \/ decision[t].kind = "not_entity"
  IN  IF finding[f].status = "suppressed" THEN "suppressed"
      ELSE IF has("review_required") THEN "review_required"
      ELSE IF TextsOf[f] = {} THEN "no_entity"
      ELSE IF has("manual_claim") THEN "claimed"
      ELSE IF finding[f].status = "mentions_only" THEN "mentions_only"
      ELSE IF \A t \in TextsOf[f] : decided(t) THEN "entities_resolved"
      ELSE "open"

\* list_research_runs: whether a run is still in the working queue
RunState(r) ==
  IF run[r].dismissed THEN "dismissed"
  ELSE IF \E f \in Findings : /\ finding[f].stored /\ edge[r][f] = "pending"
                              /\ GraphState(f) \in {"open", "no_entity", "review_required"}
       THEN "open" ELSE "completed"

Quiet(f) == f \notin cut /\ curator.finding # f
Grounded(f, S) == \A e \in S : \E c \in Curated(f) : heir[c] = heir[e]

(* "Reassigning or suppressing a curated entity marks dependent manual     *)
(* claims review_required rather than leaving stale endpoints active"      *)
(* (docs/GRAPHLIGHT-FINDINGS.md): no run leaves the queue as completed     *)
(* with a claim that stands although its endpoints are not what the        *)
(* finding's texts name, through reassignments, merges, deletions and      *)
(* reviews in any order.  (And every variable keeps its type.)             *)
QueueIsHonest ==
  /\ TypeOK
  /\ \A r \in Runs : RunState(r) = "completed" =>
       \A f \in Findings : finding[f].stored /\ edge[r][f] = "pending" /\ Quiet(f) =>
         \A p \in Compatible : claims[f][p].status = "manual_claim" =>
           Grounded(f, claims[f][p].subject \cup claims[f][p].object)

(* A finding disappears only while nobody has curated it and no run of any *)
(* user refers to it, whatever the curator, other users' clean-ups and     *)
(* concurrent runs do between the statements of the clean-up.              *)
OnlyOrphansVanish ==
  [][\A f \in Findings : finding[f].stored /\ ~finding'[f].stored
       => Uncurated(f) /\ ~Produced(f)]_vars

(* "Finding-derived curated MENTIONS are restored after document           *)
(* relinking" (docs/GRAPHLIGHT-FINDINGS.md): what a curator has said a     *)
(* text of a finding names, the document mentions, as long as this entity  *)
(* lives.  Reassigning another text or another finding of the document, a  *)
(* curation cut off between its statements, merges and deletions at any    *)
(* point of a relink, and the curation of a text while the document is     *)
(* being linked take nothing.  Excepted are documents while they are       *)
(* linked, and after a relink was cut off until one has ended; and a text  *)
(* whose last reassignment matched nothing, its new entity having been     *)
(* deleted after it was looked up: the clean-up that follows removes the   *)
(* mention of the entity the text still names.                             *)
CuratedMentionsKept ==
  \A f \in Findings, t \in Texts :
    relink[DocOf[f]].pc = "whole" /\ <<f, t>> \notin missed /\ Live(finding[f].curated[t])
      => <<DocOf[f], finding[f].curated[t]>> \in mentions

=============================================================================

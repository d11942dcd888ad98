----------------------- MODULE ResearchFindingsProofs -----------------------
(***************************************************************************)
(* Proofs about ResearchFindings, for any number of findings, texts,       *)
(* entities, runs and users, and any number of curations; and, at the end, *)
(* about CurationSessions, the sessions of the pages on which findings are *)
(* curated.  The two modules share no state and no name but None.          *)
(***************************************************************************)
EXTENDS ResearchFindings, CurationSessions, FiniteSetTheorems, TLAPS

-----------------------------------------------------------------------------
(* The inductive invariant.                                                *)

\* what a curation under way holds, and what is left for it to do
CuratorBusy ==
  /\ curator.pc = "idle" => curator.finding = None
  /\ curator.pc # "idle" =>
       /\ curator.finding \in Findings /\ curator.task \in Task
       /\ Me.action = "suppress" <=> Me.target = None
  /\ \A task \in curator.todo : task.action \in {"assign", "assign_alias"}
                                /\ task.target \in Entities

\* a new entity is still unused, any other target has existed
TargetReady ==
  curator.pc # "idle" /\ Me.target \in Entities =>
    (entity[Me.target].status = "unused" <=> curator.pc = "form" /\ Me.action = "create")

\* nobody but the curator decides what the text names, until it is decided; a
\* write that matches nothing has decided nothing
CuratorKnows ==
  curator.pc # "idle" =>
    \/ finding[curator.finding].curated[Me.text] \in
         {None, IF curator.pc \in {"form", "write"} THEN curator.old ELSE Me.target}
    \/ curator.pc \notin {"form", "write"} /\ <<curator.finding, Me.text>> \in missed

\* a finding that is not stored has been decided by nobody
Untouched ==
  \A f \in Findings : ~finding[f].stored => \A t \in Texts : finding[f].curated[t] = None

\* a mention that a relink owes is there, or it is still to be restored
Kept(d, c) ==
  /\ relink[d].pc = "whole" => <<d, c>> \in mentions
  /\ relink[d].pc = "linking" => <<d, c>> \in mentions \/ c \in relink[d].restored

\* ... after a step
KeptOn(d, c) ==
  /\ relink'[d].pc = "whole" => <<d, c>> \in mentions'
  /\ relink'[d].pc = "linking" => <<d, c>> \in mentions' \/ c \in relink'[d].restored

\* what a text was curated to is what has been observed, and mentioned
Observed ==
  \A f \in Findings, t \in Texts :
    LET c == finding[f].curated[t] IN
    c # None =>
      /\ entity[c].status # "unused"
      /\ Live(c) => /\ obs[f][t] = [kind |-> "entity", target |-> c, resolved |-> c]
                    /\ <<f, t>> \notin missed => Kept(DocOf[f], c)

Heirs == \A e \in Entities : entity[e].status \in {"unused", "live"} => heir[e] = e

\* the endpoints of a claim are heirs of those it was created with
EndsMeet ==
  \A f \in Findings, p \in Compatible :
    /\ \A e \in claims[f][p].subject : heir[e] = heir[p[1]]
    /\ \A e \in claims[f][p].object : heir[e] = heir[p[2]]

\* one of the endpoints is what a text of the finding names, or its heir
Anchored(f, S) ==
  \E e \in S : e \in Curated(f) \/ (Live(e) /\ \E c \in Curated(f) : heir[c] = e)

\* claims stand on decided texts, but for the moment between the write of a
\* replacement and the review of the claims
BeforeReview(f) == curator.finding = f /\ curator.pc \in {"decide", "review"} /\ Replaced
Stands(f, p) == f \notin cut /\ claims[f][p].status = "manual_claim" /\ ~BeforeReview(f)
Standing ==
  \A f \in Findings, p \in Compatible : Stands(f, p) =>
    Anchored(f, claims[f][p].subject) /\ Anchored(f, claims[f][p].object)

RunsRead == \A r \in Runs : run[r].pc = "read" => run[r].finding \in Findings

FindingsInv ==
  /\ TypeOK /\ CuratorBusy /\ TargetReady /\ CuratorKnows /\ Untouched /\ RunsRead
  /\ Observed /\ Heirs /\ EndsMeet /\ Standing

-----------------------------------------------------------------------------
(* Types.                                                                  *)

LEMMA ResolveType ==
  ASSUME TypeOK, NEW t \in Texts PROVE Resolve(t) \in EntityOrNone
<1> DEFINE holders == {e \in Entities : Live(e) /\ t \in entity[e].names \cup entity[e].alias}
<1>1. CASE Cardinality(holders) = 1
  <2> HIDE DEF holders
  <2>0. holders = {} => Cardinality(holders) = 0
    BY FS_EmptySet
  <2>1. holders # {}
    BY <1>1, <2>0
  <2> USE DEF holders
  <2>2. (CHOOSE e \in holders : TRUE) \in Entities
    BY <2>1
  <2>. QED BY <2>2 DEF Resolve, EntityOrNone, Live
<1>2. CASE Cardinality(holders) # 1
  BY <1>2 DEF Resolve, EntityOrNone, Live
<1>. QED BY <1>1, <1>2

LEMMA DefaultType ==
  ASSUME TypeOK, NEW f \in Findings, NEW t \in Texts PROVE DefaultOf(f, t) \in EntityOrNone
<1>1. finding[f].linked \in [Texts -> EntityOrNone]
  BY DEF TypeOK, Finding
<1>. QED BY <1>1, ResolveType DEF DefaultOf, EntityOrNone

LEMMA NoClaimFields == NoClaim.status = "" /\ NoClaim.subject = {} /\ NoClaim.object = {}
BY DEF NoClaim

LEMMA BlankType == Blank \in Finding /\ Nobody \in [Texts -> EntityOrNone]
BY DEF Blank, Finding, Nobody, EntityOrNone

(* The fields of what the variables hold.                                  *)
LEMMA Fields ==
  ASSUME TypeOK
  PROVE  /\ \A f \in Findings :
              /\ finding[f].stored \in BOOLEAN
              /\ finding[f].status \in {"", "suppressed", "mentions_only"}
              /\ finding[f].suppressed \subseteq Texts
              /\ finding[f].curated \in [Texts -> EntityOrNone]
              /\ finding[f].linked \in [Texts -> EntityOrNone]
         /\ \A t \in Texts : decision[t].target \in EntityOrNone
         /\ \A f \in Findings, p \in Compatible :
              /\ claims[f][p] \in Claim
              /\ claims[f][p].subject \subseteq Entities
              /\ claims[f][p].object \subseteq Entities
         /\ \A p \in Compatible : p[1] \in Entities /\ p[2] \in Entities
         /\ \A f \in Findings, t \in Texts : obs[f][t] \in Observation
         /\ \A e \in Entities : entity[e].names \subseteq Texts /\ entity[e].alias \subseteq Texts
<1>1. \A f \in Findings : finding[f] \in Finding
  BY DEF TypeOK
<1>2. \A t \in Texts : decision[t] \in Decision
  BY DEF TypeOK
<1>3. \A f \in Findings, p \in Compatible : claims[f][p] \in Claim
  <2>1. \A f \in Findings : claims[f] \in [Compatible -> Claim]
    BY DEF TypeOK
  <2>. QED BY <2>1
<1>4. \A e \in Entities : entity[e] \in Entity
  BY DEF TypeOK
<1>5. \A f \in Findings, t \in Texts : obs[f][t] \in Observation
  <2>1. \A f \in Findings : obs[f] \in [Texts -> Observation]
    BY DEF TypeOK
  <2>. QED BY <2>1
<1>6. \A p \in Compatible : p[1] \in Entities /\ p[2] \in Entities
  BY FindingsAssumption
<1>. QED BY <1>1, <1>2, <1>3, <1>4, <1>5, <1>6 DEF Finding, Decision, Claim, Entity

LEMMA Bounds ==
  ASSUME TypeOK
  PROVE  /\ Act => acts' \in 0 .. MaxActs
         /\ Change => changes' \in 0 .. MaxChanges
<1>1. MaxActs \in Nat /\ MaxChanges \in Nat
  BY FindingsAssumption
<1>2. acts \in 0 .. MaxActs /\ changes \in 0 .. MaxChanges
  BY DEF TypeOK
<1>. QED BY <1>1, <1>2 DEF Act, Change

(* A curator that has begun is one, and so is one that goes on.            *)
LEMMA BegunType ==
  ASSUME TypeOK, NEW f \in Findings, NEW task \in Task, NEW todo \in SUBSET Task,
         Begin(f, task, todo)
  PROVE  curator' \in Curator
<1>1. task.text \in Texts
  BY DEF Task
<1>2. /\ finding[f].curated[task.text] \in EntityOrNone
      /\ decision[task.text].target \in EntityOrNone
  BY <1>1, Fields
<1>. QED BY <1>2 DEF Begin, Curator, EntityOrNone

LEMMA GoType ==
  ASSUME TypeOK, NEW pc \in {"form", "write", "decide", "review", "mention"}, Go(pc)
  PROVE  /\ curator' \in Curator /\ curator'.pc = pc
         /\ curator'.finding = curator.finding /\ curator'.task = curator.task
         /\ curator'.old = curator.old /\ curator'.alias = curator.alias
         /\ curator'.todo = curator.todo
BY DEF TypeOK, Go, Curator

LEMMA IdleType == Idle \in Curator
BY DEF Idle, Curator, EntityOrNone

LEMMA MyTask ==
  ASSUME TypeOK, CuratorBusy, curator.pc # "idle"
  PROVE  /\ curator.finding \in Findings /\ Me \in Task /\ Me.text \in Texts
         /\ Me.target \in EntityOrNone
         /\ Me.action \in {"assign", "assign_alias", "create", "suppress"}
         /\ curator.old \in EntityOrNone /\ curator.alias \in EntityOrNone
         /\ curator.todo \subseteq Task
         /\ Me.action # "suppress" => Me.target \in Entities
<1>1. curator \in Curator
  BY DEF TypeOK
<1>2. curator.finding \in Findings /\ Me \in Task
  BY DEF CuratorBusy, Me
<1>. QED BY <1>1, <1>2 DEF CuratorBusy, Curator, Task, EntityOrNone

LEMMA WithoutAliasType ==
  ASSUME TypeOK, NEW e, NEW t PROVE
    /\ WithoutAlias(entity, e, t) \in [Entities -> Entity]
    /\ \A x \in Entities : WithoutAlias(entity, e, t)[x].status = entity[x].status
<1>1. entity \in [Entities -> Entity]
  BY DEF TypeOK
<1>2. CASE e \in Entities
  <2>1. entity[e] \in Entity
    BY <1>1, <1>2
  <2>2. [entity[e] EXCEPT !.alias = @ \ {t}] \in Entity
    BY <2>1 DEF Entity
  <2> DEFINE new == [entity[e] EXCEPT !.alias = @ \ {t}]
  <2>3. WithoutAlias(entity, e, t) = [entity EXCEPT ![e] = new]
    BY <1>1, <1>2 DEF WithoutAlias
  <2>4. new.status = entity[e].status
    BY <2>1 DEF Entity
  <2>5. new \in Entity
    BY <2>2
  <2> HIDE DEF new
  <2>. QED BY <1>1, <2>3, <2>4, <2>5
<1>3. CASE e \notin Entities
  BY <1>1, <1>3 DEF WithoutAlias
<1>. QED BY <1>2, <1>3

-----------------------------------------------------------------------------
(* Every variable keeps its type.                                          *)

LEMMA StoringTypes ==
  ASSUME TypeOK, RunsRead, NEW r \in Runs, StoreRead(r) \/ StoreWrite(r) \/ DismissRun(r)
  PROVE  TypeOK' /\ RunsRead'
<1> DEFINE Run == [pc : {"new", "read", "stored"}, dismissed : BOOLEAN,
                   finding : Findings \cup {None}, resolved : [Texts -> EntityOrNone]]
<1>0. run \in [Runs -> Run]
  BY DEF TypeOK
<1>1. CASE StoreRead(r)
  <2>1. Finds[r] \in Findings
    BY FindingsAssumption
  <2> DEFINE named == [t \in Texts |-> IF t \in TextsOf[Finds[r]] THEN Resolve(t) ELSE None]
  <2>2. named \in [Texts -> EntityOrNone]
    BY ResolveType DEF EntityOrNone
  <2> DEFINE new == [run[r] EXCEPT !.pc = "read", !.finding = Finds[r], !.resolved = named]
  <2>3. new \in Run /\ new.pc = "read" /\ new.finding = Finds[r]
    BY <1>0, <2>1, <2>2
  <2>4. run' = [run EXCEPT ![r] = new]
    BY <1>1, <1>0 DEF StoreRead
  <2> HIDE DEF new
  <2>5. run' \in [Runs -> Run]
    BY <1>0, <2>3, <2>4
  <2>6. RunsRead'
    BY <1>0, <2>1, <2>3, <2>4 DEF RunsRead
  <2>. QED BY <1>1, <2>5, <2>6 DEF StoreRead, TypeOK
<1>2. CASE StoreWrite(r)
  <2> DEFINE f == run[r].finding
  <2>1. f \in Findings
    BY <1>2 DEF StoreWrite, RunsRead
  <2> DEFINE link(t) == LET e == run[r].resolved[t] IN
                        IF e \in Entities \ Gone THEN e ELSE finding[f].linked[t]
             links == [t \in Texts |-> link(t)]
             new == [finding[f] EXCEPT !.stored = TRUE, !.linked = links]
  <2>2. links \in [Texts -> EntityOrNone]
    BY <2>1, Fields DEF EntityOrNone
  <2>3. finding[f] \in Finding
    BY <2>1 DEF TypeOK
  <2>4. new \in Finding
    BY <2>2, <2>3 DEF Finding
  <2>5. finding' = [finding EXCEPT ![f] = new]
    BY <1>2, <2>1 DEF StoreWrite, TypeOK
  <2>6. finding' \in [Findings -> Finding]
    BY <2>4, <2>5 DEF TypeOK
  <2>7. edge' \in [Runs -> [Findings -> {"", "pending", "dismissed"}]]
    <3>1. edge \in [Runs -> [Findings -> {"", "pending", "dismissed"}]]
      BY DEF TypeOK
    <3>2. edge' = [edge EXCEPT ![r][f] = IF @ = "" THEN "pending" ELSE @]
      BY <1>2 DEF StoreWrite
    <3>. QED BY <3>1, <3>2, <2>1
  <2>8. run' \in [Runs -> Run] /\ \A q \in Runs : run'[q].pc = "read" => run'[q] = run[q]
    <3> DEFINE done == [run[r] EXCEPT !.pc = "stored", !.finding = None, !.resolved = Nobody]
    <3>1. run' = [run EXCEPT ![r] = done]
      BY <1>2, <1>0 DEF StoreWrite
    <3>2. done \in Run /\ done.pc = "stored"
      BY <1>0, BlankType
    <3> HIDE DEF done
    <3>. QED BY <1>0, <3>1, <3>2
  <2>9. RunsRead'
    BY <2>8 DEF RunsRead
  <2>. QED BY <1>2, <2>6, <2>7, <2>8, <2>9 DEF StoreWrite, TypeOK
<1>3. CASE DismissRun(r)
  <2>1. edge[r] \in [Findings -> {"", "pending", "dismissed"}]
    BY DEF TypeOK
  <2>2. edge' \in [Runs -> [Findings -> {"", "pending", "dismissed"}]]
    BY <1>3, <2>1 DEF DismissRun, TypeOK
  <2>3. run' \in [Runs -> Run] /\ \A q \in Runs : run'[q].pc = run[q].pc /\ run'[q].finding = run[q].finding
    BY ZenonT(60), <1>3, <1>0 DEF DismissRun
  <2>4. RunsRead'
    BY <2>3 DEF RunsRead
  <2>5. acts' \in 0 .. MaxActs
    BY <1>3, Bounds DEF DismissRun
  <2>. QED BY <1>3, <2>2, <2>3, <2>4, <2>5 DEF DismissRun, TypeOK
<1>. QED BY <1>1, <1>2, <1>3

(* Beginning a curation: what is begun is a task of the finding.           *)
LEMMA BeginTypes ==
  ASSUME TypeOK, NEW f \in Findings, CurateEntity(f) \/ AcceptDefaults(f)
  PROVE  /\ TypeOK' /\ CuratorBusy'
         /\ \E task \in Task, todo \in SUBSET Task :
              /\ Begin(f, task, todo)
              /\ task.action = "suppress" <=> task.target = None
              /\ task.target \in Entities =>
                   (entity[task.target].status = "unused" <=> task.action = "create")
<1>1. \E task \in Task, todo \in SUBSET Task :
        /\ Begin(f, task, todo)
        /\ task.action = "suppress" <=> task.target = None
        /\ task.target \in Entities =>
             (entity[task.target].status = "unused" <=> task.action = "create")
        /\ \A x \in todo : x.action \in {"assign", "assign_alias"} /\ x.target \in Entities
  <2>1. CASE CurateEntity(f)
    <3>1. PICK e \in EntityOrNone : \E task \in Tasks(f, e) : Begin(f, task, {})
      BY <2>1 DEF CurateEntity
    <3>2. PICK task \in Tasks(f, e) : Begin(f, task, {})
      BY <3>1
    <3>0. TextsOf[f] \subseteq Texts
      BY FindingsAssumption
    <3>3. /\ task \in Task /\ task.target = e
          /\ task.action \in IF e = None THEN {"suppress"}
                             ELSE IF entity[e].status = "live" THEN {"assign", "assign_alias"}
                             ELSE IF entity[e].status = "unused" THEN {"create"} ELSE {}
      BY <3>0, <3>2 DEF Tasks, Task
    <3>4. e \in Entities => e # None
      BY FindingsAssumption
    <3>5. /\ task.action = "suppress" <=> task.target = None
          /\ task.target \in Entities =>
               (entity[task.target].status = "unused" <=> task.action = "create")
      BY <3>3, <3>4
    <3>. QED BY <3>2, <3>3, <3>5
  <2>2. CASE AcceptDefaults(f)
    <3> DEFINE byAlias(t) == t \in entity[DefaultOf(f, t)].alias \ entity[DefaultOf(f, t)].names
               todo == {[text |-> t, target |-> DefaultOf(f, t),
                         action |-> IF byAlias(t) THEN "assign_alias" ELSE "assign"] :
                          t \in {t \in TextsOf[f] : DefaultOf(f, t) # None}}
    <3>1. \A t \in TextsOf[f] : t \in Texts /\ DefaultOf(f, t) \in EntityOrNone
      BY DefaultType, FindingsAssumption
    <3>2. \A x \in todo : /\ x \in Task /\ x.action \in {"assign", "assign_alias"}
                          /\ x.target \in Entities
      BY <3>1 DEF Task, EntityOrNone
    <3>3. \E task \in todo : Live(task.target) /\ Begin(f, task, todo \ {task})
      BY <2>2 DEF AcceptDefaults
    <3> HIDE DEF todo
    <3>4. PICK task \in todo : Live(task.target) /\ Begin(f, task, todo \ {task})
      BY <3>3
    <3>5. todo \ {task} \in SUBSET Task
      BY <3>2
    <3>6. task.target # None /\ task.target \in Entities /\ task.action \in {"assign", "assign_alias"}
      BY <3>2, FindingsAssumption
    <3>7. entity[task.target].status = "live"
      BY <3>4 DEF Live
    <3>8. \A x \in todo \ {task} : x.action \in {"assign", "assign_alias"} /\ x.target \in Entities
      BY <3>2
    <3>9. task \in Task
      BY <3>2
    <3>. QED BY <3>4, <3>5, <3>6, <3>7, <3>8, <3>9
  <2>. QED BY <2>1, <2>2
<1>2. PICK task \in Task, todo \in SUBSET Task :
        /\ Begin(f, task, todo)
        /\ task.action = "suppress" <=> task.target = None
        /\ task.target \in Entities =>
             (entity[task.target].status = "unused" <=> task.action = "create")
        /\ \A x \in todo : x.action \in {"assign", "assign_alias"} /\ x.target \in Entities
  BY <1>1
<1>3. curator' \in Curator
  BY <1>2, BegunType
<1>4. acts' \in 0 .. MaxActs
  BY Bounds DEF CurateEntity, AcceptDefaults
<1>5. UNCHANGED <<finding, edge, run, decision, entity, obs, mentions, claims, purge,
                  changes, cut, heir, relink, missed>>
  BY DEF CurateEntity, AcceptDefaults
<1>6. TypeOK'
  BY <1>3, <1>4, <1>5 DEF TypeOK
<1>7. CuratorBusy'
  BY <1>2 DEF CuratorBusy, Begin, Me
<1>. QED BY <1>2, <1>6, <1>7

(* The form is settled, or the curator refuses a target that is gone.      *)
Refused == \/ Me.action = "assign_alias" /\ ~Live(Me.target)
           \/ Me.action = "assign" /\ Me.target \in Gone

LEMMA SettleTypes ==
  ASSUME TypeOK, CuratorBusy, TargetReady, SettleForm
  PROVE  /\ TypeOK' /\ CuratorBusy'
         /\ \A e \in Entities : entity'[e].status =
              IF e = Me.target /\ Me.action = "create" THEN "live" ELSE entity[e].status
         /\ curator' = Idle \/ Go("write")
         /\ UNCHANGED <<finding, edge, run, decision, obs, mentions, claims, purge, acts,
                        changes, cut, heir, relink, missed>>
<1>1. curator.pc = "form" /\ IF Refused THEN curator' = Idle ELSE Go("write")
  BY DEF SettleForm, Refused
<1>2. /\ Me.text \in Texts /\ (Me.action # "suppress" => Me.target \in Entities)
      /\ Me.action \in {"assign", "assign_alias", "create", "suppress"}
  BY <1>1, MyTask
<1> DEFINE kept == Me.action = "assign_alias" /\ curator.alias = Me.target
           freed == IF Me.action = "suppress" \/ kept THEN entity
                    ELSE WithoutAlias(entity, curator.alias, Me.text)
<1>3. freed \in [Entities -> Entity] /\ \A e \in Entities : freed[e].status = entity[e].status
  <2>1. entity \in [Entities -> Entity]
    BY DEF TypeOK
  <2>2. /\ WithoutAlias(entity, curator.alias, Me.text) \in [Entities -> Entity]
        /\ \A e \in Entities :
             WithoutAlias(entity, curator.alias, Me.text)[e].status = entity[e].status
    BY WithoutAliasType
  <2>. QED BY <2>1, <2>2
<1>4. /\ Me.action = "create" => entity' = [freed EXCEPT ![Me.target] =
            [status |-> "live", names |-> {Me.text}, alias |-> {}]]
      /\ Me.action = "assign_alias" /\ ~Refused =>
            entity' = [freed EXCEPT ![Me.target].alias = @ \cup {Me.text}]
      /\ Me.action \notin {"create", "assign_alias"} \/ Refused => entity' = freed
  <2>1. Me.action = "create" => ~Refused
    BY DEF Refused
  <2>2. entity' = IF Refused THEN freed
                  ELSE CASE Me.action = "create" ->
                              [freed EXCEPT ![Me.target] =
                                 [status |-> "live", names |-> {Me.text}, alias |-> {}]]
                         [] Me.action = "assign_alias" ->
                              [freed EXCEPT ![Me.target].alias = @ \cup {Me.text}]
                         [] OTHER -> freed
    BY DEF SettleForm, Refused
  <2> HIDE DEF freed
  <2>3. CASE Refused
    BY <2>1, <2>2, <2>3
  <2>4. CASE ~Refused /\ Me.action = "create"
    BY <2>2, <2>4
  <2>5. CASE ~Refused /\ Me.action = "assign_alias"
    BY <2>2, <2>5
  <2>6. CASE ~Refused /\ Me.action \notin {"create", "assign_alias"}
    BY <2>2, <2>6
  <2>. QED BY <2>3, <2>4, <2>5, <2>6
<1> HIDE DEF freed
<1> DEFINE Changed == entity' \in [Entities -> Entity] /\ \A e \in Entities : entity'[e].status =
                        IF e = Me.target /\ Me.action = "create" THEN "live" ELSE entity[e].status
<1>5. ASSUME Me.action = "create" PROVE Changed
  <2>1. [status |-> "live", names |-> {Me.text}, alias |-> {}] \in Entity
    BY <1>2 DEF Entity
  <2>. QED BY <1>2, <1>3, <1>4, <1>5, <2>1
<1>6. ASSUME Me.action = "assign_alias", ~Refused PROVE Changed
  <2> DEFINE new == [freed[Me.target] EXCEPT !.alias = @ \cup {Me.text}]
  <2>1. freed[Me.target] \in Entity
    BY <1>2, <1>3, <1>6
  <2>2. new \in Entity /\ new.status = freed[Me.target].status
    BY <2>1, <1>2 DEF Entity
  <2>3. entity' = [freed EXCEPT ![Me.target] = new]
    BY <1>3, <1>4, <1>6
  <2> HIDE DEF new
  <2>. QED BY <1>2, <1>3, <1>6, <2>2, <2>3
<1>7. ASSUME Me.action \notin {"create", "assign_alias"} \/ Refused, Me.action # "create"
      PROVE  Changed
  BY <1>3, <1>4, <1>7
<1>8. Changed
  BY <1>5, <1>6, <1>7
<1>9. UNCHANGED <<finding, edge, run, decision, obs, mentions, claims, purge, acts,
                  changes, cut, heir, relink, missed>>
  BY DEF SettleForm
<1>10. curator' \in Curator /\ CuratorBusy' /\ (curator' = Idle \/ Go("write"))
  <2>1. CASE Refused
    <3>1. curator' = Idle
      BY <1>1, <2>1
    <3>. QED BY <3>1, IdleType DEF CuratorBusy, Idle, Me
  <2>2. CASE ~Refused
    <3>1. Go("write")
      BY <1>1, <2>2
    <3>. QED BY <1>1, <3>1, GoType DEF CuratorBusy, Me
  <2>. QED BY <2>1, <2>2
<1>11. TypeOK'
  BY <1>8, <1>9, <1>10 DEF TypeOK
<1>. QED BY <1>8, <1>9, <1>10, <1>11

(* What the write changes: one text, its observation, one mention; and     *)
(* nothing when it matches neither the finding nor the target.             *)
Matches == finding[curator.finding].stored /\ Me.target \notin Gone

LEMMA WriteTypes ==
  ASSUME TypeOK, CuratorBusy, WriteCuration
  PROVE  /\ TypeOK' /\ CuratorBusy'
         /\ Matches =>
              /\ \A f \in Findings, t \in Texts :
                   /\ finding'[f].stored = finding[f].stored
                   /\ finding'[f].curated[t] =
                        IF f = curator.finding /\ t = Me.text THEN Me.target
                        ELSE finding[f].curated[t]
                   /\ obs'[f][t] = IF f # curator.finding \/ t # Me.text THEN obs[f][t]
                        ELSE IF Me.action = "suppress"
                        THEN [kind |-> "not_entity", target |-> obs[f][t].target, resolved |-> None]
                        ELSE [kind |-> "entity", target |-> Me.target, resolved |-> Me.target]
              /\ mentions' = IF Me.action = "suppress" THEN mentions
                             ELSE mentions \cup {<<DocOf[curator.finding], Me.target>>}
              /\ missed' = missed \ {<<curator.finding, Me.text>>}
         /\ ~Matches =>
              /\ UNCHANGED <<finding, obs, mentions>>
              /\ missed \subseteq missed'
              /\ Me.target \in Gone => <<curator.finding, Me.text>> \in missed'
         /\ Go("decide")
         /\ UNCHANGED <<edge, run, decision, entity, claims, purge, acts, changes, cut, heir,
                        relink>>
<1> DEFINE f == curator.finding
           t == Me.text
           e == Me.target
<1>0. curator.pc = "write" /\ Go("decide")
      /\ UNCHANGED <<edge, run, decision, entity, claims, purge, acts, changes, cut, heir,
                     relink>>
  BY DEF WriteCuration
<1>1. /\ f \in Findings /\ t \in Texts /\ e \in EntityOrNone
      /\ Me.action # "suppress" => e \in Entities
      /\ Me.action = "suppress" <=> e = None
  BY <1>0, MyTask DEF CuratorBusy
<1>2. curator' \in Curator /\ CuratorBusy'
  BY <1>0, GoType DEF CuratorBusy, Me
<1>3. finding[f] \in Finding /\ obs[f] \in [Texts -> Observation]
  BY <1>1 DEF TypeOK
<1>4. CASE ~Matches
  <2>1. /\ UNCHANGED <<finding, obs, mentions>>
        /\ missed' = IF e \in Gone THEN missed \cup {<<f, t>>} ELSE missed
    BY <1>4 DEF WriteCuration, Matches
  <2>2. missed' \subseteq Findings \X Texts
    <3>1. missed \subseteq Findings \X Texts /\ <<f, t>> \in Findings \X Texts
      BY <1>1 DEF TypeOK
    <3>. QED BY <2>1, <3>1
  <2>3. TypeOK'
    BY <1>0, <1>2, <2>1, <2>2 DEF TypeOK
  <2>. QED BY <1>0, <1>2, <1>4, <2>1, <2>3
<1>5. CASE Matches
  <2> DEFINE seen == IF Me.action = "suppress"
                     THEN [kind |-> "not_entity", target |-> obs[f][t].target, resolved |-> None]
                     ELSE [kind |-> "entity", target |-> e, resolved |-> e]
             gone == IF Me.action = "suppress" THEN finding[f].suppressed \cup {t}
                     ELSE finding[f].suppressed \ {t}
             names == [finding[f].curated EXCEPT ![t] = e]
             new == [finding[f] EXCEPT !.curated = names, !.status = "", !.suppressed = gone]
  <2>1. obs' = [obs EXCEPT ![f][t] = seen]
    <3>1. CASE Me.action = "suppress"
      BY <1>5, <3>1 DEF WriteCuration, Matches
    <3>2. CASE Me.action # "suppress"
      BY <1>5, <3>2 DEF WriteCuration, Matches
    <3>. QED BY <3>1, <3>2
  <2>2. finding' = [finding EXCEPT ![f] = new]
    <3>1. finding \in [Findings -> Finding]
      BY DEF TypeOK
    <3>2. CASE Me.action = "suppress"
      <4>1. finding' = [finding EXCEPT ![f].curated[t] = None, ![f].status = "",
                                       ![f].suppressed = @ \cup {t}]
        BY <1>5, <3>2 DEF WriteCuration, Matches
      <4>2. e = None
        BY <1>1, <3>2
      <4>. QED BY <3>1, <3>2, <4>1, <4>2, <1>1, <1>3 DEF Finding
    <3>3. CASE Me.action # "suppress"
      <4>1. finding' = [finding EXCEPT ![f].curated[t] = e, ![f].status = "",
                                       ![f].suppressed = @ \ {t}]
        BY <1>5, <3>3 DEF WriteCuration, Matches
      <4>. QED BY <3>1, <3>3, <4>1, <1>1, <1>3 DEF Finding
    <3>. QED BY <3>2, <3>3
  <2>3. mentions' = IF Me.action = "suppress" THEN mentions ELSE mentions \cup {<<DocOf[f], e>>}
    BY <1>5 DEF WriteCuration, Matches
  <2>4. seen \in Observation
    BY <1>1, <1>3 DEF Observation, EntityOrNone
  <2>5. names \in [Texts -> EntityOrNone] /\ gone \subseteq Texts
    BY <1>1, <1>3 DEF Finding
  <2>6. \A x \in Texts : names[x] = IF x = t THEN e ELSE finding[f].curated[x]
    BY <1>1, <1>3 DEF Finding
  <2> HIDE DEF names, gone, seen
  <2>7. new \in Finding /\ new.curated = names /\ new.stored = finding[f].stored
    BY <1>3, <2>5 DEF Finding
  <2> HIDE DEF new
  <2>8. finding' \in [Findings -> Finding]
    BY <2>2, <2>7 DEF TypeOK
  <2>9. obs' \in [Findings -> [Texts -> Observation]]
    <3>1. obs \in [Findings -> [Texts -> Observation]]
      BY DEF TypeOK
    <3>. QED BY <3>1, <2>1, <2>4, <1>1
  <2>10. mentions' \subseteq Docs \X Entities
    <3>1. mentions \subseteq Docs \X Entities
      BY DEF TypeOK
    <3>2. DocOf[f] \in Docs
      BY <1>1, FindingsAssumption
    <3>. QED BY <3>1, <3>2, <2>3, <1>1
  <2>14. missed' = missed \ {<<f, t>>}
    BY <1>5 DEF WriteCuration, Matches
  <2>15. missed' \subseteq Findings \X Texts
    BY <2>14 DEF TypeOK
  <2>11. TypeOK'
    BY <1>0, <1>2, <2>8, <2>9, <2>10, <2>15 DEF TypeOK
  <2>12. \A x \in Findings, y \in Texts :
           /\ finding'[x].stored = finding[x].stored
           /\ finding'[x].curated[y] = IF x = f /\ y = t THEN e ELSE finding[x].curated[y]
    <3>1. finding \in [Findings -> Finding]
      BY DEF TypeOK
    <3>. QED BY <3>1, <2>2, <2>6, <2>7
  <2>13. \A x \in Findings, y \in Texts :
           obs'[x][y] = IF x # f \/ y # t THEN obs[x][y] ELSE seen
    <3>1. obs \in [Findings -> [Texts -> Observation]]
      BY DEF TypeOK
    <3>. QED BY <3>1, <2>1, <1>1
  <2>. QED BY <1>0, <1>2, <1>5, <2>3, <2>11, <2>12, <2>13, <2>14 DEF seen
<1>. QED BY <1>4, <1>5

LEMMA DecideTypes ==
  ASSUME TypeOK, CuratorBusy, Decide
  PROVE  /\ TypeOK' /\ CuratorBusy'
         /\ \A e \in Entities : entity'[e].status = entity[e].status
         /\ Go("review")
         /\ UNCHANGED <<finding, edge, run, obs, mentions, claims, purge, acts, changes, cut,
                        heir, relink, missed>>
<1>1. curator.pc = "decide" /\ Go("review")
      /\ UNCHANGED <<finding, edge, run, obs, mentions, claims, purge, acts, changes, cut,
                     heir, relink, missed>>
  BY DEF Decide
<1>2. Me.text \in Texts /\ Me.target \in EntityOrNone
  BY <1>1, MyTask
<1> DEFINE ruling == [kind |-> IF Me.action = "suppress" THEN "not_entity" ELSE "entity",
                      target |-> Me.target, alias |-> Me.action = "assign_alias"]
<1>3. ruling \in Decision
  <2>1. (Me.action = "assign_alias") \in BOOLEAN
    OBVIOUS
  <2>. QED BY <1>2, <2>1 DEF Decision
<1>4. decision' = [decision EXCEPT ![Me.text] = ruling]
  BY DEF Decide
<1> HIDE DEF ruling
<1>5. decision' \in [Texts -> Decision]
  BY <1>2, <1>3, <1>4 DEF TypeOK
<1>6. /\ entity' \in [Entities -> Entity]
      /\ \A e \in Entities : entity'[e].status = entity[e].status
  <2>1. entity \in [Entities -> Entity]
    BY DEF TypeOK
  <2>2. /\ WithoutAlias(entity, curator.alias, Me.text) \in [Entities -> Entity]
        /\ \A e \in Entities :
             WithoutAlias(entity, curator.alias, Me.text)[e].status = entity[e].status
    BY WithoutAliasType
  <2>3. entity' = IF Me.action = "suppress" THEN WithoutAlias(entity, curator.alias, Me.text)
                  ELSE entity
    BY DEF Decide
  <2>. QED BY <2>1, <2>2, <2>3
<1>7. curator' \in Curator /\ CuratorBusy'
  BY <1>1, GoType DEF CuratorBusy, Me
<1>8. TypeOK'
  BY <1>1, <1>5, <1>6, <1>7 DEF TypeOK
<1>. QED BY <1>1, <1>6, <1>7, <1>8

(* Claims in review are the claims there were.                             *)
LEMMA ReviewedClaims ==
  ASSUME TypeOK, NEW f \in Findings
  PROVE  /\ InReview(f) \in [Compatible -> Claim]
         /\ \A p \in Compatible : /\ InReview(f)[p].status # "manual_claim"
                                  /\ InReview(f)[p].subject = claims[f][p].subject
                                  /\ InReview(f)[p].object = claims[f][p].object
<1>1. \A p \in Compatible : claims[f][p] \in Claim
  BY Fields
<1>. QED BY <1>1 DEF InReview, Claim

LEMMA MarkTypes ==
  ASSUME TypeOK, CuratorBusy, MarkForReview
  PROVE  /\ TypeOK' /\ CuratorBusy'
         /\ \A f \in Findings, p \in Compatible :
              /\ claims'[f][p].subject = claims[f][p].subject
              /\ claims'[f][p].object = claims[f][p].object
              /\ claims'[f][p].status = "manual_claim" =>
                   claims[f][p].status = "manual_claim" /\ ~(Replaced /\ f = curator.finding)
         /\ Go("mention")
         /\ UNCHANGED <<finding, edge, run, decision, entity, obs, mentions, purge, acts,
                        changes, cut, heir, relink, missed>>
<1>1. curator.pc = "review" /\ Go("mention")
      /\ UNCHANGED <<finding, edge, run, decision, entity, obs, mentions, purge, acts,
                     changes, cut, heir, relink, missed>>
  BY DEF MarkForReview
<1>2. curator.finding \in Findings
  BY <1>1, MyTask
<1> DEFINE reviewed == InReview(curator.finding)
<1>3. /\ reviewed \in [Compatible -> Claim]
      /\ \A p \in Compatible : /\ reviewed[p].status # "manual_claim"
                               /\ reviewed[p].subject = claims[curator.finding][p].subject
                               /\ reviewed[p].object = claims[curator.finding][p].object
  BY <1>2, ReviewedClaims
<1>4. claims' = IF Replaced THEN [claims EXCEPT ![curator.finding] = reviewed] ELSE claims
  BY DEF MarkForReview
<1> HIDE DEF reviewed
<1>5. claims \in [Findings -> [Compatible -> Claim]]
  BY DEF TypeOK
<1>6. claims' \in [Findings -> [Compatible -> Claim]]
  BY <1>2, <1>3, <1>4, <1>5
<1>7. \A f \in Findings, p \in Compatible :
        /\ claims'[f][p].subject = claims[f][p].subject
        /\ claims'[f][p].object = claims[f][p].object
        /\ claims'[f][p].status = "manual_claim" =>
             claims[f][p].status = "manual_claim" /\ ~(Replaced /\ f = curator.finding)
  <2>1. CASE Replaced
    BY <2>1, <1>2, <1>3, <1>4, <1>5
  <2>2. CASE ~Replaced
    BY <2>2, <1>4
  <2>. QED BY <2>1, <2>2
<1>8. curator' \in Curator /\ CuratorBusy'
  BY <1>1, GoType DEF CuratorBusy, Me
<1>9. TypeOK'
  BY <1>1, <1>6, <1>8 DEF TypeOK
<1>. QED BY <1>1, <1>7, <1>8, <1>9

(* The last statement: the old mention goes, or is needed; the curator     *)
(* goes on with a further default, whose target lives, or is done.         *)
LEMMA CleanupTypes ==
  ASSUME TypeOK, CuratorBusy, CleanupMention
  PROVE  /\ TypeOK' /\ CuratorBusy'
         /\ \/ curator' = Idle
            \/ \E task \in Task, todo \in SUBSET Task :
                 /\ Begin(curator.finding, task, todo)
                 /\ Live(task.target) /\ task.action # "create"
         /\ UNCHANGED <<finding, edge, run, decision, entity, obs, claims, purge, acts,
                        changes, cut, heir, relink, missed>>
<1>1. curator.pc = "mention" /\ NextTask
      /\ UNCHANGED <<finding, edge, run, decision, entity, obs, claims, purge, acts, changes,
                     cut, heir, relink, missed>>
  BY DEF CleanupMention
<1>2. curator.finding \in Findings /\ curator.todo \subseteq Task
  BY <1>1, MyTask
<1>3. mentions' \subseteq mentions
  BY DEF CleanupMention
<1>4. /\ curator' \in Curator /\ CuratorBusy'
      /\ \/ curator' = Idle
         \/ \E task \in Task, todo \in SUBSET Task :
              /\ Begin(curator.finding, task, todo)
              /\ Live(task.target) /\ task.action # "create"
  <2>1. CASE curator' = Idle
    BY <2>1, IdleType DEF CuratorBusy, Idle, Me
  <2>2. CASE curator' # Idle
    <3>1. PICK task \in curator.todo :
            Live(task.target) /\ Begin(curator.finding, task, curator.todo \ {task})
      BY <1>1, <2>2 DEF NextTask
    <3>2. /\ task \in Task /\ curator.todo \ {task} \in SUBSET Task
          /\ \A x \in curator.todo : x.action \in {"assign", "assign_alias"} /\ x.target \in Entities
      BY <1>2, <3>1 DEF CuratorBusy
    <3>3. task.target # None /\ task.action # "suppress" /\ task.action # "create"
      BY <3>1, <3>2, FindingsAssumption
    <3>4. curator' \in Curator
      BY <1>2, <3>1, <3>2, BegunType
    <3>5. CuratorBusy'
      BY <1>2, <3>1, <3>2, <3>3 DEF CuratorBusy, Begin, Me
    <3>. QED BY <3>1, <3>2, <3>3, <3>4, <3>5
  <2>. QED BY <2>1, <2>2
<1>5. TypeOK'
  <2>1. mentions' \subseteq Docs \X Entities
    BY <1>3 DEF TypeOK
  <2>. QED BY <1>1, <1>4, <2>1 DEF TypeOK
<1>. QED BY <1>1, <1>4, <1>5

LEMMA CutTypes ==
  ASSUME TypeOK, CuratorBusy, CutOff
  PROVE  /\ TypeOK' /\ CuratorBusy' /\ curator' = Idle /\ curator.pc # "idle"
         /\ cut' = IF curator.pc \in {"decide", "review", "mention"}
                   THEN cut \cup {curator.finding} ELSE cut
         /\ UNCHANGED <<finding, edge, run, decision, entity, obs, mentions, claims, purge,
                        acts, heir, relink, missed>>
<1>1. /\ curator' = Idle /\ curator.pc # "idle"
      /\ cut' = IF curator.pc \in {"decide", "review", "mention"}
                THEN cut \cup {curator.finding} ELSE cut
      /\ UNCHANGED <<finding, edge, run, decision, entity, obs, mentions, claims, purge, acts,
                     heir, relink, missed>>
  BY DEF CutOff
<1>2. curator.finding \in Findings
  BY <1>1, MyTask
<1>3. cut' \subseteq Findings
  BY <1>1, <1>2 DEF TypeOK
<1>4. changes' \in 0 .. MaxChanges
  <2>1. Change
    BY DEF CutOff
  <2>. QED BY <2>1, Bounds
<1>5. CuratorBusy'
  BY <1>1 DEF CuratorBusy, Idle, Me
<1>6. TypeOK'
  BY <1>1, <1>3, <1>4, IdleType DEF TypeOK
<1>. QED BY <1>1, <1>5, <1>6

LEMMA DispositionTypes ==
  ASSUME TypeOK, NEW r \in Runs, NEW f \in Findings, SetDisposition(r, f)
  PROVE  TypeOK'
<1>1. PICK d \in {"pending", "dismissed"} : edge' = [edge EXCEPT ![r][f] = d]
  BY DEF SetDisposition
<1>2. edge' \in [Runs -> [Findings -> {"", "pending", "dismissed"}]]
  <2>1. edge \in [Runs -> [Findings -> {"", "pending", "dismissed"}]]
    BY DEF TypeOK
  <2>. QED BY <1>1, <2>1
<1>3. acts' \in 0 .. MaxActs
  BY Bounds DEF SetDisposition
<1>. QED BY <1>2, <1>3 DEF SetDisposition, TypeOK

LEMMA CreateTypes ==
  ASSUME TypeOK, NEW f \in Findings, NEW p \in Compatible, CreateClaim(f, p)
  PROVE  /\ TypeOK'
         /\ {p[1], p[2]} \subseteq Curated(f)
         /\ \A x \in Findings, q \in Compatible :
              IF x = f /\ q = p
              THEN /\ claims'[x][q].subject = claims[x][q].subject \cup {p[1]}
                   /\ claims'[x][q].object = claims[x][q].object \cup {p[2]}
              ELSE claims'[x][q] = claims[x][q]
         /\ \A x \in Findings : /\ finding'[x].stored = finding[x].stored
                                /\ finding'[x].curated = finding[x].curated
         /\ UNCHANGED <<edge, run, decision, entity, obs, mentions, curator, purge, changes,
                        cut, heir, relink, missed>>
<1> DEFINE new == [status |-> "manual_claim", subject |-> claims[f][p].subject \cup {p[1]},
                   object |-> claims[f][p].object \cup {p[2]}]
<1>1. /\ {p[1], p[2]} \subseteq Curated(f)
      /\ finding' = [finding EXCEPT ![f].status = ""]
      /\ UNCHANGED <<edge, run, decision, entity, obs, mentions, curator, purge, changes, cut,
                     heir, relink, missed>>
  BY DEF CreateClaim
<1>2. claims \in [Findings -> [Compatible -> Claim]]
  BY DEF TypeOK
<1>3. claims' = [claims EXCEPT ![f][p] = new]
  BY <1>2 DEF CreateClaim
<1>4. new \in Claim
  <2>1. /\ claims[f][p].subject \subseteq Entities /\ claims[f][p].object \subseteq Entities
        /\ p[1] \in Entities /\ p[2] \in Entities
    BY Fields
  <2>. QED BY <2>1 DEF Claim
<1>5. new.subject = claims[f][p].subject \cup {p[1]} /\ new.object = claims[f][p].object \cup {p[2]}
  OBVIOUS
<1> HIDE DEF new
<1>6. /\ claims' \in [Findings -> [Compatible -> Claim]]
      /\ \A x \in Findings, q \in Compatible :
           claims'[x][q] = IF x = f /\ q = p THEN new ELSE claims[x][q]
  BY <1>2, <1>3, <1>4
<1>7. /\ finding' \in [Findings -> Finding]
      /\ \A x \in Findings : /\ finding'[x].stored = finding[x].stored
                             /\ finding'[x].curated = finding[x].curated
  <2>1. finding \in [Findings -> Finding]
    BY DEF TypeOK
  <2>. QED BY <1>1, <2>1 DEF Finding
<1>8. acts' \in 0 .. MaxActs
  BY Bounds DEF CreateClaim
<1>9. TypeOK'
  BY <1>1, <1>6, <1>7, <1>8 DEF TypeOK
<1>. QED BY <1>1, <1>5, <1>6, <1>7, <1>9

LEMMA ReviewTypes ==
  ASSUME TypeOK, NEW f \in Findings, NEW p \in Compatible, ReviewClaim(f, p)
  PROVE  /\ TypeOK'
         /\ \A x \in Findings, q \in Compatible :
              /\ claims'[x][q].subject = claims[x][q].subject
              /\ claims'[x][q].object = claims[x][q].object
              /\ claims'[x][q].status = claims[x][q].status \/ (x = f /\ q = p)
         /\ claims'[f][p].status = "manual_claim" =>
              \E s \in claims[f][p].subject, o \in claims[f][p].object : {s, o} \subseteq Curated(f)
         /\ UNCHANGED <<finding, edge, run, decision, entity, obs, mentions, curator, purge,
                        changes, cut, heir, relink, missed>>
<1>1. PICK status \in {"manual_claim", "superseded", "withdrawn"} :
        /\ status = "manual_claim" =>
             \E s \in claims[f][p].subject, o \in claims[f][p].object : {s, o} \subseteq Curated(f)
        /\ claims' = [claims EXCEPT ![f][p].status = status]
  BY DEF ReviewClaim
<1>2. claims \in [Findings -> [Compatible -> Claim]]
  BY DEF TypeOK
<1> DEFINE new == [claims[f][p] EXCEPT !.status = status]
<1>3. claims' = [claims EXCEPT ![f][p] = new]
  BY <1>1, <1>2
<1>4. /\ new \in Claim /\ new.status = status /\ new.subject = claims[f][p].subject
      /\ new.object = claims[f][p].object
  BY ZenonT(60), Fields DEF Claim
<1> HIDE DEF new
<1>5. /\ claims' \in [Findings -> [Compatible -> Claim]]
      /\ \A x \in Findings, q \in Compatible :
           claims'[x][q] = IF x = f /\ q = p THEN new ELSE claims[x][q]
  BY <1>2, <1>3, <1>4
<1>6. UNCHANGED <<finding, edge, run, decision, entity, obs, mentions, curator, purge, changes,
                  cut, heir, relink, missed>>
  BY DEF ReviewClaim
<1>7. acts' \in 0 .. MaxActs
  BY Bounds DEF ReviewClaim
<1>8. TypeOK'
  BY <1>5, <1>6, <1>7 DEF TypeOK
<1>9. \A x \in Findings, q \in Compatible :
        /\ claims'[x][q].subject = claims[x][q].subject
        /\ claims'[x][q].object = claims[x][q].object
        /\ claims'[x][q].status = claims[x][q].status \/ (x = f /\ q = p)
  <2> SUFFICES ASSUME NEW x \in Findings, NEW q \in Compatible
               PROVE  /\ claims'[x][q].subject = claims[x][q].subject
                      /\ claims'[x][q].object = claims[x][q].object
                      /\ claims'[x][q].status = claims[x][q].status \/ (x = f /\ q = p)
    OBVIOUS
  <2>1. CASE x = f /\ q = p
    BY <1>4, <1>5, <2>1
  <2>2. CASE ~(x = f /\ q = p)
    <3>1. claims'[x][q] = claims[x][q]
      BY <1>5, <2>2
    <3>. QED BY <3>1
  <2>. QED BY <2>1, <2>2
<1>10. claims'[f][p].status = status
  BY <1>4, <1>5
<1>. QED BY <1>1, <1>6, <1>8, <1>9, <1>10

LEMMA StatusTypes ==
  ASSUME TypeOK, NEW f \in Findings, SetStatus(f)
  PROVE  /\ TypeOK'
         /\ \A x \in Findings : /\ finding'[x].stored = finding[x].stored
                                /\ finding'[x].curated = finding[x].curated
<1>1. PICK status \in {"", "suppressed", "mentions_only"} :
        finding' = [finding EXCEPT ![f].status = status]
  BY DEF SetStatus
<1>2. /\ finding' \in [Findings -> Finding]
      /\ \A x \in Findings : /\ finding'[x].stored = finding[x].stored
                             /\ finding'[x].curated = finding[x].curated
  <2>1. finding \in [Findings -> Finding]
    BY DEF TypeOK
  <2>. QED BY ZenonT(60), <1>1, <2>1 DEF Finding
<1>3. acts' \in 0 .. MaxActs
  BY Bounds DEF SetStatus
<1>4. TypeOK'
  BY <1>2, <1>3 DEF SetStatus, TypeOK
<1>. QED BY <1>2, <1>4

LEMMA StoreKeeps ==
  ASSUME TypeOK, RunsRead, NEW r \in Runs, StoreWrite(r)
  PROVE  \A x \in Findings : /\ finding[x].stored => finding'[x].stored
                             /\ finding'[x].curated = finding[x].curated
<1> DEFINE f == run[r].finding
           link(t) == LET e == run[r].resolved[t] IN
                      IF e \in Entities \ Gone THEN e ELSE finding[f].linked[t]
           links == [t \in Texts |-> link(t)]
<1>1. f \in Findings
  BY DEF StoreWrite, RunsRead
<1>2. finding' = [finding EXCEPT ![f].stored = TRUE, ![f].linked = links]
  BY DEF StoreWrite
<1> HIDE DEF links
<1>3. finding \in [Findings -> Finding]
  BY DEF TypeOK
<1>. QED BY ZenonT(60), <1>1, <1>2, <1>3 DEF Finding

LEMMA PurgeTypes ==
  ASSUME TypeOK, NEW u \in Users, Purging(u)
  PROVE  /\ TypeOK'
         /\ \A f \in Findings :
              \/ finding'[f] = finding[f]
              \/ PurgeDelete(u) /\ finding'[f] = Blank /\ Uncurated(f) /\ ~Produced(f)
         /\ UNCHANGED <<run, decision, entity, obs, mentions, claims, curator, acts, changes,
                        cut, heir, relink, missed>>
<1> DEFINE Clean == [pc : {"idle", "detach", "orphans", "delete"}, ids : SUBSET Findings]
<1>1. purge \in [Users -> Clean] /\ finding \in [Findings -> Finding]
  BY DEF TypeOK
<1>2. UNCHANGED <<run, decision, entity, obs, mentions, claims, curator, acts, changes, cut,
                  heir, relink, missed>>
  BY DEF Purging, PurgeRead, PurgeDetach, PurgeOrphans, PurgeDelete
<1>3. CASE PurgeRead(u)
  <2>1. PICK denied \in SUBSET Findings :
          purge' = [purge EXCEPT ![u] = [pc |-> "detach", ids |-> {f \in denied : Uncurated(f)}]]
    BY <1>3 DEF PurgeRead
  <2>2. [pc |-> "detach", ids |-> {f \in denied : Uncurated(f)}] \in Clean
    OBVIOUS
  <2>3. purge' \in [Users -> Clean]
    BY <1>1, <2>1, <2>2
  <2>. QED BY <1>2, <1>3, <2>3 DEF PurgeRead, TypeOK
<1>4. CASE PurgeDetach(u)
  <2>1. edge' \in [Runs -> [Findings -> {"", "pending", "dismissed"}]]
    <3>1. edge \in [Runs -> [Findings -> {"", "pending", "dismissed"}]]
      BY DEF TypeOK
    <3>. QED BY <1>4, <3>1 DEF PurgeDetach
  <2>2. purge' \in [Users -> Clean]
    BY <1>1, <1>4 DEF PurgeDetach
  <2>. QED BY <1>2, <1>4, <2>1, <2>2 DEF PurgeDetach, TypeOK
<1>5. CASE PurgeOrphans(u)
  <2> DEFINE ids == {f \in purge[u].ids : Uncurated(f) /\ ~Produced(f)}
             new == [pc |-> IF ids = {} THEN "idle" ELSE "delete", ids |-> ids]
  <2>1. purge' = [purge EXCEPT ![u] = new]
    BY <1>1, <1>5 DEF PurgeOrphans
  <2>2. ids \subseteq Findings
    BY <1>1
  <2>3. new \in Clean
    BY <2>2
  <2>4. purge' \in [Users -> Clean]
    BY <1>1, <2>1, <2>3
  <2>. QED BY <1>2, <1>5, <2>4 DEF PurgeOrphans, TypeOK
<1>6. CASE PurgeDelete(u)
  <2>1. \A f \in Findings : finding'[f] =
          IF f \in purge[u].ids /\ Uncurated(f) /\ ~Produced(f) THEN Blank ELSE finding[f]
    BY <1>6 DEF PurgeDelete
  <2>2. finding' \in [Findings -> Finding]
    BY <1>1, <1>6, BlankType DEF PurgeDelete
  <2>3. purge' \in [Users -> Clean]
    BY <1>1, <1>6 DEF PurgeDelete
  <2>4. TypeOK'
    BY <1>2, <1>6, <2>2, <2>3 DEF PurgeDelete, TypeOK
  <2>. QED BY <1>2, <1>6, <2>1, <2>4
<1>. QED BY <1>3, <1>4, <1>5, <1>6 DEF Purging

(* A merge: who was merged is no longer live, what was observed as him is  *)
(* observed as the other, and he is replaced in every claim.               *)
Renamed(S, e, k) == IF e \in S THEN (S \ {e}) \cup {k} ELSE S

LEMMA MergeTypes ==
  ASSUME TypeOK, NEW e \in Entities, NEW k \in Entities, Merge(e, k)
  PROVE  /\ TypeOK'
         /\ Live(e) /\ Live(k) /\ e # k
         /\ \A x \in Entities : entity'[x].status = IF x = e THEN "merged" ELSE entity[x].status
         /\ \A x \in Entities : heir'[x] = IF heir[x] = e THEN k ELSE heir[x]
         /\ \A f \in Findings, p \in Compatible :
              \/ claims'[f][p] = NoClaim
              \/ /\ claims'[f][p].status = claims[f][p].status
                 /\ claims'[f][p].subject = Renamed(claims[f][p].subject, e, k)
                 /\ claims'[f][p].object = Renamed(claims[f][p].object, e, k)
         /\ \A f \in Findings, t \in Texts : obs[f][t].resolved # e => obs'[f][t] = obs[f][t]
         /\ \A m \in mentions : m[2] # e => m \in mentions'
         /\ UNCHANGED <<finding, edge, run, decision, curator, purge, acts, cut, relink, missed>>
<1> DEFINE moved(S) == IF e \in S THEN (S \ {e}) \cup {k} ELSE S
           renamed(c) == [c EXCEPT !.subject = moved(@), !.object = moved(@)]
           follow(c) == IF renamed(c).subject \cap renamed(c).object # {} THEN NoClaim
                        ELSE renamed(c)
           risen(n) == [entity[n] EXCEPT !.names = @ \cup entity[e].names,
                                         !.alias = @ \cup entity[e].alias]
           fallen == [entity[e] EXCEPT !.status = "merged", !.names = {}, !.alias = {}]
<1>1. /\ Live(e) /\ Live(k) /\ e # k /\ Change
      /\ UNCHANGED <<finding, edge, run, decision, curator, purge, acts, cut, relink, missed>>
  BY DEF Merge
<1>2. changes' \in 0 .. MaxChanges
  BY <1>1, Bounds
<1>3. /\ entity' \in [Entities -> Entity]
      /\ \A x \in Entities : entity'[x].status = IF x = e THEN "merged" ELSE entity[x].status
  <2>1. entity \in [Entities -> Entity]
    BY DEF TypeOK
  <2>2. entity' = [[entity EXCEPT ![e] = fallen] EXCEPT ![k] = risen(k)]
    BY <1>1, <2>1 DEF Merge
  <2>3. /\ fallen \in Entity /\ fallen.status = "merged"
        /\ risen(k) \in Entity /\ risen(k).status = entity[k].status
    BY <2>1 DEF Entity
  <2> HIDE DEF fallen, risen
  <2>. QED BY <1>1, <2>1, <2>2, <2>3
<1>4. /\ heir' \in [Entities -> Entities]
      /\ \A x \in Entities : heir'[x] = IF heir[x] = e THEN k ELSE heir[x]
  BY DEF Merge, TypeOK
<1>5. \A c \in Claim :
        /\ renamed(c) \in Claim /\ renamed(c).status = c.status
        /\ renamed(c).subject = Renamed(c.subject, e, k)
        /\ renamed(c).object = Renamed(c.object, e, k)
  BY DEF Claim, Renamed
<1>6. NoClaim \in Claim
  BY DEF NoClaim, Claim
<1>7. claims' = [f \in Findings |-> [p \in Compatible |-> follow(claims[f][p])]]
  BY DEF Merge
<1> HIDE DEF renamed
<1>8. /\ claims' \in [Findings -> [Compatible -> Claim]]
      /\ \A f \in Findings, p \in Compatible :
           claims'[f][p] = NoClaim \/ claims'[f][p] = renamed(claims[f][p])
  <2>1. \A f \in Findings, p \in Compatible : claims[f][p] \in Claim
    BY Fields
  <2>2. \A c \in Claim : follow(c) \in {NoClaim, renamed(c)} /\ follow(c) \in Claim
    BY <1>5, <1>6
  <2> HIDE DEF follow
  <2>. QED BY <1>7, <2>1, <2>2
<1>9. /\ obs' \in [Findings -> [Texts -> Observation]]
      /\ \A f \in Findings, t \in Texts : obs[f][t].resolved # e => obs'[f][t] = obs[f][t]
  <2>1. obs' = [f \in Findings |-> [t \in Texts |->
                  IF obs[f][t].resolved = e THEN [obs[f][t] EXCEPT !.resolved = k]
                  ELSE obs[f][t]]]
    BY DEF Merge
  <2>2. \A f \in Findings, t \in Texts : obs[f][t] \in Observation
    BY Fields
  <2>3. \A o \in Observation : [o EXCEPT !.resolved = k] \in Observation
    BY DEF Observation, EntityOrNone
  <2>. QED BY <2>1, <2>2, <2>3
<1>10. /\ mentions' \subseteq Docs \X Entities
       /\ \A m \in mentions : m[2] # e => m \in mentions'
  <2>1. mentions' = {IF m[2] = e THEN <<m[1], k>> ELSE m : m \in mentions}
    BY DEF Merge
  <2>2. mentions \subseteq Docs \X Entities
    BY DEF TypeOK
  <2>. QED BY <2>1, <2>2
<1>11. TypeOK'
  BY <1>1, <1>2, <1>3, <1>4, <1>8, <1>9, <1>10 DEF TypeOK
<1>12. \A f \in Findings, p \in Compatible :
         \/ claims'[f][p] = NoClaim
         \/ /\ claims'[f][p].status = claims[f][p].status
            /\ claims'[f][p].subject = Renamed(claims[f][p].subject, e, k)
            /\ claims'[f][p].object = Renamed(claims[f][p].object, e, k)
  <2>1. \A f \in Findings, p \in Compatible : claims[f][p] \in Claim
    BY Fields
  <2>. QED BY <1>5, <1>8, <2>1
<1>. QED BY <1>1, <1>3, <1>4, <1>9, <1>10, <1>11, <1>12

LEMMA DeleteTypes ==
  ASSUME TypeOK, NEW e \in Entities, DeleteEntity(e)
  PROVE  /\ TypeOK'
         /\ Live(e)
         /\ \A x \in Entities : entity'[x].status = IF x = e THEN "deleted" ELSE entity[x].status
         /\ \A f \in Findings : finding'[f].stored = finding[f].stored
         /\ \A f \in Findings, t \in Texts : finding'[f].curated[t] =
              IF finding[f].curated[t] = e THEN None ELSE finding[f].curated[t]
         /\ \A f \in Findings, p \in Compatible :
              \/ claims'[f][p] = NoClaim
              \/ /\ claims'[f][p] = claims[f][p]
                 /\ e \notin claims[f][p].subject \cup claims[f][p].object
         /\ \A f \in Findings, t \in Texts : obs[f][t].resolved # e => obs'[f][t] = obs[f][t]
         /\ \A m \in mentions : m[2] # e => m \in mentions'
         /\ UNCHANGED <<edge, run, decision, curator, purge, acts, cut, heir, relink, missed>>
<1> DEFINE without(g) == [t \in Texts |-> IF g[t] = e THEN None ELSE g[t]]
           new(f) == [finding[f] EXCEPT !.curated = without(@), !.linked = without(@)]
<1>1. /\ Live(e) /\ Change
      /\ UNCHANGED <<edge, run, decision, curator, purge, acts, cut, heir, relink, missed>>
  BY DEF DeleteEntity
<1>2. changes' \in 0 .. MaxChanges
  BY <1>1, Bounds
<1>3. /\ entity' \in [Entities -> Entity]
      /\ \A x \in Entities : entity'[x].status = IF x = e THEN "deleted" ELSE entity[x].status
  <2>1. entity \in [Entities -> Entity]
    BY DEF TypeOK
  <2>2. [status |-> "deleted", names |-> {}, alias |-> {}] \in Entity
    BY DEF Entity
  <2>. QED BY <2>1, <2>2 DEF DeleteEntity
<1>4. finding' = [f \in Findings |-> new(f)]
  BY DEF DeleteEntity
<1>5. \A f \in Findings : /\ new(f) \in Finding /\ new(f).stored = finding[f].stored
                          /\ new(f).curated = without(finding[f].curated)
  <2> SUFFICES ASSUME NEW f \in Findings
               PROVE  /\ new(f) \in Finding /\ new(f).stored = finding[f].stored
                      /\ new(f).curated = without(finding[f].curated)
    OBVIOUS
  <2>1. finding[f] \in Finding
    BY DEF TypeOK
  <2>2. \A g \in [Texts -> EntityOrNone] : without(g) \in [Texts -> EntityOrNone]
    BY DEF EntityOrNone
  <2>3. /\ without(finding[f].curated) \in [Texts -> EntityOrNone]
        /\ without(finding[f].linked) \in [Texts -> EntityOrNone]
    BY <2>1, <2>2 DEF Finding
  <2> HIDE DEF without
  <2>. QED BY <2>1, <2>3 DEF Finding
<1> HIDE DEF new
<1>6. /\ finding' \in [Findings -> Finding]
      /\ \A f \in Findings : finding'[f].stored = finding[f].stored
      /\ \A f \in Findings, t \in Texts : finding'[f].curated[t] =
           IF finding[f].curated[t] = e THEN None ELSE finding[f].curated[t]
  BY <1>4, <1>5
<1>7. /\ obs' \in [Findings -> [Texts -> Observation]]
      /\ \A f \in Findings, t \in Texts : obs[f][t].resolved # e => obs'[f][t] = obs[f][t]
  <2>1. obs' = [f \in Findings |-> [t \in Texts |->
                  IF obs[f][t].resolved = e
                  THEN [kind |-> "not_entity", target |-> None, resolved |-> None]
                  ELSE obs[f][t]]]
    BY DEF DeleteEntity
  <2>2. \A f \in Findings, t \in Texts : obs[f][t] \in Observation
    BY Fields
  <2>3. [kind |-> "not_entity", target |-> None, resolved |-> None] \in Observation
    BY DEF Observation, EntityOrNone
  <2>. QED BY <2>1, <2>2, <2>3
<1>8. NoClaim \in Claim
  BY DEF NoClaim, Claim
<1>9. /\ claims' \in [Findings -> [Compatible -> Claim]]
      /\ \A f \in Findings, p \in Compatible :
           \/ claims'[f][p] = NoClaim
           \/ /\ claims'[f][p] = claims[f][p]
              /\ e \notin claims[f][p].subject \cup claims[f][p].object
  <2>1. claims' = [f \in Findings |-> [p \in Compatible |->
                     IF e \in claims[f][p].subject \cup claims[f][p].object THEN NoClaim
                     ELSE claims[f][p]]]
    BY DEF DeleteEntity
  <2>2. \A f \in Findings, p \in Compatible : claims[f][p] \in Claim
    BY Fields
  <2>. QED BY <1>8, <2>1, <2>2
<1>10. /\ mentions' \subseteq Docs \X Entities
       /\ \A m \in mentions : m[2] # e => m \in mentions'
  BY DEF DeleteEntity, TypeOK
<1>11. TypeOK'
  BY <1>1, <1>2, <1>3, <1>6, <1>7, <1>9, <1>10 DEF TypeOK
<1>. QED BY <1>1, <1>3, <1>6, <1>7, <1>9, <1>10, <1>11

(* Linking again changes mentions and how far the document is linked.      *)
LEMMA RelinkTypes ==
  ASSUME TypeOK, NEW d \in Docs, Relinking(d)
  PROVE  /\ TypeOK'
         /\ UNCHANGED <<finding, edge, run, decision, entity, obs, claims, curator, purge, acts,
                        cut, heir, missed>>
<1>1. UNCHANGED <<finding, edge, run, decision, entity, obs, claims, curator, purge, acts, cut,
                  heir, missed>>
  BY DEF Relinking, RelinkClear, RelinkRead, RelinkLink, RelinkRestore, RelinkEnd, RelinkKilled
<1>2. /\ mentions \subseteq Docs \X Entities /\ relink \in [Docs -> Relink]
      /\ relink[d] \in Relink /\ changes \in 0 .. MaxChanges
  BY DEF TypeOK
<1>3. FoundIn[d] \subseteq Entities
  BY FindingsAssumption
<1>4. /\ mentions' \subseteq Docs \X Entities /\ relink' \in [Docs -> Relink]
      /\ changes' \in 0 .. MaxChanges
  <2>1. CASE RelinkClear(d)
    <3>1. PICK found \in SUBSET {e \in FoundIn[d] : Live(e)} :
            relink' = [relink EXCEPT ![d] = [pc |-> "cleared", found |-> found, restored |-> {}]]
      BY <2>1 DEF RelinkClear
    <3>2. [pc |-> "cleared", found |-> found, restored |-> {}] \in Relink
      BY <1>3 DEF Relink
    <3>3. changes' \in 0 .. MaxChanges
      BY <2>1, Bounds DEF RelinkClear
    <3>4. mentions' \subseteq mentions
      BY <2>1 DEF RelinkClear
    <3>. QED BY <1>2, <3>1, <3>2, <3>3, <3>4
  <2>2. CASE RelinkRead(d)
    <3> DEFINE targets == {e \in Entities : \E f \in Findings, t \in Texts :
                 DocOf[f] = d /\ obs[f][t].kind = "entity" /\ obs[f][t].target = e}
               new == [relink[d] EXCEPT !.pc = "linking", !.restored = targets]
    <3>1. targets \subseteq Entities
      OBVIOUS
    <3>2. relink' = [relink EXCEPT ![d].pc = "linking", ![d].restored = targets]
      BY <2>2 DEF RelinkRead
    <3> HIDE DEF targets
    <3>3. new \in Relink /\ relink' = [relink EXCEPT ![d] = new]
      BY <1>2, <3>1, <3>2 DEF Relink
    <3>4. UNCHANGED <<mentions, changes>>
      BY <2>2 DEF RelinkRead
    <3> HIDE DEF new
    <3>. QED BY <1>2, <3>3, <3>4
  <2>3. CASE RelinkLink(d)
    <3>1. PICK e \in relink[d].found :
            /\ relink' = [relink EXCEPT ![d].found = @ \ {e}]
            /\ mentions' = IF e \in Gone THEN mentions ELSE mentions \cup {<<d, e>>}
      BY <2>3 DEF RelinkLink
    <3>2. e \in Entities
      BY <1>2 DEF Relink
    <3> DEFINE new == [relink[d] EXCEPT !.found = @ \ {e}]
    <3>3. new \in Relink /\ relink' = [relink EXCEPT ![d] = new]
      BY <1>2, <3>1 DEF Relink
    <3>4. UNCHANGED changes
      BY <2>3 DEF RelinkLink
    <3> HIDE DEF new
    <3>. QED BY <1>2, <3>1, <3>2, <3>3, <3>4
  <2>4. CASE RelinkRestore(d)
    <3>1. PICK e \in relink[d].restored :
            /\ relink' = [relink EXCEPT ![d].restored = @ \ {e}]
            /\ mentions' = IF Live(e) THEN mentions \cup {<<d, e>>} ELSE mentions
      BY <2>4 DEF RelinkRestore
    <3>2. e \in Entities
      BY <1>2 DEF Relink
    <3> DEFINE new == [relink[d] EXCEPT !.restored = @ \ {e}]
    <3>3. new \in Relink /\ relink' = [relink EXCEPT ![d] = new]
      BY <1>2, <3>1 DEF Relink
    <3>4. UNCHANGED changes
      BY <2>4 DEF RelinkRestore
    <3> HIDE DEF new
    <3>. QED BY <1>2, <3>1, <3>2, <3>3, <3>4
  <2>5. CASE RelinkEnd(d)
    <3>1. Linked \in Relink
      BY DEF Linked, Relink
    <3>. QED BY <1>2, <2>5, <3>1 DEF RelinkEnd
  <2>6. CASE RelinkKilled(d)
    <3>1. [pc |-> "torn", found |-> {}, restored |-> {}] \in Relink
      BY DEF Relink
    <3>. QED BY <1>2, <2>6, <3>1 DEF RelinkKilled
  <2>. QED BY <2>1, <2>2, <2>3, <2>4, <2>5, <2>6 DEF Relinking
<1>5. TypeOK'
  BY <1>1, <1>4 DEF TypeOK
<1>. QED BY <1>1, <1>5

(* What a curated text of the document names is read before it is needed,  *)
(* and only a relink that is cut off leaves it out.                        *)
LEMMA RelinkKeeps ==
  ASSUME TypeOK, NEW d \in Docs, Relinking(d), NEW f \in Findings, NEW t \in Texts,
         NEW c \in Entities, Live(c), Kept(DocOf[f], c),
         obs[f][t] = [kind |-> "entity", target |-> c, resolved |-> c]
  PROVE  KeptOn(DocOf[f], c)
<1>0. DocOf[f] \in Docs /\ relink \in [Docs -> Relink] /\ relink[d] \in Relink
  BY FindingsAssumption DEF TypeOK
<1>1. CASE RelinkClear(d)
  <2>1. PICK found \in SUBSET {e \in FoundIn[d] : Live(e)} :
          relink' = [relink EXCEPT ![d] = [pc |-> "cleared", found |-> found, restored |-> {}]]
    BY <1>1 DEF RelinkClear
  <2>2. mentions' = {m \in mentions : m[1] # d}
    BY <1>1 DEF RelinkClear
  <2>. QED BY <1>0, <2>1, <2>2 DEF Kept, KeptOn
<1>2. CASE RelinkRead(d)
  <2> DEFINE targets == {e \in Entities : \E g \in Findings, x \in Texts :
               DocOf[g] = d /\ obs[g][x].kind = "entity" /\ obs[g][x].target = e}
  <2>1. DocOf[f] = d => c \in targets
    OBVIOUS
  <2>2. relink' = [relink EXCEPT ![d].pc = "linking", ![d].restored = targets] /\ UNCHANGED mentions
    BY <1>2 DEF RelinkRead
  <2> HIDE DEF targets
  <2>3. relink'[d].restored = targets /\ relink'[d].pc = "linking"
        /\ \A x \in Docs : x # d => relink'[x] = relink[x]
    BY <1>0, <2>2 DEF Relink
  <2>. QED BY <1>0, <2>1, <2>2, <2>3 DEF Kept, KeptOn
<1>3. CASE RelinkLink(d)
  <2>1. PICK e \in relink[d].found :
          /\ relink' = [relink EXCEPT ![d].found = @ \ {e}]
          /\ mentions' = IF e \in Gone THEN mentions ELSE mentions \cup {<<d, e>>}
    BY <1>3 DEF RelinkLink
  <2>2. mentions \subseteq mentions'
    BY <2>1
  <2>3. \A x \in Docs : relink'[x].pc = relink[x].pc /\ relink'[x].restored = relink[x].restored
    BY <1>0, <2>1 DEF Relink
  <2>. QED BY <1>0, <2>2, <2>3 DEF Kept, KeptOn
<1>4. CASE RelinkRestore(d)
  <2>1. PICK e \in relink[d].restored :
          /\ relink' = [relink EXCEPT ![d].restored = @ \ {e}]
          /\ mentions' = IF Live(e) THEN mentions \cup {<<d, e>>} ELSE mentions
    BY <1>4 DEF RelinkRestore
  <2>2. mentions \subseteq mentions' /\ (e = c => <<d, c>> \in mentions')
    BY <2>1
  <2>3. /\ \A x \in Docs : relink'[x].pc = relink[x].pc
        /\ \A x \in Docs : x # d => relink'[x] = relink[x]
        /\ relink'[d].restored = relink[d].restored \ {e}
    BY <1>0, <2>1 DEF Relink
  <2>4. CASE DocOf[f] = d
    BY <2>2, <2>3, <2>4 DEF Kept, KeptOn
  <2>5. CASE DocOf[f] # d
    BY <1>0, <2>2, <2>3, <2>5 DEF Kept, KeptOn
  <2>. QED BY <2>4, <2>5
<1>5. CASE RelinkEnd(d)
  <2>1. /\ relink[d].pc = "linking" /\ relink[d].restored = {}
        /\ relink' = [relink EXCEPT ![d] = Linked] /\ UNCHANGED mentions
    BY <1>5 DEF RelinkEnd
  <2>2. relink'[d] = Linked /\ \A x \in Docs : x # d => relink'[x] = relink[x]
    BY <1>0, <2>1
  <2>3. CASE DocOf[f] = d
    BY <2>1, <2>2, <2>3 DEF Kept, KeptOn, Linked
  <2>4. CASE DocOf[f] # d
    BY <1>0, <2>1, <2>2, <2>4 DEF Kept, KeptOn
  <2>. QED BY <2>3, <2>4
<1>6. CASE RelinkKilled(d)
  BY <1>0, <1>6 DEF RelinkKilled, Kept, KeptOn
<1>. QED BY <1>1, <1>2, <1>3, <1>4, <1>5, <1>6 DEF Relinking

-----------------------------------------------------------------------------
(* What keeps the parts of the invariant.                                  *)

LEMMA CuratorWaits ==
  ASSUME TypeOK, CuratorBusy, TargetReady, CuratorKnows, UNCHANGED <<curator, missed>>,
         \A f \in Findings, t \in Texts :
           finding'[f].curated[t] \in {None, finding[f].curated[t]},
         \A e \in Entities : entity'[e].status = "unused" <=> entity[e].status = "unused"
  PROVE  TargetReady' /\ CuratorKnows'
<1>1. TargetReady'
  BY DEF TargetReady, Me
<1>2. CuratorKnows'
  <2>1. CASE curator.pc # "idle"
    <3>1. curator.finding \in Findings /\ Me.text \in Texts
      BY <2>1, MyTask
    <3>. QED BY <3>1 DEF CuratorKnows, Me
  <2>2. CASE curator.pc = "idle"
    BY <2>2 DEF CuratorKnows
  <2>. QED BY <2>1, <2>2
<1>. QED BY <1>1, <1>2

LEMMA AnchoredKept ==
  ASSUME NEW f \in Findings, NEW S \in SUBSET Entities, NEW T, S \subseteq T,
         Curated(f) \subseteq Curated(f)',
         \A e \in Entities : Live(e) => Live(e)',
         UNCHANGED heir, Anchored(f, S)
  PROVE  \E e \in T : \/ e \in Curated(f)'
                      \/ Live(e)' /\ \E c \in Curated(f)' : heir'[c] = e
BY DEF Anchored

LEMMA CuratedGrows ==
  ASSUME NEW f \in Findings,
         \A t \in Texts : finding[f].curated[t] # None =>
           finding'[f].curated[t] = finding[f].curated[t]
  PROVE  Curated(f) \subseteq Curated(f)'
BY DEF Curated

LEMMA LiveKept ==
  ASSUME \A e \in Entities : entity[e].status = "live" => entity'[e].status = "live"
  PROVE  \A e \in Entities : Live(e) => Live(e)'
BY DEF Live

(* Claims that stood before, or are not there, and texts that keep what    *)
(* they name.                                                              *)
LEMMA StandingKept ==
  ASSUME TypeOK, Standing,
         \A f \in Findings, t \in Texts : finding[f].curated[t] # None =>
           finding'[f].curated[t] = finding[f].curated[t] \/ BeforeReview(f)',
         \A e \in Entities : entity[e].status = "live" => entity'[e].status = "live",
         UNCHANGED heir,
         \A f \in Findings, p \in Compatible :
           /\ claims[f][p].subject \subseteq claims'[f][p].subject
           /\ claims[f][p].object \subseteq claims'[f][p].object
           /\ Stands(f, p)' =>
                \/ Stands(f, p)
                \/ /\ \E e \in claims'[f][p].subject : e \in Curated(f)
                   /\ \E e \in claims'[f][p].object : e \in Curated(f)
  PROVE  Standing'
<1> SUFFICES ASSUME NEW f \in Findings, NEW p \in Compatible, Stands(f, p)'
             PROVE  /\ Anchored(f, claims[f][p].subject)'
                    /\ Anchored(f, claims[f][p].object)'
  BY DEF Standing
<1>1. ~BeforeReview(f)'
  BY DEF Stands
<1>2. Curated(f) \subseteq Curated(f)'
  BY <1>1, CuratedGrows
<1>3. \A e \in Entities : Live(e) => Live(e)'
  BY LiveKept
<1>4. claims[f][p].subject \in SUBSET Entities /\ claims[f][p].object \in SUBSET Entities
  BY Fields
<1>5. CASE Stands(f, p)
  <2>1. Anchored(f, claims[f][p].subject) /\ Anchored(f, claims[f][p].object)
    BY <1>5 DEF Standing
  <2>2. \E e \in claims'[f][p].subject :
          e \in Curated(f)' \/ (Live(e)' /\ \E c \in Curated(f)' : heir'[c] = e)
    BY <1>2, <1>3, <1>4, <2>1, AnchoredKept
  <2>3. \E e \in claims'[f][p].object :
          e \in Curated(f)' \/ (Live(e)' /\ \E c \in Curated(f)' : heir'[c] = e)
    BY <1>2, <1>3, <1>4, <2>1, AnchoredKept
  <2>. QED BY <2>2, <2>3 DEF Anchored
<1>6. CASE ~Stands(f, p)
  BY <1>2, <1>6 DEF Anchored
<1>. QED BY <1>5, <1>6

LEMMA KeptStays ==
  ASSUME NEW d, NEW c, UNCHANGED relink, Kept(d, c),
         <<d, c>> \in mentions => <<d, c>> \in mentions'
  PROVE  KeptOn(d, c)
BY DEF Kept, KeptOn

LEMMA ObservedKept ==
  ASSUME TypeOK, Observed, missed \subseteq missed',
         \A f \in Findings, t \in Texts :
           finding'[f].curated[t] \in {None, finding[f].curated[t]},
         \A e \in Entities :
           /\ entity'[e].status = "unused" => entity[e].status = "unused"
           /\ entity'[e].status = "live" => entity[e].status \in {"live", "unused"},
         \A f \in Findings, t \in Texts :
           LET c == finding[f].curated[t] IN
           c # None /\ finding'[f].curated[t] = c /\ Live(c) /\ entity'[c].status = "live" =>
             /\ obs'[f][t] = obs[f][t]
             /\ <<f, t>> \notin missed' /\ Kept(DocOf[f], c) => KeptOn(DocOf[f], c)
  PROVE  Observed'
<1> SUFFICES ASSUME NEW f \in Findings, NEW t \in Texts, NEW c,
                    c = finding'[f].curated[t], c # None
             PROVE  /\ entity'[c].status # "unused"
                    /\ (c \in Entities /\ entity'[c].status = "live") =>
                         /\ obs'[f][t] = [kind |-> "entity", target |-> c, resolved |-> c]
                         /\ <<f, t>> \notin missed' => KeptOn(DocOf[f], c)
  BY DEF Observed, Live, Kept, KeptOn
<1>1. c = finding[f].curated[t]
  OBVIOUS
<1>2. c \in Entities
  <2>1. finding[f].curated \in [Texts -> EntityOrNone]
    BY Fields
  <2>. QED BY <1>1, <2>1 DEF EntityOrNone
<1>3. /\ entity[c].status # "unused"
      /\ Live(c) => /\ obs[f][t] = [kind |-> "entity", target |-> c, resolved |-> c]
                    /\ <<f, t>> \notin missed => Kept(DocOf[f], c)
  BY <1>1 DEF Observed
<1>4. entity'[c].status # "unused"
  BY <1>2, <1>3
<1>5. ASSUME entity'[c].status = "live"
      PROVE  /\ obs'[f][t] = [kind |-> "entity", target |-> c, resolved |-> c]
             /\ <<f, t>> \notin missed' => KeptOn(DocOf[f], c)
  <2>1. entity[c].status = "live"
    BY <1>2, <1>3, <1>5
  <2>2. Live(c) /\ (c \in Entities /\ entity'[c].status = "live")
    BY <1>2, <1>5, <2>1 DEF Live
  <2>3. /\ obs'[f][t] = obs[f][t]
        /\ <<f, t>> \notin missed' /\ Kept(DocOf[f], c) => KeptOn(DocOf[f], c)
    BY ZenonT(60), <1>1, <2>2
  <2>. QED BY <1>3, <2>2, <2>3
<1>. QED BY <1>4, <1>5

(* Steps that change nothing but what a finding is stored as.              *)
LEMMA NothingMoved ==
  ASSUME FindingsInv,
         \A f \in Findings, t \in Texts : finding'[f].curated[t] = finding[f].curated[t],
         UNCHANGED <<entity, obs, mentions, claims, curator, cut, heir, relink, missed>>
  PROVE  /\ TargetReady' /\ CuratorKnows' /\ Observed' /\ Heirs' /\ EndsMeet' /\ Standing'
<1> USE DEF FindingsInv
<1>1. TargetReady' /\ CuratorKnows'
  BY CuratorWaits
<1>2. Observed'
  BY DEF Observed, Live, Kept
<1>3. Heirs' /\ EndsMeet'
  BY DEF Heirs, EndsMeet
<1>4. \A f \in Findings, p \in Compatible : Stands(f, p)' => Stands(f, p)
  BY DEF Stands, BeforeReview, Replaced, Me
<1>5. Standing'
  BY <1>4, StandingKept
<1>. QED BY <1>1, <1>2, <1>3, <1>5

-----------------------------------------------------------------------------
(* One lemma for each kind of step.                                        *)

Rest == /\ TargetReady /\ CuratorKnows /\ Untouched
        /\ Observed /\ Heirs /\ EndsMeet /\ Standing

LEMMA BeginInv ==
  ASSUME FindingsInv, NEW f \in Findings, CurateEntity(f) \/ AcceptDefaults(f)
  PROVE  Rest'
<1> USE DEF FindingsInv
<1>1. PICK task \in Task, todo \in SUBSET Task :
        /\ Begin(f, task, todo)
        /\ task.target \in Entities =>
             (entity[task.target].status = "unused" <=> task.action = "create")
  BY BeginTypes
<1>2. /\ UNCHANGED <<finding, entity, obs, mentions, claims, cut, heir, relink, missed>>
      /\ curator.pc = "idle"
  BY DEF CurateEntity, AcceptDefaults
<1>3. /\ curator'.pc = "form" /\ curator'.finding = f /\ curator'.task = task
      /\ curator'.old = finding[f].curated[task.text]
  BY <1>1 DEF Begin
<1>4. TargetReady' /\ CuratorKnows'
  BY <1>1, <1>2, <1>3 DEF TargetReady, CuratorKnows, Me
<1>5. Untouched' /\ Observed' /\ Heirs' /\ EndsMeet'
  BY <1>2 DEF Untouched, Observed, Live, Kept, Heirs, EndsMeet
<1>6. \A g \in Findings, p \in Compatible : Stands(g, p)' => Stands(g, p)
  BY <1>2 DEF Stands, BeforeReview
<1>7. Standing'
  BY <1>2, <1>6, StandingKept
<1>. QED BY <1>4, <1>5, <1>7 DEF Rest

LEMMA SettleInv ==
  ASSUME FindingsInv, SettleForm PROVE Rest'
<1> USE DEF FindingsInv
<1>1. /\ \A e \in Entities : entity'[e].status =
           IF e = Me.target /\ Me.action = "create" THEN "live" ELSE entity[e].status
      /\ curator' = Idle \/ Go("write")
      /\ UNCHANGED <<finding, obs, mentions, claims, cut, heir, relink, missed>>
  BY SettleTypes
<1>2. curator.pc = "form"
  BY DEF SettleForm
<1>3. \/ curator' = Idle
      \/ /\ curator'.pc = "write" /\ curator'.finding = curator.finding
         /\ curator'.task = curator.task /\ curator'.old = curator.old
  BY <1>1, GoType
<1>4. Me.target \in Entities => (entity[Me.target].status = "unused" <=> Me.action = "create")
  BY <1>2 DEF TargetReady
<1>5. TargetReady'
  BY <1>1, <1>3, <1>4 DEF TargetReady, Me, Idle
<1>6. CuratorKnows'
  BY <1>1, <1>2, <1>3 DEF CuratorKnows, Me, Idle
<1>7. Untouched' /\ EndsMeet'
  BY <1>1 DEF Untouched, EndsMeet
<1>8. \A e \in Entities :
        /\ entity'[e].status = "unused" => entity[e].status = "unused"
        /\ entity'[e].status = "live" => entity[e].status \in {"live", "unused"}
        /\ entity[e].status = "live" => entity'[e].status = "live"
  BY <1>1, <1>4
<1>9. Observed'
  BY <1>1, <1>8, KeptStays, ObservedKept
<1>10. Heirs'
  BY <1>1, <1>8 DEF Heirs
<1>11. \A f \in Findings, p \in Compatible : Stands(f, p)' => Stands(f, p)
  BY <1>1, <1>2, <1>3 DEF Stands, BeforeReview, Idle
<1>12. Standing'
  BY <1>1, <1>8, <1>11, StandingKept
<1>. QED BY <1>5, <1>6, <1>7, <1>9, <1>10, <1>12 DEF Rest

(* The write: a text that had been decided otherwise is replaced only      *)
(* while the claims of the finding are still to be reviewed.               *)
LEMMA WriteInv ==
  ASSUME FindingsInv, WriteCuration PROVE Rest'
<1> USE DEF FindingsInv
<1>1. curator.pc = "write"
  BY DEF WriteCuration
<1>2. /\ curator.finding \in Findings /\ Me.text \in Texts /\ Me.target \in EntityOrNone
      /\ Me.action # "suppress" => Me.target \in Entities
      /\ Me.action = "suppress" <=> Me.target = None
  BY <1>1, MyTask DEF CuratorBusy
<1>3. /\ Go("decide")
      /\ UNCHANGED <<entity, claims, cut, heir, relink>>
      /\ ~Matches => /\ UNCHANGED <<finding, obs, mentions>>
                     /\ missed \subseteq missed'
                     /\ Me.target \in Gone => <<curator.finding, Me.text>> \in missed'
  BY WriteTypes
<1>4. Matches =>
        \A f \in Findings, t \in Texts :
          /\ finding'[f].stored = finding[f].stored
          /\ finding'[f].curated[t] =
               IF f = curator.finding /\ t = Me.text THEN Me.target ELSE finding[f].curated[t]
          /\ obs'[f][t] = IF f # curator.finding \/ t # Me.text THEN obs[f][t]
               ELSE IF Me.action = "suppress"
               THEN [kind |-> "not_entity", target |-> obs[f][t].target, resolved |-> None]
               ELSE [kind |-> "entity", target |-> Me.target, resolved |-> Me.target]
  BY WriteTypes
<1>5. Matches =>
        /\ mentions' = IF Me.action = "suppress" THEN mentions
                       ELSE mentions \cup {<<DocOf[curator.finding], Me.target>>}
        /\ missed' = missed \ {<<curator.finding, Me.text>>}
  BY WriteTypes
<1>6. /\ curator'.pc = "decide" /\ curator'.finding = curator.finding
      /\ curator'.task = curator.task /\ curator'.old = curator.old
  BY <1>3, GoType
<1>7. finding[curator.finding].curated[Me.text] \in {None, curator.old}
  BY <1>1 DEF CuratorKnows
<1>8. Me.target \in Entities => entity[Me.target].status # "unused"
  BY <1>1 DEF TargetReady
<1>9. TargetReady'
  BY <1>3, <1>6, <1>8 DEF TargetReady, Me
<1>10. CuratorKnows'
  <2>1. CASE Matches
    <3>1. finding'[curator.finding].curated[Me.text] = Me.target
      BY <1>2, <1>4, <2>1
    <3>. QED BY <3>1, <1>6 DEF CuratorKnows, Me
  <2>2. CASE ~Matches
    <3>1. \/ finding'[curator.finding].curated[Me.text] = None
          \/ <<curator.finding, Me.text>> \in missed'
      BY <1>2, <1>3, <2>2 DEF Untouched, Matches
    <3>. QED BY <3>1, <1>6 DEF CuratorKnows, Me
  <2>. QED BY <2>1, <2>2
<1>11. Untouched'
  <2>1. CASE Matches
    <3> SUFFICES ASSUME NEW f \in Findings, ~finding'[f].stored, NEW t \in Texts
                 PROVE  finding'[f].curated[t] = None
      BY DEF Untouched
    <3>1. finding'[f].stored = finding[f].stored
      BY <1>4, <2>1
    <3>2. f # curator.finding
      BY <2>1, <3>1 DEF Matches
    <3>3. finding'[f].curated[t] = finding[f].curated[t]
      BY <1>4, <2>1, <3>2
    <3>. QED BY <3>1, <3>3 DEF Untouched
  <2>2. CASE ~Matches
    BY <1>3, <2>2 DEF Untouched
  <2>. QED BY <2>1, <2>2
<1>12. Observed'
  <2>1. CASE Matches
    <3> SUFFICES ASSUME NEW f \in Findings, NEW t \in Texts, NEW c,
                        c = finding'[f].curated[t], c # None
                 PROVE  /\ entity'[c].status # "unused"
                        /\ (c \in Entities /\ entity'[c].status = "live") =>
                             /\ obs'[f][t] = [kind |-> "entity", target |-> c, resolved |-> c]
                             /\ <<f, t>> \notin missed' => KeptOn(DocOf[f], c)
      BY DEF Observed, Live, Kept, KeptOn
    <3>1. CASE f = curator.finding /\ t = Me.text
      <4>1. c = Me.target
        BY <1>4, <2>1, <3>1
      <4>2. Me.action # "suppress" /\ c \in Entities
        BY <1>2, <4>1
      <4>3. obs'[f][t] = [kind |-> "entity", target |-> c, resolved |-> c]
        BY <1>4, <2>1, <3>1, <4>1, <4>2
      <4>4. <<DocOf[f], c>> \in mentions'
        BY <1>5, <2>1, <3>1, <4>1, <4>2
      <4>5. KeptOn(DocOf[f], c)
        BY <4>4 DEF KeptOn
      <4>. QED BY <1>3, <1>8, <4>1, <4>2, <4>3, <4>5
    <3>2. CASE ~(f = curator.finding /\ t = Me.text)
      <4>1. c = finding[f].curated[t] /\ obs'[f][t] = obs[f][t]
        BY <1>4, <2>1, <3>2
      <4>2. mentions \subseteq mentions'
        BY <1>5, <2>1
      <4>3. <<f, t>> \notin missed' => <<f, t>> \notin missed
        BY <1>5, <2>1, <3>2
      <4>4. Kept(DocOf[f], c) => KeptOn(DocOf[f], c)
        BY <1>3, <4>2, KeptStays
      <4>. QED BY <1>3, <4>1, <4>3, <4>4 DEF Observed, Live
    <3>. QED BY <3>1, <3>2
  <2>2. CASE ~Matches
    BY <1>3, <2>2 DEF Observed, Live, Kept
  <2>. QED BY <2>1, <2>2
<1>13. Heirs' /\ EndsMeet'
  BY <1>3 DEF Heirs, EndsMeet
<1>14. \A f \in Findings, p \in Compatible : Stands(f, p)' => Stands(f, p)
  BY <1>1, <1>3 DEF Stands, BeforeReview
<1>15. \A f \in Findings, t \in Texts : finding[f].curated[t] # None =>
         finding'[f].curated[t] = finding[f].curated[t] \/ BeforeReview(f)'
  <2> SUFFICES ASSUME NEW f \in Findings, NEW t \in Texts, finding[f].curated[t] # None,
                      finding'[f].curated[t] # finding[f].curated[t]
               PROVE  BeforeReview(f)'
    OBVIOUS
  <2>1. Matches
    BY <1>3
  <2>2. /\ f = curator.finding /\ t = Me.text /\ finding'[f].curated[t] = Me.target
    BY ZenonT(60), <1>4, <2>1
  <2>3. curator.old # None /\ curator.old # Me.target
    BY <1>7, <2>2
  <2>. QED BY <1>6, <2>2, <2>3 DEF BeforeReview, Replaced, Me
<1>16. Standing'
  BY <1>3, <1>14, <1>15, StandingKept
<1>. QED BY <1>9, <1>10, <1>11, <1>12, <1>13, <1>16 DEF Rest

LEMMA DecideInv ==
  ASSUME FindingsInv, Decide PROVE Rest'
<1> USE DEF FindingsInv
<1>1. /\ \A e \in Entities : entity'[e].status = entity[e].status
      /\ Go("review")
      /\ UNCHANGED <<finding, obs, mentions, claims, cut, heir, relink, missed>>
  BY DecideTypes
<1>2. curator.pc = "decide"
  BY DEF Decide
<1>3. /\ curator'.pc = "review" /\ curator'.finding = curator.finding
      /\ curator'.task = curator.task /\ curator'.old = curator.old
  BY <1>1, GoType
<1>4. TargetReady'
  BY <1>1, <1>2, <1>3 DEF TargetReady, Me
<1>5. CuratorKnows'
  BY <1>1, <1>2, <1>3 DEF CuratorKnows, Me
<1>6. Untouched' /\ EndsMeet' /\ Heirs'
  BY <1>1 DEF Untouched, EndsMeet, Heirs
<1>7. \A e \in Entities :
        /\ entity'[e].status = "unused" => entity[e].status = "unused"
        /\ entity'[e].status = "live" => entity[e].status \in {"live", "unused"}
        /\ entity[e].status = "live" => entity'[e].status = "live"
  BY <1>1
<1>8. Observed'
  BY <1>1, <1>7, KeptStays, ObservedKept
<1>9. \A f \in Findings, p \in Compatible : Stands(f, p)' => Stands(f, p)
  BY <1>1, <1>2, <1>3 DEF Stands, BeforeReview, Replaced, Me
<1>10. Standing'
  BY <1>1, <1>7, <1>9, StandingKept
<1>. QED BY <1>4, <1>5, <1>6, <1>8, <1>10 DEF Rest

LEMMA MarkInv ==
  ASSUME FindingsInv, MarkForReview PROVE Rest'
<1> USE DEF FindingsInv
<1>1. /\ \A f \in Findings, p \in Compatible :
           /\ claims'[f][p].subject = claims[f][p].subject
           /\ claims'[f][p].object = claims[f][p].object
           /\ claims'[f][p].status = "manual_claim" =>
                claims[f][p].status = "manual_claim" /\ ~(Replaced /\ f = curator.finding)
      /\ Go("mention")
      /\ UNCHANGED <<finding, entity, obs, mentions, cut, heir, relink, missed>>
  BY MarkTypes
<1>2. curator.pc = "review"
  BY DEF MarkForReview
<1>3. /\ curator'.pc = "mention" /\ curator'.finding = curator.finding
      /\ curator'.task = curator.task /\ curator'.old = curator.old
  BY <1>1, GoType
<1>4. TargetReady'
  BY <1>1, <1>2, <1>3 DEF TargetReady, Me
<1>5. CuratorKnows'
  BY <1>1, <1>2, <1>3 DEF CuratorKnows, Me
<1>6. Untouched' /\ Observed' /\ Heirs'
  BY <1>1 DEF Untouched, Observed, Live, Kept, Heirs
<1>7. EndsMeet'
  BY <1>1 DEF EndsMeet
<1>8. \A f \in Findings, p \in Compatible : Stands(f, p)' => Stands(f, p)
  BY <1>1 DEF Stands, BeforeReview
<1>9. Standing'
  BY <1>1, <1>8, StandingKept
<1>. QED BY <1>4, <1>5, <1>6, <1>7, <1>9 DEF Rest

(* The mention that goes is not that of a text which was curated to it:    *)
(* that text has been observed as this entity, and supports the mention.   *)
LEMMA CleanupInv ==
  ASSUME FindingsInv, CleanupMention PROVE Rest'
<1> USE DEF FindingsInv
<1> DEFINE d == DocOf[curator.finding]
           supported == \E f \in Findings, t \in Texts :
                          /\ DocOf[f] = d /\ <<f, t>> # <<curator.finding, Me.text>>
                          /\ obs[f][t].resolved = curator.old /\ obs[f][t].kind # "not_entity"
<1>1. /\ curator.pc = "mention"
      /\ mentions' = IF Replaced /\ ~supported THEN mentions \ {<<d, curator.old>>} ELSE mentions
      /\ UNCHANGED <<finding, entity, obs, claims, cut, heir, relink, missed>>
  BY DEF CleanupMention
<1>2. /\ curator.finding \in Findings /\ Me.text \in Texts
      /\ \/ finding[curator.finding].curated[Me.text] \in {None, Me.target}
         \/ <<curator.finding, Me.text>> \in missed
  BY <1>1, MyTask DEF CuratorKnows
<1>3. \/ curator' = Idle
      \/ \E task \in Task, todo \in SUBSET Task :
           /\ Begin(curator.finding, task, todo)
           /\ Live(task.target) /\ task.action # "create"
  BY CleanupTypes
<1>4. /\ TargetReady' /\ CuratorKnows'
      /\ curator'.pc \in {"idle", "form"}
  <2>1. CASE curator' = Idle
    BY <2>1 DEF Idle, TargetReady, CuratorKnows
  <2>2. CASE curator' # Idle
    <3>1. PICK task \in Task, todo \in SUBSET Task :
            /\ Begin(curator.finding, task, todo)
            /\ Live(task.target) /\ task.action # "create"
      BY <1>3, <2>2
    <3>2. /\ curator'.pc = "form" /\ curator'.finding = curator.finding
          /\ curator'.task = task /\ curator'.old = finding[curator.finding].curated[task.text]
      BY <3>1 DEF Begin
    <3>. QED BY <1>1, <3>1, <3>2 DEF TargetReady, CuratorKnows, Me, Live
  <2>. QED BY <2>1, <2>2
<1>5. Untouched' /\ Heirs' /\ EndsMeet'
  BY <1>1 DEF Untouched, Heirs, EndsMeet
<1>6. \A f \in Findings, t \in Texts, c \in Entities :
        /\ <<f, t>> \notin missed
        /\ c = finding[f].curated[t] /\ Live(c) /\ <<DocOf[f], c>> \in mentions
        => <<DocOf[f], c>> \in mentions'
  <2> SUFFICES ASSUME NEW f \in Findings, NEW t \in Texts, NEW c \in Entities,
                      <<f, t>> \notin missed,
                      c = finding[f].curated[t], Live(c), <<DocOf[f], c>> \in mentions,
                      <<DocOf[f], c>> \notin mentions'
               PROVE  FALSE
    OBVIOUS
  <2>1. Replaced /\ ~supported /\ DocOf[f] = d /\ c = curator.old
    BY <1>1
  <2>2. c # None /\ c # Me.target
    BY <2>1 DEF Replaced
  <2>3. obs[f][t] = [kind |-> "entity", target |-> c, resolved |-> c]
    BY <2>2 DEF Observed
  <2>4. <<f, t>> # <<curator.finding, Me.text>>
    BY <1>2, <2>2
  <2>. QED BY <2>1, <2>3, <2>4
<1>7. Observed'
  <2>1. \A f \in Findings, t \in Texts : finding[f].curated[t] \in EntityOrNone
    BY Fields
  <2>2. \A f \in Findings, t \in Texts :
          LET c == finding[f].curated[t] IN
          c # None /\ finding'[f].curated[t] = c /\ Live(c) /\ entity'[c].status = "live" =>
            /\ obs'[f][t] = obs[f][t]
            /\ <<f, t>> \notin missed' /\ Kept(DocOf[f], c) => KeptOn(DocOf[f], c)
    BY <1>1, <1>6, <2>1, KeptStays DEF EntityOrNone
  <2>. QED BY <1>1, <2>2, ObservedKept
<1>8. \A f \in Findings, p \in Compatible : Stands(f, p)' => Stands(f, p)
  BY <1>1 DEF Stands, BeforeReview
<1>9. Standing'
  BY <1>1, <1>8, StandingKept
<1>. QED BY <1>4, <1>5, <1>7, <1>9 DEF Rest

LEMMA CutInv ==
  ASSUME FindingsInv, CutOff PROVE Rest'
<1> USE DEF FindingsInv
<1>1. /\ curator' = Idle
      /\ cut' = IF curator.pc \in {"decide", "review", "mention"}
                THEN cut \cup {curator.finding} ELSE cut
      /\ UNCHANGED <<finding, entity, obs, mentions, claims, heir, relink, missed>>
  BY CutTypes
<1>2. TargetReady' /\ CuratorKnows'
  BY <1>1 DEF Idle, TargetReady, CuratorKnows
<1>3. Untouched' /\ Observed' /\ Heirs' /\ EndsMeet'
  BY <1>1 DEF Untouched, Observed, Live, Kept, Heirs, EndsMeet
<1>4. \A f \in Findings, p \in Compatible : Stands(f, p)' => Stands(f, p)
  BY <1>1 DEF Stands, BeforeReview
<1>5. Standing'
  BY <1>1, <1>4, StandingKept
<1>. QED BY <1>2, <1>3, <1>5 DEF Rest

LEMMA CreateInv ==
  ASSUME FindingsInv, NEW f \in Findings, NEW p \in Compatible, CreateClaim(f, p)
  PROVE  Rest'
<1> USE DEF FindingsInv
<1>1. /\ {p[1], p[2]} \subseteq Curated(f)
      /\ \A x \in Findings, q \in Compatible :
           IF x = f /\ q = p
           THEN /\ claims'[x][q].subject = claims[x][q].subject \cup {p[1]}
                /\ claims'[x][q].object = claims[x][q].object \cup {p[2]}
           ELSE claims'[x][q] = claims[x][q]
      /\ \A x \in Findings : /\ finding'[x].stored = finding[x].stored
                             /\ finding'[x].curated = finding[x].curated
      /\ UNCHANGED <<entity, obs, mentions, curator, cut, heir, relink, missed>>
  BY CreateTypes
<1>2. TargetReady' /\ CuratorKnows'
  BY <1>1, CuratorWaits
<1>3. Untouched' /\ Heirs'
  BY <1>1 DEF Untouched, Heirs
<1>4. Observed'
  BY <1>1 DEF Observed, Live, Kept
<1>5. EndsMeet'
  <2> SUFFICES ASSUME NEW x \in Findings, NEW q \in Compatible
               PROVE  /\ \A e \in claims'[x][q].subject : heir[e] = heir[q[1]]
                      /\ \A e \in claims'[x][q].object : heir[e] = heir[q[2]]
    BY <1>1 DEF EndsMeet
  <2>. QED BY <1>1 DEF EndsMeet
<1>6. \A x \in Findings, q \in Compatible :
        /\ claims[x][q].subject \subseteq claims'[x][q].subject
        /\ claims[x][q].object \subseteq claims'[x][q].object
  BY <1>1
<1>7. \A x \in Findings, q \in Compatible : Stands(x, q)' =>
        \/ Stands(x, q)
        \/ /\ \E e \in claims'[x][q].subject : e \in Curated(x)
           /\ \E e \in claims'[x][q].object : e \in Curated(x)
  <2> SUFFICES ASSUME NEW x \in Findings, NEW q \in Compatible, Stands(x, q)', ~(x = f /\ q = p)
               PROVE  Stands(x, q)
    BY <1>1
  <2>1. claims'[x][q] = claims[x][q]
    BY <1>1
  <2>. QED BY <1>1, <2>1 DEF Stands, BeforeReview, Replaced, Me
<1>8. Standing'
  BY <1>1, <1>6, <1>7, StandingKept
<1>. QED BY <1>2, <1>3, <1>4, <1>5, <1>8 DEF Rest

LEMMA ReviewInv ==
  ASSUME FindingsInv, NEW f \in Findings, NEW p \in Compatible, ReviewClaim(f, p)
  PROVE  Rest'
<1> USE DEF FindingsInv
<1>1. /\ \A x \in Findings, q \in Compatible :
           /\ claims'[x][q].subject = claims[x][q].subject
           /\ claims'[x][q].object = claims[x][q].object
           /\ claims'[x][q].status = claims[x][q].status \/ (x = f /\ q = p)
      /\ claims'[f][p].status = "manual_claim" =>
           \E s \in claims[f][p].subject, o \in claims[f][p].object : {s, o} \subseteq Curated(f)
      /\ UNCHANGED <<finding, entity, obs, mentions, curator, cut, heir, relink, missed>>
  BY ReviewTypes
<1>2. TargetReady' /\ CuratorKnows'
  BY <1>1, CuratorWaits
<1>3. Untouched' /\ Heirs' /\ Observed'
  BY <1>1 DEF Untouched, Heirs, Observed, Live, Kept
<1>4. EndsMeet'
  BY <1>1 DEF EndsMeet
<1>5. \A x \in Findings, q \in Compatible : Stands(x, q)' =>
        \/ Stands(x, q)
        \/ /\ \E e \in claims'[x][q].subject : e \in Curated(x)
           /\ \E e \in claims'[x][q].object : e \in Curated(x)
  <2> SUFFICES ASSUME NEW x \in Findings, NEW q \in Compatible, Stands(x, q)'
               PROVE  \/ Stands(x, q)
                      \/ /\ \E e \in claims'[x][q].subject : e \in Curated(x)
                         /\ \E e \in claims'[x][q].object : e \in Curated(x)
    OBVIOUS
  <2>1. CASE x = f /\ q = p
    <3>1. claims'[f][p].status = "manual_claim"
      BY <2>1 DEF Stands
    <3>. QED BY <1>1, <2>1, <3>1
  <2>2. CASE ~(x = f /\ q = p)
    <3>1. claims'[x][q].status = claims[x][q].status
      BY <1>1, <2>2
    <3>. QED BY <1>1, <3>1 DEF Stands, BeforeReview, Replaced, Me
  <2>. QED BY <2>1, <2>2
<1>6. Standing'
  BY <1>1, <1>5, StandingKept
<1>. QED BY <1>2, <1>3, <1>4, <1>6 DEF Rest

(* A merge: the claims of the merged entity go to its heir, and so does    *)
(* what they stand on.                                                     *)
LEMMA MergeInv ==
  ASSUME FindingsInv, NEW e \in Entities, NEW k \in Entities, Merge(e, k)
  PROVE  Rest'
<1> USE DEF FindingsInv
<1>1. /\ Live(e) /\ Live(k) /\ e # k
      /\ \A x \in Entities : entity'[x].status = IF x = e THEN "merged" ELSE entity[x].status
      /\ \A x \in Entities : heir'[x] = IF heir[x] = e THEN k ELSE heir[x]
      /\ UNCHANGED <<finding, curator, cut, relink, missed>>
  BY MergeTypes
<1>2. \A f \in Findings, p \in Compatible :
        \/ claims'[f][p] = NoClaim
        \/ /\ claims'[f][p].status = claims[f][p].status
           /\ claims'[f][p].subject = Renamed(claims[f][p].subject, e, k)
           /\ claims'[f][p].object = Renamed(claims[f][p].object, e, k)
  BY MergeTypes
<1>3. /\ \A f \in Findings, t \in Texts : obs[f][t].resolved # e => obs'[f][t] = obs[f][t]
      /\ \A m \in mentions : m[2] # e => m \in mentions'
  BY MergeTypes
<1>4. entity[e].status = "live" /\ entity[k].status = "live" /\ heir[e] = e /\ heir[k] = k
  BY <1>1 DEF Live, Heirs
<1>5. TargetReady' /\ CuratorKnows'
  BY <1>1, <1>4, CuratorWaits
<1>6. Untouched'
  BY <1>1 DEF Untouched
<1>7. Observed'
  <2>1. \A f \in Findings, t \in Texts :
          LET c == finding[f].curated[t] IN
          c # None /\ finding'[f].curated[t] = c /\ Live(c) /\ entity'[c].status = "live" =>
            /\ obs'[f][t] = obs[f][t]
            /\ <<f, t>> \notin missed' /\ Kept(DocOf[f], c) => KeptOn(DocOf[f], c)
    <3> SUFFICES ASSUME NEW f \in Findings, NEW t \in Texts, NEW c,
                        c = finding[f].curated[t], c # None, Live(c), entity'[c].status = "live"
                 PROVE  /\ obs'[f][t] = obs[f][t]
                        /\ Kept(DocOf[f], c) => KeptOn(DocOf[f], c)
      OBVIOUS
    <3>1. c # e
      BY <1>1
    <3>2. obs[f][t] = [kind |-> "entity", target |-> c, resolved |-> c]
      BY DEF Observed
    <3>3. obs[f][t].resolved = c
      BY <3>2
    <3>4. <<DocOf[f], c>> \in mentions => <<DocOf[f], c>> \in mentions'
      BY <1>3, <3>1
    <3>5. Kept(DocOf[f], c) => KeptOn(DocOf[f], c)
      BY <1>1, <3>4, KeptStays
    <3>. QED BY <1>3, <3>1, <3>3, <3>5
  <2>. QED BY <1>1, <1>4, <2>1, ObservedKept
<1>8. Heirs'
  BY <1>1, <1>4 DEF Heirs
<1>9. \A x \in Entities, y \in Entities : heir[x] = heir[y] => heir'[x] = heir'[y]
  BY <1>1
<1>10. EndsMeet'
  <2> SUFFICES ASSUME NEW f \in Findings, NEW p \in Compatible
               PROVE  /\ \A x \in claims'[f][p].subject : heir'[x] = heir'[p[1]]
                      /\ \A x \in claims'[f][p].object : heir'[x] = heir'[p[2]]
    BY DEF EndsMeet
  <2>1. /\ claims[f][p].subject \subseteq Entities /\ claims[f][p].object \subseteq Entities
        /\ p[1] \in Entities /\ p[2] \in Entities
    BY Fields
  <2>2. /\ \A x \in claims[f][p].subject : heir[x] = heir[p[1]]
        /\ \A x \in claims[f][p].object : heir[x] = heir[p[2]]
    BY DEF EndsMeet
  <2>3. heir'[k] = k /\ heir'[e] = k
    BY <1>1, <1>4
  <2>4. ASSUME NEW S \in SUBSET Entities, NEW q \in Entities, \A x \in S : heir[x] = heir[q]
        PROVE  \A x \in Renamed(S, e, k) : heir'[x] = heir'[q]
    <3>1. \A x \in S : heir'[x] = heir'[q]
      BY <1>9, <2>4
    <3>. QED BY <2>3, <3>1 DEF Renamed
  <2>5. CASE claims'[f][p] = NoClaim
    <3>1. claims'[f][p].subject = {} /\ claims'[f][p].object = {}
      BY <2>5, NoClaimFields
    <3>. QED BY <3>1
  <2>6. CASE claims'[f][p] # NoClaim
    <3>1. /\ claims'[f][p].subject = Renamed(claims[f][p].subject, e, k)
          /\ claims'[f][p].object = Renamed(claims[f][p].object, e, k)
      BY <1>2, <2>6
    <3>. QED BY <2>1, <2>2, <2>4, <3>1
  <2>. QED BY <2>5, <2>6
<1>11. Standing'
  <2> SUFFICES ASSUME NEW f \in Findings, NEW p \in Compatible, Stands(f, p)'
               PROVE  /\ Anchored(f, claims[f][p].subject)'
                      /\ Anchored(f, claims[f][p].object)'
    BY DEF Standing
  <2>1. claims'[f][p] # NoClaim
    <3>1. claims'[f][p].status = "manual_claim"
      BY DEF Stands
    <3>. QED BY <3>1, NoClaimFields
  <2>2. /\ claims'[f][p].status = claims[f][p].status
        /\ claims'[f][p].subject = Renamed(claims[f][p].subject, e, k)
        /\ claims'[f][p].object = Renamed(claims[f][p].object, e, k)
    BY <1>2, <2>1
  <2>3. Stands(f, p)
    BY <1>1, <2>2 DEF Stands, BeforeReview, Replaced, Me
  <2>4. Anchored(f, claims[f][p].subject) /\ Anchored(f, claims[f][p].object)
    BY <2>3 DEF Standing
  <2>5. Curated(f)' = Curated(f)
    BY <1>1 DEF Curated
  <2>6. Curated(f) \subseteq Entities
    <3>1. finding[f].curated \in [Texts -> EntityOrNone]
      BY Fields
    <3>. QED BY <3>1 DEF Curated, EntityOrNone
  <2>7. claims[f][p].subject \subseteq Entities /\ claims[f][p].object \subseteq Entities
    BY Fields
  <2>8. ASSUME NEW S \in SUBSET Entities, Anchored(f, S)
        PROVE  \E x \in Renamed(S, e, k) :
                 x \in Curated(f)' \/ (Live(x)' /\ \E c \in Curated(f)' : heir'[c] = x)
    <3>1. PICK x \in S : x \in Curated(f) \/ (Live(x) /\ \E c \in Curated(f) : heir[c] = x)
      BY <2>8 DEF Anchored
    <3>2. CASE x # e
      <4>1. x \in Renamed(S, e, k)
        BY <3>2 DEF Renamed
      <4>2. CASE x \in Curated(f)
        BY <2>5, <4>1, <4>2
      <4>3. CASE Live(x) /\ \E c \in Curated(f) : heir[c] = x
        <5>1. PICK c \in Curated(f) : heir[c] = x
          BY <4>3
        <5>2. heir'[c] = x
          BY <1>1, <2>6, <3>2, <5>1
        <5>3. Live(x)'
          BY <1>1, <3>2, <4>3 DEF Live
        <5>. QED BY <2>5, <4>1, <5>2, <5>3
      <4>. QED BY <3>1, <4>2, <4>3
    <3>3. CASE x = e
      <4>1. k \in Renamed(S, e, k)
        BY <3>3 DEF Renamed
      <4>2. PICK c \in Curated(f) : heir[c] = e
        BY <1>4, <3>1, <3>3
      <4>3. heir'[c] = k
        BY <1>1, <2>6, <4>2
      <4>4. Live(k)'
        BY <1>1, <1>4 DEF Live
      <4>. QED BY <2>5, <4>1, <4>3, <4>4
    <3>. QED BY <3>2, <3>3
  <2>9. \E x \in claims'[f][p].subject :
          x \in Curated(f)' \/ (Live(x)' /\ \E c \in Curated(f)' : heir'[c] = x)
    BY <2>2, <2>4, <2>7, <2>8
  <2>10. \E x \in claims'[f][p].object :
           x \in Curated(f)' \/ (Live(x)' /\ \E c \in Curated(f)' : heir'[c] = x)
    BY <2>2, <2>4, <2>7, <2>8
  <2>. QED BY <2>9, <2>10 DEF Anchored
<1>. QED BY <1>5, <1>6, <1>7, <1>8, <1>10, <1>11 DEF Rest

(* A deleted entity takes its claims with it, so none stands on it.        *)
LEMMA DeleteInv ==
  ASSUME FindingsInv, NEW e \in Entities, DeleteEntity(e)
  PROVE  Rest'
<1> USE DEF FindingsInv
<1>1. /\ Live(e)
      /\ \A x \in Entities : entity'[x].status = IF x = e THEN "deleted" ELSE entity[x].status
      /\ \A f \in Findings : finding'[f].stored = finding[f].stored
      /\ \A f \in Findings, t \in Texts : finding'[f].curated[t] =
           IF finding[f].curated[t] = e THEN None ELSE finding[f].curated[t]
      /\ UNCHANGED <<curator, cut, heir, relink, missed>>
  BY DeleteTypes
<1>2. \A f \in Findings, p \in Compatible :
        \/ claims'[f][p] = NoClaim
        \/ /\ claims'[f][p] = claims[f][p]
           /\ e \notin claims[f][p].subject \cup claims[f][p].object
  BY DeleteTypes
<1>3. /\ \A f \in Findings, t \in Texts : obs[f][t].resolved # e => obs'[f][t] = obs[f][t]
      /\ \A m \in mentions : m[2] # e => m \in mentions'
  BY DeleteTypes
<1>4. entity[e].status = "live" /\ heir[e] = e
  BY <1>1 DEF Live, Heirs
<1>5. \A f \in Findings, t \in Texts : finding'[f].curated[t] \in {None, finding[f].curated[t]}
  BY <1>1
<1>6. TargetReady' /\ CuratorKnows'
  BY <1>1, <1>4, <1>5, CuratorWaits
<1>7. Untouched'
  BY <1>1 DEF Untouched
<1>8. Observed'
  <2>1. \A f \in Findings, t \in Texts :
          LET c == finding[f].curated[t] IN
          c # None /\ finding'[f].curated[t] = c /\ Live(c) /\ entity'[c].status = "live" =>
            /\ obs'[f][t] = obs[f][t]
            /\ <<f, t>> \notin missed' /\ Kept(DocOf[f], c) => KeptOn(DocOf[f], c)
    <3> SUFFICES ASSUME NEW f \in Findings, NEW t \in Texts, NEW c,
                        c = finding[f].curated[t], c # None, Live(c), entity'[c].status = "live"
                 PROVE  /\ obs'[f][t] = obs[f][t]
                        /\ Kept(DocOf[f], c) => KeptOn(DocOf[f], c)
      OBVIOUS
    <3>1. c # e
      BY <1>1
    <3>2. obs[f][t] = [kind |-> "entity", target |-> c, resolved |-> c]
      BY DEF Observed
    <3>3. obs[f][t].resolved = c
      BY <3>2
    <3>4. <<DocOf[f], c>> \in mentions => <<DocOf[f], c>> \in mentions'
      BY <1>3, <3>1
    <3>5. Kept(DocOf[f], c) => KeptOn(DocOf[f], c)
      BY <1>1, <3>4, KeptStays
    <3>. QED BY <1>3, <3>1, <3>3, <3>5
  <2>. QED BY <1>1, <1>4, <1>5, <2>1, ObservedKept
<1>9. Heirs'
  BY <1>1 DEF Heirs
<1>10. EndsMeet'
  <2> SUFFICES ASSUME NEW f \in Findings, NEW p \in Compatible
               PROVE  /\ \A x \in claims'[f][p].subject : heir'[x] = heir'[p[1]]
                      /\ \A x \in claims'[f][p].object : heir'[x] = heir'[p[2]]
    BY DEF EndsMeet
  <2>1. CASE claims'[f][p] = NoClaim
    <3>1. claims'[f][p].subject = {} /\ claims'[f][p].object = {}
      BY <2>1, NoClaimFields
    <3>. QED BY <3>1
  <2>2. CASE claims'[f][p] = claims[f][p]
    BY <1>1, <2>2 DEF EndsMeet
  <2>. QED BY <1>2, <2>1, <2>2
<1>11. Standing'
  <2> SUFFICES ASSUME NEW f \in Findings, NEW p \in Compatible, Stands(f, p)'
               PROVE  /\ Anchored(f, claims[f][p].subject)'
                      /\ Anchored(f, claims[f][p].object)'
    BY DEF Standing
  <2>1. /\ claims'[f][p] = claims[f][p]
        /\ e \notin claims[f][p].subject \cup claims[f][p].object
    <3>1. claims'[f][p].status = "manual_claim"
      BY DEF Stands
    <3>2. claims'[f][p] # NoClaim
      BY <3>1, NoClaimFields
    <3>. QED BY <1>2, <3>2
  <2>2. Stands(f, p)
    BY <1>1, <2>1 DEF Stands, BeforeReview, Replaced, Me
  <2>3. Anchored(f, claims[f][p].subject) /\ Anchored(f, claims[f][p].object)
    BY <2>2 DEF Standing
  <2>4. \A c \in Curated(f) : c # e => c \in Curated(f)'
    BY <1>1 DEF Curated
  <2>5. claims[f][p].subject \subseteq Entities /\ claims[f][p].object \subseteq Entities
    BY Fields
  <2>6. ASSUME NEW S \in SUBSET Entities, e \notin S, Anchored(f, S)
        PROVE  \E x \in S : x \in Curated(f)' \/ (Live(x)' /\ \E c \in Curated(f)' : heir'[c] = x)
    <3>1. PICK x \in S : x \in Curated(f) \/ (Live(x) /\ \E c \in Curated(f) : heir[c] = x)
      BY <2>6 DEF Anchored
    <3>2. x # e
      BY <2>6
    <3>3. CASE x \in Curated(f)
      BY <2>4, <3>2, <3>3
    <3>4. CASE Live(x) /\ \E c \in Curated(f) : heir[c] = x
      <4>1. PICK c \in Curated(f) : heir[c] = x
        BY <3>4
      <4>2. c # e
        BY <1>4, <3>2, <4>1
      <4>3. Live(x)'
        BY <1>1, <3>2, <3>4 DEF Live
      <4>. QED BY <1>1, <2>4, <4>1, <4>2, <4>3
    <3>. QED BY <3>1, <3>3, <3>4
  <2>7. \E x \in claims'[f][p].subject :
          x \in Curated(f)' \/ (Live(x)' /\ \E c \in Curated(f)' : heir'[c] = x)
    BY <2>1, <2>3, <2>5, <2>6
  <2>8. \E x \in claims'[f][p].object :
          x \in Curated(f)' \/ (Live(x)' /\ \E c \in Curated(f)' : heir'[c] = x)
    BY <2>1, <2>3, <2>5, <2>6
  <2>. QED BY <2>7, <2>8 DEF Anchored
<1>. QED BY <1>6, <1>7, <1>8, <1>9, <1>10, <1>11 DEF Rest

LEMMA RelinkInv ==
  ASSUME FindingsInv, NEW d \in Docs, Relinking(d)
  PROVE  Rest'
<1> USE DEF FindingsInv
<1>1. UNCHANGED <<finding, entity, obs, claims, curator, cut, heir, missed>>
  BY RelinkTypes
<1>2. TargetReady' /\ CuratorKnows'
  BY <1>1, CuratorWaits
<1>3. Untouched' /\ Heirs' /\ EndsMeet'
  BY <1>1 DEF Untouched, Heirs, EndsMeet
<1>4. Observed'
  <2>1. \A f \in Findings, t \in Texts :
          LET c == finding[f].curated[t] IN
          c # None /\ finding'[f].curated[t] = c /\ Live(c) /\ entity'[c].status = "live" =>
            /\ obs'[f][t] = obs[f][t]
            /\ <<f, t>> \notin missed' /\ Kept(DocOf[f], c) => KeptOn(DocOf[f], c)
    <3> SUFFICES ASSUME NEW f \in Findings, NEW t \in Texts, NEW c,
                        c = finding[f].curated[t], c # None, Live(c), Kept(DocOf[f], c)
                 PROVE  KeptOn(DocOf[f], c)
      BY <1>1
    <3>1. obs[f][t] = [kind |-> "entity", target |-> c, resolved |-> c]
      BY DEF Observed
    <3>2. c \in Entities
      BY DEF Live
    <3>. QED BY <3>1, <3>2, RelinkKeeps
  <2>. QED BY <1>1, <2>1, ObservedKept
<1>5. \A f \in Findings, p \in Compatible : Stands(f, p)' => Stands(f, p)
  BY <1>1 DEF Stands, BeforeReview, Replaced, Me
<1>6. Standing'
  BY <1>1, <1>5, StandingKept
<1>. QED BY <1>2, <1>3, <1>4, <1>6 DEF Rest

-----------------------------------------------------------------------------
(* The invariant.                                                          *)

LEMMA InitInv == Init => FindingsInv
<1> SUFFICES ASSUME Init PROVE FindingsInv
  OBVIOUS
<1>1. \A f \in Findings : ~finding[f].stored /\ \A t \in Texts : finding[f].curated[t] = None
  BY DEF Init, Blank, Nobody
<1>2. curator.pc = "idle" /\ curator.finding = None /\ curator.todo = {} /\ curator \in Curator
  BY IdleType DEF Init, Idle
<1>3. \A f \in Findings, p \in Compatible :
        claims[f][p].status = "" /\ claims[f][p].subject = {} /\ claims[f][p].object = {}
  BY NoClaimFields DEF Init
<1>4. TypeOK
  <2>1. finding \in [Findings -> Finding]
    BY BlankType DEF Init
  <2>2. edge \in [Runs -> [Findings -> {"", "pending", "dismissed"}]]
    BY DEF Init
  <2>3. run \in [Runs -> [pc : {"new", "read", "stored"}, dismissed : BOOLEAN,
                          finding : Findings \cup {None}, resolved : [Texts -> EntityOrNone]]]
    BY BlankType DEF Init
  <2>4. decision \in [Texts -> Decision]
    BY DEF Init, Decision, EntityOrNone
  <2>5. entity \in [Entities -> Entity]
    BY FindingsAssumption DEF Init, Entity
  <2>6. obs \in [Findings -> [Texts -> Observation]] /\ mentions \subseteq Docs \X Entities
    BY DEF Init, NotSeen, Observation, EntityOrNone
  <2>7. claims \in [Findings -> [Compatible -> Claim]]
    BY DEF Init, NoClaim, Claim
  <2>8. purge \in [Users -> [pc : {"idle", "detach", "orphans", "delete"},
                             ids : SUBSET Findings]]
    BY DEF Init
  <2>9. acts \in 0 .. MaxActs /\ changes \in 0 .. MaxChanges
    <3>1. MaxActs \in Nat /\ MaxChanges \in Nat
      BY FindingsAssumption
    <3>2. acts = 0 /\ changes = 0
      BY DEF Init
    <3>. QED BY <3>1, <3>2
  <2>10. /\ cut \subseteq Findings /\ heir \in [Entities -> Entities]
         /\ relink \in [Docs -> Relink] /\ missed \subseteq Findings \X Texts
    BY DEF Init, Linked, Relink
  <2>. QED BY <1>2, <2>1, <2>2, <2>3, <2>4, <2>5, <2>6, <2>7, <2>8, <2>9, <2>10 DEF TypeOK
<1>5. CuratorBusy /\ TargetReady /\ CuratorKnows
  BY <1>2 DEF CuratorBusy, TargetReady, CuratorKnows
<1>6. Untouched /\ Observed
  BY <1>1 DEF Untouched, Observed
<1>7. RunsRead /\ Heirs
  BY DEF Init, RunsRead, Heirs
<1>8. EndsMeet /\ Standing
  BY <1>3 DEF EndsMeet, Standing, Stands
<1>. QED BY <1>4, <1>5, <1>6, <1>7, <1>8 DEF FindingsInv

LEMMA PartsMakeWhole ==
  ASSUME TypeOK', CuratorBusy', RunsRead', Rest'
  PROVE  FindingsInv'
BY DEF FindingsInv, Rest

(* Steps that leave alone what findings name.                              *)
LEMMA StoringInv ==
  ASSUME FindingsInv, NEW r \in Runs, StoreRead(r) \/ StoreWrite(r) \/ DismissRun(r)
  PROVE  FindingsInv'
<1> USE DEF FindingsInv
<1>1. UNCHANGED <<entity, obs, mentions, claims, curator, cut, heir, relink, missed>>
  BY DEF StoreRead, StoreWrite, DismissRun
<1>2. \A f \in Findings : /\ finding[f].stored => finding'[f].stored
                          /\ finding'[f].curated = finding[f].curated
  BY StoreKeeps DEF StoreRead, DismissRun
<1>3. TypeOK' /\ RunsRead'
  BY StoringTypes
<1>4. TargetReady' /\ CuratorKnows' /\ Observed' /\ Heirs' /\ EndsMeet' /\ Standing'
  BY <1>1, <1>2, NothingMoved
<1>5. Untouched' /\ CuratorBusy'
  BY <1>1, <1>2 DEF Untouched, CuratorBusy, Me
<1>. QED BY <1>3, <1>4, <1>5

LEMMA PurgeInv ==
  ASSUME FindingsInv, NEW u \in Users, Purging(u)
  PROVE  FindingsInv'
<1> USE DEF FindingsInv
<1>1. /\ TypeOK'
      /\ \A f \in Findings : \/ finding'[f] = finding[f]
                             \/ finding'[f] = Blank /\ Uncurated(f)
      /\ UNCHANGED <<run, entity, obs, mentions, claims, curator, cut, heir, relink, missed>>
  BY PurgeTypes
<1>2. \A f \in Findings : Uncurated(f) => \A t \in Texts : finding[f].curated[t] = None
  BY DEF Uncurated, Curated
<1>3. Blank.stored = FALSE /\ \A t \in Texts : Blank.curated[t] = None
  BY DEF Blank, Nobody
<1>4. \A f \in Findings, t \in Texts : finding'[f].curated[t] = finding[f].curated[t]
  BY <1>1, <1>2, <1>3
<1>5. TargetReady' /\ CuratorKnows' /\ Observed' /\ Heirs' /\ EndsMeet' /\ Standing'
  BY <1>1, <1>4, NothingMoved
<1>6. Untouched'
  BY <1>1, <1>3 DEF Untouched
<1>7. CuratorBusy' /\ RunsRead'
  BY <1>1 DEF CuratorBusy, RunsRead, Me
<1>. QED BY <1>1, <1>5, <1>6, <1>7

LEMMA NextInv == FindingsInv /\ [Next]_vars => FindingsInv'
<1> SUFFICES ASSUME FindingsInv, [Next]_vars PROVE FindingsInv'
  OBVIOUS
<1>0. TypeOK /\ CuratorBusy /\ RunsRead /\ Untouched
  BY DEF FindingsInv
<1>1. ASSUME NEW r \in Runs, StoreRead(r) \/ StoreWrite(r) \/ DismissRun(r) PROVE FindingsInv'
  BY <1>1, StoringInv
<1>2. ASSUME NEW r \in Runs, NEW f \in Findings, SetDisposition(r, f) PROVE FindingsInv'
  <2>1. UNCHANGED <<finding, run, entity, obs, mentions, claims, curator, cut, heir, relink,
                    missed>>
    BY <1>2 DEF SetDisposition
  <2>2. TypeOK'
    BY <1>0, <1>2, DispositionTypes
  <2>3. Rest'
    BY <1>0, <2>1, NothingMoved DEF Rest, Untouched
  <2>4. CuratorBusy' /\ RunsRead'
    BY <1>0, <2>1 DEF CuratorBusy, RunsRead, Me
  <2>. QED BY <2>2, <2>3, <2>4, PartsMakeWhole
<1>3. ASSUME NEW f \in Findings, CurateEntity(f) \/ AcceptDefaults(f) PROVE FindingsInv'
  <2>1. TypeOK' /\ CuratorBusy' /\ Rest'
    BY <1>0, <1>3, BeginTypes, BeginInv
  <2>2. UNCHANGED run
    BY <1>3 DEF CurateEntity, AcceptDefaults
  <2>3. RunsRead'
    BY <1>0, <2>2 DEF RunsRead
  <2>. QED BY <2>1, <2>3, PartsMakeWhole
<1>4. ASSUME NEW f \in Findings, SetStatus(f) PROVE FindingsInv'
  <2>1. /\ TypeOK'
        /\ \A x \in Findings : /\ finding'[x].stored = finding[x].stored
                               /\ finding'[x].curated = finding[x].curated
    BY <1>0, <1>4, StatusTypes
  <2>2. UNCHANGED <<run, entity, obs, mentions, claims, curator, cut, heir, relink, missed>>
    BY <1>4 DEF SetStatus
  <2>3. TargetReady' /\ CuratorKnows' /\ Observed' /\ Heirs' /\ EndsMeet' /\ Standing'
    BY <2>1, <2>2, NothingMoved
  <2>4. Untouched' /\ CuratorBusy' /\ RunsRead'
    BY <1>0, <2>1, <2>2 DEF Untouched, CuratorBusy, RunsRead, Me
  <2>. QED BY <2>1, <2>3, <2>4, PartsMakeWhole DEF Rest
<1>5. ASSUME CuratorStep PROVE FindingsInv'
  <2>1. TypeOK' /\ CuratorBusy' /\ Rest'
    <3>1. CASE SettleForm
      BY <1>0, <3>1, SettleTypes, SettleInv DEF FindingsInv
    <3>2. CASE WriteCuration
      BY <1>0, <3>2, WriteTypes, WriteInv
    <3>3. CASE Decide
      BY <1>0, <3>3, DecideTypes, DecideInv
    <3>4. CASE MarkForReview
      BY <1>0, <3>4, MarkTypes, MarkInv
    <3>5. CASE CleanupMention
      BY <1>0, <3>5, CleanupTypes, CleanupInv
    <3>. QED BY <1>5, <3>1, <3>2, <3>3, <3>4, <3>5 DEF CuratorStep
  <2>2. UNCHANGED run
    BY <1>5 DEF CuratorStep, SettleForm, WriteCuration, Decide, MarkForReview, CleanupMention
  <2>3. RunsRead'
    BY <1>0, <2>2 DEF RunsRead
  <2>. QED BY <2>1, <2>3, PartsMakeWhole
<1>6. ASSUME CutOff PROVE FindingsInv'
  <2>1. TypeOK' /\ CuratorBusy' /\ UNCHANGED run
    BY <1>0, <1>6, CutTypes
  <2>2. RunsRead'
    BY <1>0, <2>1 DEF RunsRead
  <2>. QED BY <1>6, <2>1, <2>2, CutInv, PartsMakeWhole
<1>7. ASSUME NEW f \in Findings, NEW p \in Compatible, CreateClaim(f, p) PROVE FindingsInv'
  <2>1. TypeOK' /\ UNCHANGED <<run, curator>>
    BY <1>0, <1>7, CreateTypes
  <2>2. RunsRead' /\ CuratorBusy'
    BY <1>0, <2>1 DEF RunsRead, CuratorBusy, Me
  <2>. QED BY <1>7, <2>1, <2>2, CreateInv, PartsMakeWhole
<1>8. ASSUME NEW f \in Findings, NEW p \in Compatible, ReviewClaim(f, p) PROVE FindingsInv'
  <2>1. TypeOK' /\ UNCHANGED <<run, curator>>
    BY <1>0, <1>8, ReviewTypes
  <2>2. RunsRead' /\ CuratorBusy'
    BY <1>0, <2>1 DEF RunsRead, CuratorBusy, Me
  <2>. QED BY <1>8, <2>1, <2>2, ReviewInv, PartsMakeWhole
<1>9. ASSUME NEW u \in Users, Purging(u) PROVE FindingsInv'
  BY <1>9, PurgeInv
<1>10. ASSUME NEW e \in Entities, NEW k \in Entities, Merge(e, k) PROVE FindingsInv'
  <2>1. TypeOK' /\ UNCHANGED <<run, curator>>
    BY <1>0, <1>10, MergeTypes
  <2>2. RunsRead' /\ CuratorBusy'
    BY <1>0, <2>1 DEF RunsRead, CuratorBusy, Me
  <2>. QED BY <1>10, <2>1, <2>2, MergeInv, PartsMakeWhole
<1>11. ASSUME NEW e \in Entities, DeleteEntity(e) PROVE FindingsInv'
  <2>1. TypeOK' /\ UNCHANGED <<run, curator>>
    BY <1>0, <1>11, DeleteTypes
  <2>2. RunsRead' /\ CuratorBusy'
    BY <1>0, <2>1 DEF RunsRead, CuratorBusy, Me
  <2>. QED BY <1>11, <2>1, <2>2, DeleteInv, PartsMakeWhole
<1>12. ASSUME NEW d \in Docs, Relinking(d) PROVE FindingsInv'
  <2>1. TypeOK' /\ UNCHANGED <<run, curator>>
    BY <1>0, <1>12, RelinkTypes
  <2>2. RunsRead' /\ CuratorBusy'
    BY <1>0, <2>1 DEF RunsRead, CuratorBusy, Me
  <2>. QED BY <1>12, <2>1, <2>2, RelinkInv, PartsMakeWhole
<1>13. CASE UNCHANGED vars
  <2>1. UNCHANGED <<finding, edge, run, decision, entity, obs, mentions, claims, curator, purge,
                    acts, changes, cut, heir, relink, missed>>
    BY <1>13 DEF vars
  <2>2. TypeOK' /\ RunsRead' /\ CuratorBusy' /\ Untouched'
    BY <1>0, <2>1 DEF TypeOK, RunsRead, CuratorBusy, Untouched, Me
  <2>. QED BY <2>1, <2>2, NothingMoved, PartsMakeWhole DEF Rest
<1>. QED BY <1>1, <1>2, <1>3, <1>4, <1>5, <1>6, <1>7, <1>8, <1>9, <1>10, <1>11, <1>12, <1>13
         DEF Next

-----------------------------------------------------------------------------
(* The theorems.                                                           *)

(* Whatever curators, users, merges, deletions, relinks, clean-ups and     *)
(* curations that are cut off do to findings, FindingsInv holds.           *)
THEOREM FindingsInvariant == Spec => []FindingsInv
<1>1. Init => FindingsInv
  BY InitInv
<1>2. FindingsInv /\ [Next]_vars => FindingsInv'
  BY NextInv
<1>. QED BY <1>1, <1>2, PTL DEF Spec

(* A claim stands only on what the finding's texts name, or what that was  *)
(* merged into, whether its runs are shown or not.                         *)
ClaimsGrounded ==
  \A f \in Findings, p \in Compatible :
    Quiet(f) /\ claims[f][p].status = "manual_claim" =>
      Grounded(f, claims[f][p].subject \cup claims[f][p].object)

LEMMA InvGrounded == FindingsInv => ClaimsGrounded
<1> SUFFICES ASSUME FindingsInv, NEW f \in Findings, NEW p \in Compatible, Quiet(f),
                    claims[f][p].status = "manual_claim"
             PROVE  Grounded(f, claims[f][p].subject \cup claims[f][p].object)
  BY DEF ClaimsGrounded
<1> USE DEF FindingsInv
<1>1. Anchored(f, claims[f][p].subject) /\ Anchored(f, claims[f][p].object)
  <2>1. Stands(f, p)
    BY DEF Quiet, Stands, BeforeReview
  <2>. QED BY <2>1 DEF Standing
<1>2. /\ \A e \in claims[f][p].subject : heir[e] = heir[p[1]]
      /\ \A e \in claims[f][p].object : heir[e] = heir[p[2]]
  BY DEF EndsMeet
<1>3. claims[f][p].subject \subseteq Entities /\ claims[f][p].object \subseteq Entities
  BY Fields
<1>4. ASSUME NEW S \in SUBSET Entities, NEW q, \A e \in S : heir[e] = q, Anchored(f, S)
      PROVE  \A e \in S : \E c \in Curated(f) : heir[c] = heir[e]
  <2>1. PICK s \in S : s \in Curated(f) \/ (Live(s) /\ \E c \in Curated(f) : heir[c] = s)
    BY <1>4 DEF Anchored
  <2>2. CASE s \in Curated(f)
    BY <1>4, <2>2
  <2>3. CASE Live(s) /\ \E c \in Curated(f) : heir[c] = s
    <3>1. heir[s] = s
      BY <2>3 DEF Live, Heirs
    <3>. QED BY <1>4, <2>3, <3>1
  <2>. QED BY <2>1, <2>2, <2>3
<1>. QED BY <1>1, <1>2, <1>3, <1>4 DEF Grounded

(* Every claim that stands has on either side an entity a curator gave one *)
(* of the finding's texts, or its living heir, at any moment but between   *)
(* the write of a replacement and the review of the old claims.            *)
THEOREM ClaimsStayGrounded == Spec => []ClaimsGrounded
BY FindingsInvariant, InvGrounded, PTL

(* No run leaves the working queue with a claim that stands although its   *)
(* endpoints are not what the finding's texts name.                        *)
THEOREM QueueStaysHonest == Spec => []QueueIsHonest
<1>1. FindingsInv => QueueIsHonest
  BY InvGrounded DEF FindingsInv, QueueIsHonest, ClaimsGrounded
<1>. QED BY <1>1, FindingsInvariant, PTL

(* A document that is not being linked, and whose last relink was not cut  *)
(* off, mentions every living entity that one of its texts was curated to, *)
(* unless the last reassignment of the text matched nothing.               *)
THEOREM MentionsStay == Spec => []CuratedMentionsKept
<1>1. FindingsInv => CuratedMentionsKept
  <2> SUFFICES ASSUME FindingsInv, NEW f \in Findings, NEW t \in Texts,
                      relink[DocOf[f]].pc = "whole", <<f, t>> \notin missed,
                      Live(finding[f].curated[t])
               PROVE  <<DocOf[f], finding[f].curated[t]>> \in mentions
    BY DEF CuratedMentionsKept
  <2>1. finding[f].curated[t] # None
    BY FindingsAssumption DEF Live
  <2>. QED BY <2>1 DEF FindingsInv, Observed, Kept
<1>. QED BY <1>1, FindingsInvariant, PTL

(* The clean-up after a denied access deletes a finding only while nobody  *)
(* has curated it and no run of any user refers to it.                     *)
THEOREM OrphansVanish == Spec => OnlyOrphansVanish
<1>1. FindingsInv /\ [Next]_vars =>
        [\A f \in Findings : finding[f].stored /\ ~finding'[f].stored
           => Uncurated(f) /\ ~Produced(f)]_vars
  <2> SUFFICES ASSUME FindingsInv, Next, NEW f \in Findings,
                      finding[f].stored, ~finding'[f].stored
               PROVE  Uncurated(f) /\ ~Produced(f)
    OBVIOUS
  <2>0. TypeOK /\ CuratorBusy /\ RunsRead
    BY DEF FindingsInv
  <2>1. CASE \E u \in Users : Purging(u)
    BY <2>0, <2>1, PurgeTypes
  <2>2. CASE \E r \in Runs : StoreRead(r) \/ StoreWrite(r) \/ DismissRun(r)
    BY <2>0, <2>2, StoreKeeps DEF StoreRead, DismissRun
  <2>3. CASE \/ \E r \in Runs, g \in Findings : SetDisposition(r, g)
             \/ \E g \in Findings : CurateEntity(g) \/ AcceptDefaults(g)
             \/ SettleForm \/ Decide \/ MarkForReview \/ CleanupMention \/ CutOff
             \/ \E g \in Findings, p \in Compatible : ReviewClaim(g, p)
             \/ \E e, k \in Entities : Merge(e, k)
             \/ \E d \in Docs : Relinking(d)
    <3>1. UNCHANGED finding
      BY ZenonT(60), <2>3 DEF SetDisposition, CurateEntity, AcceptDefaults, SettleForm, Decide,
                  MarkForReview, CleanupMention, CutOff, ReviewClaim, Merge, Relinking,
                  RelinkClear, RelinkRead, RelinkLink, RelinkRestore, RelinkEnd, RelinkKilled
    <3>. QED BY <3>1
  <2>4. CASE WriteCuration
    BY <2>0, <2>4, WriteTypes, MyTask DEF WriteCuration
  <2>5. CASE \E g \in Findings, p \in Compatible : CreateClaim(g, p)
    BY <2>0, <2>5, CreateTypes
  <2>6. CASE \E g \in Findings : SetStatus(g)
    BY <2>0, <2>6, StatusTypes
  <2>7. CASE \E e \in Entities : DeleteEntity(e)
    BY <2>0, <2>7, DeleteTypes
  <2>. QED BY <2>1, <2>2, <2>3, <2>4, <2>5, <2>6, <2>7 DEF Next, CuratorStep
<1>. QED BY <1>1, FindingsInvariant, PTL DEF Spec, OnlyOrphansVanish

-----------------------------------------------------------------------------
(* The sessions of the curation pages.  SessionsInv is inductive: it adds  *)
(* to OnlyOwnSessions what the cleanup of the start-up still owes.         *)

\* no request outlives the process that served it
NobodyServed ==
  boot.pc \notin {"up", "stop"} => \A q \in Requests : request[q] = NoRequest

\* the cleanup is at a session while it revokes or deletes
CleaningOne == boot.pc \in {"revoke", "delete"} => boot.at \in Flows

\* a session stands on an app password that was handed out
StandOnPasswords ==
  \A f \in Flows : session[f].state # "none" => password[f].state \in {"live", "revoked"}

\* a session of an earlier process is active only until the cleanup gets to it
ForeignAwaitCleanup ==
  \A f \in Flows :
    session[f].state = "active" /\ ~session[f].own =>
      \/ boot.pc = "down"
      \/ boot.pc \in {"clean", "revoke", "delete"} /\ f \in boot.todo

SessionsInv ==
  /\ SessionTypeOK
  /\ NobodyServed
  /\ CleaningOne
  /\ StandOnPasswords
  /\ ForeignAwaitCleanup

LEMMA SessionInitInv == SessionInit => SessionsInv
BY CurationAssumption DEF SessionInit, SessionsInv, SessionTypeOK, NobodyServed, CleaningOne,
   StandOnPasswords, ForeignAwaitCleanup, NoPassword, NoSession, NoRequest, Pcs

\* a request that is under way has a flow
LEMMA UnderWay ==
  ASSUME SessionTypeOK, NEW q \in Requests, NEW pc \in Pcs, At(q, pc)
  PROVE  /\ request[q].pc = pc /\ request[q].flow \in Flows
         /\ request[q] = [pc |-> pc, flow |-> request[q].flow]
         /\ boot.pc \in {"up", "stop"}
BY DEF SessionTypeOK, At, NoRequest, Pcs


\* A request that ends, or goes on with the flow it has: beyond the poll only
\* when the flow's password was handed out.
LEMMA RequestKept ==
  ASSUME SessionTypeOK, NobodyServed, boot.pc \in {"up", "stop"}, boot' = boot,
         NEW q \in Requests, NEW f \in Flows, NEW pc \in Pcs,
         \A g \in Flows : password[g].state \in {"live", "revoked"} =>
                            password'[g].state \in {"live", "revoked"},
         pc = "poll" \/ password'[f].state \in {"live", "revoked"},
         \/ Return(q)
         \/ Enter(q, pc, f)
         \/ Goto(q, pc) /\ request[q].pc \in Pcs /\ request[q].flow = f
  PROVE  /\ request' \in [Requests -> {NoRequest} \cup [pc : Pcs, flow : Flows]]
         /\ \A r \in Requests : request'[r].pc \in Pcs \ {"poll"} =>
                                  password'[request'[r].flow].state \in {"live", "revoked"}
         /\ NobodyServed'
<1>0. NoRequest.pc = "idle" /\ "idle" \notin Pcs /\ pc \in Pcs
  BY DEF NoRequest, Pcs
<1>1. request' = [request EXCEPT ![q] = NoRequest]
      \/ request' = [request EXCEPT ![q] = [pc |-> pc, flow |-> f]]
  <2>1. CASE Goto(q, pc) /\ request[q].pc \in Pcs /\ request[q].flow = f
    <3>1. request[q] \in [pc : Pcs, flow : Flows]
      BY <2>1, <1>0 DEF SessionTypeOK
    <3>2. [request[q] EXCEPT !.pc = pc] = [pc |-> pc, flow |-> f]
      BY <2>1, <3>1
    <3>. QED
      BY <2>1, <3>2, Zenon DEF Goto
  <2>. QED
    BY <2>1 DEF Return, Enter
<1>2. \A r \in Requests : r # q => request'[r] = request[r]
  BY <1>1 DEF SessionTypeOK
<1>3. request'[q] = NoRequest \/ request'[q] = [pc |-> pc, flow |-> f]
  BY <1>1 DEF SessionTypeOK
<1>4. request' \in [Requests -> {NoRequest} \cup [pc : Pcs, flow : Flows]]
  BY <1>1 DEF SessionTypeOK
<1>5. ASSUME NEW r \in Requests, request'[r].pc \in Pcs \ {"poll"}
      PROVE  password'[request'[r].flow].state \in {"live", "revoked"}
  <2>1. CASE r = q
    BY <2>1, <1>0, <1>3, <1>5
  <2>2. CASE r # q
    <3>1. request[r] \in [pc : Pcs, flow : Flows]
      BY <2>2, <1>0, <1>2, <1>5 DEF SessionTypeOK
    <3>. QED
      BY <2>2, <1>2, <1>5, <3>1 DEF SessionTypeOK
  <2>. QED
    BY <2>1, <2>2
<1>. QED
  BY <1>4, <1>5 DEF NobodyServed


\* The pages' steps that end or advance a request, one lemma each.
LEMMA ConfirmInv ==
  ASSUME SessionsInv, NEW f \in Flows, NEW l \in Accounts, Confirm(f, l)
  PROVE  SessionsInv'
<1>1. password' \in [Flows -> {NoPassword} \cup
                       [state : {"granted", "live", "revoked"}, login : Accounts]]
  BY DEF Confirm, SessionsInv, SessionTypeOK
<1>2. \A g \in Flows : password[g].state \in {"live", "revoked"} => password'[g] = password[g]
  BY DEF Confirm, SessionsInv, SessionTypeOK
<1>3. ASSUME NEW q \in Requests, request[q].pc \in Pcs \ {"poll"}
      PROVE  password'[request[q].flow].state \in {"live", "revoked"}
  <2>1. request[q] \in [pc : Pcs, flow : Flows]
    BY <1>3 DEF SessionsInv, SessionTypeOK, NoRequest, Pcs
  <2>. QED
    BY <1>2, <1>3, <2>1 DEF SessionsInv, SessionTypeOK
<1>4. StandOnPasswords'
  BY <1>2 DEF Confirm, SessionsInv, StandOnPasswords
<1>. QED
  BY <1>1, <1>3, <1>4 DEF Confirm, SessionsInv, SessionTypeOK, NobodyServed, CleaningOne,
     ForeignAwaitCleanup

LEMMA FlowAgesInv ==
  ASSUME SessionsInv, NEW f \in Flows, FlowAges(f)
  PROVE  SessionsInv'
BY DEF FlowAges, SessionsInv, SessionTypeOK, NobodyServed, CleaningOne, StandOnPasswords,
   ForeignAwaitCleanup

LEMMA SessionAgesInv ==
  ASSUME SessionsInv, NEW f \in Flows, SessionAges(f)
  PROVE  SessionsInv'
<1>1. session[f] \in [state : {"active", "revocation_pending"}, login : Logins,
                      expired : BOOLEAN, own : BOOLEAN]
  BY DEF SessionAges, SessionsInv, SessionTypeOK, NoSession
<1>2. [session[f] EXCEPT !.expired = TRUE] \in
        [state : {"active", "revocation_pending"}, login : Logins,
         expired : BOOLEAN, own : BOOLEAN]
  BY <1>1
<1>3. session' = [session EXCEPT ![f] = [session[f] EXCEPT !.expired = TRUE]]
  BY DEF SessionAges
<1>4. \A g \in Flows : session'[g].state = session[g].state /\ session'[g].own = session[g].own
  BY <1>1, <1>3 DEF SessionsInv, SessionTypeOK
<1>5. session' \in [Flows -> {NoSession} \cup
                       [state : {"active", "revocation_pending"}, login : Logins,
                        expired : BOOLEAN, own : BOOLEAN]]
  BY <1>2, <1>3 DEF SessionsInv, SessionTypeOK
<1>. QED
  BY <1>4, <1>5 DEF SessionAges, SessionsInv, SessionTypeOK, NobodyServed, CleaningOne,
     StandOnPasswords, ForeignAwaitCleanup

LEMMA LoginInv ==
  ASSUME SessionsInv, NEW f \in Flows, Login(f)
  PROVE  SessionsInv'
<1>1. password' \in [Flows -> {NoPassword} \cup
                       [state : {"granted", "live", "revoked"}, login : Accounts]]
  BY DEF Login, SessionsInv, SessionTypeOK
<1>2. \A g \in Flows : g # f => password'[g] = password[g]
  BY DEF Login, SessionsInv, SessionTypeOK
<1>3. ASSUME NEW q \in Requests, request[q].pc \in Pcs \ {"poll"}
      PROVE  password'[request[q].flow].state \in {"live", "revoked"}
  <2>1. request[q] \in [pc : Pcs, flow : Flows] /\ request[q].flow # f
    BY <1>3 DEF SessionsInv, SessionTypeOK, NoRequest, Pcs, Login, Unused
  <2>. QED
    BY <1>2, <1>3, <2>1 DEF SessionsInv, SessionTypeOK
<1>4. StandOnPasswords'
  BY <1>2 DEF Login, Unused, SessionsInv, StandOnPasswords
<1>5. flow' \in [Flows -> {"none", "open", "stale"}]
  BY DEF Login, SessionsInv, SessionTypeOK
<1>. QED
  BY <1>1, <1>3, <1>4, <1>5 DEF Login, SessionsInv, SessionTypeOK, NobodyServed, CleaningOne,
     ForeignAwaitCleanup

LEMMA SessionLookInv ==
  ASSUME SessionsInv, NEW q \in Requests, NEW f \in Flows, Look(q, f)
  PROVE  SessionsInv'
<1>1. CASE flow[f] = "stale"
  BY <1>1 DEF Look, SessionsInv, SessionTypeOK, NobodyServed, CleaningOne, StandOnPasswords,
     ForeignAwaitCleanup
<1>2. CASE flow[f] # "stale"
  <2>1. Enter(q, "poll", f) /\ UNCHANGED <<flow, password, user, session, boot, faults>>
        /\ boot.pc = "up"
    BY <1>2 DEF Look, Arrives, Up
  <2>2. "poll" \in Pcs
    BY DEF Pcs
  <2>3. SessionTypeOK'
    BY <2>1, <2>2, RequestKept DEF SessionsInv, SessionTypeOK
  <2>4. NobodyServed'
    BY <2>1, <2>2, RequestKept DEF SessionsInv
  <2>. QED
    BY <2>1, <2>3, <2>4 DEF SessionsInv, CleaningOne, StandOnPasswords, ForeignAwaitCleanup
<1>. QED
  BY <1>1, <1>2

LEMMA SessionPollInv ==
  ASSUME SessionsInv, NEW q \in Requests, Poll(q)
  PROVE  SessionsInv'
<1>. DEFINE f == request[q].flow
<1>1. /\ request[q].pc = "poll" /\ f \in Flows
      /\ boot.pc \in {"up", "stop"} /\ "poll" \in Pcs /\ "check" \in Pcs
  BY UnderWay DEF Poll, SessionsInv, Pcs
<1>2. CASE password[f].state = "granted"
  <2>1. password' = [password EXCEPT ![f].state = "live"]
    BY <1>2 DEF Poll
  <2>2. password[f] \in [state : {"granted", "live", "revoked"}, login : Accounts]
    BY <1>1, <1>2 DEF SessionsInv, SessionTypeOK, NoPassword
  <2>3. /\ [password[f] EXCEPT !.state = "live"] \in
             [state : {"granted", "live", "revoked"}, login : Accounts]
        /\ [password[f] EXCEPT !.state = "live"].state = "live"
    BY <2>2
  <2>4. /\ password' \in [Flows -> {NoPassword} \cup
                            [state : {"granted", "live", "revoked"}, login : Accounts]]
        /\ password'[f].state = "live" /\ \A g \in Flows : g # f => password'[g] = password[g]
    BY <1>1, <2>1, <2>3 DEF SessionsInv, SessionTypeOK
  <2>5. \A g \in Flows : password[g].state \in {"live", "revoked"} =>
                           password'[g].state \in {"live", "revoked"}
    BY <2>4
  <2>6. /\ Goto(q, "check") \/ Return(q)
        /\ faults' \in 0 .. MaxFaults /\ UNCHANGED <<flow, user, session, boot>>
    BY <1>2, CurationAssumption DEF Poll, Fault, SessionsInv, SessionTypeOK
  <2>7. /\ request' \in [Requests -> {NoRequest} \cup [pc : Pcs, flow : Flows]]
        /\ \A r \in Requests : request'[r].pc \in Pcs \ {"poll"} =>
                                 password'[request'[r].flow].state \in {"live", "revoked"}
        /\ NobodyServed'
    <3>. HIDE DEF f
    <3>1. password'[f].state \in {"live", "revoked"} /\ request[q].pc \in Pcs /\ request[q].flow = f
      BY <1>1, <2>4 DEF f
    <3>. QED
      BY <1>1, <2>5, <2>6, <3>1, RequestKept DEF SessionsInv
  <2>. QED
    BY <2>4, <2>5, <2>6, <2>7 DEF SessionsInv, SessionTypeOK, CleaningOne, StandOnPasswords,
       ForeignAwaitCleanup
<1>3. CASE password[f].state # "granted"
  <2>1. Return(q) /\ UNCHANGED <<flow, password, user, session, boot, faults>>
    BY <1>3 DEF Poll
  <2>2. SessionTypeOK' /\ NobodyServed'
    BY <1>1, <2>1, RequestKept DEF SessionsInv, SessionTypeOK
  <2>. QED
    BY <2>1, <2>2 DEF SessionsInv, CleaningOne, StandOnPasswords, ForeignAwaitCleanup
<1>. QED
  BY <1>2, <1>3

\* a password that is revoked, or not
LEMMA RevokedOrNot ==
  ASSUME SessionsInv, NEW f \in Flows, Revokes(f) \/ Refuses(f)
  PROVE  /\ password' \in [Flows -> {NoPassword} \cup
                             [state : {"granted", "live", "revoked"}, login : Accounts]]
         /\ \A g \in Flows : password[g].state \in {"live", "revoked"} =>
                               password'[g].state \in {"live", "revoked"}
<1>1. CASE Revokes(f)
  <2>1. password[f] \in [state : {"granted", "live", "revoked"}, login : Accounts]
    BY <1>1 DEF Revokes, SessionsInv, SessionTypeOK, NoPassword
  <2>2. /\ [password[f] EXCEPT !.state = "revoked"] \in
             [state : {"granted", "live", "revoked"}, login : Accounts]
        /\ [password[f] EXCEPT !.state = "revoked"].state = "revoked"
    BY <2>1
  <2>3. password' = [password EXCEPT ![f] = [password[f] EXCEPT !.state = "revoked"]]
    BY <1>1 DEF Revokes
  <2>. QED
    BY <2>2, <2>3 DEF SessionsInv, SessionTypeOK
<1>2. CASE Refuses(f)
  BY <1>2 DEF Refuses, SessionsInv, SessionTypeOK
<1>. QED
  BY <1>1, <1>2

LEMMA RefusesType ==
  ASSUME SessionsInv, NEW f \in Flows, Refuses(f)
  PROVE  faults' \in 0 .. MaxFaults
BY CurationAssumption DEF Refuses, Fault, SessionsInv, SessionTypeOK

LEMMA CheckInv ==
  ASSUME SessionsInv, NEW q \in Requests, Check(q)
  PROVE  SessionsInv'
<1>. DEFINE f == request[q].flow
<1>1. /\ request[q].pc = "check" /\ f \in Flows /\ password[f].state \in {"live", "revoked"}
      /\ boot.pc \in {"up", "stop"} /\ request[q].pc \in Pcs
  BY UnderWay DEF Check, SessionsInv, Pcs, SessionTypeOK
<1>2. PICK pc \in Pcs : Goto(q, pc)
  BY DEF Check, Pcs
<1>3. UNCHANGED <<flow, password, user, session, boot, faults>>
  BY DEF Check
<1>4. SessionTypeOK' /\ NobodyServed'
  BY <1>1, <1>2, <1>3, RequestKept DEF SessionsInv, SessionTypeOK
<1>. QED
  BY <1>3, <1>4 DEF SessionsInv, CleaningOne, StandOnPasswords, ForeignAwaitCleanup

LEMMA TurnAwayInv ==
  ASSUME SessionsInv, NEW q \in Requests, TurnAway(q)
  PROVE  SessionsInv'
<1>. DEFINE f == request[q].flow
<1>1. /\ request[q].pc = "turn_away" /\ f \in Flows /\ password[f].state \in {"live", "revoked"}
      /\ boot.pc \in {"up", "stop"} /\ request[q].pc \in Pcs /\ "forget" \in Pcs
  BY UnderWay DEF TurnAway, SessionsInv, Pcs, SessionTypeOK
<1>2. /\ password' \in [Flows -> {NoPassword} \cup
                          [state : {"granted", "live", "revoked"}, login : Accounts]]
      /\ \A g \in Flows : password[g].state \in {"live", "revoked"} =>
                            password'[g].state \in {"live", "revoked"}
  BY <1>1, RevokedOrNot DEF TurnAway
<1>3. faults' \in 0 .. MaxFaults
  BY <1>1, RefusesType DEF TurnAway, SessionsInv, SessionTypeOK
<1>4. Goto(q, "forget") /\ UNCHANGED <<flow, user, session, boot>>
  BY DEF TurnAway
<1>5. SessionTypeOK' /\ NobodyServed'
  BY <1>1, <1>2, <1>3, <1>4, RequestKept DEF SessionsInv, SessionTypeOK
<1>. QED
  BY <1>2, <1>4, <1>5 DEF SessionsInv, CleaningOne, StandOnPasswords, ForeignAwaitCleanup

LEMMA SessionRevokeInv ==
  ASSUME SessionsInv, NEW q \in Requests, Revoke(q)
  PROVE  SessionsInv'
<1>. DEFINE f == request[q].flow
<1>1. /\ request[q].pc = "revoke" /\ f \in Flows /\ password[f].state \in {"live", "revoked"}
      /\ boot.pc \in {"up", "stop"} /\ request[q].pc \in Pcs /\ "delete" \in Pcs
  BY UnderWay DEF Revoke, SessionsInv, Pcs, SessionTypeOK
<1>2. /\ password' \in [Flows -> {NoPassword} \cup
                          [state : {"granted", "live", "revoked"}, login : Accounts]]
      /\ \A g \in Flows : password[g].state \in {"live", "revoked"} =>
                            password'[g].state \in {"live", "revoked"}
  BY <1>1, RevokedOrNot DEF Revoke
<1>3. faults' \in 0 .. MaxFaults
  BY <1>1, RefusesType DEF Revoke, SessionsInv, SessionTypeOK
<1>4. Goto(q, "delete") \/ Return(q)
  BY DEF Revoke
<1>5. UNCHANGED <<flow, user, session, boot>>
  BY DEF Revoke
<1>6. SessionTypeOK' /\ NobodyServed'
  BY <1>1, <1>2, <1>3, <1>4, <1>5, RequestKept DEF SessionsInv, SessionTypeOK
<1>. QED
  BY <1>2, <1>5, <1>6 DEF SessionsInv, CleaningOne, StandOnPasswords, ForeignAwaitCleanup

LEMMA CreateSessionInv ==
  ASSUME SessionsInv, NEW q \in Requests, CreateSession(q)
  PROVE  SessionsInv'
<1>. DEFINE f == request[q].flow
            new == [state |-> "active", login |-> LoginOf(f), expired |-> FALSE, own |-> TRUE]
<1>1. /\ request[q].pc = "create" /\ f \in Flows /\ password[f].state \in {"live", "revoked"}
      /\ boot.pc \in {"up", "stop"} /\ request[q].pc \in Pcs /\ "forget" \in Pcs
  BY UnderWay DEF CreateSession, SessionsInv, Pcs, SessionTypeOK
<1>2. Goto(q, "forget") \/ Return(q)
  BY DEF CreateSession
<1>3. UNCHANGED <<flow, password, user, boot, faults>>
  BY DEF CreateSession
<1>4. \/ session' = session
      \/ LoginOf(f) \in Logins /\ session' = [session EXCEPT ![f] = new]
  BY DEF CreateSession, MayCurate
<1>5. /\ session' \in [Flows -> {NoSession} \cup
                         [state : {"active", "revocation_pending"}, login : Logins,
                          expired : BOOLEAN, own : BOOLEAN]]
      /\ \A g \in Flows : \/ session'[g] = session[g]
                          \/ g = f /\ session'[g].state = "active" /\ session'[g].own
  <2>1. session' \in [Flows -> {NoSession} \cup
                         [state : {"active", "revocation_pending"}, login : Logins,
                          expired : BOOLEAN, own : BOOLEAN]]
    <3>1. LoginOf(f) \in Logins =>
            new \in [state : {"active", "revocation_pending"}, login : Logins,
                     expired : BOOLEAN, own : BOOLEAN]
      OBVIOUS
    <3>. HIDE DEF new
    <3>. QED
      BY <1>1, <1>4, <3>1 DEF SessionsInv, SessionTypeOK
  <2>2. new.state = "active" /\ new.own
    OBVIOUS
  <2>3. ASSUME NEW g \in Flows, session'[g] # session[g]
        PROVE  g = f /\ session'[g] = new
    <3>. HIDE DEF new
    <3>. QED
      BY <1>1, <1>4, <2>3 DEF SessionsInv, SessionTypeOK
  <2>. QED
    BY <2>1, <2>2, <2>3
<1>6. SessionTypeOK' /\ NobodyServed'
  BY <1>1, <1>2, <1>3, <1>5, RequestKept DEF SessionsInv, SessionTypeOK
<1>. QED
  BY <1>1, <1>3, <1>5, <1>6 DEF SessionsInv, CleaningOne, StandOnPasswords, ForeignAwaitCleanup

LEMMA ForgetFlowInv ==
  ASSUME SessionsInv, NEW q \in Requests, ForgetFlow(q)
  PROVE  SessionsInv'
<1>. DEFINE f == request[q].flow
<1>1. /\ f \in Flows /\ password[f].state \in {"live", "revoked"}
      /\ boot.pc \in {"up", "stop"} /\ request[q].pc \in Pcs
  BY UnderWay DEF ForgetFlow, SessionsInv, Pcs, SessionTypeOK
<1>2. Return(q) /\ UNCHANGED <<password, user, session, boot, faults>>
  BY DEF ForgetFlow
<1>3. flow' \in [Flows -> {"none", "open", "stale"}]
  BY DEF ForgetFlow, SessionsInv, SessionTypeOK
<1>4. SessionTypeOK' /\ NobodyServed'
  BY <1>1, <1>2, <1>3, RequestKept DEF SessionsInv, SessionTypeOK
<1>. QED
  BY <1>2, <1>4 DEF SessionsInv, CleaningOne, StandOnPasswords, ForeignAwaitCleanup

\* marking a session changes nothing but its state, and only of one that is stored
LEMMA Marked ==
  ASSUME SessionsInv, NEW fs \in SUBSET Flows, MarkPending(fs)
  PROVE  /\ session' \in [Flows -> {NoSession} \cup
                            [state : {"active", "revocation_pending"}, login : Logins,
                             expired : BOOLEAN, own : BOOLEAN]]
         /\ \A f \in Flows : session'[f].state = "none" <=> session[f].state = "none"
         /\ \A f \in Flows : session'[f].state = "active" =>
                               f \notin fs /\ session'[f] = session[f]
<1>1. ASSUME NEW f \in Flows
      PROVE  /\ session'[f] \in {NoSession} \cup
                                [state : {"active", "revocation_pending"}, login : Logins,
                                 expired : BOOLEAN, own : BOOLEAN]
             /\ session'[f].state = "none" <=> session[f].state = "none"
             /\ session'[f].state = "active" => f \notin fs /\ session'[f] = session[f]
  <2>1. CASE f \in fs /\ session[f].state # "none"
    <3>1. session[f] \in [state : {"active", "revocation_pending"}, login : Logins,
                          expired : BOOLEAN, own : BOOLEAN]
      BY <2>1 DEF SessionsInv, SessionTypeOK, NoSession
    <3>2. session'[f] = [session[f] EXCEPT !.state = "revocation_pending"]
      BY <2>1 DEF MarkPending
    <3>. QED
      BY <2>1, <3>1, <3>2
  <2>2. CASE ~ (f \in fs /\ session[f].state # "none")
    <3>1. session'[f] = session[f]
      BY <2>2 DEF MarkPending
    <3>. QED
      BY <2>2, <3>1 DEF SessionsInv, SessionTypeOK, NoSession
  <2>. QED
    BY <2>1, <2>2
<1>2. session' = [f \in Flows |-> session'[f]]
  BY DEF MarkPending
<1>. QED
  BY <1>1, <1>2

LEMMA InvalidateInv ==
  ASSUME SessionsInv, NEW q \in Requests, NEW f \in Flows, Invalidate(q, f)
  PROVE  SessionsInv'
<1>1. /\ boot.pc \in {"up", "stop"} /\ "revoke" \in Pcs
      /\ password[f].state \in {"live", "revoked"}
  BY DEF Invalidate, Arrives, Up, SessionsInv, StandOnPasswords, Pcs
<1>2. Enter(q, "revoke", f) /\ UNCHANGED <<flow, password, user, boot, faults>>
  BY DEF Invalidate
<1>3. /\ session' \in [Flows -> {NoSession} \cup
                         [state : {"active", "revocation_pending"}, login : Logins,
                          expired : BOOLEAN, own : BOOLEAN]]
      /\ \A g \in Flows : session'[g].state = "none" <=> session[g].state = "none"
      /\ \A g \in Flows : session'[g].state = "active" => session'[g] = session[g]
  BY Marked DEF Invalidate
<1>4. SessionTypeOK' /\ NobodyServed'
  BY <1>1, <1>2, <1>3, RequestKept DEF SessionsInv, SessionTypeOK
<1>. QED
  BY <1>2, <1>3, <1>4 DEF SessionsInv, CleaningOne, StandOnPasswords, ForeignAwaitCleanup

LEMMA DeleteSessionInv ==
  ASSUME SessionsInv, NEW q \in Requests, DeleteSession(q)
  PROVE  SessionsInv'
<1>. DEFINE f == request[q].flow
<1>1. /\ f \in Flows /\ password[f].state \in {"live", "revoked"}
      /\ boot.pc \in {"up", "stop"} /\ request[q].pc \in Pcs
  BY UnderWay DEF DeleteSession, SessionsInv, Pcs, SessionTypeOK
<1>2. /\ Return(q) /\ UNCHANGED <<flow, password, user, boot, faults>>
      /\ session' = [session EXCEPT ![f] = NoSession]
  BY DEF DeleteSession
<1>3. /\ session' \in [Flows -> {NoSession} \cup
                         [state : {"active", "revocation_pending"}, login : Logins,
                          expired : BOOLEAN, own : BOOLEAN]]
      /\ \A g \in Flows : session'[g].state = "none" \/ session'[g] = session[g]
  BY <1>2 DEF SessionsInv, SessionTypeOK, NoSession
<1>4. SessionTypeOK' /\ NobodyServed'
  BY <1>1, <1>2, <1>3, RequestKept DEF SessionsInv, SessionTypeOK
<1>. QED
  BY <1>2, <1>3, <1>4 DEF SessionsInv, CleaningOne, StandOnPasswords, ForeignAwaitCleanup

LEMMA AdministerInv ==
  ASSUME SessionsInv, NEW l \in Logins, Administer(l)
  PROVE  SessionsInv'
<1>1. user[l] \in [enabled : BOOLEAN, curates : BOOLEAN]
  BY DEF SessionsInv, SessionTypeOK
<1>2. /\ [user[l] EXCEPT !.enabled = ~@] \in [enabled : BOOLEAN, curates : BOOLEAN]
      /\ [user[l] EXCEPT !.curates = ~@] \in [enabled : BOOLEAN, curates : BOOLEAN]
  BY <1>1
<1>3. user' \in [Logins -> [enabled : BOOLEAN, curates : BOOLEAN]]
  BY <1>2 DEF Administer, SessionsInv, SessionTypeOK
<1>4. faults' \in 0 .. MaxFaults
  BY CurationAssumption DEF Administer, Fault, SessionsInv, SessionTypeOK
<1>. QED
  BY <1>3, <1>4 DEF Administer, SessionsInv, SessionTypeOK, NobodyServed, CleaningOne,
     StandOnPasswords, ForeignAwaitCleanup

\* whatever ends the process leaves the sessions to the next one
LEMMA AllForeign ==
  ASSUME SessionsInv, session' = Foreign
  PROVE  /\ session' \in [Flows -> {NoSession} \cup
                            [state : {"active", "revocation_pending"}, login : Logins,
                             expired : BOOLEAN, own : BOOLEAN]]
         /\ \A f \in Flows : session'[f].state = session[f].state
<1>1. ASSUME NEW f \in Flows
      PROVE  /\ session'[f] \in {NoSession} \cup
                                [state : {"active", "revocation_pending"}, login : Logins,
                                 expired : BOOLEAN, own : BOOLEAN]
             /\ session'[f].state = session[f].state
  <2>1. session'[f] = [session[f] EXCEPT !.own = FALSE]
    BY DEF Foreign
  <2>2. CASE session[f] = NoSession
    <3>1. [NoSession EXCEPT !.own = NoSession.own] = NoSession
      BY DEF NoSession
    <3>2. NoSession.own = FALSE
      BY DEF NoSession
    <3>3. session'[f] = NoSession
      BY <2>1, <2>2, <3>1, <3>2, Zenon
    <3>. QED
      BY <2>2, <3>3
  <2>3. CASE session[f] # NoSession
    <3>1. session[f] \in [state : {"active", "revocation_pending"}, login : Logins,
                          expired : BOOLEAN, own : BOOLEAN]
      BY <2>3 DEF SessionsInv, SessionTypeOK
    <3>. QED
      BY <2>1, <3>1
  <2>. QED
    BY <2>2, <2>3
<1>2. session' = [f \in Flows |-> session'[f]]
  BY DEF Foreign
<1>. QED
  BY <1>1, <1>2

Boots == [pc : {"down", "clean", "revoke", "delete", "up", "stop"}, todo : SUBSET Flows,
          at : Flows \cup {None}, key : BOOLEAN]

LEMMA SessionCrashInv ==
  ASSUME SessionsInv, Crash
  PROVE  SessionsInv'
<1>1. boot' \in Boots /\ boot'.pc = "down"
  BY DEF Crash, SessionsInv, SessionTypeOK, Boots
<1>2. faults' \in 0 .. MaxFaults
  BY CurationAssumption DEF Crash, Fault, SessionsInv, SessionTypeOK
<1>3. request' = [q \in Requests |-> NoRequest] /\ UNCHANGED <<flow, password, user>>
  BY DEF Crash
<1>4. "idle" \notin Pcs
  BY DEF Pcs
<1>5. /\ session' \in [Flows -> {NoSession} \cup
                         [state : {"active", "revocation_pending"}, login : Logins,
                          expired : BOOLEAN, own : BOOLEAN]]
      /\ \A f \in Flows : session'[f].state = session[f].state
  BY AllForeign DEF Crash
<1>6. SessionTypeOK'
  BY <1>1, <1>2, <1>3, <1>4, <1>5 DEF SessionsInv, SessionTypeOK, Boots, NoRequest
<1>7. NobodyServed' /\ CleaningOne' /\ ForeignAwaitCleanup'
  BY <1>1, <1>3 DEF NobodyServed, CleaningOne, ForeignAwaitCleanup
<1>8. StandOnPasswords'
  BY <1>3, <1>5 DEF SessionsInv, StandOnPasswords
<1>. QED
  BY <1>6, <1>7, <1>8 DEF SessionsInv

LEMMA StopInv ==
  ASSUME SessionsInv, Stop
  PROVE  SessionsInv'
<1>1. boot' \in Boots /\ boot'.pc = "stop" /\ boot.pc = "up"
  BY DEF Stop, SessionsInv, SessionTypeOK, Boots
<1>. QED
  BY <1>1 DEF Stop, SessionsInv, SessionTypeOK, NobodyServed, CleaningOne, StandOnPasswords,
     ForeignAwaitCleanup, Boots

LEMMA HaltInv ==
  ASSUME SessionsInv, Halt
  PROVE  SessionsInv'
<1>1. boot' \in Boots /\ boot'.pc = "down"
  BY DEF Halt, SessionsInv, SessionTypeOK, Boots
<1>2. /\ \A q \in Requests : request[q] = NoRequest
      /\ UNCHANGED <<flow, password, user, request, faults>>
  BY DEF Halt
<1>3. /\ session' \in [Flows -> {NoSession} \cup
                         [state : {"active", "revocation_pending"}, login : Logins,
                          expired : BOOLEAN, own : BOOLEAN]]
      /\ \A f \in Flows : session'[f].state = session[f].state
  BY AllForeign DEF Halt
<1>4. SessionTypeOK'
  BY <1>1, <1>2, <1>3 DEF SessionsInv, SessionTypeOK, Boots
<1>5. NobodyServed' /\ CleaningOne' /\ ForeignAwaitCleanup'
  BY <1>1, <1>2 DEF NobodyServed, CleaningOne, ForeignAwaitCleanup
<1>6. StandOnPasswords'
  BY <1>2, <1>3 DEF SessionsInv, StandOnPasswords
<1>. QED
  BY <1>4, <1>5, <1>6 DEF SessionsInv

LEMMA StartInv ==
  ASSUME SessionsInv, Start
  PROVE  SessionsInv'
<1>1. PICK key \in BOOLEAN :
        /\ IF key THEN faults' = faults ELSE Fault
        /\ boot' = [pc |-> "clean", todo |-> IF key THEN Stored ELSE {},
                    at |-> None, key |-> key]
        /\ MarkPending(IF key THEN {} ELSE Stored)
  BY DEF Start
<1>2. Stored \in SUBSET Flows /\ \A f \in Flows : session[f].state = "active" => f \in Stored
  BY DEF Stored
<1>3. boot' \in Boots /\ boot'.pc = "clean" /\ boot'.todo = IF key THEN Stored ELSE {}
  BY <1>1, <1>2 DEF Boots
<1>4. faults' \in 0 .. MaxFaults
  BY <1>1, CurationAssumption DEF Fault, SessionsInv, SessionTypeOK
<1>5. PICK fs \in SUBSET Flows : MarkPending(fs) /\ fs = IF key THEN {} ELSE Stored
  BY <1>1, <1>2
<1>6. /\ session' \in [Flows -> {NoSession} \cup
                         [state : {"active", "revocation_pending"}, login : Logins,
                          expired : BOOLEAN, own : BOOLEAN]]
      /\ \A f \in Flows : session'[f].state = "none" <=> session[f].state = "none"
      /\ \A f \in Flows : session'[f].state = "active" =>
                            f \notin fs /\ session'[f] = session[f]
  BY <1>5, Marked
<1>7. ForeignAwaitCleanup'
  BY <1>2, <1>3, <1>5, <1>6 DEF ForeignAwaitCleanup
<1>8. UNCHANGED <<flow, password, user, request>> /\ boot.pc = "down"
  BY DEF Start
<1>9. SessionTypeOK'
  BY <1>3, <1>4, <1>6, <1>8 DEF SessionsInv, SessionTypeOK, Boots
<1>. QED
  BY <1>3, <1>6, <1>7, <1>8, <1>9 DEF SessionsInv, NobodyServed, CleaningOne, StandOnPasswords

LEMMA CleanNextInv ==
  ASSUME SessionsInv, NEW f \in Flows, CleanNext(f)
  PROVE  SessionsInv'
<1>1. /\ boot' \in Boots /\ boot'.pc = "revoke" /\ boot'.todo = boot.todo \ {f}
      /\ boot'.at = f /\ boot.pc = "clean"
  BY DEF CleanNext, SessionsInv, SessionTypeOK, Boots
<1>2. /\ session' \in [Flows -> {NoSession} \cup
                         [state : {"active", "revocation_pending"}, login : Logins,
                          expired : BOOLEAN, own : BOOLEAN]]
      /\ \A g \in Flows : session'[g].state = "none" <=> session[g].state = "none"
      /\ \A g \in Flows : session'[g].state = "active" =>
                            g \notin {f} /\ session'[g] = session[g]
  BY Marked DEF CleanNext
<1>3. UNCHANGED <<flow, password, user, request, faults>>
  BY DEF CleanNext
<1>4. SessionTypeOK'
  BY <1>1, <1>2, <1>3 DEF SessionsInv, SessionTypeOK, Boots
<1>. QED
  BY <1>1, <1>2, <1>3, <1>4 DEF SessionsInv, NobodyServed, CleaningOne, StandOnPasswords,
     ForeignAwaitCleanup

LEMMA CleanRevokeInv ==
  ASSUME SessionsInv, CleanRevoke
  PROVE  SessionsInv'
<1>1. boot.pc = "revoke" /\ boot.at \in Flows
  BY DEF CleanRevoke, SessionsInv, CleaningOne
<1>2. /\ boot' \in Boots /\ boot'.pc \in {"delete", "clean"} /\ boot'.todo = boot.todo
      /\ boot'.pc = "delete" => boot'.at = boot.at
  BY <1>1 DEF CleanRevoke, SessionsInv, SessionTypeOK, Boots
<1>3. /\ password' \in [Flows -> {NoPassword} \cup
                          [state : {"granted", "live", "revoked"}, login : Accounts]]
      /\ \A g \in Flows : password[g].state \in {"live", "revoked"} =>
                            password'[g].state \in {"live", "revoked"}
  BY <1>1, RevokedOrNot DEF CleanRevoke
<1>4. faults' \in 0 .. MaxFaults
  BY <1>1, RefusesType DEF CleanRevoke, SessionsInv, SessionTypeOK
<1>5. UNCHANGED <<flow, user, session, request>>
  BY DEF CleanRevoke
<1>6. \A q \in Requests : request'[q] = NoRequest
  BY <1>1, <1>5 DEF SessionsInv, NobodyServed
<1>7. SessionTypeOK'
  BY <1>2, <1>3, <1>4, <1>5, <1>6 DEF SessionsInv, SessionTypeOK, Boots, NoRequest, Pcs
<1>. QED
  BY <1>1, <1>2, <1>3, <1>5, <1>6, <1>7 DEF SessionsInv, NobodyServed, CleaningOne,
     StandOnPasswords, ForeignAwaitCleanup

LEMMA CleanDeleteInv ==
  ASSUME SessionsInv, CleanDelete
  PROVE  SessionsInv'
<1>1. boot.pc = "delete" /\ boot.at \in Flows
  BY DEF CleanDelete, SessionsInv, CleaningOne
<1>2. boot' \in Boots /\ boot'.pc = "clean" /\ boot'.todo = boot.todo
  BY DEF CleanDelete, SessionsInv, SessionTypeOK, Boots
<1>3. /\ session' \in [Flows -> {NoSession} \cup
                         [state : {"active", "revocation_pending"}, login : Logins,
                          expired : BOOLEAN, own : BOOLEAN]]
      /\ \A g \in Flows : session'[g].state = "none" \/ session'[g] = session[g]
  BY <1>1 DEF CleanDelete, SessionsInv, SessionTypeOK, NoSession
<1>4. UNCHANGED <<flow, password, user, request, faults>>
  BY DEF CleanDelete
<1>5. SessionTypeOK'
  BY <1>2, <1>3, <1>4 DEF SessionsInv, SessionTypeOK, Boots
<1>. QED
  BY <1>1, <1>2, <1>3, <1>4, <1>5 DEF SessionsInv, NobodyServed, CleaningOne,
     StandOnPasswords, ForeignAwaitCleanup

LEMMA ServeInv ==
  ASSUME SessionsInv, Serve
  PROVE  SessionsInv'
<1>1. boot' \in Boots /\ boot'.pc = "up" /\ boot.pc = "clean" /\ boot.todo = {}
  BY DEF Serve, SessionsInv, SessionTypeOK, Boots
<1>. QED
  BY <1>1 DEF Serve, SessionsInv, SessionTypeOK, NobodyServed, CleaningOne, StandOnPasswords,
     ForeignAwaitCleanup, Boots

LEMMA SessionNextInv ==
  ASSUME SessionsInv, [SessionNext]_sessionVars
  PROVE  SessionsInv'
<1>1. CASE \E f \in Flows : Login(f) \/ FlowAges(f) \/ SessionAges(f)
  BY <1>1, LoginInv, FlowAgesInv, SessionAgesInv
<1>2. CASE \E f \in Flows, l \in Accounts : Confirm(f, l)
  BY <1>2, ConfirmInv
<1>3. CASE \E f \in Flows, q \in Requests : Look(q, f) \/ Invalidate(q, f)
  BY <1>3, SessionLookInv, InvalidateInv
<1>4. CASE \E q \in Requests : Step(q)
  BY <1>4, SessionPollInv, CheckInv, TurnAwayInv, CreateSessionInv, ForgetFlowInv,
     SessionRevokeInv, DeleteSessionInv DEF Step
<1>5. CASE \E l \in Logins : Administer(l)
  BY <1>5, AdministerInv
<1>6. CASE Startup
  BY <1>6, StartInv, CleanRevokeInv, CleanDeleteInv, ServeInv, CleanNextInv DEF Startup
<1>7. CASE Crash \/ Stop \/ Halt
  BY <1>7, SessionCrashInv, StopInv, HaltInv
<1>8. CASE UNCHANGED sessionVars
  BY <1>8 DEF sessionVars, SessionsInv, SessionTypeOK, NobodyServed, CleaningOne,
     StandOnPasswords, ForeignAwaitCleanup
<1>. QED
  BY <1>1, <1>2, <1>3, <1>4, <1>5, <1>6, <1>7, <1>8 DEF SessionNext

\* SessionsInv is an invariant.
THEOREM SessionsInvariant == SessionSpec => []SessionsInv
<1>1. SessionInit => SessionsInv
  BY SessionInitInv
<1>2. SessionsInv /\ [SessionNext]_sessionVars => SessionsInv'
  BY SessionNextInv
<1>. QED
  BY <1>1, <1>2, PTL DEF SessionSpec

\* session_from_request lets a request pass only with a session this process has
\* created: the cleanup of the start-up has marked every earlier one, or the
\* process has not begun to serve.
THEOREM NoForeignSession == SessionSpec => []OnlyOwnSessions
<1>1. SessionsInv => OnlyOwnSessions
  BY DEF SessionsInv, ForeignAwaitCleanup, OnlyOwnSessions, Accepts, Up
<1>. QED
  BY <1>1, SessionsInvariant, PTL

=============================================================================

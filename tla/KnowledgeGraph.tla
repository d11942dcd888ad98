--------------------------- MODULE KnowledgeGraph ---------------------------
(***************************************************************************)
(* rag/graph.py: the identities of the Neo4j store, what is known about    *)
(* them and the decisions of curators.  Three parties write: the import of *)
(* CardDAV contacts, the indexing of documents (observations of names in a *)
(* document, and the document's mentions), and the curator, who renames,   *)
(* corrects, deletes, merges, and confirms or rejects suspected            *)
(* duplicates.  What the machine derives is derived again at every pass;   *)
(* what a person has decided must survive that.                            *)
(*                                                                         *)
(* Entities of one type.  A form is an edge HAS_NAME, HAS_SEARCH_ALIAS or  *)
(* HAS_EMAIL; phones and addresses behave like e-mail addresses.  The      *)
(* paths by organization, weights, scores and provenance texts are left    *)
(* out, and so is the cut at five suggestions.  Every operation is one     *)
(* step here although it is several transactions; GraphIndexer takes the   *)
(* indexing apart.                                                         *)
(***************************************************************************)
EXTENDS Integers, FiniteSets, NoValue

CONSTANTS
  Entities,      \* entity ids; those not used yet are absent
  Names,         \* normalized names
  Emails,        \* normalized e-mail addresses
  Docs,          \* documents
  Contacts,      \* contact records of the address books
  Cards,         \* [name, email] a contact may have
  Text,          \* names that occur in the text of a document
  Policies,      \* resolution policies of forms that are used
  Alike,         \* pairs of different names whose spelling is similar
  Admissions,    \* what admission may say of a name: <<eligible, may create>>
  MaxDecisions,  \* bound: decisions of curators
  MaxChanges,    \* bound: those and contact records written or removed
  Curator       \* source of a form a curator added

ASSUME StoreAssumption ==
  /\ Cards \subseteq [name : Names, email : Emails]
  /\ Text \in [Docs -> SUBSET Names]
  /\ Alike \subseteq SUBSET Names
  /\ Policies \subseteq {"exclusive", "contextual", "search_only", "document_only"}
  /\ Admissions \subseteq BOOLEAN \X BOOLEAN
  /\ MaxDecisions \in Nat /\ MaxChanges \in Nat
  /\ None \notin Entities \cup Names \cup Contacts

VARIABLES
  identity,   \* identity_status of every entity
  display,    \* display_name, and the contact it was taken from
  forms,      \* names, aliases and e-mail addresses
  describes,  \* the entity a contact record describes
  obs,        \* EntityObservations, by document and name
  resolved,   \* RESOLVED_TO: <<observation, entity>>
  mentions,   \* MENTIONS: <<document, entity>>
  claims,     \* RelationObservations of the machine: <<document, subject, object>>
  same,       \* SAME_AS
  different,  \* NOT_SAME_AS
  possible,   \* POSSIBLE_SAME_AS and who suggested it
  decisions,  \* decisions taken so far
  changes,    \* those and contact records written or removed so far
  rejected    \* history: pairs a curator has rejected, by their live members

people == <<identity, display, forms, describes>>
evidence == <<obs, resolved, mentions, claims>>
judgement == <<same, different, possible>>
vars == <<people, evidence, judgement, decisions, changes, rejected>>

Observations == Docs \X Names
Pairs == {p \in SUBSET Entities : Cardinality(p) = 2}
Kinds == {"name", "alias", "email"}
Gone == {"absent", "deleted"}
Retired == {"merged", "orphaned"}
Form == [entity : Entities, kind : Kinds, value : Names \cup Emails,
         source : Docs \cup Contacts \cup Entities \cup {Curator},
         active : BOOLEAN, policy : Policies \cup {"exclusive"}]
Observation == [status : {"none", "rejected", "corrected", "resolved_existing",
                          "ambiguous", "unresolved", "created_provisional"},
                eligible : BOOLEAN,
                curator : {"", "manual_not_entity", "corrected_observation"},
                target : Entities \cup {None}]

TypeOK ==
  /\ identity \in [Entities -> Gone \cup Retired
                               \cup {"seeded", "provisional", "confirmed"}]
  /\ display \in [Entities -> [name : Names \cup {None}, from : Contacts \cup {None}]]
  /\ forms \subseteq Form
  /\ describes \in [Contacts -> Entities \cup {None}]
  /\ obs \in [Observations -> Observation]
  /\ resolved \subseteq Observations \X Entities
  /\ mentions \subseteq Docs \X Entities
  /\ claims \subseteq Docs \X Entities \X Entities
  /\ same \subseteq Pairs /\ different \subseteq Pairs
  /\ possible \subseteq [pair : Pairs, by : {"similarity", "carry"}]
  /\ decisions \in 0 .. MaxDecisions /\ changes \in 0 .. MaxChanges
  /\ rejected \subseteq SUBSET Entities

Unseen == [status |-> "none", eligible |-> FALSE, curator |-> "", target |-> None]

Init ==
  /\ identity = [e \in Entities |-> "absent"]
  /\ display = [e \in Entities |-> [name |-> None, from |-> None]]
  /\ forms = {}
  /\ describes = [c \in Contacts |-> None]
  /\ obs = [o \in Observations |-> Unseen]
  /\ resolved = {} /\ mentions = {} /\ claims = {}
  /\ same = {} /\ different = {} /\ possible = {}
  /\ decisions = 0 /\ changes = 0 /\ rejected = {}

-----------------------------------------------------------------------------
(* Reading the store.  Operators with a parameter for the state they read  *)
(* are used before and after a step.                                       *)

Exists(e) == identity[e] \notin Gone
Live(ids) == {e \in Entities : ids[e] \notin Gone \cup Retired}
Active(e) == e \in Live(identity)

IsForm(fs, e, n) == \E f \in fs : /\ f.entity = e /\ f.value = n
                                  /\ f.active /\ f.kind \in {"name", "alias"}
                                  /\ f.policy # "document_only"

\* the live entities whose forms decide what a name in a document means
Bearers(n) ==
  {e \in Live(identity) : \E f \in forms :
     /\ f.entity = e /\ f.value = n /\ f.kind \in {"name", "alias"}
     /\ f.active /\ f.policy = "exclusive"}

Similar(n, m) == n = m \/ {n, m} \in Alike

\* entities connected with e by SAME_AS between live entities: those that
\* every set of live entities closed under the edges has when it has e
Component(e, ids, edges) ==
  LET live == Live(ids)
      Closed(S) == \A x \in S, y \in live : {x, y} \in edges => y \in S
  IN  IF e \in live
      THEN {x \in live : \A S \in SUBSET live : e \in S /\ Closed(S) => x \in S}
      ELSE {e}

\* MERGE of forms: an edge is identified by entity, kind, value and source
SameEdge(f, g) == /\ f.entity = g.entity /\ f.kind = g.kind
                  /\ f.value = g.value /\ f.source = g.source
Put(fs, new) == {g \in fs : \A f \in new : ~SameEdge(f, g)} \cup new
NewForm(e, kind, value, source, policy) ==
  [entity |-> e, kind |-> kind, value |-> value, source |-> source,
   active |-> TRUE, policy |-> policy]

Without(P, pairs) == {p \in P : p.pair \notin pairs}
Suggested(pairs, by) == {[pair |-> p, by |-> by] : p \in pairs}

(* refresh_possible_same_as: the machine's suggestions about e are made    *)
(* anew from all current forms.  Members of the same component and of      *)
(* components separated from it by a curator are never suggested.  Reads   *)
(* the state after the step.                                               *)
Refresh(e, P) ==
  LET kept    == {p \in P : e \notin p.pair \/ p.by # "similarity"}
      own     == Component(e, identity', same')
      apart   == UNION {Component(x, identity', same') :
                          x \in {y \in Entities : \E z \in own : {y, z} \in different'}}
      mine    == {n \in Names : \E z \in own : IsForm(forms', z, n)} \cup {display'[e].name}
      matches == {x \in Live(identity') \ (own \cup apart) :
                    \E n \in Names : /\ IsForm(forms', x, n)
                                     /\ \E m \in mine : Similar(m, n)}
  IN  IF e \notin Live(identity') THEN P
      ELSE LET pairs == {{e, x} : x \in matches}
           IN  Without(kept, pairs) \cup Suggested(pairs, "similarity")

Change == changes < MaxChanges /\ changes' = changes + 1

Decide == Change /\ decisions < MaxDecisions /\ decisions' = decisions + 1

-----------------------------------------------------------------------------
(* Curation of names.                                                      *)

\* correct_name: the old display spelling is retired, not kept as an alias
CorrectName(e, n) ==
  LET old     == display[e].name
      wrong(f) == /\ f.entity = e /\ n # old
                  /\ \/ f.kind = "name" /\ f.value = old
                     \/ f.kind = "alias" /\ f.source \in Docs
  IN  /\ Active(e) /\ Decide
      /\ forms' = Put({[f EXCEPT !.active = f.active /\ ~wrong(f)] : f \in forms},
                      {NewForm(e, "name", n, Curator, "exclusive")})
      /\ identity' = [identity EXCEPT ![e] = "confirmed"]
      /\ display' = [display EXCEPT ![e].name = n]
      /\ UNCHANGED <<describes, evidence, same, different, rejected>>
      /\ possible' = Refresh(e, possible)

\* set_form_policy: all edges of this spelling, active or not
SetFormPolicy(e, n, policy) ==
  LET meant(f) == f.entity = e /\ f.value = n /\ f.kind # "email"
  IN  /\ Exists(e) /\ Decide
      /\ \E f \in forms : meant(f)
      /\ forms' = {IF meant(f) THEN [f EXCEPT !.policy = policy] ELSE f : f \in forms}
      /\ UNCHANGED <<identity, display, describes, evidence, same, different, rejected>>
      /\ possible' = Refresh(e, possible)

AddAlias(e, n, policy) ==
  /\ Active(e) /\ policy # "document_only" /\ Decide
  /\ forms' = Put(forms, {NewForm(e, "alias", n, Curator, policy)})
  /\ UNCHANGED <<identity, display, describes, evidence, same, different, rejected>>
  /\ possible' = Refresh(e, possible)

RemoveAlias(e, n) ==
  LET gone == {f \in forms : f.entity = e /\ f.value = n /\ f.kind = "alias"}
  IN  /\ Exists(e) /\ gone # {} /\ Decide
      /\ forms' = forms \ gone
      /\ UNCHANGED <<identity, display, describes, evidence, same, different, rejected>>
      /\ possible' = Refresh(e, possible)

-----------------------------------------------------------------------------
(* Curation of identities.                                                 *)

\* correct_observation; of several resolutions the first row counts as the
\* old one, and an identity nothing speaks for any more is orphaned
CorrectObservation(o, t) ==
  \E old \in {e \in Entities : <<o, e>> \in resolved}
             \cup (IF \E e \in Entities : <<o, e>> \in resolved THEN {} ELSE {None}) :
    LET d == o[1]
        supported == \E x \in Observations \ {o} :
          x[1] = d /\ <<x, old>> \in resolved /\ obs[x].curator # "manual_not_entity"
    IN  /\ obs[o].status # "none" /\ Active(t) /\ Decide
        /\ resolved' = {r \in resolved : r[1] # o} \cup {<<o, t>>}
        /\ obs' = [obs EXCEPT ![o].status = "corrected",
                              ![o].curator = "corrected_observation", ![o].target = t]
        /\ mentions' = (IF old # t /\ ~supported THEN mentions \ {<<d, old>>} ELSE mentions)
                       \cup {<<d, t>>}
        /\ identity' = [e \in Entities |->
             IF /\ e = old /\ e # t /\ identity[e] = "provisional"
                /\ \A x \in Docs : <<x, e>> \notin mentions'
                /\ \A x \in Observations : <<x, e>> \notin resolved'
                /\ \A c \in Contacts : describes[c] # e
             THEN "orphaned" ELSE identity[e]]
        /\ UNCHANGED <<display, forms, describes, claims, judgement, rejected>>

\* mistake: deleting an entity leaves the claims about it
DeleteLeavesClaims(e) ==
  /\ Exists(e) /\ identity[e] # "merged" /\ Decide
  /\ identity' = [identity EXCEPT ![e] = "deleted"]
  /\ resolved' = {r \in resolved : r[2] # e}
  /\ mentions' = {m \in mentions : m[2] # e}
  /\ UNCHANGED <<display, forms, describes, obs, claims, judgement, rejected>>

\* delete_entity: its observations become decisions against an identity
DeleteEntity(e) ==
  /\ Exists(e) /\ identity[e] # "merged" /\ Decide
  /\ \A c \in Contacts : describes[c] # e
  /\ obs' = [o \in Observations |->
       IF <<o, e>> \in resolved
       THEN [obs[o] EXCEPT !.status = "rejected", !.curator = "manual_not_entity",
                           !.target = None]
       ELSE obs[o]]
  /\ resolved' = {r \in resolved : r[2] # e}
  /\ mentions' = {m \in mentions : m[2] # e}
  /\ claims' = {c \in claims : c[2] # e /\ c[3] # e}
  /\ forms' = {f \in forms : f.entity # e}
  /\ same' = {p \in same : e \notin p}
  /\ different' = {p \in different : e \notin p}
  /\ possible' = {p \in possible : e \notin p.pair}
  /\ identity' = [identity EXCEPT ![e] = "deleted"]
  /\ rejected' = {p \in rejected : e \notin p}
  /\ UNCHANGED <<display, describes>>

\* mistake: the observation's target is not redirected by a merge
MergeKeepsTarget(k, m, policy) ==
  /\ k # m /\ Active(k) /\ Active(m) /\ Decide
  /\ identity' = [identity EXCEPT ![m] = "merged", ![k] = "confirmed"]
  /\ resolved' = {<<r[1], IF r[2] = m THEN k ELSE r[2]>> : r \in resolved}
  /\ UNCHANGED <<display, forms, describes, obs, mentions, claims, judgement, rejected>>

\* mistake: a merge forgets decisions against an identity of the merged entity
MergeForgetsRejections(k, m, policy) ==
  /\ k # m /\ Active(k) /\ Active(m) /\ Decide
  /\ identity' = [identity EXCEPT ![m] = "merged", ![k] = "confirmed"]
  /\ resolved' = {<<r[1], IF r[2] = m THEN k ELSE r[2]>> : r \in resolved}
  /\ different' = {p \in different : m \notin p}
  /\ rejected' = {{IF x = m THEN k ELSE x : x \in p} : p \in rejected} \ {{k}}
  /\ forms' = Put(forms, {NewForm(k, "alias", display[m].name, m, policy)})
  /\ UNCHANGED <<display, describes, obs, mentions, claims, same>>
  /\ possible' = Refresh(k, possible)

\* merge_entities copies every form of m, retired ones too, and its display
\* name; what they were taken from stays with the tombstone
Inherited(k, m, policy) ==
  {[f EXCEPT !.entity = k, !.source = m, !.active = TRUE,
             !.policy = IF f.kind = "email" THEN @ ELSE policy] :
     f \in {g \in forms : g.entity = m}}
  \cup {NewForm(k, "alias", display[m].name, m, policy)}

\* what refers to m is redirected; a correction follows, and a claim between
\* the two identities is dropped
RedirectEvidence(k, m) ==
  LET Now(e) == IF e = m THEN k ELSE e
      corrected(o) == obs[o].curator = "corrected_observation"
      moved == {<<c[1], Now(c[2]), Now(c[3])>> : c \in claims}
  IN  /\ obs' = [o \in Observations |->
           IF <<o, m>> \notin resolved THEN obs[o]
           ELSE [obs[o] EXCEPT
                   !.status = IF corrected(o) THEN "corrected" ELSE "resolved_existing",
                   !.target = IF corrected(o) THEN k ELSE @]]
      /\ resolved' = {<<r[1], Now(r[2])>> : r \in resolved}
      /\ mentions' = {<<r[1], Now(r[2])>> : r \in mentions}
      /\ claims' = {c \in moved : c[2] # c[3]}

\* decisions against an identity first, then those for it unless they are
\* contradicted, then the open questions, which a new comparison may know
RedirectJudgement(k, m) ==
  LET foes  == {x \in Entities : {m, x} \in different} \ {k}
      peers == {x \in Live(identity) : {m, x} \in same} \ {k}
      hints == {x \in Live(identity) : \E p \in possible : p.pair = {m, x}} \ {k}
      apart == {{k, x} : x \in foes}
      with(S) == {{k, x} : x \in {y \in S : {k, y} \notin different'}}
  IN  /\ different' = {p \in different : m \notin p} \cup apart
      /\ same' = ({p \in same : m \notin p} \ apart) \cup with(peers)
      /\ LET open == Refresh(k, {p \in Without(possible, apart) : m \notin p.pair})
             new  == {p \in with(hints) : \A q \in open : q.pair # p}
         IN  possible' = open \cup Suggested(new, "carry")

\* merge_entities: m becomes a tombstone, k counts as confirmed
Merge(k, m, policy) ==
  LET Now(e) == IF e = m THEN k ELSE e
  IN  /\ k # m /\ Active(k) /\ Active(m) /\ Decide
      /\ forms' = Put(forms, Inherited(k, m, policy))
      /\ describes' = [c \in Contacts |-> Now(describes[c])]
      /\ identity' = [identity EXCEPT ![m] = "merged", ![k] = "confirmed"]
      /\ UNCHANGED display
      /\ RedirectEvidence(k, m)
      /\ RedirectJudgement(k, m)
      /\ rejected' = {{Now(x) : x \in p} : p \in rejected} \ {{k}}

\* confirm_same_as: both stay, nothing is moved
ConfirmSame(a, b) ==
  /\ a # b /\ Active(a) /\ Active(b) /\ Decide
  /\ different' = different \ {{a, b}}
  /\ same' = same \cup {{a, b}}
  /\ UNCHANGED <<people, evidence>>
  /\ possible' = Refresh(b, Refresh(a, Without(possible, {{a, b}})))
  /\ rejected' = rejected \ {{a, b}}

\* reject_merge_candidate; it accepts retired identities as well
RejectSame(a, b) ==
  /\ a # b /\ Exists(a) /\ Exists(b) /\ Decide
  /\ different' = different \cup {{a, b}}
  /\ same' = same \ {{a, b}}
  /\ possible' = Without(possible, {{a, b}})
  /\ rejected' = rejected \cup (IF Active(a) /\ Active(b) THEN {{a, b}} ELSE {})
  /\ UNCHANGED <<people, evidence>>

-----------------------------------------------------------------------------
(* Contacts.                                                               *)

FromContact(f) == f.source \in Contacts

\* resolve_or_create_entity: the record's own identity, a unique bearer of
\* the e-mail address, or a new one; never the name alone
Owners(c, card) ==
  LET mailed == {e \in Live(identity) : \E f \in forms :
                   f.entity = e /\ f.kind = "email" /\ f.value = card.email /\ f.active}
      unused == {e \in Entities : identity[e] = "absent"}
  IN  IF describes[c] # None THEN {describes[c]}
      ELSE IF Cardinality(mailed) = 1 THEN mailed ELSE unused

\* upsert_contact: earlier values of this record become inactive history
UpsertContact(c, card) ==
  \E e \in Owners(c, card) :
    LET history == {IF f.entity = e /\ f.source = c THEN [f EXCEPT !.active = FALSE] ELSE f :
                      f \in forms}
    IN  /\ describes' = [describes EXCEPT ![c] = e]
        /\ display' = [display EXCEPT ![e] = [name |-> card.name, from |-> c]]
        /\ identity' = [identity EXCEPT ![e] = IF @ = "confirmed" THEN @ ELSE "seeded"]
        /\ forms' = Put(history, {NewForm(e, "name", card.name, c, "exclusive"),
                                 NewForm(e, "email", card.email, c, "exclusive")})
        /\ UNCHANGED <<evidence, same, different, rejected>>
        /\ possible' = Refresh(e, possible)

\* _refresh_display_name_after_contact_removal: a name of the best remaining
\* kind, if the display name came from this record and nobody confirmed it
DisplayWithout(e, c, ids, fs) ==
  LET names   == {f \in fs : f.entity = e /\ f.kind = "name" /\ f.active}
      rank(f) == CASE f.source = Curator  -> 0
                   [] f.source \in Docs     -> 1
                   [] f.source \in Contacts -> 2
                   [] OTHER                -> 3
      best    == CHOOSE f \in names : \A g \in names : rank(f) <= rank(g)
  IN  IF ids[e] \in {"confirmed", "absent", "deleted"} \/ display[e].from # c \/ names = {}
      THEN display[e]
      ELSE [name |-> best.value, from |-> IF FromContact(best) THEN best.source ELSE None]

\* mistake: a confirmed identity without sources is orphaned like any other
UnsupportedThoughConfirmed(e, ids, desc, fs) ==
  /\ ids[e] \notin Gone \cup {"merged"}
  /\ \A c \in Contacts : desc[c] # e
  /\ \A o \in Observations : <<o, e>> \notin resolved
  /\ \A f \in fs : f.entity = e => ~FromContact(f) /\ f.source \notin Docs

\* _is_unsupported_contact_identity, after the contact's edges are gone
Unsupported(e, ids, desc, fs) ==
  /\ ids[e] \notin Gone \cup {"confirmed", "merged"}
  /\ \A c \in Contacts : desc[c] # e
  /\ \A o \in Observations : <<o, e>> \notin resolved
  /\ \A f \in fs : f.entity = e => ~FromContact(f) /\ f.source \notin Docs

\* remove_contact_records: the other holders of the record's edges are
\* tombstones, which are neither orphaned nor compared
RemoveContact(c) ==
  LET affected == {describes[c]} \cup {f.entity : f \in {g \in forms : g.source = c}}
  IN  /\ describes[c] # None
      /\ forms' = {f \in forms : f.source # c}
      /\ describes' = [describes EXCEPT ![c] = None]
      /\ display' = [e \in Entities |-> IF e \in affected THEN DisplayWithout(e, c, identity, forms')
                                                        ELSE display[e]]
      /\ identity' = [e \in Entities |->
           IF e \in affected /\ Unsupported(e, identity, describes', forms')
           THEN "orphaned" ELSE identity[e]]
      /\ UNCHANGED <<evidence, same, different, rejected>>
      /\ possible' = Refresh(describes[c], possible)

\* reassign_contact: the record's edges move with it; when the target is the
\* old identity each edge is merged with itself and then deleted
ReassignContact(c, t) ==
  LET old   == describes[c]
      mine  == {f \in forms : f.entity = old /\ f.source = c}
      moved == IF t = old THEN {} ELSE {[f EXCEPT !.entity = t] : f \in mine}
      named == [identity EXCEPT ![t] = "confirmed"]
  IN  /\ old # None /\ Active(t) /\ Decide
      /\ forms' = Put(forms \ mine, moved)
      /\ describes' = [describes EXCEPT ![c] = t]
      /\ display' = [display EXCEPT ![old] = DisplayWithout(old, c, named, forms')]
      /\ identity' = [named EXCEPT ![old] = IF Unsupported(old, named, describes', forms')
                                            THEN "orphaned" ELSE @]
      /\ UNCHANGED <<evidence, same, different, rejected>>
      /\ possible' = Refresh(t, Refresh(old, possible))

-----------------------------------------------------------------------------
(* Documents.                                                              *)

\* the curator has decided about this observation, or admission refuses it
Bound(o) == obs[o].curator = "corrected_observation" /\ obs[o].target \in Live(identity)

ObserveDecided(o, eligible) ==
  LET refused == obs[o].curator = "manual_not_entity" \/ (~Bound(o) /\ ~eligible)
      fate == IF refused THEN "rejected" ELSE "corrected"
  IN  /\ refused \/ Bound(o)
      /\ obs' = [obs EXCEPT ![o].status = fate, ![o].eligible = eligible]
      /\ resolved' = {r \in resolved : r[1] # o}
                     \cup (IF refused THEN {} ELSE {<<o, obs[o].target>>})
      /\ UNCHANGED <<people, judgement>>

\* the name has bearers, or is too weak a signal for a new identity
ObserveKnown(o, create) ==
  LET bearers == Bearers(o[2])
      one == Cardinality(bearers) = 1
      fate == CASE one -> "resolved_existing" [] bearers = {} -> "unresolved"
                [] OTHER -> "ambiguous"
  IN  /\ bearers = {} => ~create
      /\ obs' = [obs EXCEPT ![o].status = fate, ![o].eligible = TRUE]
      /\ resolved' = {r \in resolved : r[1] # o}
                     \cup (IF one THEN {<<o, e>> : e \in bearers} ELSE {})
      /\ UNCHANGED <<people, judgement>>

\* a new identity is added to what the observation was resolved to before,
\* and earlier weak observations of the name are resolved to it too
ObserveNew(o) ==
  LET weak(x) == x[2] = o[2] /\ obs[x].status = "unresolved" /\ obs[x].eligible
      unused  == {x \in Entities : identity[x] = "absent"}
  IN  /\ Bearers(o[2]) = {}
      /\ \E e \in unused :
           /\ identity' = [identity EXCEPT ![e] = "provisional"]
           /\ display' = [display EXCEPT ![e].name = o[2]]
           /\ forms' = Put(forms, {NewForm(e, "name", o[2], o[1], "exclusive")})
           /\ obs' = [x \in Observations |->
                IF x = o THEN [obs[o] EXCEPT !.status = "created_provisional", !.eligible = TRUE]
                ELSE IF weak(x) THEN [obs[x] EXCEPT !.status = "resolved_existing"]
                ELSE obs[x]]
           /\ resolved' = resolved \cup {<<o, e>>}
                           \cup {<<x, e>> : x \in {y \in Observations \ {o} : weak(y)}}
           /\ UNCHANGED <<describes, same, different>>
           /\ possible' = Refresh(e, possible)

\* record_document_entity_observation, for a name the extractor found in the
\* text and admission has judged
Observe(o, eligible, create) ==
  /\ o[2] \in Text[o[1]] /\ (create => eligible)
  /\ UNCHANGED <<mentions, claims, rejected>>
  /\ \/ ObserveDecided(o, eligible)
     \/ /\ obs[o].curator # "manual_not_entity" /\ ~Bound(o) /\ eligible
        /\ ObserveKnown(o, create) \/ (create /\ ObserveNew(o))

\* detect_document_mentions: the name is a known form, or it is similar to
\* one that does not occur in the text itself
Detected(d) ==
  {n \in Text[d] : \/ Bearers(n) # {}
                   \/ \E m \in Names \ Text[d] : Bearers(m) # {} /\ {n, m} \in Alike}

\* what replace_document_mentions links a name to: the curator's correction,
\* or the only bearer of a name nobody has rejected
Linked(o) ==
  LET d == obs[o].curator
  IN  CASE d = "manual_not_entity" -> {}
        [] d = "corrected_observation" /\ obs[o].target \in Live(identity) -> {obs[o].target}
        [] OTHER -> IF Cardinality(Bearers(o[2])) = 1 THEN Bearers(o[2]) ELSE {}

Link(d) ==
  /\ mentions' = {m \in mentions : m[1] # d}
                 \cup {d} \X UNION {Linked(<<d, n>>) : n \in Detected(d)}
  /\ UNCHANGED <<people, obs, resolved, claims, judgement, rejected>>

\* replace_document_relation_observations: claims between mentioned entities
Relate(d) ==
  /\ \E new \in SUBSET ({d} \X Entities \X Entities) :
       /\ Cardinality(new) <= 1
       /\ \A c \in new : <<d, c[2]>> \in mentions /\ <<d, c[3]>> \in mentions /\ c[2] # c[3]
       /\ claims' = {c \in claims : c[1] # d} \cup new
  /\ UNCHANGED <<people, obs, resolved, mentions, judgement, rejected>>

Index ==
  /\ \/ \E o \in Observations, a \in Admissions : Observe(o, a[1], a[2])
     \/ \E d \in Docs : Link(d) \/ Relate(d)
  /\ UNCHANGED <<decisions, changes>>

Curate ==
  \/ \E e \in Entities, n \in Names :
       \/ CorrectName(e, n) \/ RemoveAlias(e, n)
       \/ \E policy \in Policies : SetFormPolicy(e, n, policy) \/ AddAlias(e, n, policy)
  \/ \E o \in Observations, t \in Entities : CorrectObservation(o, t)
  \/ \E e \in Entities : DeleteEntity(e)
  \/ \E a, b \in Entities : ConfirmSame(a, b) \/ RejectSame(a, b)
  \/ \E k, m \in Entities, policy \in Policies : Merge(k, m, policy)
  \/ \E c \in Contacts, t \in Entities : ReassignContact(c, t)

Import ==
  /\ Change
  /\ \E c \in Contacts : RemoveContact(c) \/ \E card \in Cards : UpsertContact(c, card)
  /\ UNCHANGED decisions

Next == Index \/ Curate \/ Import
Spec == Init /\ [][Next]_vars

-----------------------------------------------------------------------------
(* Properties.                                                             *)

(* An observation a curator has corrected stands for the target of that    *)
(* correction and for nothing else, through merges, deletions, orphaning   *)
(* and every later pass over the document; the target is live.             *)
CorrectionsHold ==
  \A o \in Observations : obs[o].curator = "corrected_observation" =>
    /\ obs[o].target \in Live(identity)
    /\ {e \in Entities : <<o, e>> \in resolved} = {obs[o].target}

(* No contact and no observation refers to an identity that was merged     *)
(* away, deleted or orphaned, and no mention or claim to one that was      *)
(* merged away or deleted: whatever retires an identity takes everything   *)
(* that refers to it along, or happens only when nothing does.             *)
NothingRefersToRetired ==
  /\ \A c \in Contacts : describes[c] # None => Active(describes[c])
  /\ \A r \in resolved : Active(r[2])
  /\ \A m \in mentions : identity[m[2]] \notin Gone \cup {"merged"}
  /\ \A c \in claims : /\ c[2] # c[3]
                       /\ identity[c[2]] \notin Gone \cup {"merged"}
                       /\ identity[c[3]] \notin Gone \cup {"merged"}

(* list_merge_candidates: the question whether a and b are the same person *)
(* is open, for them or for members of their components.                   *)
Offered(a, b) ==
  LET A == Component(a, identity, same)
      B == Component(b, identity, same)
  IN  /\ Active(a) /\ Active(b) /\ A \cap B = {}
      /\ \E p \in possible : p.pair \cap A # {} /\ p.pair \cap B # {}
      /\ \A x \in A, y \in B : {x, y} \notin different

(* What a curator has rejected is never offered for review again, whoever  *)
(* is merged, renamed, imported or discovered afterwards, until a curator  *)
(* confirms it (reject_merge_candidate: "so similarity cannot re-suggest   *)
(* it").                                                                   *)
RejectedPairsNotOffered ==
  \A p \in rejected : \A a, b \in p : a # b => ~Offered(a, b)

(* An identity a person has confirmed is never orphaned and never becomes  *)
(* a mere seed again: it ends by a merge or a deletion only, however many  *)
(* of its contacts and documents go.                                       *)
ConfirmedPreserved ==
  [][\A e \in Entities : identity[e] = "confirmed" =>
       identity'[e] \in {"confirmed", "merged", "deleted"}]_vars

=============================================================================

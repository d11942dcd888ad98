------------------------ MODULE KnowledgeGraphProofs ------------------------
(***************************************************************************)
(* Proofs about KnowledgeGraph, for every set of identities, names,        *)
(* documents and contacts and any number of decisions: GraphInv is an      *)
(* invariant, and from it follow the promises made to curators that TLC    *)
(* checks on three identities.                                             *)
(*                                                                         *)
(* Proofs about NextcloudLogin, the other component that keeps identities, *)
(* those of the frontends, are at the end: the two modules share no state  *)
(* and no name but None.                                                   *)
(***************************************************************************)
EXTENDS KnowledgeGraph, NextcloudLogin, FiniteSetTheorems, WellFoundedInduction, TLAPS

(* A corrected observation has the status of one.  Discovery looks for     *)
(* earlier observations of a name by their status alone, and must not give *)
(* a corrected one a second identity.                                      *)
CorrectedStatus ==
  \A o \in Observations :
    obs[o].curator = "corrected_observation" => obs[o].status = "corrected"

(* Whoever exists has a display name, and names and aliases are names.     *)
Named ==
  /\ \A e \in Entities : identity[e] # "absent" => display[e].name \in Names
  /\ \A f \in forms : f.kind \in {"name", "alias"} => f.value \in Names

(* Every pair a curator has rejected is separated by NOT_SAME_AS.          *)
RejectionsStored ==
  \A p \in rejected : p \in different /\ \E a, b \in Entities : a # b /\ p = {a, b}

GraphInv ==
  /\ TypeOK
  /\ CorrectionsHold
  /\ NothingRefersToRetired
  /\ CorrectedStatus
  /\ Named
  /\ RejectionsStored

Suggestion == [pair : Pairs, by : {"similarity", "carry"}]

-----------------------------------------------------------------------------
(* The operators of the model.                                             *)

LEMMA PairOfTwo ==
  ASSUME NEW a \in Entities, NEW b \in Entities, a # b
  PROVE  {a, b} \in Pairs
<1>1. IsFiniteSet({a}) /\ Cardinality({a}) = 1
  BY FS_Singleton
<1>2. Cardinality({a} \cup {b}) = 2
  BY <1>1, FS_AddElement
<1>3. {a} \cup {b} = {a, b}
  OBVIOUS
<1>. QED BY <1>2, <1>3 DEF Pairs

LEMMA SuggestedType ==
  ASSUME NEW S, S \subseteq Pairs, NEW by \in {"similarity", "carry"}
  PROVE  Suggested(S, by) \subseteq Suggestion
BY DEF Suggested, Suggestion

LEMMA WithoutType ==
  ASSUME NEW P, NEW S PROVE Without(P, S) \subseteq P
BY DEF Without

(* A component has the identity it is made for.                            *)
LEMMA OwnComponent ==
  ASSUME NEW ids, NEW edges, NEW e \in Entities
  PROVE  e \in Component(e, ids, edges)
BY DEF Component

(* Nobody is suggested as a duplicate of himself.                          *)
LEMMA RefreshType ==
  ASSUME NEW e \in Entities, NEW P, P \subseteq Suggestion
  PROVE  Refresh(e, P) \subseteq Suggestion
<1>. DEFINE kept    == {p \in P : e \notin p.pair \/ p.by # "similarity"}
            own     == Component(e, identity', same')
            apart   == UNION {Component(x, identity', same') :
                                x \in {y \in Entities : \E z \in own : {y, z} \in different'}}
            mine    == {n \in Names : \E z \in own : IsForm(forms', z, n)} \cup {display'[e].name}
            matches == {x \in Live(identity') \ (own \cup apart) :
                          \E n \in Names : /\ IsForm(forms', x, n)
                                           /\ \E m \in mine : Similar(m, n)}
            pairs   == {{e, x} : x \in matches}
<1>1. Refresh(e, P) = IF e \notin Live(identity') THEN P
                      ELSE Without(kept, pairs) \cup Suggested(pairs, "similarity")
  BY DEF Refresh
<1>2. matches \subseteq Entities /\ e \notin matches
  <2>1. e \in own
    BY OwnComponent
  <2>. HIDE DEF own, apart, mine
  <2>. QED BY <2>1 DEF Live
<1>. HIDE DEF matches
<1>3. pairs \subseteq Pairs
  BY <1>2, PairOfTwo
<1>. HIDE DEF pairs
<1>4. Without(kept, pairs) \subseteq Suggestion
  BY WithoutType
<1>5. Suggested(pairs, "similarity") \subseteq Suggestion
  BY <1>3, SuggestedType
<1>. QED BY <1>1, <1>4, <1>5

LEMMA PutType ==
  ASSUME NEW fs, fs \subseteq Form, NEW new, new \subseteq Form
  PROVE  Put(fs, new) \subseteq Form /\ Put(fs, new) \subseteq fs \cup new
BY DEF Put

LEMMA NewFormType ==
  ASSUME NEW e \in Entities, NEW kind \in Kinds, NEW v \in Names \cup Emails,
         NEW s \in Docs \cup Contacts \cup Entities \cup {Curator},
         NEW policy \in Policies \cup {"exclusive"}
  PROVE  /\ NewForm(e, kind, v, s, policy) \in Form
         /\ NewForm(e, kind, v, s, policy).kind = kind
         /\ NewForm(e, kind, v, s, policy).value = v
BY DEF NewForm, Form

(* After the contact has gone the display name is one of the remaining     *)
(* names of the identity, or the old one.                                  *)
LEMMA DisplayWithoutType ==
  ASSUME TypeOK, NEW e \in Entities, NEW c \in Contacts, NEW ids, NEW fs, fs \subseteq Form,
         \A f \in fs : f.kind \in {"name", "alias"} => f.value \in Names
  PROVE  /\ DisplayWithout(e, c, ids, fs) \in [name : Names \cup {None}, from : Contacts \cup {None}]
         /\ DisplayWithout(e, c, ids, fs).name \in Names \cup {display[e].name}
<1>. DEFINE names   == {f \in fs : f.entity = e /\ f.kind = "name" /\ f.active}
            rank(f) == CASE f.source = Curator  -> 0
                         [] f.source \in Docs     -> 1
                         [] f.source \in Contacts -> 2
                         [] OTHER                -> 3
            best    == CHOOSE f \in names : \A g \in names : rank(f) <= rank(g)
<1>1. DisplayWithout(e, c, ids, fs) =
        IF ids[e] \in {"confirmed", "absent", "deleted"} \/ display[e].from # c \/ names = {}
        THEN display[e]
        ELSE [name |-> best.value, from |-> IF FromContact(best) THEN best.source ELSE None]
  BY DEF DisplayWithout
<1>2. ASSUME names # {} PROVE \E f \in names : \A g \in names : rank(f) <= rank(g)
  <2>1. \A f \in names : rank(f) \in 0 .. 3
    OBVIOUS
  <2>. HIDE DEF names, rank
  <2>2. CASE \E f \in names : rank(f) = 0
    BY <2>1, <2>2
  <2>3. CASE (\A f \in names : rank(f) # 0) /\ \E f \in names : rank(f) = 1
    BY <2>1, <2>3
  <2>4. CASE (\A f \in names : rank(f) \notin {0, 1}) /\ \E f \in names : rank(f) = 2
    BY <2>1, <2>4
  <2>5. CASE \A f \in names : rank(f) \notin {0, 1, 2}
    BY <2>1, <2>5, <1>2
  <2>. QED BY <2>2, <2>3, <2>4, <2>5
<1>3. names # {} => best \in names
  <2>. HIDE DEF names, rank
  <2>. QED BY <1>2
<1>. HIDE DEF best
<1>4. names # {} => best.value \in Names /\ best \in Form
  BY <1>3
<1>5. display[e] \in [name : Names \cup {None}, from : Contacts \cup {None}]
  BY DEF TypeOK
<1>. QED BY <1>1, <1>4, <1>5 DEF FromContact

LEMMA CountedDecision ==
  ASSUME TypeOK, Decide
  PROVE  decisions' \in 0 .. MaxDecisions /\ changes' \in 0 .. MaxChanges
BY StoreAssumption DEF TypeOK, Decide, Change

LEMMA CountedChange ==
  ASSUME TypeOK, Change
  PROVE  changes' \in 0 .. MaxChanges
BY StoreAssumption DEF TypeOK, Change

(* A step that changes no evidence breaks no reference if it retires only  *)
(* identities that nothing refers to.                                      *)
LEMMA EvidenceKept ==
  ASSUME GraphInv, UNCHANGED evidence,
         \A c \in Contacts : (describes[c] # None => Active(describes[c]))',
         \A e \in Entities : Active(e) => Active(e)' \/ \A o \in Observations : <<o, e>> \notin resolved,
         \A e \in Entities : identity[e] \notin Gone \cup {"merged"}
                               => identity'[e] \notin Gone \cup {"merged"}
  PROVE  CorrectionsHold' /\ NothingRefersToRetired' /\ CorrectedStatus'
<1>1. CorrectedStatus'
  BY DEF GraphInv, CorrectedStatus, evidence
<1>2. NothingRefersToRetired'
  <2>1. \A r \in resolved : Active(r[2]) /\ r[2] \in Entities /\ r[1] \in Observations /\ r = <<r[1], r[2]>>
    BY DEF GraphInv, TypeOK, NothingRefersToRetired
  <2>2. ASSUME NEW r \in resolved' PROVE Active(r[2])'
    <3>. DEFINE o == r[1]
                e == r[2]
    <3>1. o \in Observations /\ e \in Entities /\ <<o, e>> \in resolved /\ Active(e)
      BY <2>1 DEF evidence
    <3>. HIDE DEF o, e
    <3>2. Active(e)'
      BY <3>1
    <3>. QED BY <3>2 DEF o, e
  <2>3. \A m \in mentions' : identity'[m[2]] \notin Gone \cup {"merged"}
    BY DEF GraphInv, TypeOK, NothingRefersToRetired, evidence
  <2>4. \A c \in claims' : /\ c[2] # c[3]
                           /\ identity'[c[2]] \notin Gone \cup {"merged"}
                           /\ identity'[c[3]] \notin Gone \cup {"merged"}
    BY DEF GraphInv, TypeOK, NothingRefersToRetired, evidence
  <2>. QED BY <2>2, <2>3, <2>4 DEF NothingRefersToRetired
<1>3. CorrectionsHold'
  <2>. SUFFICES ASSUME NEW o \in Observations, obs[o].curator = "corrected_observation"
                PROVE  /\ obs[o].target \in Live(identity')
                       /\ {e \in Entities : <<o, e>> \in resolved} = {obs[o].target}
    BY DEF CorrectionsHold, evidence
  <2>1. /\ obs[o].target \in Live(identity)
        /\ {e \in Entities : <<o, e>> \in resolved} = {obs[o].target}
    BY DEF GraphInv, CorrectionsHold
  <2>2. <<o, obs[o].target>> \in resolved /\ Active(obs[o].target) /\ obs[o].target \in Entities
    BY <2>1 DEF Active, Live
  <2>3. Active(obs[o].target)'
    BY <2>2 DEF evidence
  <2>. QED BY <2>1, <2>3 DEF Active, evidence
<1>. QED BY <1>1, <1>2, <1>3
-----------------------------------------------------------------------------
(* Curation of names.                                                      *)

(* Decisions about the forms of one live or former identity.               *)
LEMMA FormsDecided ==
  ASSUME GraphInv, NEW e \in Entities, Decide, forms' \subseteq Form,
         \A f \in forms' : f.kind \in {"name", "alias"} => f.value \in Names,
         identity' = identity \/ (Active(e) /\ identity' = [identity EXCEPT ![e] = "confirmed"]),
         display' = display
           \/ \E n \in Names : display' = [display EXCEPT ![e].name = n],
         UNCHANGED <<describes, evidence, same, different, rejected>>,
         possible' = Refresh(e, possible)
  PROVE  GraphInv'
<1>1. TypeOK'
  <2>1. possible' \subseteq Suggestion
    BY RefreshType DEF GraphInv, TypeOK, Suggestion
  <2>2. decisions' \in 0 .. MaxDecisions /\ changes' \in 0 .. MaxChanges
    BY CountedDecision DEF GraphInv
  <2>3. /\ identity' \in [Entities -> Gone \cup Retired \cup {"seeded", "provisional", "confirmed"}]
        /\ display' \in [Entities -> [name : Names \cup {None}, from : Contacts \cup {None}]]
    BY DEF GraphInv, TypeOK
  <2>. QED BY <2>1, <2>2, <2>3 DEF GraphInv, TypeOK, evidence, Suggestion
<1>2. \A x \in Entities : /\ Active(x) => Active(x)'
                          /\ identity[x] \notin Gone \cup {"merged"}
                               => identity'[x] \notin Gone \cup {"merged"}
                          /\ identity'[x] # "absent" => identity[x] # "absent"
  BY DEF GraphInv, TypeOK, Active, Live, Gone, Retired
<1>3. \A c \in Contacts : (describes[c] # None => Active(describes[c]))'
  BY <1>2 DEF GraphInv, NothingRefersToRetired, TypeOK
<1>4. CorrectionsHold' /\ NothingRefersToRetired' /\ CorrectedStatus'
  BY <1>2, <1>3, EvidenceKept
<1>5. Named'
  BY <1>2 DEF GraphInv, TypeOK, Named
<1>6. RejectionsStored'
  BY DEF GraphInv, RejectionsStored
<1>. QED BY <1>1, <1>4, <1>5, <1>6 DEF GraphInv

LEMMA CorrectNameInv ==
  ASSUME GraphInv, NEW e \in Entities, NEW n \in Names, CorrectName(e, n)
  PROVE  GraphInv'
<1>. DEFINE old     == display[e].name
            wrong(f) == /\ f.entity = e /\ n # old
                        /\ \/ f.kind = "name" /\ f.value = old
                           \/ f.kind = "alias" /\ f.source \in Docs
            retired == {[f EXCEPT !.active = f.active /\ ~wrong(f)] : f \in forms}
            new == NewForm(e, "name", n, Curator, "exclusive")
<1>1. forms' = Put(retired, {new})
  BY DEF CorrectName
<1>2. /\ retired \subseteq Form
      /\ \A f \in retired : f.kind \in {"name", "alias"} => f.value \in Names
  <2>1. ASSUME NEW f \in forms, NEW b \in BOOLEAN
        PROVE  /\ [f EXCEPT !.active = b] \in Form
               /\ [f EXCEPT !.active = b].kind = f.kind
               /\ [f EXCEPT !.active = b].value = f.value
    BY DEF GraphInv, TypeOK, Form
  <2>2. \A f \in forms : (f.active /\ ~wrong(f)) \in BOOLEAN
    OBVIOUS
  <2>3. \A g \in retired : \E f \in forms, b \in BOOLEAN : g = [f EXCEPT !.active = b]
    BY <2>2
  <2>. HIDE DEF retired, wrong
  <2>. SUFFICES ASSUME NEW g \in retired
                PROVE  g \in Form /\ (g.kind \in {"name", "alias"} => g.value \in Names)
    OBVIOUS
  <2>4. PICK f \in forms, b \in BOOLEAN : g = [f EXCEPT !.active = b]
    BY <2>3
  <2>. QED BY <2>1, <2>4 DEF GraphInv, Named
<1>3. new \in Form /\ new.value \in Names
  BY NewFormType DEF Kinds
<1>. HIDE DEF retired, new
<1>4. /\ forms' \subseteq Form
      /\ \A f \in forms' : f.kind \in {"name", "alias"} => f.value \in Names
  BY <1>1, <1>2, <1>3, PutType
<1>. QED BY <1>4, FormsDecided DEF CorrectName

LEMMA SetFormPolicyInv ==
  ASSUME GraphInv, NEW e \in Entities, NEW n \in Names, NEW policy \in Policies,
         SetFormPolicy(e, n, policy)
  PROVE  GraphInv'
<1>1. \A f \in forms : /\ [f EXCEPT !.policy = policy] \in Form
                       /\ [f EXCEPT !.policy = policy].kind = f.kind
                       /\ [f EXCEPT !.policy = policy].value = f.value
  BY DEF GraphInv, TypeOK, Form
<1>2. \A g \in forms' : \E f \in forms : g = f \/ g = [f EXCEPT !.policy = policy]
  BY DEF SetFormPolicy
<1>3. /\ forms' \subseteq Form
      /\ \A f \in forms' : f.kind \in {"name", "alias"} => f.value \in Names
  BY ZenonT(60), <1>1, <1>2 DEF GraphInv, TypeOK, Named
<1>. QED BY <1>3, FormsDecided DEF SetFormPolicy

LEMMA AddAliasInv ==
  ASSUME GraphInv, NEW e \in Entities, NEW n \in Names, NEW policy \in Policies,
         AddAlias(e, n, policy)
  PROVE  GraphInv'
<1>. DEFINE new == NewForm(e, "alias", n, Curator, policy)
<1>1. new \in Form /\ new.value \in Names
  BY NewFormType DEF Kinds
<1>2. forms' = Put(forms, {new})
  BY DEF AddAlias
<1>. HIDE DEF new
<1>3. /\ forms' \subseteq Form
      /\ \A f \in forms' : f.kind \in {"name", "alias"} => f.value \in Names
  BY <1>1, <1>2, PutType DEF GraphInv, TypeOK, Named
<1>. QED BY <1>3, FormsDecided DEF AddAlias

LEMMA RemoveAliasInv ==
  ASSUME GraphInv, NEW e \in Entities, NEW n \in Names, RemoveAlias(e, n)
  PROVE  GraphInv'
<1>1. forms' \subseteq forms
  BY DEF RemoveAlias
<1>2. /\ forms' \subseteq Form
      /\ \A f \in forms' : f.kind \in {"name", "alias"} => f.value \in Names
  BY <1>1 DEF GraphInv, TypeOK, Named
<1>. QED BY <1>2, FormsDecided DEF RemoveAlias

-----------------------------------------------------------------------------
(* Curation of identities.                                                 *)

LEMMA CorrectObservationInv ==
  ASSUME GraphInv, NEW o \in Observations, NEW t \in Entities, CorrectObservation(o, t)
  PROVE  GraphInv'
<1>. USE DEF GraphInv
<1>. DEFINE d == o[1]
<1>1. /\ resolved' = {r \in resolved : r[1] # o} \cup {<<o, t>>}
      /\ obs' = [obs EXCEPT ![o].status = "corrected",
                            ![o].curator = "corrected_observation", ![o].target = t]
      /\ mentions' \subseteq mentions \cup {<<d, t>>}
      /\ Active(t) /\ Decide
      /\ UNCHANGED <<display, forms, describes, claims, judgement, rejected>>
  BY DEF CorrectObservation
<1>2. PICK old :
        identity' = [e \in Entities |->
          IF /\ e = old /\ e # t /\ identity[e] = "provisional"
             /\ \A x \in Docs : <<x, e>> \notin mentions'
             /\ \A x \in Observations : <<x, e>> \notin resolved'
             /\ \A c \in Contacts : describes[c] # e
          THEN "orphaned" ELSE identity[e]]
  BY ZenonT(60) DEF CorrectObservation
<1>3. \A e \in Entities :
        /\ identity'[e] # identity[e] =>
             /\ identity[e] = "provisional" /\ identity'[e] = "orphaned"
             /\ \A x \in Observations : <<x, e>> \notin resolved'
             /\ \A c \in Contacts : describes[c] # e
        /\ identity'[e] \in {identity[e], "orphaned"}
  BY <1>2
<1>4. identity'[t] = identity[t]
  BY <1>2
<1>5. TypeOK'
  <2>1. decisions' \in 0 .. MaxDecisions /\ changes' \in 0 .. MaxChanges
    BY <1>1, CountedDecision
  <2>2. identity' \in [Entities -> Gone \cup Retired \cup {"seeded", "provisional", "confirmed"}]
    BY <1>2 DEF TypeOK, Retired
  <2>3. obs' \in [Observations -> Observation]
    <3>. DEFINE fate == [obs[o] EXCEPT !.status = "corrected",
                                       !.curator = "corrected_observation", !.target = t]
    <3>0. obs[o] \in Observation
      BY DEF TypeOK
    <3>1. fate \in Observation
      BY <3>0 DEF Observation
    <3>2. obs' = [obs EXCEPT ![o] = fate]
      BY <1>1 DEF TypeOK
    <3>. HIDE DEF fate
    <3>. QED BY <3>1, <3>2 DEF TypeOK
  <2>4. d \in Docs /\ resolved' \subseteq Observations \X Entities /\ mentions' \subseteq Docs \X Entities
    BY <1>1 DEF TypeOK, Observations
  <2>. QED BY <1>1, <2>1, <2>2, <2>3, <2>4 DEF TypeOK, judgement
<1>6. \A e \in Entities : Active(e) => Active(e)' \/ \A x \in Observations : <<x, e>> \notin resolved'
  BY <1>3 DEF Active, Live
<1>7. CorrectionsHold'
  <2>. SUFFICES ASSUME NEW x \in Observations, obs'[x].curator = "corrected_observation"
                PROVE  /\ obs'[x].target \in Live(identity')
                       /\ {e \in Entities : <<x, e>> \in resolved'} = {obs'[x].target}
    BY DEF CorrectionsHold
  <2>1. CASE x = o
    <3>0. DOMAIN obs = Observations /\ obs[o] \in Observation
      BY DEF TypeOK
    <3>1. obs'[x].target = t
      <4>. DEFINE fate == [obs[o] EXCEPT !.status = "corrected",
                                         !.curator = "corrected_observation", !.target = t]
      <4>1. fate.target = t
        BY <3>0 DEF Observation
      <4>2. obs' = [obs EXCEPT ![o] = fate]
        BY <1>1, <3>0
      <4>. HIDE DEF fate
      <4>. QED BY <2>1, <3>0, <4>1, <4>2
    <3>2. {e \in Entities : <<x, e>> \in resolved'} = {t}
      BY <1>1, <2>1
    <3>3. t \in Live(identity')
      BY <1>1, <1>4 DEF Active, Live
    <3>. QED BY <3>1, <3>2, <3>3
  <2>2. CASE x # o
    <3>1. obs'[x] = obs[x]
      BY <1>1, <2>2 DEF TypeOK
    <3>2. {e \in Entities : <<x, e>> \in resolved'} = {e \in Entities : <<x, e>> \in resolved}
      BY <1>1, <2>2
    <3>3. /\ obs[x].target \in Live(identity)
          /\ {e \in Entities : <<x, e>> \in resolved} = {obs[x].target}
      BY <3>1 DEF CorrectionsHold
    <3>4. <<x, obs[x].target>> \in resolved' /\ obs[x].target \in Entities
      BY <3>2, <3>3
    <3>5. obs[x].target \in Live(identity')
      BY <3>3, <3>4, <1>6 DEF Active
    <3>. QED BY <3>1, <3>2, <3>3, <3>5
  <2>. QED BY <2>1, <2>2
<1>8. NothingRefersToRetired'
  <2>1. \A c \in Contacts : (describes[c] # None => Active(describes[c]))'
    BY <1>1, <1>3 DEF NothingRefersToRetired, TypeOK, Active, Live
  <2>2. ASSUME NEW r \in resolved' PROVE Active(r[2])'
    <3>. DEFINE x == r[1]
                e == r[2]
    <3>1. <<x, e>> \in resolved' /\ x \in Observations /\ e \in Entities /\ (Active(e) \/ e = t)
      BY SMTT(30), <1>1, <1>5 DEF NothingRefersToRetired, TypeOK
    <3>. HIDE DEF x, e
    <3>2. Active(e)
      BY <1>1, <3>1
    <3>3. Active(e)'
      BY <1>6, <3>1, <3>2
    <3>. QED BY <3>3 DEF e
  <2>3. \A m \in mentions' : identity'[m[2]] \notin Gone \cup {"merged"}
    BY <1>1, <1>3 DEF NothingRefersToRetired, TypeOK, Active, Live, Gone, Retired
  <2>4. \A c \in claims' : /\ c[2] # c[3]
                           /\ identity'[c[2]] \notin Gone \cup {"merged"}
                           /\ identity'[c[3]] \notin Gone \cup {"merged"}
    BY <1>1, <1>3 DEF NothingRefersToRetired, TypeOK, Gone
  <2>. QED BY <2>1, <2>2, <2>3, <2>4 DEF NothingRefersToRetired
<1>9. CorrectedStatus'
  BY <1>1 DEF CorrectedStatus, TypeOK, Observation
<1>10. Named' /\ RejectionsStored'
  BY <1>1, <1>3 DEF Named, RejectionsStored, judgement
<1>. QED BY <1>5, <1>7, <1>8, <1>9, <1>10

LEMMA DeleteEntityInv ==
  ASSUME GraphInv, NEW e \in Entities, DeleteEntity(e)
  PROVE  GraphInv'
<1>. USE DEF GraphInv
<1>1. \A x \in Entities : identity'[x] = IF x = e THEN "deleted" ELSE identity[x]
  BY DEF DeleteEntity, TypeOK
<1>2. \A o \in Observations :
        obs'[o] = IF <<o, e>> \in resolved
                  THEN [obs[o] EXCEPT !.status = "rejected", !.curator = "manual_not_entity",
                                      !.target = None]
                  ELSE obs[o]
  BY DEF DeleteEntity
<1>3. /\ resolved' = {r \in resolved : r[2] # e}
      /\ mentions' = {m \in mentions : m[2] # e}
      /\ claims' = {c \in claims : c[2] # e /\ c[3] # e}
      /\ forms' \subseteq forms /\ same' \subseteq same /\ possible' \subseteq possible
      /\ different' = {p \in different : e \notin p}
      /\ rejected' = {p \in rejected : e \notin p}
      /\ UNCHANGED <<display, describes>>
      /\ \A c \in Contacts : describes[c] # e
      /\ identity[e] # "absent"
  BY DEF DeleteEntity, Exists, Gone
<1>4. TypeOK'
  <2>1. decisions' \in 0 .. MaxDecisions /\ changes' \in 0 .. MaxChanges
    BY CountedDecision DEF DeleteEntity
  <2>2. identity' \in [Entities -> Gone \cup Retired \cup {"seeded", "provisional", "confirmed"}]
    BY DEF DeleteEntity, TypeOK, Gone
  <2>3. obs' \in [Observations -> Observation]
    <3>1. \A o \in Observations : obs'[o] \in Observation
      <4>. TAKE o \in Observations
      <4>1. obs[o] \in Observation
        BY DEF TypeOK
      <4>. QED BY <1>2, <4>1 DEF Observation
    <3>. QED BY <3>1 DEF DeleteEntity
  <2>4. different' \subseteq different /\ rejected' \subseteq rejected
    BY <1>3
  <2>. QED BY <1>3, <2>1, <2>2, <2>3, <2>4 DEF TypeOK
<1>5. CorrectionsHold' /\ CorrectedStatus'
  <2>. SUFFICES ASSUME NEW o \in Observations, obs'[o].curator = "corrected_observation"
                PROVE  /\ obs'[o].target \in Live(identity')
                       /\ {x \in Entities : <<o, x>> \in resolved'} = {obs'[o].target}
                       /\ obs'[o].status = "corrected"
    BY DEF CorrectionsHold, CorrectedStatus
  <2>1. <<o, e>> \notin resolved /\ obs'[o] = obs[o]
    BY ZenonT(60), <1>2 DEF TypeOK, Observation
  <2>2. /\ obs[o].target \in Live(identity)
        /\ {x \in Entities : <<o, x>> \in resolved} = {obs[o].target}
        /\ obs[o].status = "corrected"
    BY <2>1 DEF CorrectionsHold, CorrectedStatus
  <2>3. obs[o].target # e /\ obs[o].target \in Live(identity')
    BY <1>1, <2>1, <2>2 DEF Live
  <2>4. {x \in Entities : <<o, x>> \in resolved'} = {x \in Entities : <<o, x>> \in resolved}
    BY <1>3, <2>1
  <2>. QED BY <2>1, <2>2, <2>3, <2>4
<1>6. NothingRefersToRetired'
  <2>1. \A c \in Contacts : (describes[c] # None => Active(describes[c]))'
    BY <1>1, <1>3 DEF NothingRefersToRetired, TypeOK, Active, Live
  <2>2. \A r \in resolved' : Active(r[2])'
    BY <1>1, <1>3 DEF NothingRefersToRetired, TypeOK, Active, Live
  <2>3. \A m \in mentions' : identity'[m[2]] \notin Gone \cup {"merged"}
    BY <1>1, <1>3 DEF NothingRefersToRetired, TypeOK
  <2>4. \A c \in claims' : /\ c[2] # c[3]
                           /\ identity'[c[2]] \notin Gone \cup {"merged"}
                           /\ identity'[c[3]] \notin Gone \cup {"merged"}
    BY <1>1, <1>3 DEF NothingRefersToRetired, TypeOK
  <2>. QED BY <2>1, <2>2, <2>3, <2>4 DEF NothingRefersToRetired
<1>7. Named' /\ RejectionsStored'
  BY <1>1, <1>3 DEF Named, RejectionsStored
<1>. QED BY <1>4, <1>5, <1>6, <1>7

(* Where a merge moves a reference to.                                     *)
Moved(k, m, e) == IF e = m THEN k ELSE e

LEMMA MergeInv ==
  ASSUME GraphInv, NEW k \in Entities, NEW m \in Entities, NEW policy \in Policies,
         Merge(k, m, policy)
  PROVE  GraphInv'
<1>. USE DEF GraphInv
<1>1. /\ k # m /\ Active(k) /\ Active(m)
      /\ UNCHANGED display
      /\ \A x \in Entities : Moved(k, m, x) \in Entities
      /\ \A x \in Entities :
           identity'[x] = IF x = k THEN "confirmed" ELSE IF x = m THEN "merged" ELSE identity[x]
  BY DEF Merge, Active, Live, TypeOK, Moved
<1>2. \A x \in Entities : /\ Active(x) => Moved(k, m, x) \in Live(identity')
                          /\ identity[x] \notin Gone \cup {"merged"}
                               => identity'[Moved(k, m, x)] \notin Gone \cup {"merged"}
                          /\ identity'[x] # "absent" => identity[x] # "absent"
                          /\ x \in Live(identity) /\ x # m => x \in Live(identity')
  BY <1>1 DEF Active, Live, Gone, Retired, Moved
<1>3. /\ resolved' = {<<r[1], Moved(k, m, r[2])>> : r \in resolved}
      /\ mentions' = {<<r[1], Moved(k, m, r[2])>> : r \in mentions}
      /\ claims' = {c \in {<<c[1], Moved(k, m, c[2]), Moved(k, m, c[3])>> : c \in claims} : c[2] # c[3]}
      /\ \A o \in Observations :
           obs'[o] = IF <<o, m>> \notin resolved THEN obs[o]
                     ELSE [obs[o] EXCEPT
                             !.status = IF obs[o].curator = "corrected_observation"
                                        THEN "corrected" ELSE "resolved_existing",
                             !.target = IF obs[o].curator = "corrected_observation" THEN k ELSE @]
      /\ obs' = [o \in Observations |-> obs'[o]]
  BY DEF Merge, RedirectEvidence, Moved
<1>12. /\ \A r \in resolved : r[1] \in Observations /\ r[2] \in Entities /\ r = <<r[1], r[2]>>
       /\ \A r \in mentions : r[1] \in Docs /\ r[2] \in Entities
       /\ \A c \in claims : c[1] \in Docs /\ c[2] \in Entities /\ c[3] \in Entities
  BY DEF TypeOK
<1>13. /\ \A r \in resolved' : \E q \in resolved : r = <<q[1], Moved(k, m, q[2])>>
       /\ \A q \in resolved : <<q[1], Moved(k, m, q[2])>> \in resolved'
  BY <1>3
<1>14. \A r \in mentions' : \E q \in mentions : r = <<q[1], Moved(k, m, q[2])>>
  BY <1>3
<1>15. \A c \in claims' :
         /\ c[2] # c[3]
         /\ \E q \in claims : c = <<q[1], Moved(k, m, q[2]), Moved(k, m, q[3])>>
  BY <1>3
<1>4. /\ forms' \subseteq Form
      /\ \A f \in forms' : f.kind \in {"name", "alias"} => f.value \in Names
  <2>. DEFINE taken(f) == [f EXCEPT !.entity = k, !.source = m, !.active = TRUE,
                                    !.policy = IF f.kind = "email" THEN @ ELSE policy]
              new == NewForm(k, "alias", display[m].name, m, policy)
  <2>1. \A f \in Form : taken(f) \in Form /\ taken(f).kind = f.kind /\ taken(f).value = f.value
    BY DEF Form
  <2>2. display[m].name \in Names
    BY <1>1 DEF Named, Active, Live, Gone
  <2>3. new \in Form /\ new.kind = "alias" /\ new.value \in Names
    BY <2>2, NewFormType DEF Kinds
  <2>4. Inherited(k, m, policy) = {taken(f) : f \in {g \in forms : g.entity = m}} \cup {new}
    BY DEF Inherited
  <2>. HIDE DEF taken, new
  <2>5. /\ Inherited(k, m, policy) \subseteq Form
        /\ \A f \in Inherited(k, m, policy) : f.kind \in {"name", "alias"} => f.value \in Names
    BY <2>1, <2>3, <2>4 DEF TypeOK, Named
  <2>. QED BY <2>5, PutType DEF Merge, TypeOK, Named
<1>5. /\ different' \subseteq Pairs /\ same' \subseteq Pairs /\ possible' \subseteq Suggestion
      /\ \A p \in different : m \notin p => p \in different'
      /\ \A x \in Entities \ {k} : {m, x} \in different => {k, x} \in different'
  <2>. DEFINE foes  == {x \in Entities : {m, x} \in different} \ {k}
              peers == {x \in Live(identity) : {m, x} \in same} \ {k}
              hints == {x \in Live(identity) : \E p \in possible : p.pair = {m, x}} \ {k}
              apart == {{k, x} : x \in foes}
              with(S) == {{k, x} : x \in {y \in S : {k, y} \notin different'}}
              asked == {p \in Without(possible, apart) : m \notin p.pair}
              open  == Refresh(k, asked)
              new   == {p \in with(hints) : \A q \in open : q.pair # p}
  <2>1. /\ different' = {p \in different : m \notin p} \cup apart
        /\ same' = ({p \in same : m \notin p} \ apart) \cup with(peers)
        /\ possible' = open \cup Suggested(new, "carry")
    BY DEF Merge, RedirectJudgement
  <2>2. foes \subseteq Entities /\ peers \subseteq Entities /\ hints \subseteq Entities
        /\ k \notin foes /\ k \notin peers /\ k \notin hints
    BY DEF Live
  <2>3. apart \subseteq Pairs /\ with(peers) \subseteq Pairs /\ with(hints) \subseteq Pairs
    <3>. HIDE DEF foes, peers, hints
    <3>. QED BY <2>2, PairOfTwo
  <2>4. open \subseteq Suggestion
    <3>1. asked \subseteq Suggestion
      BY WithoutType DEF TypeOK, Suggestion
    <3>. HIDE DEF asked
    <3>. QED BY <3>1, RefreshType
  <2>5. Suggested(new, "carry") \subseteq Suggestion
    <3>1. new \subseteq Pairs
      BY <2>3
    <3>. HIDE DEF new
    <3>. QED BY <3>1, SuggestedType
  <2>6. \A x \in Entities \ {k} : {m, x} \in different => {k, x} \in apart
    OBVIOUS
  <2>. HIDE DEF apart, with, open, new
  <2>. QED BY <2>1, <2>3, <2>4, <2>5, <2>6 DEF TypeOK
<1>6. rejected' = {{Moved(k, m, x) : x \in p} : p \in rejected} \ {{k}}
  BY DEF Merge, Moved
<1>7. RejectionsStored'
  <2>. SUFFICES ASSUME NEW q \in rejected'
                PROVE  q \in different' /\ \E a, b \in Entities : a # b /\ q = {a, b}
    BY DEF RejectionsStored
  <2>1. PICK p \in rejected : q = {Moved(k, m, x) : x \in p} /\ q # {k}
    BY <1>6
  <2>2. PICK a \in Entities, b \in Entities : a # b /\ p = {a, b} /\ p \in different
    BY DEF RejectionsStored
  <2>3. q = {Moved(k, m, a), Moved(k, m, b)}
    BY <2>1, <2>2
  <2>4. CASE a = m
    <3>1. q = {k, b} /\ b # k
      BY <2>1, <2>2, <2>3, <2>4 DEF Moved
    <3>. QED BY <1>5, <2>2, <2>4, <3>1
  <2>5. CASE b = m
    <3>1. q = {k, a} /\ a # k /\ p = {m, a}
      BY <2>1, <2>2, <2>3, <2>5 DEF Moved
    <3>. QED BY <1>5, <2>2, <2>5, <3>1
  <2>6. CASE a # m /\ b # m
    BY <1>5, <2>2, <2>3, <2>6 DEF Moved
  <2>. QED BY <2>4, <2>5, <2>6
<1>8. TypeOK'
  <2>1. decisions' \in 0 .. MaxDecisions /\ changes' \in 0 .. MaxChanges
    BY CountedDecision DEF Merge
  <2>2. identity' \in [Entities -> Gone \cup Retired \cup {"seeded", "provisional", "confirmed"}]
    BY DEF Merge, TypeOK, Retired
  <2>3. obs' \in [Observations -> Observation]
    <3>1. \A o \in Observations : obs'[o] \in Observation
      <4>. TAKE o \in Observations
      <4>1. obs[o] \in Observation
        BY DEF TypeOK
      <4>2. \/ obs'[o] = obs[o]
            \/ obs'[o] = [obs[o] EXCEPT !.status = "corrected", !.target = k]
            \/ obs'[o] = [obs[o] EXCEPT !.status = "resolved_existing"]
        BY ZenonT(60), <1>3, <4>1 DEF Observation
      <4>. QED BY <4>1, <4>2 DEF Observation
    <3>. QED BY <1>3, <3>1
  <2>4. describes' \in [Contacts -> Entities \cup {None}]
    BY DEF Merge, TypeOK
  <2>5. resolved' \subseteq Observations \X Entities /\ mentions' \subseteq Docs \X Entities
    BY <1>1, <1>12, <1>13, <1>14
  <2>6. claims' \subseteq Docs \X Entities \X Entities
    BY <1>1, <1>12, <1>15
  <2>7. rejected' \subseteq SUBSET Entities
    BY <1>7 DEF RejectionsStored
  <2>. QED BY <1>1, <1>4, <1>5, <2>1, <2>2, <2>3, <2>4, <2>5, <2>6, <2>7 DEF TypeOK, Suggestion
<1>9. CorrectionsHold' /\ CorrectedStatus'
  <2>. SUFFICES ASSUME NEW o \in Observations, obs'[o].curator = "corrected_observation"
                PROVE  /\ obs'[o].target \in Live(identity')
                       /\ {x \in Entities : <<o, x>> \in resolved'} = {obs'[o].target}
                       /\ obs'[o].status = "corrected"
    BY DEF CorrectionsHold, CorrectedStatus
  <2>0. obs[o] \in Observation
    BY DEF TypeOK
  <2>1. obs[o].curator = "corrected_observation"
    BY <1>3, <2>0 DEF Observation
  <2>2. /\ obs[o].target \in Live(identity)
        /\ {x \in Entities : <<o, x>> \in resolved} = {obs[o].target}
        /\ obs[o].status = "corrected"
    BY <2>1 DEF CorrectionsHold, CorrectedStatus
  <2>3. obs'[o].target = Moved(k, m, obs[o].target) /\ obs'[o].status = "corrected"
    BY <1>1, <1>3, <2>0, <2>1, <2>2 DEF Moved, Observation
  <2>4. {x \in Entities : <<o, x>> \in resolved'} = {Moved(k, m, obs[o].target)}
    <3>1. \A x \in Entities : <<o, x>> \in resolved => x = obs[o].target
      BY <2>2
    <3>2. <<o, obs[o].target>> \in resolved /\ obs[o].target \in Entities
      BY <2>2
    <3>3. \A r \in resolved : r = <<r[1], r[2]>> /\ r[2] \in Entities
      BY DEF TypeOK
    <3>4. ASSUME NEW x, <<o, x>> \in resolved' PROVE x = Moved(k, m, obs[o].target)
      <4>1. PICK r \in resolved : <<o, x>> = <<r[1], Moved(k, m, r[2])>>
        BY <1>3, <3>4
      <4>2. r[1] = o /\ x = Moved(k, m, r[2])
        BY <4>1
      <4>. QED BY <3>1, <3>3, <4>2
    <3>5. <<o, Moved(k, m, obs[o].target)>> \in resolved'
      <4>. DEFINE r == <<o, obs[o].target>>
      <4>1. <<r[1], Moved(k, m, r[2])>> \in resolved'
        BY <1>13, <3>2
      <4>. QED BY <4>1
    <3>. QED BY <1>1, <3>2, <3>4, <3>5
  <2>5. Moved(k, m, obs[o].target) \in Live(identity')
    BY <1>2, <2>2 DEF Active, Live
  <2>. QED BY <2>3, <2>4, <2>5
<1>10. NothingRefersToRetired'
  <2>1. \A c \in Contacts : (describes[c] # None => Active(describes[c]))'
    <3>. TAKE c \in Contacts
    <3>1. describes'[c] = Moved(k, m, describes[c])
      BY DEF Merge, Moved
    <3>2. describes[c] = None => describes'[c] = None
      BY <3>1, StoreAssumption DEF Moved
    <3>3. describes[c] # None => describes[c] \in Entities /\ Active(describes[c])
      BY DEF TypeOK, NothingRefersToRetired
    <3>. DEFINE e == describes[c]
    <3>4. describes'[c] # None => /\ e \in Entities /\ Active(e) /\ describes'[c] = Moved(k, m, e)
      BY <3>1, <3>2, <3>3
    <3>. HIDE DEF e
    <3>5. e \in Entities /\ Active(e) => Moved(k, m, e) \in Live(identity')
      BY <1>2
    <3>. QED BY <3>4, <3>5 DEF Active
  <2>2. \A r \in resolved' : Active(r[2])'
    BY <1>2, <1>12, <1>13 DEF NothingRefersToRetired, Active
  <2>3. \A r \in mentions' : identity'[r[2]] \notin Gone \cup {"merged"}
    BY <1>2, <1>12, <1>14 DEF NothingRefersToRetired
  <2>4. \A c \in claims' : /\ c[2] # c[3]
                           /\ identity'[c[2]] \notin Gone \cup {"merged"}
                           /\ identity'[c[3]] \notin Gone \cup {"merged"}
    BY <1>2, <1>12, <1>15 DEF NothingRefersToRetired
  <2>. QED BY <2>1, <2>2, <2>3, <2>4 DEF NothingRefersToRetired
<1>11. Named'
  BY <1>1, <1>2, <1>4 DEF Named
<1>. QED BY <1>7, <1>8, <1>9, <1>10, <1>11

(* Decisions about pairs change nothing else.                              *)
LEMMA PairsDecided ==
  ASSUME GraphInv, Decide, UNCHANGED <<people, evidence>>,
         same' \subseteq Pairs, different' \subseteq Pairs, possible' \subseteq Suggestion,
         rejected' \subseteq SUBSET Entities, RejectionsStored'
  PROVE  GraphInv'
<1>1. TypeOK'
  BY CountedDecision DEF GraphInv, TypeOK, people, evidence, Suggestion
<1>2. CorrectionsHold' /\ NothingRefersToRetired' /\ CorrectedStatus'
  <2>1. \A c \in Contacts : (describes[c] # None => Active(describes[c]))'
    BY DEF GraphInv, NothingRefersToRetired, people, Active
  <2>2. \A e \in Entities : Active(e) => Active(e)'
    BY DEF people, Active
  <2>. QED BY <2>1, <2>2, EvidenceKept DEF people
<1>3. Named'
  BY DEF GraphInv, Named, people
<1>. QED BY <1>1, <1>2, <1>3 DEF GraphInv

LEMMA ConfirmSameInv ==
  ASSUME GraphInv, NEW a \in Entities, NEW b \in Entities, ConfirmSame(a, b)
  PROVE  GraphInv'
<1>1. same' \subseteq Pairs /\ different' \subseteq Pairs
  BY PairOfTwo DEF ConfirmSame, GraphInv, TypeOK
<1>2. possible' \subseteq Suggestion
  <2>1. Without(possible, {{a, b}}) \subseteq Suggestion
    BY WithoutType DEF GraphInv, TypeOK, Suggestion
  <2>2. Refresh(a, Without(possible, {{a, b}})) \subseteq Suggestion
    BY <2>1, RefreshType
  <2>. QED BY <2>2, RefreshType DEF ConfirmSame
<1>3. RejectionsStored' /\ rejected' \subseteq SUBSET Entities
  BY DEF ConfirmSame, GraphInv, RejectionsStored, TypeOK
<1>. QED BY <1>1, <1>2, <1>3, PairsDecided DEF ConfirmSame

LEMMA RejectSameInv ==
  ASSUME GraphInv, NEW a \in Entities, NEW b \in Entities, RejectSame(a, b)
  PROVE  GraphInv'
<1>1. same' \subseteq Pairs /\ different' \subseteq Pairs
  BY PairOfTwo DEF RejectSame, GraphInv, TypeOK
<1>2. possible' \subseteq Suggestion
  BY WithoutType DEF RejectSame, GraphInv, TypeOK, Suggestion
<1>3. RejectionsStored' /\ rejected' \subseteq SUBSET Entities
  BY DEF RejectSame, GraphInv, RejectionsStored, TypeOK
<1>. QED BY <1>1, <1>2, <1>3, PairsDecided DEF RejectSame

-----------------------------------------------------------------------------
(* Contacts.                                                               *)

(* What a step does to people when evidence and decisions stay.            *)
LEMMA PeopleChanged ==
  ASSUME GraphInv, UNCHANGED <<evidence, same, different, rejected>>,
         decisions' \in 0 .. MaxDecisions, changes' \in 0 .. MaxChanges,
         possible' \subseteq Suggestion,
         identity' \in [Entities -> Gone \cup Retired \cup {"seeded", "provisional", "confirmed"}],
         display' \in [Entities -> [name : Names \cup {None}, from : Contacts \cup {None}]],
         forms' \subseteq Form,
         describes' \in [Contacts -> Entities \cup {None}],
         Named',
         \A c \in Contacts : (describes[c] # None => Active(describes[c]))',
         \A e \in Entities : Active(e) => Active(e)' \/ \A o \in Observations : <<o, e>> \notin resolved,
         \A e \in Entities : identity[e] \notin Gone \cup {"merged"}
                               => identity'[e] \notin Gone \cup {"merged"}
  PROVE  GraphInv'
<1>1. TypeOK'
  BY DEF GraphInv, TypeOK, evidence, Suggestion
<1>2. CorrectionsHold' /\ NothingRefersToRetired' /\ CorrectedStatus'
  BY EvidenceKept
<1>3. RejectionsStored'
  BY DEF GraphInv, RejectionsStored
<1>. QED BY <1>1, <1>2, <1>3 DEF GraphInv

(* A record is given to an identity that is live or was never used.        *)
LEMMA OwnersType ==
  ASSUME GraphInv, NEW c \in Contacts, NEW card, NEW e \in Owners(c, card)
  PROVE  e \in Entities /\ (Active(e) \/ identity[e] = "absent")
<1>1. CASE describes[c] # None
  BY <1>1 DEF Owners, GraphInv, TypeOK, NothingRefersToRetired
<1>2. CASE describes[c] = None
  BY <1>2 DEF Owners, Active, Live
<1>. QED BY <1>1, <1>2

LEMMA UpsertContactInv ==
  ASSUME GraphInv, NEW c \in Contacts, NEW card \in Cards,
         UpsertContact(c, card), Change, UNCHANGED decisions
  PROVE  GraphInv'
<1>. USE DEF GraphInv
<1>1. PICK e \in Owners(c, card) :
        /\ describes' = [describes EXCEPT ![c] = e]
        /\ display' = [display EXCEPT ![e] = [name |-> card.name, from |-> c]]
        /\ identity' = [identity EXCEPT ![e] = IF @ = "confirmed" THEN @ ELSE "seeded"]
        /\ forms' = Put({IF f.entity = e /\ f.source = c THEN [f EXCEPT !.active = FALSE] ELSE f :
                           f \in forms},
                        {NewForm(e, "name", card.name, c, "exclusive"),
                         NewForm(e, "email", card.email, c, "exclusive")})
        /\ UNCHANGED <<evidence, same, different, rejected>>
        /\ possible' = Refresh(e, possible)
  BY DEF UpsertContact
<1>2. e \in Entities /\ (Active(e) \/ identity[e] = "absent")
  BY OwnersType
<1>3. card.name \in Names /\ card.email \in Emails
  BY StoreAssumption
<1>4. \A x \in Entities : /\ identity'[x] \in {identity[x], "seeded", "confirmed"}
                          /\ x # e => identity'[x] = identity[x]
                          /\ identity'[e] \in {"seeded", "confirmed"}
  BY <1>1, <1>2 DEF TypeOK
<1>5. \A x \in Entities : /\ Active(x) => Active(x)'
                          /\ Active(e)'
                          /\ identity[x] \notin Gone \cup {"merged"}
                               => identity'[x] \notin Gone \cup {"merged"}
  BY <1>2, <1>4 DEF Active, Live, Gone, Retired
<1>6. forms' \subseteq Form /\ \A f \in forms' : f.kind \in {"name", "alias"} => f.value \in Names
  <2>. DEFINE history == {IF f.entity = e /\ f.source = c THEN [f EXCEPT !.active = FALSE] ELSE f :
                            f \in forms}
              new == {NewForm(e, "name", card.name, c, "exclusive"),
                      NewForm(e, "email", card.email, c, "exclusive")}
  <2>1. \A f \in Form : /\ [f EXCEPT !.active = FALSE] \in Form
                        /\ [f EXCEPT !.active = FALSE].kind = f.kind
                        /\ [f EXCEPT !.active = FALSE].value = f.value
    BY DEF Form
  <2>2. history \subseteq Form /\ \A f \in history : f.kind \in {"name", "alias"} => f.value \in Names
    <3>. SUFFICES ASSUME NEW g \in history
                  PROVE  g \in Form /\ (g.kind \in {"name", "alias"} => g.value \in Names)
      OBVIOUS
    <3>1. PICK f \in forms : g = f \/ g = [f EXCEPT !.active = FALSE]
      OBVIOUS
    <3>. HIDE DEF history
    <3>. QED BY <2>1, <3>1 DEF TypeOK, Named
  <2>3. new \subseteq Form /\ \A f \in new : f.kind \in {"name", "alias"} => f.value \in Names
    BY <1>2, <1>3, NewFormType DEF Kinds
  <2>4. forms' = Put(history, new)
    BY <1>1
  <2>. HIDE DEF history, new
  <2>. QED BY <2>2, <2>3, <2>4, PutType
<1>7. possible' \subseteq Suggestion
  BY <1>1, <1>2, RefreshType DEF TypeOK, Suggestion
<1>8. identity' \in [Entities -> Gone \cup Retired \cup {"seeded", "provisional", "confirmed"}]
  BY <1>1, <1>2 DEF TypeOK
<1>9. display' \in [Entities -> [name : Names \cup {None}, from : Contacts \cup {None}]]
  BY <1>1, <1>2, <1>3 DEF TypeOK
<1>10. describes' \in [Contacts -> Entities \cup {None}]
  BY <1>1, <1>2 DEF TypeOK
<1>11. Named'
  <2>1. \A x \in Entities : identity'[x] # "absent" => display'[x].name \in Names
    BY <1>1, <1>2, <1>3, <1>4 DEF Named, TypeOK
  <2>. QED BY <1>6, <2>1 DEF Named
<1>12. \A x \in Contacts : (describes[x] # None => Active(describes[x]))'
  <2>. TAKE x \in Contacts
  <2>1. CASE x = c
    BY <1>1, <1>5, <2>1, <1>2 DEF TypeOK, Active
  <2>2. CASE x # c
    BY <1>1, <1>5, <2>2 DEF TypeOK, Active, NothingRefersToRetired
  <2>. QED BY <2>1, <2>2
<1>13. changes' \in 0 .. MaxChanges /\ decisions' \in 0 .. MaxDecisions
  BY CountedChange DEF TypeOK
<1>. QED BY <1>1, <1>5, <1>6, <1>7, <1>8, <1>9, <1>10, <1>11, <1>12, <1>13, PeopleChanged

LEMMA RemoveContactInv ==
  ASSUME GraphInv, NEW c \in Contacts, RemoveContact(c), Change, UNCHANGED decisions
  PROVE  GraphInv'
<1>. USE DEF GraphInv
<1>1. PICK affected :
        /\ describes[c] # None
        /\ forms' = {f \in forms : f.source # c}
        /\ describes' = [describes EXCEPT ![c] = None]
        /\ display' = [e \in Entities |-> IF e \in affected THEN DisplayWithout(e, c, identity, forms')
                                                          ELSE display[e]]
        /\ identity' = [e \in Entities |->
             IF e \in affected /\ Unsupported(e, identity, describes', forms')
             THEN "orphaned" ELSE identity[e]]
        /\ UNCHANGED <<evidence, same, different, rejected>>
        /\ possible' = Refresh(describes[c], possible)
  BY Zenon DEF RemoveContact
<1>2. forms' \subseteq Form /\ \A f \in forms' : f.kind \in {"name", "alias"} => f.value \in Names
  BY <1>1 DEF TypeOK, Named
<1>3. \A e \in Entities :
        /\ display'[e] \in [name : Names \cup {None}, from : Contacts \cup {None}]
        /\ display'[e].name \in Names \cup {display[e].name}
  <2>. TAKE e \in Entities
  <2>1. display[e] \in [name : Names \cup {None}, from : Contacts \cup {None}]
    BY DEF TypeOK
  <2>2. display'[e] = display[e] \/ display'[e] = DisplayWithout(e, c, identity, forms')
    BY <1>1
  <2>. QED BY <1>2, <2>1, <2>2, DisplayWithoutType
<1>4. \A e \in Entities :
        identity'[e] # identity[e] =>
          /\ identity'[e] = "orphaned" /\ identity[e] \notin Gone \cup {"confirmed", "merged"}
          /\ \A x \in Contacts : describes'[x] # e
          /\ \A o \in Observations : <<o, e>> \notin resolved
  BY <1>1 DEF Unsupported
<1>5. identity' \in [Entities -> Gone \cup Retired \cup {"seeded", "provisional", "confirmed"}]
  BY <1>1 DEF TypeOK, Retired
<1>6. display' \in [Entities -> [name : Names \cup {None}, from : Contacts \cup {None}]]
  BY <1>1, <1>3
<1>7. Named'
  BY <1>2, <1>3, <1>4 DEF Named, Gone
<1>8. possible' \subseteq Suggestion
  BY <1>1, RefreshType DEF TypeOK, Suggestion
<1>9. describes' \in [Contacts -> Entities \cup {None}]
  BY <1>1 DEF TypeOK
<1>10. \A e \in Entities :
         /\ Active(e) => Active(e)' \/ \A o \in Observations : <<o, e>> \notin resolved
         /\ identity[e] \notin Gone \cup {"merged"} => identity'[e] \notin Gone \cup {"merged"}
  BY <1>4 DEF Active, Live, Gone
<1>11. \A x \in Contacts : (describes[x] # None => Active(describes[x]))'
  <2>. TAKE x \in Contacts
  <2>1. describes'[x] # None => /\ x # c /\ describes'[x] = describes[x]
                                /\ describes[x] \in Entities /\ Active(describes[x])
    BY <1>1 DEF TypeOK, NothingRefersToRetired
  <2>. QED BY <1>4, <2>1 DEF Active, Live
<1>12. changes' \in 0 .. MaxChanges /\ decisions' \in 0 .. MaxDecisions
  BY CountedChange DEF TypeOK
<1>. QED BY <1>1, <1>2, <1>5, <1>6, <1>7, <1>8, <1>9, <1>10, <1>11, <1>12, PeopleChanged

LEMMA ReassignContactInv ==
  ASSUME GraphInv, NEW c \in Contacts, NEW t \in Entities, ReassignContact(c, t)
  PROVE  GraphInv'
<1>. USE DEF GraphInv
<1>. DEFINE old   == describes[c]
            mine  == {f \in forms : f.entity = old /\ f.source = c}
            moved == IF t = old THEN {} ELSE {[f EXCEPT !.entity = t] : f \in mine}
            named == [identity EXCEPT ![t] = "confirmed"]
<1>1. /\ old # None /\ Active(t) /\ Decide
      /\ forms' = Put(forms \ mine, moved)
      /\ describes' = [describes EXCEPT ![c] = t]
      /\ display' = [display EXCEPT ![old] = DisplayWithout(old, c, named, forms')]
      /\ identity' = [named EXCEPT ![old] = IF Unsupported(old, named, describes', forms')
                                            THEN "orphaned" ELSE @]
      /\ UNCHANGED <<evidence, same, different, rejected>>
      /\ possible' = Refresh(t, Refresh(old, possible))
  BY DEF ReassignContact
<1>2. old \in Entities /\ Active(old)
  BY <1>1 DEF TypeOK, NothingRefersToRetired
<1>3. forms' \subseteq Form /\ \A f \in forms' : f.kind \in {"name", "alias"} => f.value \in Names
  <2>1. \A f \in Form : /\ [f EXCEPT !.entity = t] \in Form
                        /\ [f EXCEPT !.entity = t].kind = f.kind
                        /\ [f EXCEPT !.entity = t].value = f.value
    BY DEF Form
  <2>2. mine \subseteq forms
    OBVIOUS
  <2>3. moved \subseteq Form /\ \A f \in moved : f.kind \in {"name", "alias"} => f.value \in Names
    <3>. SUFFICES ASSUME NEW g \in moved
                  PROVE  g \in Form /\ (g.kind \in {"name", "alias"} => g.value \in Names)
      OBVIOUS
    <3>1. PICK f \in forms : g = [f EXCEPT !.entity = t]
      BY <2>2
    <3>. HIDE DEF moved
    <3>. QED BY <2>1, <3>1 DEF TypeOK, Named
  <2>4. forms \ mine \subseteq Form
    BY DEF TypeOK
  <2>. HIDE DEF mine, moved
  <2>. QED BY <1>1, <2>3, <2>4, PutType DEF Named
<1>. HIDE DEF mine, moved
<1>4. \A e \in Entities :
        /\ identity'[e] \in {identity[e], "orphaned", "confirmed"}
        /\ identity'[e] = "confirmed" => identity[e] = "confirmed" \/ e = t
        /\ identity'[e] = "orphaned" /\ identity[e] # "orphaned" =>
             /\ e # t /\ identity[e] # "absent"
             /\ \A x \in Contacts : describes'[x] # e
             /\ \A o \in Observations : <<o, e>> \notin resolved
        /\ identity[e] = "confirmed" => identity'[e] = "confirmed"
  <2>. TAKE e \in Entities
  <2>1. named \in [Entities -> Gone \cup Retired \cup {"seeded", "provisional", "confirmed"}]
    BY DEF TypeOK
  <2>2. named[e] = IF e = t THEN "confirmed" ELSE identity[e]
    BY DEF TypeOK
  <2>3. identity'[e] = IF e = old /\ Unsupported(old, named, describes', forms')
                       THEN "orphaned" ELSE named[e]
    BY <1>1, <1>2, <2>1
  <2>. HIDE DEF named
  <2>4. Unsupported(old, named, describes', forms') =>
          /\ named[old] \notin Gone \cup {"confirmed"}
          /\ \A x \in Contacts : describes'[x] # old
          /\ \A o \in Observations : <<o, old>> \notin resolved
    BY DEF Unsupported
  <2>. QED BY <2>2, <2>3, <2>4 DEF Gone
<1>5. identity' \in [Entities -> Gone \cup Retired \cup {"seeded", "provisional", "confirmed"}]
  BY <1>1, <1>4 DEF TypeOK, Retired
<1>6. DisplayWithout(old, c, named, forms') \in [name : Names \cup {None}, from : Contacts \cup {None}]
      /\ DisplayWithout(old, c, named, forms').name \in Names \cup {display[old].name}
  BY <1>2, <1>3, DisplayWithoutType
<1>7. display' \in [Entities -> [name : Names \cup {None}, from : Contacts \cup {None}]]
  BY <1>1, <1>6 DEF TypeOK
<1>8. Named'
  <2>1. \A e \in Entities : display'[e].name \in Names \cup {display[e].name}
    BY <1>1, <1>2, <1>6 DEF TypeOK
  <2>2. identity[t] # "absent"
    BY <1>1 DEF Active, Live, Gone
  <2>. QED BY <1>3, <1>4, <2>1, <2>2 DEF Named
<1>9. possible' \subseteq Suggestion
  BY <1>1, <1>2, RefreshType DEF TypeOK, Suggestion
<1>10. describes' \in [Contacts -> Entities \cup {None}]
  BY <1>1 DEF TypeOK
<1>11. \A e \in Entities :
         /\ Active(e) => Active(e)' \/ \A o \in Observations : <<o, e>> \notin resolved
         /\ identity[e] \notin Gone \cup {"merged"} => identity'[e] \notin Gone \cup {"merged"}
  BY <1>4 DEF Active, Live, Gone, Retired
<1>12. \A x \in Contacts : (describes[x] # None => Active(describes[x]))'
  <2>. TAKE x \in Contacts
  <2>1. identity'[t] \notin Gone \cup Retired
    BY <1>1, <1>4 DEF Active, Live, Gone, Retired
  <2>2. CASE x = c
    BY <1>1, <2>1, <2>2 DEF TypeOK, Active, Live
  <2>3. CASE x # c
    <3>1. describes'[x] = describes[x]
      BY <1>1, <2>3
    <3>2. describes[x] # None => describes[x] \in Entities /\ Active(describes[x])
      BY DEF TypeOK, NothingRefersToRetired
    <3>. QED BY <1>4, <3>1, <3>2 DEF Active, Live, Gone, Retired
  <2>. QED BY <2>2, <2>3
<1>13. changes' \in 0 .. MaxChanges /\ decisions' \in 0 .. MaxDecisions
  BY <1>1, CountedDecision
<1>. QED BY <1>1, <1>3, <1>5, <1>7, <1>8, <1>9, <1>10, <1>11, <1>12, <1>13, PeopleChanged

-----------------------------------------------------------------------------
(* Documents.                                                              *)

(* What a step does to observations when people and decisions stay.        *)
LEMMA Observed ==
  ASSUME GraphInv, NEW o \in Observations, UNCHANGED <<decisions, changes, mentions, claims, rejected>>,
         UNCHANGED <<people, judgement>>,
         NEW r \in Observation, NEW T, T \subseteq Live(identity),
         obs' = [obs EXCEPT ![o] = r],
         resolved' = {x \in resolved : x[1] # o} \cup {<<o, e>> : e \in T},
         r.curator = "corrected_observation" =>
           r.target \in Live(identity) /\ T = {r.target} /\ r.status = "corrected"
  PROVE  GraphInv'
<1>. USE DEF GraphInv
<1>0. T \subseteq Entities
  BY DEF Live
<1>1. \A x \in Observations, e \in Entities :
        <<x, e>> \in resolved' <=> IF x = o THEN e \in T ELSE <<x, e>> \in resolved
  BY <1>0
<1>2. \A x \in Observations : obs'[x] = IF x = o THEN r ELSE obs[x]
  BY DEF TypeOK
<1>3. \A x \in resolved' : /\ x \in Observations \X Entities
                           /\ x[2] \in T \/ x \in resolved
  BY <1>0 DEF TypeOK
<1>4. TypeOK'
  <2>1. obs' \in [Observations -> Observation]
    BY DEF TypeOK
  <2>. QED BY <1>3, <2>1 DEF TypeOK, people, judgement
<1>5. CorrectionsHold' /\ CorrectedStatus'
  <2>. SUFFICES ASSUME NEW x \in Observations, obs'[x].curator = "corrected_observation"
                PROVE  /\ obs'[x].target \in Live(identity)
                       /\ {e \in Entities : <<x, e>> \in resolved'} = {obs'[x].target}
                       /\ obs'[x].status = "corrected"
    BY DEF CorrectionsHold, CorrectedStatus, people
  <2>1. CASE x = o
    BY <1>0, <1>1, <1>2, <2>1
  <2>2. CASE x # o
    BY <1>1, <1>2, <2>2 DEF CorrectionsHold, CorrectedStatus
  <2>. QED BY <2>1, <2>2
<1>6. NothingRefersToRetired'
  <2>1. \A x \in resolved' : Active(x[2])'
    BY <1>3 DEF NothingRefersToRetired, Active, people
  <2>2. \A c \in Contacts : (describes[c] # None => Active(describes[c]))'
    BY DEF NothingRefersToRetired, Active, people
  <2>. QED BY <2>1, <2>2 DEF NothingRefersToRetired, people
<1>7. Named' /\ RejectionsStored'
  BY DEF Named, RejectionsStored, people, judgement
<1>. QED BY <1>4, <1>5, <1>6, <1>7

LEMMA ObserveDecidedInv ==
  ASSUME GraphInv, NEW o \in Observations, NEW eligible \in BOOLEAN, ObserveDecided(o, eligible),
         UNCHANGED <<decisions, changes, mentions, claims, rejected>>
  PROVE  GraphInv'
<1>. DEFINE refused == obs[o].curator = "manual_not_entity" \/ (~Bound(o) /\ ~eligible)
            fate == IF refused THEN "rejected" ELSE "corrected"
            r == [obs[o] EXCEPT !.status = fate, !.eligible = eligible]
            T == IF refused THEN {} ELSE {obs[o].target}
<1>1. /\ refused \/ Bound(o)
      /\ obs' = [obs EXCEPT ![o].status = fate, ![o].eligible = eligible]
      /\ resolved' = {x \in resolved : x[1] # o} \cup (IF refused THEN {} ELSE {<<o, obs[o].target>>})
      /\ UNCHANGED <<people, judgement>>
  BY DEF ObserveDecided
<1>2. obs[o] \in Observation
  BY DEF GraphInv, TypeOK
<1>3. r \in Observation /\ r.curator = obs[o].curator /\ r.target = obs[o].target /\ r.status = fate
  BY <1>2 DEF Observation
<1>4. obs' = [obs EXCEPT ![o] = r]
  BY <1>1 DEF GraphInv, TypeOK
<1>5. obs[o].curator = "corrected_observation" => ~refused /\ obs[o].target \in Live(identity)
  BY DEF GraphInv, CorrectionsHold, Bound
<1>6. T \subseteq Live(identity) /\ resolved' = {x \in resolved : x[1] # o} \cup {<<o, e>> : e \in T}
  BY <1>1 DEF Bound
<1>7. r.curator = "corrected_observation" =>
        r.target \in Live(identity) /\ T = {r.target} /\ r.status = "corrected"
  BY <1>3, <1>5
<1>. HIDE DEF r, T
<1>. QED BY <1>1, <1>3, <1>4, <1>6, <1>7, Observed

LEMMA NotCorrected ==
  ASSUME GraphInv, NEW o \in Observations, ~Bound(o)
  PROVE  obs[o].curator # "corrected_observation"
BY DEF GraphInv, CorrectionsHold, Bound

LEMMA ObserveKnownInv ==
  ASSUME GraphInv, NEW o \in Observations, NEW create, ObserveKnown(o, create), ~Bound(o),
         UNCHANGED <<decisions, changes, mentions, claims, rejected>>
  PROVE  GraphInv'
<1>. DEFINE bearers == Bearers(o[2])
            one == Cardinality(bearers) = 1
            fate == CASE one -> "resolved_existing" [] bearers = {} -> "unresolved"
                      [] OTHER -> "ambiguous"
            r == [obs[o] EXCEPT !.status = fate, !.eligible = TRUE]
            T == IF one THEN bearers ELSE {}
<1>1. /\ obs' = [obs EXCEPT ![o].status = fate, ![o].eligible = TRUE]
      /\ resolved' = {x \in resolved : x[1] # o} \cup (IF one THEN {<<o, e>> : e \in bearers} ELSE {})
      /\ UNCHANGED <<people, judgement>>
  BY DEF ObserveKnown
<1>2. obs[o] \in Observation
  BY DEF GraphInv, TypeOK
<1>3. fate \in {"resolved_existing", "unresolved", "ambiguous"}
  OBVIOUS
<1>5. bearers \subseteq Live(identity)
  BY DEF Bearers
<1>. HIDE DEF fate, bearers, one
<1>4. obs' = [obs EXCEPT ![o] = r]
  BY <1>1, <1>3 DEF GraphInv, TypeOK
<1>6. r \in Observation /\ r.curator = obs[o].curator
  BY <1>2, <1>3 DEF Observation
<1>7. T \subseteq Live(identity) /\ resolved' = {x \in resolved : x[1] # o} \cup {<<o, e>> : e \in T}
  BY <1>1, <1>5
<1>8. r.curator # "corrected_observation"
  BY <1>6, NotCorrected
<1>. HIDE DEF r, T
<1>. QED BY <1>1, <1>4, <1>6, <1>7, <1>8, Observed

LEMMA ObserveNewInv ==
  ASSUME GraphInv, NEW o \in Observations, o[2] \in Names, ObserveNew(o), ~Bound(o),
         UNCHANGED <<decisions, changes, mentions, claims, rejected>>
  PROVE  GraphInv'
<1>. USE DEF GraphInv
<1>. DEFINE weak(x) == x[2] = o[2] /\ obs[x].status = "unresolved" /\ obs[x].eligible
<1>1. PICK e \in Entities :
        /\ identity[e] = "absent"
        /\ identity' = [identity EXCEPT ![e] = "provisional"]
        /\ display' = [display EXCEPT ![e].name = o[2]]
        /\ forms' = Put(forms, {NewForm(e, "name", o[2], o[1], "exclusive")})
        /\ obs' = [x \in Observations |->
             IF x = o THEN [obs[o] EXCEPT !.status = "created_provisional", !.eligible = TRUE]
             ELSE IF weak(x) THEN [obs[x] EXCEPT !.status = "resolved_existing"]
             ELSE obs[x]]
        /\ resolved' = resolved \cup {<<o, e>>}
                        \cup {<<x, e>> : x \in {y \in Observations \ {o} : weak(y)}}
        /\ UNCHANGED <<describes, same, different>>
        /\ possible' = Refresh(e, possible)
  BY DEF ObserveNew
<1>2. \A x \in Observations : /\ obs[x] \in Observation
                              /\ obs[x].curator = "corrected_observation" => x # o /\ ~weak(x)
  BY NotCorrected DEF TypeOK, CorrectedStatus
<1>3. \A x \in Observations : /\ obs'[x] \in Observation
                              /\ obs'[x].curator = obs[x].curator
                              /\ obs[x].curator = "corrected_observation" => obs'[x] = obs[x]
  <2>. TAKE x \in Observations
  <2>. DEFINE first == [obs[o] EXCEPT !.status = "created_provisional", !.eligible = TRUE]
              again == [obs[x] EXCEPT !.status = "resolved_existing"]
  <2>1. first \in Observation /\ first.curator = obs[o].curator
    BY <1>2 DEF Observation
  <2>2. again \in Observation /\ again.curator = obs[x].curator
    BY <1>2 DEF Observation
  <2>3. obs'[x] = IF x = o THEN first ELSE IF weak(x) THEN again ELSE obs[x]
    BY <1>1
  <2>. HIDE DEF first, again
  <2>. QED BY <1>2, <2>1, <2>2, <2>3
<1>. HIDE DEF weak
<1>4. \A x \in Entities : identity'[x] = IF x = e THEN "provisional" ELSE identity[x]
  BY <1>1 DEF TypeOK
<1>5. \A x \in Entities : /\ x # e => identity'[x] = identity[x]
                          /\ x \in Live(identity) => x # e /\ x \in Live(identity')
                          /\ e \in Live(identity')
  BY <1>1, <1>4 DEF Live, Gone, Retired
<1>6. \A r \in resolved' : /\ r[1] \in Observations /\ r[2] \in Entities /\ r = <<r[1], r[2]>>
                           /\ r \in resolved \/ r[2] = e
  BY <1>1 DEF TypeOK
<1>7. \A x \in Observations, y \in Entities : obs[x].curator = "corrected_observation" =>
        (<<x, y>> \in resolved' <=> <<x, y>> \in resolved)
  BY <1>1, <1>2
<1>8. o[1] \in Docs
  BY DEF Observations
<1>9. forms' \subseteq Form /\ \A f \in forms' : f.kind \in {"name", "alias"} => f.value \in Names
  <2>. DEFINE new == NewForm(e, "name", o[2], o[1], "exclusive")
  <2>1. new \in Form /\ new.value \in Names
    BY <1>8, NewFormType DEF Kinds
  <2>2. forms' = Put(forms, {new})
    BY <1>1
  <2>. HIDE DEF new
  <2>3. forms \subseteq Form /\ {new} \subseteq Form
    BY <2>1 DEF TypeOK
  <2>4. forms' \subseteq Form /\ forms' \subseteq forms \cup {new}
    BY <2>2, <2>3, PutType
  <2>. QED BY <2>1, <2>4 DEF Named
<1>10. TypeOK'
  <2>1. possible' \subseteq Suggestion
    BY <1>1, RefreshType DEF TypeOK, Suggestion
  <2>2. obs' \in [Observations -> Observation]
    BY <1>1, <1>3
  <2>3. identity' \in [Entities -> Gone \cup Retired \cup {"seeded", "provisional", "confirmed"}]
        /\ display' \in [Entities -> [name : Names \cup {None}, from : Contacts \cup {None}]]
    BY <1>1 DEF TypeOK
  <2>4. resolved' \subseteq Observations \X Entities
    BY <1>6
  <2>. QED BY <1>1, <1>9, <2>1, <2>2, <2>3, <2>4 DEF TypeOK, Suggestion
<1>11. CorrectionsHold' /\ CorrectedStatus'
  <2>. SUFFICES ASSUME NEW x \in Observations, obs'[x].curator = "corrected_observation"
                PROVE  /\ obs'[x].target \in Live(identity')
                       /\ {y \in Entities : <<x, y>> \in resolved'} = {obs'[x].target}
                       /\ obs'[x].status = "corrected"
    BY DEF CorrectionsHold, CorrectedStatus
  <2>1. obs'[x] = obs[x] /\ obs[x].curator = "corrected_observation"
    BY <1>3
  <2>2. /\ obs[x].target \in Live(identity)
        /\ {y \in Entities : <<x, y>> \in resolved} = {obs[x].target}
        /\ obs[x].status = "corrected"
    BY <2>1 DEF CorrectionsHold, CorrectedStatus
  <2>3. {y \in Entities : <<x, y>> \in resolved'} = {y \in Entities : <<x, y>> \in resolved}
    BY <1>7, <2>1
  <2>4. obs[x].target \in Live(identity')
    BY <1>5, <2>2 DEF Live
  <2>. QED BY <2>1, <2>2, <2>3, <2>4
<1>12. NothingRefersToRetired'
  <2>1. \A c \in Contacts : (describes[c] # None => Active(describes[c]))'
    BY <1>1, <1>5 DEF NothingRefersToRetired, Active, TypeOK
  <2>2. \A r \in resolved' : Active(r[2])'
    BY <1>5, <1>6 DEF NothingRefersToRetired, Active
  <2>3. \A m \in mentions' : identity'[m[2]] \notin Gone \cup {"merged"}
    BY <1>4 DEF NothingRefersToRetired, TypeOK, Gone
  <2>4. \A c \in claims' : /\ c[2] # c[3]
                           /\ identity'[c[2]] \notin Gone \cup {"merged"}
                           /\ identity'[c[3]] \notin Gone \cup {"merged"}
    BY <1>4 DEF NothingRefersToRetired, TypeOK, Gone
  <2>. QED BY <2>1, <2>2, <2>3, <2>4 DEF NothingRefersToRetired
<1>13. Named'
  <2>1. \A x \in Entities : identity'[x] # "absent" => display'[x].name \in Names
    BY <1>1, <1>4 DEF Named, TypeOK
  <2>. QED BY <1>9, <2>1 DEF Named
<1>14. RejectionsStored'
  BY <1>1 DEF RejectionsStored
<1>. QED BY <1>10, <1>11, <1>12, <1>13, <1>14

LEMMA ObserveInv ==
  ASSUME GraphInv, NEW o \in Observations, NEW eligible \in BOOLEAN, NEW create \in BOOLEAN,
         Observe(o, eligible, create), UNCHANGED <<decisions, changes>>
  PROVE  GraphInv'
<1>1. o[2] \in Names
  BY DEF Observations
<1>. QED BY <1>1, ObserveDecidedInv, ObserveKnownInv, ObserveNewInv DEF Observe

(* A pass over the document changes only what the document mentions and    *)
(* what it is taken to say.                                                *)
LEMMA LinkInv ==
  ASSUME GraphInv, NEW d \in Docs, Link(d), UNCHANGED <<decisions, changes>>
  PROVE  GraphInv'
<1>. USE DEF GraphInv
<1>1. \A n \in Names : Linked(<<d, n>>) \subseteq Live(identity)
  BY DEF Linked, Bearers
<1>2. \A m \in mentions' : m \in mentions \/ (m[1] = d /\ m[2] \in Live(identity) /\ m = <<m[1], m[2]>>)
  <2>1. Detected(d) \subseteq Names
    BY StoreAssumption DEF Detected
  <2>2. UNION {Linked(<<d, n>>) : n \in Detected(d)} \subseteq Live(identity)
    BY <1>1, <2>1
  <2>. QED BY SMTT(30), <2>2 DEF Link
<1>3. /\ mentions' \subseteq Docs \X Entities
      /\ \A m \in mentions' : identity[m[2]] \notin Gone \cup {"merged"}
  BY <1>2 DEF TypeOK, NothingRefersToRetired, Live, Gone, Retired
<1>4. UNCHANGED <<people, obs, resolved, claims, judgement, rejected>>
  BY DEF Link
<1>5. TypeOK'
  BY <1>3, <1>4 DEF TypeOK, people, judgement
<1>6. NothingRefersToRetired'
  <2>1. \A e : Active(e)' <=> Active(e)
    BY <1>4 DEF Active, people
  <2>. QED BY <1>3, <1>4, <2>1 DEF NothingRefersToRetired, people
<1>. QED BY <1>4, <1>5, <1>6 DEF CorrectionsHold, CorrectedStatus, Named, RejectionsStored,
                                people, judgement

LEMMA RelateInv ==
  ASSUME GraphInv, NEW d \in Docs, Relate(d), UNCHANGED <<decisions, changes>>
  PROVE  GraphInv'
<1>. USE DEF GraphInv
<1>1. PICK new \in SUBSET ({d} \X Entities \X Entities) :
        /\ \A c \in new : <<d, c[2]>> \in mentions /\ <<d, c[3]>> \in mentions /\ c[2] # c[3]
        /\ claims' = {c \in claims : c[1] # d} \cup new
  BY DEF Relate
<1>2. \A c \in new : /\ c \in Docs \X Entities \X Entities
                     /\ c[2] # c[3]
                     /\ identity[c[2]] \notin Gone \cup {"merged"}
                     /\ identity[c[3]] \notin Gone \cup {"merged"}
  BY <1>1 DEF NothingRefersToRetired
<1>3. UNCHANGED <<people, obs, resolved, mentions, judgement, rejected>>
  BY DEF Relate
<1>4. TypeOK'
  BY <1>1, <1>2, <1>3 DEF TypeOK, people, judgement
<1>5. NothingRefersToRetired'
  <2>1. \A e : Active(e)' <=> Active(e)
    BY <1>3 DEF Active, people
  <2>. QED BY <1>1, <1>2, <1>3, <2>1 DEF NothingRefersToRetired, people
<1>. QED BY <1>3, <1>4, <1>5 DEF CorrectionsHold, CorrectedStatus, Named, RejectionsStored,
                                people, judgement

-----------------------------------------------------------------------------
(* The theorems.                                                           *)

LEMMA InitInv ==
  ASSUME Init PROVE GraphInv
<1>1. TypeOK
  <2>1. Unseen \in Observation
    BY DEF Unseen, Observation
  <2>2. 0 \in 0 .. MaxDecisions /\ 0 \in 0 .. MaxChanges
    BY StoreAssumption
  <2>3. identity \in [Entities -> Gone \cup Retired \cup {"seeded", "provisional", "confirmed"}]
        /\ display \in [Entities -> [name : Names \cup {None}, from : Contacts \cup {None}]]
    BY DEF Init, Gone
  <2>. QED BY <2>1, <2>2, <2>3 DEF Init, TypeOK
<1>2. CorrectionsHold /\ CorrectedStatus
  BY DEF Init, CorrectionsHold, CorrectedStatus, Unseen
<1>. QED BY <1>1, <1>2 DEF Init, GraphInv, NothingRefersToRetired, Named, RejectionsStored

LEMMA NextInv ==
  ASSUME GraphInv, [Next]_vars PROVE GraphInv'
<1>1. CASE Index
  <2>1. ASSUME NEW o \in Observations, NEW a \in Admissions, Observe(o, a[1], a[2])
        PROVE  GraphInv'
    BY <1>1, <2>1, ObserveInv, StoreAssumption DEF Index
  <2>2. ASSUME NEW d \in Docs, Link(d) PROVE GraphInv'
    BY <1>1, <2>2, LinkInv DEF Index
  <2>3. ASSUME NEW d \in Docs, Relate(d) PROVE GraphInv'
    BY <1>1, <2>3, RelateInv DEF Index
  <2>. QED BY <1>1, <2>1, <2>2, <2>3 DEF Index
<1>2. CASE Curate
  <2>1. ASSUME NEW e \in Entities, NEW n \in Names, CorrectName(e, n) \/ RemoveAlias(e, n)
        PROVE  GraphInv'
    BY <2>1, CorrectNameInv, RemoveAliasInv
  <2>2. ASSUME NEW e \in Entities, NEW n \in Names, NEW policy \in Policies,
               SetFormPolicy(e, n, policy) \/ AddAlias(e, n, policy)
        PROVE  GraphInv'
    BY <2>2, SetFormPolicyInv, AddAliasInv
  <2>3. ASSUME NEW o \in Observations, NEW t \in Entities, CorrectObservation(o, t)
        PROVE  GraphInv'
    BY <2>3, CorrectObservationInv
  <2>4. ASSUME NEW e \in Entities, DeleteEntity(e) PROVE GraphInv'
    BY <2>4, DeleteEntityInv
  <2>5. ASSUME NEW a \in Entities, NEW b \in Entities, ConfirmSame(a, b) \/ RejectSame(a, b)
        PROVE  GraphInv'
    BY <2>5, ConfirmSameInv, RejectSameInv
  <2>6. ASSUME NEW k \in Entities, NEW m \in Entities, NEW policy \in Policies, Merge(k, m, policy)
        PROVE  GraphInv'
    BY <2>6, MergeInv
  <2>7. ASSUME NEW c \in Contacts, NEW t \in Entities, ReassignContact(c, t)
        PROVE  GraphInv'
    BY <2>7, ReassignContactInv
  <2>. QED BY <1>2, <2>1, <2>2, <2>3, <2>4, <2>5, <2>6, <2>7 DEF Curate
<1>3. CASE Import
  <2>1. ASSUME NEW c \in Contacts, RemoveContact(c) PROVE GraphInv'
    BY <1>3, <2>1, RemoveContactInv DEF Import
  <2>2. ASSUME NEW c \in Contacts, NEW card \in Cards, UpsertContact(c, card) PROVE GraphInv'
    BY <1>3, <2>2, UpsertContactInv DEF Import
  <2>. QED BY <1>3, <2>1, <2>2 DEF Import
<1>4. CASE UNCHANGED vars
  <2>1. \A e : Active(e)' <=> Active(e)
    BY <1>4 DEF vars, people, Active
  <2>. QED BY <1>4, <2>1 DEF vars, people, evidence, judgement, GraphInv, TypeOK, CorrectionsHold,
             NothingRefersToRetired, CorrectedStatus, Named, RejectionsStored
<1>. QED BY <1>1, <1>2, <1>3, <1>4 DEF Next

(* The inductive invariant: the promises below, and what they need of the  *)
(* store's records.                                                        *)
THEOREM GraphInvariant == Spec => []GraphInv
BY InitInv, NextInv, PTL DEF Spec

(* Every record of the store has the shape its readers expect; no identity *)
(* is suggested as a duplicate of itself.                                  *)
THEOREM GraphTypeCorrect == Spec => []TypeOK
BY GraphInvariant, PTL DEF GraphInv

(* What a curator has corrected stays corrected (correct_observation),     *)
(* through every merge, deletion, import and later pass.                   *)
THEOREM CorrectionsAlwaysHold == Spec => []CorrectionsHold
BY GraphInvariant, PTL DEF GraphInv

(* No reference is left behind by merge_entities, delete_entity or the     *)
(* orphaning of an identity.                                               *)
THEOREM NoDanglingReference == Spec => []NothingRefersToRetired
BY GraphInvariant, PTL DEF GraphInv

(* A pair a curator has rejected (reject_merge_candidate) is never offered *)
(* again: it is separated by NOT_SAME_AS, whatever components its members  *)
(* belong to later.                                                        *)
THEOREM RejectedNeverOffered == Spec => []RejectedPairsNotOffered
<1>1. GraphInv => RejectedPairsNotOffered
  <2>. SUFFICES ASSUME GraphInv, NEW p \in rejected, NEW a \in p, NEW b \in p, a # b
                PROVE  ~Offered(a, b)
    BY DEF RejectedPairsNotOffered
  <2>0. PICK x \in Entities, y \in Entities : p = {x, y} /\ p \in different
    BY DEF GraphInv, RejectionsStored
  <2>1. a \in Entities /\ b \in Entities /\ {a, b} \in different
    <3>1. {a, b} = p
      BY <2>0
    <3>. QED BY <2>0, <3>1
  <2>2. a \in Component(a, identity, same) /\ b \in Component(b, identity, same)
    BY <2>1, OwnComponent
  <2>. QED BY <2>1, <2>2 DEF Offered
<1>. QED BY <1>1, GraphInvariant, PTL

(* An identity a person has confirmed ends by a merge or a deletion only.  *)
THEOREM ConfirmedStay == Spec => ConfirmedPreserved
<1>1. GraphInv /\ [Next]_vars =>
        [\A e \in Entities : identity[e] = "confirmed" =>
           identity'[e] \in {"confirmed", "merged", "deleted"}]_vars
  <2>. SUFFICES ASSUME GraphInv, [Next]_vars, NEW e \in Entities, identity[e] = "confirmed"
                PROVE  identity'[e] \in {"confirmed", "merged", "deleted"}
    OBVIOUS
  <2>. USE DEF GraphInv, TypeOK
  <2>1. CASE Index
    <3>1. ASSUME NEW o \in Observations, ObserveNew(o) PROVE identity'[e] = "confirmed"
      BY <3>1 DEF ObserveNew
    <3>2. ASSUME NEW o \in Observations, NEW a \in Admissions, Observe(o, a[1], a[2])
          PROVE  identity'[e] = "confirmed"
      BY <3>1, <3>2 DEF Observe, ObserveDecided, ObserveKnown, people
    <3>3. ASSUME NEW d \in Docs, Link(d) \/ Relate(d) PROVE identity'[e] = "confirmed"
      BY <3>3 DEF Link, Relate, people
    <3>. QED BY <2>1, <3>2, <3>3 DEF Index
  <2>2. CASE Curate
    <3>1. ASSUME NEW x \in Entities, NEW n \in Names, CorrectName(x, n) \/ RemoveAlias(x, n)
          PROVE  identity'[e] = "confirmed"
      BY <3>1 DEF CorrectName, RemoveAlias
    <3>2. ASSUME NEW x \in Entities, NEW n \in Names, NEW policy \in Policies,
                 SetFormPolicy(x, n, policy) \/ AddAlias(x, n, policy)
          PROVE  identity'[e] = "confirmed"
      BY <3>2 DEF SetFormPolicy, AddAlias
    <3>3. ASSUME NEW o \in Observations, NEW t \in Entities, CorrectObservation(o, t)
          PROVE  identity'[e] = "confirmed"
      BY <3>3 DEF CorrectObservation
    <3>4. ASSUME NEW x \in Entities, DeleteEntity(x)
          PROVE  identity'[e] \in {"confirmed", "deleted"}
      BY <3>4 DEF DeleteEntity
    <3>5. ASSUME NEW a \in Entities, NEW b \in Entities, ConfirmSame(a, b) \/ RejectSame(a, b)
          PROVE  identity'[e] = "confirmed"
      BY <3>5 DEF ConfirmSame, RejectSame, people
    <3>6. ASSUME NEW k \in Entities, NEW m \in Entities, NEW policy \in Policies, Merge(k, m, policy)
          PROVE  identity'[e] \in {"confirmed", "merged"}
      BY <3>6 DEF Merge
    <3>7. ASSUME NEW c \in Contacts, NEW t \in Entities, ReassignContact(c, t)
          PROVE  identity'[e] = "confirmed"
      BY <3>7 DEF ReassignContact, Unsupported
    <3>. QED BY <2>2, <3>1, <3>2, <3>3, <3>4, <3>5, <3>6, <3>7 DEF Curate
  <2>3. CASE Import
    BY ZenonT(60), <2>3 DEF Import, RemoveContact, UpsertContact, Unsupported
  <2>4. CASE UNCHANGED vars
    BY <2>4 DEF vars, people
  <2>. QED BY <2>1, <2>2, <2>3, <2>4 DEF Next
<1>. QED BY <1>1, GraphInvariant, PTL DEF Spec, ConfirmedPreserved

-----------------------------------------------------------------------------
(* Frontend logins.  LoginsInv is inductive: BindingFollowsLogin speaks of *)
(* identities at rest, and OneAccount of what is on its way to them.       *)

\* a request that polls a flow, or goes on with what it was handed, has one
FlowAtHand == \A q \in Requests : request[q].pc \in Polled \cup {"poll"} => request[q].flow \in Flows

\* what is stored was handed out
StoredLive == \A i \in Frontends : credential[i] # None => password[credential[i]].state = "live"

\* all that goes on between storing a password and binding an identity is about
\* one account, that of the password stored
OneAccount ==
  \A i \in Frontends \ torn, q \in Requests :
    request[q].who = i /\ Binding(q) =>
      /\ credential[i] # None => LoginOf(request[q].flow) = LoginOf(credential[i])
      /\ \A r \in Requests : request[r].who = i /\ Binding(r) =>
                               LoginOf(request[r].flow) = LoginOf(request[q].flow)

BoundToStored ==
  \A i \in Frontends \ torn :
    /\ credential[i] # None /\ binding[i] # None
    /\ \A q \in Requests : request[q].who = i => ~Binding(q)
    => binding[i] = LoginOf(credential[i])

LoginsInv ==
  /\ LoginTypeOK
  /\ FlowAtHand
  /\ StoredLive
  /\ OneAccount
  /\ BoundToStored

Asking == [pc : Pcs, flow : Flows \cup {None}, who : Frontends, clean : BOOLEAN]

LEMMA LoginInitInv == LoginInit => LoginsInv
BY LoginAssumption DEF LoginInit, LoginsInv, LoginTypeOK, FlowAtHand, StoredLive, OneAccount,
   BoundToStored, NoRow, NoPassword, NoRequest, Pcs, Polled, Binding

-----------------------------------------------------------------------------
(* What a step does to the requests.                                       *)

\* who asks, and for what, while a request is under way
LEMMA LoginUnderWay ==
  ASSUME LoginsInv, NEW q \in Requests, request[q].pc # "idle"
  PROVE  /\ request[q] \in Asking
         /\ request[q].pc \in Polled \cup {"poll"} => request[q].flow \in Flows
         /\ request[q].pc \in Polled => password[request[q].flow].state = "live"
BY DEF LoginsInv, LoginTypeOK, FlowAtHand, NoRequest, Asking

LEMMA NoOnesRequest ==
  /\ NoRequest.pc = "idle" /\ "idle" \notin Pcs /\ "idle" \notin Polled \cup {"poll"}
  /\ "drop" \notin Polled \cup {"poll"} /\ Polled \subseteq Pcs /\ "poll" \notin Polled
BY DEF NoRequest, Pcs, Polled

\* one request moves on
LEMMA LoginRequestMoves ==
  ASSUME LoginsInv, NEW q \in Requests, NEW v \in {NoRequest} \cup Asking,
         request' = [request EXCEPT ![q] = v],
         v.pc \in Polled \cup {"poll"} => v.flow \in Flows,
         v.pc \in Polled => password'[v.flow].state = "live",
         \A f \in Flows : Held(f) /\ password[f].state = "live" => password'[f].state = "live"
  PROVE  /\ request' \in [Requests -> {NoRequest} \cup Asking]
         /\ \A r \in Requests : request'[r].pc \in Polled =>
                                  password'[request'[r].flow].state = "live"
         /\ FlowAtHand'
         /\ request'[q] = v /\ \A r \in Requests : r # q => request'[r] = request[r]
<1>1. /\ request' \in [Requests -> {NoRequest} \cup Asking]
      /\ request'[q] = v /\ \A r \in Requests : r # q => request'[r] = request[r]
  BY DEF LoginsInv, LoginTypeOK, Asking
<1>2. ASSUME NEW r \in Requests, request'[r].pc \in Polled
      PROVE  password'[request'[r].flow].state = "live"
  <2>1. CASE r = q
    BY <1>1, <1>2, <2>1
  <2>2. CASE r # q
    <3>1. request[r].pc \in Polled /\ request'[r].flow = request[r].flow
      BY <1>1, <1>2, <2>2
    <3>2. request[r].flow \in Flows /\ password[request[r].flow].state = "live"
      BY <3>1, NoOnesRequest, LoginUnderWay
    <3>. QED
      BY <3>1, <3>2 DEF Held
  <2>. QED
    BY <2>1, <2>2
<1>3. ASSUME NEW r \in Requests, request'[r].pc \in Polled \cup {"poll"}
      PROVE  request'[r].flow \in Flows
  BY <1>1, <1>3 DEF LoginsInv, FlowAtHand
<1>. QED
  BY <1>1, <1>2, <1>3 DEF FlowAtHand

\* a request goes on with what it has
LEMMA GoesOn ==
  ASSUME LoginsInv, NEW q \in Requests, request[q].pc # "idle", NEW pc \in Pcs, Goto(q, pc)
  PROVE  \E v \in Asking : /\ request' = [request EXCEPT ![q] = v] /\ v.pc = pc
                           /\ v.flow = request[q].flow /\ v.who = request[q].who
<1>1. request[q] \in Asking
  BY LoginUnderWay
<1>. DEFINE v == [request[q] EXCEPT !.pc = pc]
<1>2. v \in Asking /\ v.pc = pc /\ v.flow = request[q].flow /\ v.who = request[q].who
  BY <1>1 DEF Asking
<1>3. request' = [request EXCEPT ![q] = v]
  BY DEF Goto
<1>. QED
  BY <1>2, <1>3

\* a step that touches neither what is stored nor what is being bound
LEMMA Untouching ==
  ASSUME LoginsInv, UNCHANGED <<credential, binding, torn>>,
         \A q \in Requests : /\ Binding(q)' <=> Binding(q)
                             /\ Binding(q) => /\ request'[q].who = request[q].who
                                              /\ request'[q].flow = request[q].flow,
         \A f \in Flows : Held(f) /\ password[f].state = "live" =>
                            password'[f].state = "live" /\ password'[f].login = password[f].login
  PROVE  StoredLive' /\ OneAccount' /\ BoundToStored'
<1>1. ASSUME NEW i \in Frontends, credential[i] # None
      PROVE  /\ password'[credential[i]].state = "live"
             /\ password'[credential[i]].login = password[credential[i]].login
  <2>1. credential[i] \in Flows /\ Held(credential[i])
    BY <1>1 DEF LoginsInv, LoginTypeOK, Held
  <2>2. password[credential[i]].state = "live"
    BY <1>1 DEF LoginsInv, StoredLive
  <2>. QED
    BY <2>1, <2>2
<1>2. ASSUME NEW q \in Requests, Binding(q)
      PROVE  password'[request'[q].flow].login = password[request[q].flow].login
  <2>1. request[q].pc \in Polled /\ request[q].pc # "idle"
    BY <1>2 DEF Binding, Polled
  <2>2. request[q].flow \in Flows /\ password[request[q].flow].state = "live"
    BY <2>1, LoginUnderWay
  <2>3. Held(request[q].flow)
    BY DEF Held
  <2>. QED
    BY <1>2, <2>2, <2>3
<1>3. StoredLive'
  BY <1>1 DEF StoredLive
<1>4. OneAccount'
  <2>1. SUFFICES ASSUME NEW i \in Frontends \ torn, NEW q \in Requests,
                        request'[q].who = i, Binding(q)'
                 PROVE  /\ credential[i] # None =>
                             password'[request'[q].flow].login = password'[credential[i]].login
                        /\ \A r \in Requests : request'[r].who = i /\ Binding(r)' =>
                             password'[request'[r].flow].login
                               = password'[request'[q].flow].login
    BY DEF OneAccount, LoginOf
  <2>2. Binding(q) /\ request[q].who = i
    BY <2>1
  <2>3. credential[i] # None =>
          password[request[q].flow].login = password[credential[i]].login
    BY <2>2 DEF LoginsInv, OneAccount, LoginOf
  <2>4. ASSUME NEW r \in Requests, request'[r].who = i, Binding(r)'
        PROVE  Binding(r)
               /\ password[request[r].flow].login = password[request[q].flow].login
    BY <2>2, <2>4 DEF LoginsInv, OneAccount, LoginOf
  <2>. QED
    BY <1>1, <1>2, <2>2, <2>3, <2>4
<1>5. BoundToStored'
  <2>1. SUFFICES ASSUME NEW i \in Frontends \ torn, credential[i] # None, binding[i] # None,
                        \A q \in Requests : request'[q].who = i => ~ Binding(q)'
                 PROVE  binding[i] = password'[credential[i]].login
    BY DEF BoundToStored, LoginOf
  <2>2. \A q \in Requests : request[q].who = i => ~ Binding(q)
    BY <2>1
  <2>. QED
    BY <1>1, <2>1, <2>2 DEF LoginsInv, BoundToStored, LoginOf
<1>. QED
  BY <1>3, <1>4, <1>5

\* one request that is not binding moves on, and does not begin to bind
LEMMA OneMovesAside ==
  ASSUME LoginsInv, NEW q \in Requests, NEW v \in {NoRequest} \cup Asking,
         request' = [request EXCEPT ![q] = v], ~ Binding(q),
         v.pc \notin {"user", "insert", "bind"},
         v.pc \in Polled \cup {"poll"} => v.flow \in Flows,
         v.pc \in Polled => password'[v.flow].state = "live",
         UNCHANGED <<credential, binding, torn>>,
         \A f \in Flows : Held(f) /\ password[f].state = "live" =>
                            password'[f].state = "live" /\ password'[f].login = password[f].login
  PROVE  /\ request' \in [Requests -> {NoRequest} \cup Asking]
         /\ \A r \in Requests : request'[r].pc \in Polled =>
                                  password'[request'[r].flow].state = "live"
         /\ FlowAtHand' /\ StoredLive' /\ OneAccount' /\ BoundToStored'
<1>1. /\ request' \in [Requests -> {NoRequest} \cup Asking]
      /\ \A r \in Requests : request'[r].pc \in Polled =>
                               password'[request'[r].flow].state = "live"
      /\ FlowAtHand'
      /\ request'[q] = v /\ \A r \in Requests : r # q => request'[r] = request[r]
  BY LoginRequestMoves
<1>2. \A r \in Requests : /\ Binding(r)' <=> Binding(r)
                          /\ Binding(r) => /\ request'[r].who = request[r].who
                                           /\ request'[r].flow = request[r].flow
  BY <1>1 DEF Binding
<1>3. StoredLive' /\ OneAccount' /\ BoundToStored'
  BY <1>2, Untouching
<1>. QED
  BY <1>1, <1>3

-----------------------------------------------------------------------------
(* The steps of a login.                                                   *)

Flowing == [owner : Frontends, stale : BOOLEAN, rank : 1 .. Cardinality(Flows)]
Passing == [state : {"granted", "live"}, login : Logins]

\* nothing of what a request holds or an identity stores changes
LEMMA LoginsKept ==
  ASSUME LoginsInv, UNCHANGED <<credential, binding, torn, request>>,
         \A f \in Flows : Held(f) /\ password[f].state = "live" => password'[f] = password[f]
  PROVE  /\ \A r \in Requests : request'[r].pc \in Polled =>
                                  password'[request'[r].flow].state = "live"
         /\ FlowAtHand' /\ StoredLive' /\ OneAccount' /\ BoundToStored'
<1>1. \A r \in Requests : Binding(r)' <=> Binding(r)
  BY DEF Binding
<1>2. StoredLive' /\ OneAccount' /\ BoundToStored'
  BY <1>1, Untouching
<1>3. ASSUME NEW r \in Requests, request'[r].pc \in Polled
      PROVE  password'[request'[r].flow].state = "live"
  <2>1. request[r].flow \in Flows /\ password[request[r].flow].state = "live"
    BY <1>3, NoOnesRequest, LoginUnderWay
  <2>. QED
    BY <2>1 DEF Held
<1>. QED
  BY <1>2, <1>3 DEF LoginsInv, FlowAtHand

LEMMA LoginConfirmInv ==
  ASSUME LoginsInv, NEW f \in Flows, NEW l \in Logins, Confirm(f, l)
  PROVE  LoginsInv'
<1>1. password' \in [Flows -> {NoPassword} \cup Passing]
  BY DEF Confirm, LoginsInv, LoginTypeOK, Passing
<1>2. \A g \in Flows : password[g].state = "live" => password'[g] = password[g]
  BY DEF Confirm, LoginsInv, LoginTypeOK
<1>3. UNCHANGED <<flow, credential, known, binding, request, faults, torn>>
  BY DEF Confirm, accounts
<1>. QED
  BY <1>1, <1>2, <1>3, LoginsKept DEF LoginsInv, LoginTypeOK, Passing

LEMMA LoginFlowAgesInv ==
  ASSUME LoginsInv, NEW f \in Flows, FlowAges(f)
  PROVE  LoginsInv'
<1>1. flow[f] \in Flowing
  BY DEF FlowAges, LoginsInv, LoginTypeOK, NoRow, Flowing
<1>2. [flow[f] EXCEPT !.stale = TRUE] \in Flowing
  BY <1>1 DEF Flowing
<1>3. flow' \in [Flows -> {NoRow} \cup Flowing]
  BY <1>2 DEF FlowAges, LoginsInv, LoginTypeOK, Flowing
<1>4. faults' \in 0 .. MaxFaults
  BY LoginAssumption DEF FlowAges, Fault, LoginsInv, LoginTypeOK
<1>5. UNCHANGED <<password, credential, known, binding, request, torn>>
  BY DEF FlowAges, accounts
<1>. QED
  BY <1>3, <1>4, <1>5, LoginsKept DEF LoginsInv, LoginTypeOK, Flowing

LEMMA FaultType ==
  ASSUME LoginsInv, Fault \/ faults' = faults
  PROVE  faults' \in 0 .. MaxFaults
BY LoginAssumption DEF Fault, LoginsInv, LoginTypeOK

LEMMA Entering ==
  ASSUME NEW pc \in Pcs, NEW f \in Flows \cup {None}, NEW i \in Frontends, NEW clean \in BOOLEAN
  PROVE  /\ [pc |-> pc, flow |-> f, who |-> i, clean |-> clean] \in Asking
         /\ [pc |-> pc, flow |-> f, who |-> i, clean |-> clean].pc = pc
         /\ [pc |-> pc, flow |-> f, who |-> i, clean |-> clean].flow = f
         /\ [pc |-> pc, flow |-> f, who |-> i, clean |-> clean].who = i
BY DEF Asking

\* a request that enters without going on to bind
LEMMA EnterAside ==
  ASSUME LoginsInv, NEW q \in Requests, At(q, "idle"),
         NEW pc \in {"drop", "poll"}, NEW f \in Flows \cup {None}, NEW i \in Frontends,
         pc = "poll" => f \in Flows,
         NEW clean \in BOOLEAN, Enter(q, pc, f, i, clean),
         UNCHANGED <<flow, password, credential, known, binding, torn>>,
         Fault \/ faults' = faults
  PROVE  LoginsInv'
<1>. DEFINE v == [pc |-> pc, flow |-> f, who |-> i, clean |-> clean]
<1>1. pc \in Pcs /\ pc \notin Polled /\ ~ Binding(q)
  BY DEF Pcs, Polled, Binding, At
<1>2. v \in Asking /\ v.pc = pc /\ v.flow = f
  BY <1>1, Entering
<1>3. request' = [request EXCEPT ![q] = v]
  BY DEF Enter
<1>4. faults' \in 0 .. MaxFaults
  BY FaultType
<1>5. /\ request' \in [Requests -> {NoRequest} \cup Asking]
      /\ \A r \in Requests : request'[r].pc \in Polled =>
                               password'[request'[r].flow].state = "live"
      /\ FlowAtHand' /\ StoredLive' /\ OneAccount' /\ BoundToStored'
  <2>1. v.pc \notin {"user", "insert", "bind"}
    BY <1>2
  <2>2. v.pc \in Polled \cup {"poll"} => v.flow \in Flows
    BY <1>1, <1>2 DEF Polled
  <2>3. v.pc \notin Polled
    BY <1>1, <1>2
  <2>. HIDE DEF v
  <2>. QED
    BY <1>1, <1>2, <1>3, <2>1, <2>2, <2>3, OneMovesAside
<1>. QED
  BY <1>4, <1>5 DEF LoginsInv, LoginTypeOK, Asking

LessThan == {p \in Nat \X Nat : p[1] < p[2]}

\* of some flows one is the newest
LEMMA NewestIsOne ==
  ASSUME LoginsInv, NEW fs \in SUBSET Flows, fs # {}, \A f \in fs : flow[f] # NoRow
  PROVE  Newest(fs) \in fs
<1>. DEFINE Most == Cardinality(Flows)
            Age(f) == Most - flow[f].rank
            Ages == {Age(f) : f \in fs}
<1>1. Most \in Nat
  BY LoginAssumption, FS_CardinalityType
<1>2. ASSUME NEW f \in fs PROVE flow[f].rank \in 1 .. Most
  BY <1>2 DEF LoginsInv, LoginTypeOK
<1>3. Ages \in SUBSET Nat /\ Ages # {}
  <2>1. ASSUME NEW f \in fs PROVE Age(f) \in Nat
    BY <1>1, <1>2
  <2>. QED
    BY <2>1
<1>4. IsWellFoundedOn(LessThan, Nat)
  BY NatLessThanWellFounded, Zenon DEF OpToRel, LessThan
<1>5. PICK n \in Ages : \A m \in Ages : ~ (<<m, n>> \in LessThan)
  <2>. HIDE DEF Ages
  <2>. QED
    BY <1>3, <1>4, WFMin, Zenon
<1>6. PICK f \in fs : n = Age(f)
  BY <1>5
<1>7. ASSUME NEW g \in fs PROVE flow[g].rank <= flow[f].rank
  <2>1. Age(g) \in Nat /\ Age(f) \in Nat /\ ~ (Age(g) < Age(f))
    BY <1>3, <1>5, <1>6 DEF LessThan
  <2>. QED
    BY <1>1, <1>2, <2>1
<1>8. \E g \in fs : \A h \in fs : flow[h].rank <= flow[g].rank
  BY <1>7
<1>. QED
  BY <1>8, Zenon DEF Newest

LEMMA RecentIsFlow ==
  ASSUME LoginsInv, NEW i \in Frontends
  PROVE  Recent(i) = None \/ Recent(i) \in Flows
<1>. DEFINE fresh == {f \in Rows(i) : ~flow[f].stale}
<1>1. fresh \in SUBSET Flows /\ \A f \in fresh : flow[f] # NoRow
  BY LoginAssumption DEF Rows, NoRow
<1>2. fresh # {} => Newest(fresh) \in fresh
  <2>. HIDE DEF fresh
  <2>. QED
    BY <1>1, NewestIsOne
<1>. QED
  BY <1>1, <1>2 DEF Recent

LEMMA LookAsideInv ==
  ASSUME LoginsInv, NEW q \in Requests, NEW i \in Frontends, Look(q, i)
  PROVE  LoginsInv'
<1>1. /\ At(q, "idle") /\ (Fault \/ faults' = faults)
      /\ UNCHANGED <<flow, password, credential, known, binding, torn>>
  BY DEF Look, nextcloud, accounts
<1>2. CASE Recent(i) = None
  BY <1>1, <1>2, EnterAside DEF Look
<1>3. CASE Recent(i) # None
  <2>1. PICK f \in Flows : f = Recent(i)
    BY <1>3, RecentIsFlow
  <2>2. Enter(q, "poll", f, i, TRUE)
    BY <1>3, <2>1, Zenon DEF Look
  <2>3. "poll" \in {"drop", "poll"} /\ f \in Flows \cup {None} /\ TRUE \in BOOLEAN
    OBVIOUS
  <2>. QED
    BY <1>1, <2>2, <2>3, EnterAside
<1>. QED
  BY <1>2, <1>3

LEMMA StartAnewInv ==
  ASSUME LoginsInv, NEW q \in Requests, NEW i \in Frontends, StartAnew(q, i)
  PROVE  LoginsInv'
BY EnterAside DEF StartAnew, nextcloud, accounts

LEMMA StatusInv ==
  ASSUME LoginsInv, NEW q \in Requests, NEW f \in Flows, Status(q, f)
  PROVE  LoginsInv'
BY EnterAside DEF Status, nextcloud, accounts

\* rows are dropped, or are those there were
LEMMA RowsDropped ==
  ASSUME LoginsInv, \A f \in Flows : flow'[f] \in {flow[f], NoRow},
         flow' = [f \in Flows |-> flow'[f]]
  PROVE  flow' \in [Flows -> {NoRow} \cup Flowing]
BY DEF LoginsInv, LoginTypeOK, Flowing

LEMMA DropFlowsInv ==
  ASSUME LoginsInv, NEW q \in Requests, DropFlows(q)
  PROVE  LoginsInv'
<1>1. request[q].pc = "drop" /\ ~ Binding(q) /\ "start" \in Pcs /\ "start" \notin Polled
  BY DEF DropFlows, At, Binding, Pcs, Polled
<1>2. PICK v \in Asking : request' = [request EXCEPT ![q] = v] /\ v.pc = "start"
  BY <1>1, GoesOn DEF DropFlows
<1>3. flow' \in [Flows -> {NoRow} \cup Flowing]
  BY RowsDropped DEF DropFlows, NoFlowsOf
<1>4. UNCHANGED <<password, credential, known, binding, faults, torn>>
  BY DEF DropFlows, accounts
<1>5. /\ request' \in [Requests -> {NoRequest} \cup Asking]
      /\ \A r \in Requests : request'[r].pc \in Polled =>
                               password'[request'[r].flow].state = "live"
      /\ FlowAtHand' /\ StoredLive' /\ OneAccount' /\ BoundToStored'
  BY <1>1, <1>2, <1>4, OneMovesAside
<1>. QED
  BY <1>3, <1>4, <1>5 DEF LoginsInv, LoginTypeOK, Asking, Flowing

\* a request that is answered and was not binding
LEMMA AnsweredAside ==
  ASSUME LoginsInv, NEW q \in Requests, ~ Binding(q), Return(q),
         UNCHANGED <<credential, binding, torn>>,
         \A f \in Flows : Held(f) /\ password[f].state = "live" =>
                            password'[f].state = "live" /\ password'[f].login = password[f].login
  PROVE  /\ request' \in [Requests -> {NoRequest} \cup Asking]
         /\ \A r \in Requests : request'[r].pc \in Polled =>
                                  password'[request'[r].flow].state = "live"
         /\ FlowAtHand' /\ StoredLive' /\ OneAccount' /\ BoundToStored'
<1>1. NoRequest.pc \notin {"user", "insert", "bind"}
  BY DEF NoRequest
<1>2. request' = [request EXCEPT ![q] = NoRequest]
  BY DEF Return
<1>3. NoRequest.pc \notin Polled \cup {"poll"}
  BY NoOnesRequest
<1>. QED
  BY <1>1, <1>2, <1>3, OneMovesAside

LEMMA CleanFlowsInv ==
  ASSUME LoginsInv, NEW q \in Requests, CleanFlows(q)
  PROVE  LoginsInv'
<1>1. ~ Binding(q) /\ Return(q)
  BY DEF CleanFlows, At, Binding
<1>2. flow' \in [Flows -> {NoRow} \cup Flowing]
  BY RowsDropped DEF CleanFlows, NoFlowsOf
<1>3. UNCHANGED <<password, credential, known, binding, faults, torn>>
  BY DEF CleanFlows, accounts
<1>. QED
  BY <1>1, <1>2, <1>3, AnsweredAside DEF LoginsInv, LoginTypeOK, Asking, Flowing

\* the flow that is new leaves room for its rank
LEMMA RoomForOne ==
  ASSUME LoginsInv, NEW i \in Frontends, NEW f \in Flows, flow[f].owner = None
  PROVE  Cardinality(Rows(i)) + 1 \in 1 .. Cardinality(Flows)
<1>1. /\ IsFiniteSet(Flows) /\ Rows(i) \in SUBSET Flows /\ f \notin Rows(i)
      /\ Rows(i) \cup {f} \in SUBSET Flows
  BY LoginAssumption DEF Rows
<1>. HIDE DEF Rows
<1>2. IsFiniteSet(Rows(i))
  BY <1>1, FS_Subset
<1>3. Cardinality(Rows(i) \cup {f}) = Cardinality(Rows(i)) + 1
  BY <1>1, <1>2, FS_AddElement
<1>4. Cardinality(Rows(i) \cup {f}) <= Cardinality(Flows)
  BY <1>1, FS_Subset
<1>. QED
  BY <1>1, <1>2, <1>3, <1>4, FS_CardinalityType

LEMMA NewFlowInv ==
  ASSUME LoginsInv, NEW q \in Requests, NEW f \in Flows, NewFlow(q, f)
  PROVE  LoginsInv'
<1>. DEFINE i == request[q].who
            row == [owner |-> i, stale |-> FALSE, rank |-> Cardinality(Rows(i)) + 1]
<1>1. ~ Binding(q) /\ Return(q) /\ ~ Held(f) /\ flow[f].owner = None /\ request[q].pc = "start"
  BY DEF NewFlow, At, Binding
<1>2. i \in Frontends
  BY <1>1, LoginUnderWay DEF Asking
<1>3. Cardinality(Rows(i)) + 1 \in 1 .. Cardinality(Flows)
  <2>. HIDE DEF i
  <2>. QED
    BY <1>1, <1>2, RoomForOne
<1>4. row \in Flowing
  <2>. HIDE DEF i
  <2>. QED
    BY <1>2, <1>3 DEF Flowing
<1>5. flow' \in [Flows -> {NoRow} \cup Flowing]
  <2>1. flow' = [flow EXCEPT ![f] = row]
    BY DEF NewFlow
  <2>. HIDE DEF row
  <2>. QED
    BY <1>4, <2>1 DEF LoginsInv, LoginTypeOK, Flowing
<1>6. password' = [password EXCEPT ![f] = NoPassword]
      /\ UNCHANGED <<credential, known, binding, faults, torn>>
  BY DEF NewFlow, accounts
<1>7. password' \in [Flows -> {NoPassword} \cup Passing]
  BY <1>6 DEF LoginsInv, LoginTypeOK, Passing
<1>8. \A g \in Flows : Held(g) => password'[g] = password[g]
  BY <1>1, <1>6 DEF LoginsInv, LoginTypeOK
<1>. QED
  BY <1>1, <1>5, <1>6, <1>7, <1>8, AnsweredAside
     DEF LoginsInv, LoginTypeOK, Asking, Flowing, Passing

LEMMA LoginPollInv ==
  ASSUME LoginsInv, NEW q \in Requests, Poll(q)
  PROVE  LoginsInv'
<1>. DEFINE f == request[q].flow
<1>1. /\ request[q].pc = "poll" /\ ~ Binding(q) /\ f \in Flows
      /\ UNCHANGED <<flow, credential, known, binding, torn>>
  BY LoginUnderWay DEF Poll, At, Binding, accounts
<1>2. CASE password[f].state # "granted"
  <2>1. Return(q) /\ UNCHANGED <<password, faults>>
    BY <1>2 DEF Poll
  <2>. QED
    BY <1>1, <2>1, AnsweredAside DEF LoginsInv, LoginTypeOK, Asking
<1>3. CASE password[f].state = "granted"
  <2>1. password' = [password EXCEPT ![f].state = "live"] /\ (Fault \/ faults' = faults)
    BY <1>3 DEF Poll
  <2>2. password[f] \in Passing
    BY <1>1, <1>3 DEF LoginsInv, LoginTypeOK, NoPassword, Passing
  <2>3. [password[f] EXCEPT !.state = "live"] \in Passing
        /\ [password[f] EXCEPT !.state = "live"].state = "live"
        /\ [password[f] EXCEPT !.state = "live"].login = password[f].login
    BY <2>2 DEF Passing
  <2>4. /\ password' \in [Flows -> {NoPassword} \cup Passing] /\ password'[f].state = "live"
        /\ \A g \in Flows : password[g].state = "live" =>
             password'[g].state = "live" /\ password'[g].login = password[g].login
    <3>. DEFINE new == [password[f] EXCEPT !.state = "live"]
    <3>1. password' = [password EXCEPT ![f] = new]
      BY <2>1
    <3>2. new \in Passing /\ new.state = "live" /\ new.login = password[f].login
      BY <2>3
    <3>3. password \in [Flows -> {NoPassword} \cup Passing]
      BY DEF LoginsInv, LoginTypeOK, Passing
    <3>. HIDE DEF new
    <3>4. password'[f] = new /\ \A g \in Flows : g # f => password'[g] = password[g]
      BY <1>1, <3>1, <3>3
    <3>5. password' \in [Flows -> {NoPassword} \cup Passing]
      BY <1>1, <3>1, <3>2, <3>3
    <3>. QED
      BY <3>2, <3>4, <3>5
  <2>5. faults' \in 0 .. MaxFaults
    BY <2>1, FaultType
  <2>6. CASE Return(q)
    BY <1>1, <2>4, <2>5, <2>6, AnsweredAside DEF LoginsInv, LoginTypeOK, Asking, Passing
  <2>7. CASE Goto(q, "store")
    <3>1. "store" \in Pcs /\ "store" \in Polled /\ "store" \notin {"user", "insert", "bind"}
      BY DEF Pcs, Polled
    <3>2. PICK v \in Asking : /\ request' = [request EXCEPT ![q] = v] /\ v.pc = "store"
                              /\ v.flow = f
      BY <1>1, <2>7, <3>1, GoesOn
    <3>3. /\ request' \in [Requests -> {NoRequest} \cup Asking]
          /\ \A r \in Requests : request'[r].pc \in Polled =>
                                   password'[request'[r].flow].state = "live"
          /\ FlowAtHand' /\ StoredLive' /\ OneAccount' /\ BoundToStored'
      <4>. HIDE DEF f
      <4>. QED
        BY <1>1, <2>4, <3>1, <3>2, OneMovesAside
    <3>. QED
      BY <1>1, <2>4, <2>5, <3>3 DEF LoginsInv, LoginTypeOK, Asking, Passing
  <2>. QED
    BY <1>3, <2>6, <2>7 DEF Poll
<1>. QED
  BY <1>2, <1>3

\* a request goes on, and is binding before and after
LEMMA BindsOn ==
  ASSUME LoginsInv, NEW q \in Requests, Binding(q), NEW pc \in {"insert", "bind"}, Goto(q, pc),
         UNCHANGED <<password, credential, binding, torn>>
  PROVE  /\ request' \in [Requests -> {NoRequest} \cup Asking]
         /\ \A r \in Requests : request'[r].pc \in Polled =>
                                  password'[request'[r].flow].state = "live"
         /\ FlowAtHand' /\ StoredLive' /\ OneAccount' /\ BoundToStored'
<1>1. request[q].pc # "idle" /\ request[q].pc \in Polled /\ pc \in Polled /\ pc \in Pcs
  BY DEF Binding, Polled, Pcs
<1>2. PICK v \in Asking : /\ request' = [request EXCEPT ![q] = v] /\ v.pc = pc
                          /\ v.flow = request[q].flow /\ v.who = request[q].who
  BY <1>1, GoesOn
<1>3. request[q].flow \in Flows /\ password[request[q].flow].state = "live"
  BY <1>1, LoginUnderWay
<1>4. /\ request' \in [Requests -> {NoRequest} \cup Asking]
      /\ \A r \in Requests : request'[r].pc \in Polled =>
                               password'[request'[r].flow].state = "live"
      /\ FlowAtHand'
      /\ request'[q] = v /\ \A r \in Requests : r # q => request'[r] = request[r]
  BY <1>2, <1>3, LoginRequestMoves
<1>5. \A r \in Requests : /\ Binding(r)' <=> Binding(r)
                          /\ Binding(r) => /\ request'[r].who = request[r].who
                                           /\ request'[r].flow = request[r].flow
  BY <1>2, <1>4 DEF Binding
<1>. QED
  BY <1>4, <1>5, Untouching

LEMMA FindUserInv ==
  ASSUME LoginsInv, NEW q \in Requests, FindUser(q)
  PROVE  LoginsInv'
<1>1. /\ request[q].pc = "user" /\ Binding(q)
      /\ UNCHANGED <<flow, password, credential, known, binding, faults, torn>>
  BY DEF FindUser, At, Binding, nextcloud, accounts
<1>2. PICK pc \in {"insert", "bind"} : Goto(q, pc)
  BY DEF FindUser
<1>. QED
  BY <1>1, <1>2, BindsOn DEF LoginsInv, LoginTypeOK, Asking

LEMMA InsertUserInv ==
  ASSUME LoginsInv, NEW q \in Requests, InsertUser(q)
  PROVE  LoginsInv'
<1>. DEFINE l == LoginOf(request[q].flow)
            i == request[q].who
<1>1. /\ request[q].pc = "insert" /\ Binding(q) /\ l \in Logins /\ i \in Frontends
      /\ UNCHANGED <<flow, password, credential, binding, faults>>
  <2>1. request[q].pc = "insert" /\ Binding(q)
        /\ UNCHANGED <<flow, password, credential, binding, faults>>
    BY DEF InsertUser, At, Binding, nextcloud
  <2>2. request[q].flow \in Flows /\ password[request[q].flow].state = "live" /\ i \in Frontends
    BY <2>1, LoginUnderWay DEF Polled, Asking
  <2>. QED
    BY <2>1, <2>2 DEF LoginOf, LoginsInv, LoginTypeOK, NoPassword
<1>2. CASE l \in known
  <2>1. Return(q) /\ known' = known /\ torn' = torn \cup {i}
    BY <1>2 DEF InsertUser
  <2>2. \A r \in Requests : r # q => request'[r] = request[r]
    BY <2>1 DEF Return, LoginsInv, LoginTypeOK
  <2>3. request'[q] = NoRequest /\ request' \in [Requests -> {NoRequest} \cup Asking]
    BY <2>1 DEF Return, LoginsInv, LoginTypeOK, Asking
  <2>4. /\ \A r \in Requests : request'[r].pc \in Polled =>
                                 password'[request'[r].flow].state = "live"
        /\ FlowAtHand'
    BY <1>1, <2>2, <2>3, NoOnesRequest DEF LoginsInv, LoginTypeOK, FlowAtHand
  <2>6. ~ Binding(q)'
    BY <2>3 DEF Binding, NoRequest
  <2>7. StoredLive'
    BY <1>1 DEF LoginsInv, StoredLive
  <2>8. OneAccount'
    <3>1. SUFFICES ASSUME NEW j \in Frontends \ torn', NEW p \in Requests,
                          request'[p].who = j, Binding(p)'
                   PROVE  /\ credential[j] # None =>
                               password[request'[p].flow].login = password[credential[j]].login
                          /\ \A r \in Requests : request'[r].who = j /\ Binding(r)' =>
                               password[request'[r].flow].login
                                 = password[request'[p].flow].login
      BY <1>1 DEF OneAccount, LoginOf
    <3>2. j \in Frontends \ torn
      BY <2>1
    <3>3. \A r \in Requests : Binding(r)' => Binding(r) /\ request'[r] = request[r]
      BY <2>2, <2>6 DEF Binding
    <3>. QED
      BY <3>1, <3>2, <3>3 DEF LoginsInv, OneAccount, LoginOf
  <2>9. BoundToStored'
    <3>1. SUFFICES ASSUME NEW j \in Frontends \ torn', credential[j] # None, binding[j] # None,
                          \A r \in Requests : request'[r].who = j => ~ Binding(r)'
                   PROVE  binding[j] = password[credential[j]].login
      BY <1>1 DEF BoundToStored, LoginOf
    <3>2. j \in Frontends \ torn /\ j # i
      BY <2>1
    <3>3. \A r \in Requests : request[r].who = j => ~ Binding(r)
      BY <2>2, <3>1, <3>2 DEF Binding
    <3>. QED
      BY <3>1, <3>2, <3>3 DEF LoginsInv, BoundToStored, LoginOf
  <2>10. torn' \subseteq Frontends
    BY <1>1, <2>1 DEF LoginsInv, LoginTypeOK
  <2>. QED
    BY <1>1, <2>1, <2>3, <2>4, <2>7, <2>8, <2>9, <2>10 DEF LoginsInv, LoginTypeOK, Asking
<1>3. CASE l \notin known
  <2>1. Goto(q, "bind") /\ torn' = torn /\ known' = known \cup {l}
    BY <1>3 DEF InsertUser
  <2>. QED
    BY <1>1, <2>1, BindsOn DEF LoginsInv, LoginTypeOK, Asking
<1>. QED
  BY <1>2, <1>3

LEMMA BindInv ==
  ASSUME LoginsInv, NEW q \in Requests, Bind(q)
  PROVE  LoginsInv'
<1>. DEFINE l == LoginOf(request[q].flow)
            i == request[q].who
<1>1. /\ request[q].pc = "bind" /\ Binding(q) /\ l \in Logins /\ i \in Frontends
      /\ UNCHANGED <<flow, password, credential, known, faults, torn>>
      /\ binding' = [binding EXCEPT ![i] = l]
  <2>1. /\ request[q].pc = "bind" /\ Binding(q)
        /\ UNCHANGED <<flow, password, credential, known, faults, torn>>
        /\ binding' = [binding EXCEPT ![i] = l]
    BY DEF Bind, At, Binding, nextcloud
  <2>2. request[q].flow \in Flows /\ password[request[q].flow].state = "live" /\ i \in Frontends
    BY <2>1, LoginUnderWay DEF Polled, Asking
  <2>. QED
    BY <2>1, <2>2 DEF LoginOf, LoginsInv, LoginTypeOK, NoPassword
<1>2. PICK v \in {NoRequest} \cup Asking : /\ request' = [request EXCEPT ![q] = v]
                                           /\ v.pc \notin Polled \cup {"poll"}
  <2>1. "clean" \in Pcs /\ "clean" \notin Polled \cup {"poll"} /\ request[q].pc # "idle"
    BY <1>1 DEF Pcs, Polled
  <2>2. CASE Return(q)
    BY <2>2, NoOnesRequest DEF Return
  <2>3. CASE Goto(q, "clean")
    BY <2>1, <2>3, GoesOn
  <2>. QED
    BY <2>2, <2>3 DEF Bind
<1>3. /\ request' \in [Requests -> {NoRequest} \cup Asking]
      /\ \A r \in Requests : request'[r].pc \in Polled =>
                               password'[request'[r].flow].state = "live"
      /\ FlowAtHand'
      /\ request'[q] = v /\ \A r \in Requests : r # q => request'[r] = request[r]
  BY <1>1, <1>2, LoginRequestMoves
<1>4. ~ Binding(q)' /\ \A r \in Requests : r # q => (Binding(r)' <=> Binding(r))
  BY <1>2, <1>3 DEF Binding, Polled
<1>5. StoredLive'
  BY <1>1 DEF LoginsInv, StoredLive
<1>6. OneAccount'
  <2>1. SUFFICES ASSUME NEW j \in Frontends \ torn, NEW p \in Requests,
                        request'[p].who = j, Binding(p)'
                 PROVE  /\ credential[j] # None =>
                             password[request'[p].flow].login = password[credential[j]].login
                        /\ \A r \in Requests : request'[r].who = j /\ Binding(r)' =>
                             password[request'[r].flow].login
                               = password[request'[p].flow].login
    BY <1>1 DEF OneAccount, LoginOf
  <2>2. \A r \in Requests : Binding(r)' => Binding(r) /\ request'[r] = request[r]
    BY <1>3, <1>4
  <2>. QED
    BY <2>1, <2>2 DEF LoginsInv, OneAccount, LoginOf
<1>7. BoundToStored'
  <2>1. SUFFICES ASSUME NEW j \in Frontends \ torn, credential[j] # None, binding'[j] # None,
                        \A r \in Requests : request'[r].who = j => ~ Binding(r)'
                 PROVE  binding'[j] = password[credential[j]].login
    BY <1>1 DEF BoundToStored, LoginOf
  <2>2. CASE j = i
    <3>1. binding'[j] = l
      BY <1>1, <2>2 DEF LoginsInv, LoginTypeOK
    <3>2. l = password[credential[j]].login
      BY <1>1, <2>1, <2>2 DEF LoginsInv, OneAccount, LoginOf
    <3>. QED
      BY <3>1, <3>2
  <2>3. CASE j # i
    <3>1. binding'[j] = binding[j]
      BY <1>1, <2>3 DEF LoginsInv, LoginTypeOK
    <3>2. \A r \in Requests : request[r].who = j => ~ Binding(r)
      BY <1>3, <1>4, <2>1, <2>3
    <3>. QED
      BY <2>1, <3>1, <3>2 DEF LoginsInv, BoundToStored, LoginOf
  <2>. QED
    BY <2>2, <2>3
<1>8. binding' \in [Frontends -> Logins \cup {None}]
  BY <1>1 DEF LoginsInv, LoginTypeOK
<1>. QED
  BY <1>1, <1>3, <1>5, <1>6, <1>7, <1>8 DEF LoginsInv, LoginTypeOK, Asking

\* A request begins to bind i to the account of f, the password stored for i: unless
\* another request of i is about a different account, all of them are about this one.
LEMMA BeginsToBind ==
  ASSUME LoginsInv, NEW q \in Requests, NEW i \in Frontends, NEW f \in Flows,
         NEW v \in Asking, request' = [request EXCEPT ![q] = v], ~ Binding(q),
         v.pc = "user", v.flow = f, v.who = i,
         password[f].state = "live", credential' = [credential EXCEPT ![i] = f],
         UNCHANGED <<flow, password, known, binding, faults>>,
         torn' \in SUBSET Frontends,
         torn \ {i} \subseteq torn', Rivals(i, LoginOf(f)) # {} => i \in torn'
  PROVE  LoginsInv'
<1>1. "user" \in Polled
  BY DEF Polled
<1>2. /\ request' \in [Requests -> {NoRequest} \cup Asking]
      /\ \A r \in Requests : request'[r].pc \in Polled =>
                               password'[request'[r].flow].state = "live"
      /\ FlowAtHand'
      /\ request'[q] = v /\ \A r \in Requests : r # q => request'[r] = request[r]
  BY <1>1, LoginRequestMoves
<1>3. Binding(q)' /\ \A r \in Requests : r # q => (Binding(r)' <=> Binding(r))
  BY <1>2 DEF Binding
<1>4. /\ credential' \in [Frontends -> Flows \cup {None}] /\ credential'[i] = f
      /\ \A j \in Frontends : j # i => credential'[j] = credential[j]
  BY DEF LoginsInv, LoginTypeOK
<1>5. StoredLive'
  BY <1>4 DEF LoginsInv, StoredLive
<1>6. OneAccount'
  <2>1. SUFFICES ASSUME NEW j \in Frontends \ torn', NEW p \in Requests,
                        request'[p].who = j, Binding(p)'
                 PROVE  /\ credential'[j] # None =>
                             LoginOf(request'[p].flow) = LoginOf(credential'[j])
                        /\ \A r \in Requests : request'[r].who = j /\ Binding(r)' =>
                             LoginOf(request'[r].flow) = LoginOf(request'[p].flow)
    BY DEF OneAccount, LoginOf
  <2>2. CASE j = i
    <3>1. Rivals(i, LoginOf(f)) = {}
      BY <2>2
    <3>2. \A r \in Requests : request[r].who = i /\ Binding(r) =>
                                LoginOf(request[r].flow) = LoginOf(f)
      BY <3>1 DEF Rivals
    <3>3. \A r \in Requests : request'[r].who = i /\ Binding(r)' =>
                                LoginOf(request'[r].flow) = LoginOf(f)
      BY <1>2, <1>3, <3>2
    <3>. QED
      BY <1>4, <2>1, <2>2, <3>3
  <2>3. CASE j # i
    <3>1. j \in Frontends \ torn /\ credential'[j] = credential[j]
      BY <1>4, <2>3
    <3>2. \A r \in Requests : request'[r].who = j /\ Binding(r)' =>
                                request[r].who = j /\ Binding(r) /\ request'[r] = request[r]
      BY <1>2, <1>3, <2>3
    <3>. QED
      BY <2>1, <3>1, <3>2 DEF LoginsInv, OneAccount
  <2>. QED
    BY <2>2, <2>3
<1>7. BoundToStored'
  <2>1. SUFFICES ASSUME NEW j \in Frontends \ torn', credential'[j] # None, binding[j] # None,
                        \A r \in Requests : request'[r].who = j => ~ Binding(r)'
                 PROVE  binding[j] = LoginOf(credential'[j])
    BY DEF BoundToStored, LoginOf
  <2>2. j # i
    BY <1>2, <1>3, <2>1
  <2>3. \A r \in Requests : request[r].who = j => ~ Binding(r)
    BY <1>2, <1>3, <2>1
  <2>. QED
    BY <1>4, <2>1, <2>2, <2>3 DEF LoginsInv, BoundToStored
<1>. QED
  BY <1>2, <1>4, <1>5, <1>6, <1>7 DEF LoginsInv, LoginTypeOK, Asking

LEMMA StoreInv ==
  ASSUME LoginsInv, NEW q \in Requests, Store(q)
  PROVE  LoginsInv'
<1>1. /\ request[q].pc = "store" /\ ~ Binding(q) /\ "user" \in Pcs
      /\ UNCHANGED <<flow, password, known, binding, faults>> /\ Goto(q, "user")
  BY DEF Store, At, Binding, Pcs, nextcloud
<1>2. PICK i \in Frontends, f \in Flows :
        request[q].who = i /\ request[q].flow = f /\ password[f].state = "live"
  BY <1>1, LoginUnderWay DEF Polled, Asking
<1>3. PICK v \in Asking : /\ request' = [request EXCEPT ![q] = v] /\ v.pc = "user"
                          /\ v.flow = f /\ v.who = i
  BY <1>1, <1>2, GoesOn
<1>4. /\ credential' = [credential EXCEPT ![i] = f]
      /\ torn' = IF Rivals(i, LoginOf(f)) = {} THEN torn \ {i} ELSE torn \cup {i}
  BY <1>2, Zenon DEF Store
<1>5. /\ torn' \in SUBSET Frontends /\ torn \ {i} \subseteq torn'
      /\ Rivals(i, LoginOf(f)) # {} => i \in torn'
  BY <1>4 DEF LoginsInv, LoginTypeOK
<1>. QED
  BY <1>1, <1>2, <1>3, <1>4, <1>5, BeginsToBind

LEMMA BackfillInv ==
  ASSUME LoginsInv, NEW q \in Requests, NEW i \in Frontends, Backfill(q, i)
  PROVE  LoginsInv'
<1>1. PICK f \in Flows : f = credential[i] /\ password[f].state = "live"
  BY DEF Backfill, LoginsInv, LoginTypeOK, StoredLive
<1>2. /\ ~ Binding(q) /\ UNCHANGED <<flow, password, credential, known, binding, faults>>
      /\ torn' = IF Rivals(i, LoginOf(f)) = {} THEN torn ELSE torn \cup {i}
  BY <1>1 DEF Backfill, At, Binding, nextcloud, accounts
<1>3. credential' = [credential EXCEPT ![i] = f]
  BY <1>1, <1>2 DEF LoginsInv, LoginTypeOK
<1>. DEFINE v == [pc |-> "user", flow |-> f, who |-> i, clean |-> FALSE]
<1>4. v \in Asking /\ v.pc = "user" /\ v.flow = f /\ v.who = i
  BY DEF Asking, Pcs
<1>5. request' = [request EXCEPT ![q] = v]
  BY <1>1 DEF Backfill, Enter
<1>6. /\ torn' \in SUBSET Frontends /\ torn \ {i} \subseteq torn'
      /\ Rivals(i, LoginOf(f)) # {} => i \in torn'
  BY <1>2 DEF LoginsInv, LoginTypeOK
<1>. HIDE DEF v
<1>. QED
  BY <1>1, <1>2, <1>3, <1>4, <1>5, <1>6, BeginsToBind

-----------------------------------------------------------------------------
(* The administrator, and crashes.                                         *)

\* credentials and bindings are taken away, flows dropped
LEMMA TakenAway ==
  ASSUME LoginsInv, UNCHANGED <<password, known, request, torn>>, Fault,
         flow' \in [Flows -> {NoRow} \cup Flowing],
         credential' \in [Frontends -> Flows \cup {None}],
         binding' \in [Frontends -> Logins \cup {None}],
         \A i \in Frontends : credential'[i] \in {credential[i], None}
                              /\ binding'[i] \in {binding[i], None}
  PROVE  LoginsInv'
<1>1. \A q \in Requests : Binding(q)' <=> Binding(q)
  BY DEF Binding
<1>2. StoredLive'
  BY DEF LoginsInv, StoredLive
<1>3. OneAccount'
  <2>1. SUFFICES ASSUME NEW i \in Frontends \ torn, NEW q \in Requests,
                        request[q].who = i, Binding(q)
                 PROVE  /\ credential'[i] # None =>
                             LoginOf(request[q].flow) = LoginOf(credential'[i])
                        /\ \A r \in Requests : request[r].who = i /\ Binding(r) =>
                             LoginOf(request[r].flow) = LoginOf(request[q].flow)
    BY <1>1 DEF OneAccount, LoginOf
  <2>. QED
    BY <2>1 DEF LoginsInv, OneAccount
<1>4. BoundToStored'
  <2>1. SUFFICES ASSUME NEW i \in Frontends \ torn, credential'[i] # None, binding'[i] # None,
                        \A q \in Requests : request[q].who = i => ~ Binding(q)
                 PROVE  binding'[i] = LoginOf(credential'[i])
    BY <1>1 DEF BoundToStored, LoginOf
  <2>2. credential'[i] = credential[i] /\ binding'[i] = binding[i]
    BY <2>1
  <2>. QED
    BY <2>1, <2>2 DEF LoginsInv, BoundToStored
<1>5. faults' \in 0 .. MaxFaults
  BY FaultType
<1>. QED
  BY <1>2, <1>3, <1>4, <1>5 DEF LoginsInv, LoginTypeOK, FlowAtHand, Flowing

LEMMA DisconnectInv ==
  ASSUME LoginsInv, NEW i \in Frontends, Disconnect(i)
  PROVE  LoginsInv'
<1>1. /\ Fault /\ UNCHANGED <<flow, password, known, binding, request, torn>>
      /\ credential' = [credential EXCEPT ![i] = None]
  BY DEF Disconnect, nextcloud
<1>2. /\ credential' \in [Frontends -> Flows \cup {None}]
      /\ \A j \in Frontends : credential'[j] \in {credential[j], None}
  BY <1>1 DEF LoginsInv, LoginTypeOK
<1>3. /\ flow' \in [Flows -> {NoRow} \cup Flowing]
      /\ binding' \in [Frontends -> Logins \cup {None}]
  BY <1>1 DEF LoginsInv, LoginTypeOK, Flowing
<1>. QED
  BY <1>1, <1>2, <1>3, TakenAway

LEMMA ClearUserInv ==
  ASSUME LoginsInv, NEW l \in Logins, ClearUser(l)
  PROVE  LoginsInv'
<1>1. /\ Fault /\ UNCHANGED <<password, known, binding, request, torn>>
      /\ credential' = [i \in Frontends |-> IF binding[i] = l THEN None ELSE credential[i]]
  BY DEF ClearUser
<1>2. /\ credential' \in [Frontends -> Flows \cup {None}]
      /\ \A j \in Frontends : credential'[j] \in {credential[j], None}
  BY <1>1 DEF LoginsInv, LoginTypeOK
<1>3. flow' \in [Flows -> {NoRow} \cup Flowing]
  BY RowsDropped DEF ClearUser
<1>4. binding' \in [Frontends -> Logins \cup {None}]
  BY <1>1 DEF LoginsInv, LoginTypeOK
<1>. QED
  BY <1>1, <1>2, <1>3, <1>4, TakenAway

LEMMA DeleteClientInv ==
  ASSUME LoginsInv, NEW i \in Frontends, DeleteClient(i)
  PROVE  LoginsInv'
<1>1. /\ Fault /\ UNCHANGED <<password, known, request, torn>>
      /\ credential' = [credential EXCEPT ![i] = None]
      /\ binding' = [binding EXCEPT ![i] = None]
  BY DEF DeleteClient
<1>2. /\ credential' \in [Frontends -> Flows \cup {None}]
      /\ \A j \in Frontends : credential'[j] \in {credential[j], None}
  BY <1>1 DEF LoginsInv, LoginTypeOK
<1>3. /\ binding' \in [Frontends -> Logins \cup {None}]
      /\ \A j \in Frontends : binding'[j] \in {binding[j], None}
  BY <1>1 DEF LoginsInv, LoginTypeOK
<1>4. flow' \in [Flows -> {NoRow} \cup Flowing]
  BY RowsDropped DEF DeleteClient, NoFlowsOf
<1>. QED
  BY <1>1, <1>2, <1>3, <1>4, TakenAway

LEMMA LoginCrashInv ==
  ASSUME LoginsInv, Crash
  PROVE  LoginsInv'
<1>1. /\ Fault /\ UNCHANGED <<flow, password, credential, known, binding>>
      /\ request' = [q \in Requests |-> NoRequest]
      /\ torn' = torn \cup {request[q].who : q \in {x \in Requests : Binding(x)}}
  BY DEF Crash, nextcloud, accounts
<1>2. ASSUME NEW q \in Requests, Binding(q) PROVE request[q].who \in Frontends
  BY <1>2, LoginUnderWay DEF Binding, Asking
<1>3. torn' \subseteq Frontends
  BY <1>1, <1>2 DEF LoginsInv, LoginTypeOK
<1>4. \A q \in Requests : request'[q] = NoRequest /\ ~ Binding(q)'
  BY <1>1 DEF NoRequest, Binding
<1>5. OneAccount' /\ FlowAtHand' /\ StoredLive'
  BY <1>1, <1>4, NoOnesRequest DEF OneAccount, FlowAtHand, StoredLive, LoginsInv
<1>6. BoundToStored'
  <2>1. SUFFICES ASSUME NEW i \in Frontends \ torn', credential[i] # None, binding[i] # None
                 PROVE  binding[i] = LoginOf(credential[i])
    BY <1>1 DEF BoundToStored, LoginOf
  <2>2. i \notin torn /\ \A q \in Requests : request[q].who = i => ~ Binding(q)
    BY <1>1, <2>1
  <2>. QED
    BY <2>1, <2>2 DEF LoginsInv, BoundToStored
<1>7. faults' \in 0 .. MaxFaults
  BY <1>1, FaultType
<1>8. request' \in [Requests -> {NoRequest} \cup Asking]
  BY <1>1
<1>. QED
  BY <1>1, <1>3, <1>4, <1>5, <1>6, <1>7, <1>8, NoOnesRequest DEF LoginsInv, LoginTypeOK, Asking

LEMMA LoginNextInv ==
  ASSUME LoginsInv, [LoginNext]_loginVars
  PROVE  LoginsInv'
<1>1. CASE \E q \in Requests : Ask(q)
  BY <1>1, BackfillInv, LookAsideInv, StartAnewInv, StatusInv DEF Ask
<1>2. CASE \E q \in Requests : Step(q)
  BY <1>2, DropFlowsInv, LoginPollInv, StoreInv, FindUserInv, InsertUserInv, BindInv,
     CleanFlowsInv, NewFlowInv DEF Step
<1>3. CASE \E f \in Flows : FlowAges(f) \/ \E l \in Logins : Confirm(f, l)
  BY <1>3, LoginFlowAgesInv, LoginConfirmInv
<1>4. CASE Administration
  BY <1>4, DisconnectInv, DeleteClientInv, ClearUserInv DEF Administration
<1>5. CASE Crash
  BY <1>5, LoginCrashInv
<1>6. CASE UNCHANGED loginVars
  BY <1>6 DEF loginVars, LoginsInv, LoginTypeOK, FlowAtHand, StoredLive, OneAccount,
     BoundToStored, Binding, LoginOf
<1>. QED
  BY <1>1, <1>2, <1>3, <1>4, <1>5, <1>6 DEF LoginNext

\* LoginsInv is an invariant.
THEOREM LoginsInvariant == LoginSpec => []LoginsInv
<1>1. LoginInit => LoginsInv
  BY LoginInitInv
<1>2. LoginsInv /\ [LoginNext]_loginVars => LoginsInv'
  BY LoginNextInv
<1>. QED
  BY <1>1, <1>2, PTL DEF LoginSpec

\* set_credential and bind_identity are two transactions, and requests of one
\* identity, administration and crashes come between them: an identity whose last
\* login was not torn is bound to the account whose app password is stored for it.
THEOREM BindingHonest == LoginSpec => []BindingFollowsLogin
<1>1. LoginsInv => BindingFollowsLogin
  BY DEF LoginsInv, BoundToStored, BindingFollowsLogin
<1>. QED
  BY <1>1, LoginsInvariant, PTL

=============================================================================

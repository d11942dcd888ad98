--------------------------- MODULE AnswersProofs ---------------------------
(***************************************************************************)
(* Proofs about Answers and the endpoints of Retrieval below it, for every *)
(* set of documents, every limit, any number of requests, of permissions   *)
(* withdrawn in between and of failing services: AnswersInv is an          *)
(* invariant, and from it follow the promises TLC checks on three          *)
(* documents.  In the second part the promises of Fusion, for whatever the *)
(* arms return.                                                            *)
(***************************************************************************)
EXTENDS Answers, Fusion, FiniteSetTheorems, WellFoundedInduction, TLAPS

CallFields == {"pc", "kind", "arms", "forced", "raw", "refs", "second", "hits", "linked",
               "down", "ranked", "left", "allowed", "mode"}

(* A call of an endpoint.  Under live ACL whatever was let through was     *)
(* visible at some moment of this request, and a reply holds nothing else. *)
RetrievalInv ==
  /\ DOMAIN call = CallFields
  /\ RetrievalTypeOK
  /\ call.ranked \in Seq(Result) /\ call.refs \in Seq(Docs)
  /\ visible \subseteq seen
  /\ setup.acl => call.allowed \subseteq seen
  /\ setup.acl /\ call.pc = "back" => Range(Found) \subseteq seen

(* A call that resolves some of the documents U, and finds no others.      *)
ResolvesOnly(U) ==
  /\ call.kind = "resolve" /\ call.pc \in {"candidates", "acl", "back"}
  /\ ToSet(call.refs) \subseteq U
  /\ \A i \in DOMAIN call.ranked : call.ranked[i].doc \in U /\ call.ranked[i].copies = {}

ReqFields == {"asks", "pc", "history", "round", "recall", "loaded", "prior", "known", "mode",
              "ranked", "batches", "matches", "unsure", "context", "cited", "fallback", "broken"}

Shape == DOMAIN req = ReqFields /\ DOMAIN chat = {"list", "cited"}

Waiting == {"search", "followup", "use", "elastic"}

(* What is known of a request by the place it has reached.                 *)
Control ==
  /\ req.pc \notin Waiting => call = NoCall
  /\ req.pc \in Waiting => call.pc # "idle"
  /\ req.pc = "idle" => asked = NoRequest
  /\ req.pc # "idle" => status = "started"
  /\ req.pc \in {"search", "followup", "round", "verify", "judge", "review"} => Searching
  /\ req.pc = "use" => /\ asked.kind = "use" /\ asked.numbers \subseteq DOMAIN chat.list
                       /\ ResolvesOnly(UseReferences)
  /\ req.pc = "elastic" => asked.kind \in {"elastic", "elasticlist"}

(* The lists of a request.                                                 *)
Lists ==
  /\ req.prior \in Seq(Docs)
  /\ req.pc \in {"followup", "round"} => req.ranked \in Seq(Docs)
  /\ req.batches \in Seq(SUBSET DOMAIN req.ranked)
  /\ req.pc # "verify" => req.matches = {} /\ req.batches = <<>>
  /\ req.pc \notin {"cite", "sources"} => req.cited = {}

(* The matches are confirmed, and after the verification nothing but them  *)
(* is left.                                                                *)
Checks ==
  /\ {req.ranked[n] : n \in req.matches} \subseteq confirmed
  /\ req.pc \in {"judge", "review"} /\ Rewriting /\ ~Listing =>
       Range(req.ranked) \subseteq confirmed

(* The graph is told last, and of cited documents.                         *)
Reports ==
  /\ req.pc \in {"cite", "sources"} => read = req.context
  /\ req.pc \notin {"idle", "sources"} => told = {}
  /\ req.pc = "sources" => told \subseteq {req.context[n] : n \in req.cited}

AnswersInv ==
  /\ Shape /\ TypeOK /\ RetrievalInv
  /\ Control /\ Lists /\ Checks /\ Reports
  /\ AnswersAuthorized /\ VerifiedOnly /\ SourcesHonest

-----------------------------------------------------------------------------
(* The operators of the models.                                            *)

LEMMA OrdersType ==
  ASSUME NEW docs, NEW s \in Orders(docs)
  PROVE  s \in Seq(docs) /\ ToSet(s) \subseteq docs
BY DEF Orders, SeqOf, ToSet

LEMMA InOrderType ==
  ASSUME NEW s, NEW docs, NEW t \in InOrderOf(s, docs)
  PROVE  t \in Seq(docs) /\ ToSet(t) = docs
BY OrdersType DEF InOrderOf

LEMMA SinglesType ==
  ASSUME NEW docs \in Seq(Docs)
  PROVE  /\ Singles(docs) \in Seq(Result)
         /\ DOMAIN Singles(docs) = DOMAIN docs
         /\ \A i \in DOMAIN docs : Singles(docs)[i].doc = docs[i] /\ Singles(docs)[i].copies = {}
<1>1. Len(docs) \in Nat /\ DOMAIN docs = 1 .. Len(docs) /\ \A i \in DOMAIN docs : docs[i] \in Docs
  OBVIOUS
<1>2. /\ DOMAIN Singles(docs) = DOMAIN docs
      /\ \A i \in DOMAIN docs : Singles(docs)[i] = [doc |-> docs[i], copies |-> {}]
  BY DEF Singles
<1>3. \A d \in Docs : [doc |-> d, copies |-> {}] \in Result
  BY DEF Result
<1>4. Singles(docs) \in [1 .. Len(docs) -> Result]
  <2>1. \A i \in 1 .. Len(docs) : Singles(docs)[i] \in Result
    BY <1>1, <1>2, <1>3
  <2>2. Singles(docs) = [i \in 1 .. Len(docs) |-> Singles(docs)[i]]
    BY <1>1 DEF Singles
  <2>. QED BY <2>1, <2>2
<1>5. Singles(docs) \in Seq(Result)
  BY <1>1, <1>4
<1>. QED BY <1>2, <1>5

LEMMA RankingsType ==
  ASSUME NEW pool, pool \subseteq Docs, NEW s \in Rankings(pool)
  PROVE  s \in Seq(Result)
<1>. DEFINE R == UNION {{[doc |-> d, copies |-> copies] : copies \in SUBSET Kin(d, pool)} : d \in pool}
<1>1. R \subseteq Result
  BY DEF Result, Kin
<1>2. s \in SeqOf(R, Limit)
  BY DEF Rankings, BoundedSeq
<1>. HIDE DEF R
<1>3. s \in Seq(R)
  BY <1>2 DEF SeqOf
<1>. QED BY <1>1, <1>3

LEMMA IdsType ==
  ASSUME NEW results \in Seq(Result)
  PROVE  Ids(results) \subseteq Docs
<1>1. \A i \in DOMAIN results : results[i] \in Result
  OBVIOUS
<1>2. \A r \in Result : r.doc \in Docs /\ r.copies \subseteq Docs
  BY DEF Result
<1>. QED BY <1>1, <1>2 DEF Ids

(* What is left of a list is, for each result that is left, one of its     *)
(* documents; under live ACL one that was let through.                     *)
LEMMA AuthorizedType ==
  ASSUME NEW results \in Seq(Result), NEW docs \in Authorized(results)
  PROVE  /\ docs \in Seq(Docs)
         /\ \A i \in DOMAIN docs :
              /\ setup.acl => docs[i] \in call.allowed
              /\ \E k \in DOMAIN results : docs[i] \in {results[k].doc} \cup results[k].copies
<1>. DEFINE kept == {i \in DOMAIN results : Promoted(results[i]) # {}}
            Places == {at \in [1 .. Cardinality(kept) -> kept] :
                         \A i, j \in DOMAIN at : i < j => at[i] < at[j]}
<1>1. PICK at \in Places : /\ docs \in [DOMAIN at -> Docs]
                           /\ \A i \in DOMAIN at : docs[i] \in Promoted(results[at[i]])
  BY DEF Authorized
<1>2. Cardinality(kept) \in Nat
  <2>1. IsFiniteSet(1 .. Len(results))
    BY FS_Interval
  <2>2. kept \in SUBSET (1 .. Len(results))
    OBVIOUS
  <2>. HIDE DEF kept
  <2>. QED BY <2>1, <2>2, FS_Subset, FS_CardinalityType
<1>3. DOMAIN at = 1 .. Cardinality(kept) /\ \A i \in DOMAIN at : at[i] \in DOMAIN results
  OBVIOUS
<1>. HIDE DEF kept, Places
<1>4. docs \in Seq(Docs) /\ DOMAIN docs = DOMAIN at
  BY <1>1, <1>2, <1>3
<1>5. \A r \in Result : /\ Promoted(r) \subseteq {r.doc} \cup r.copies
                        /\ setup.acl => Promoted(r) \subseteq call.allowed
  BY DEF Promoted
<1>6. \A i \in DOMAIN at : results[at[i]] \in Result
  BY <1>3
<1>. QED BY <1>1, <1>3, <1>4, <1>5, <1>6

LEMMA FoundType ==
  ASSUME RetrievalInv
  PROVE  /\ Found \in Seq(Docs)
         /\ Range(Found) \subseteq Docs
         /\ DOMAIN Found \subseteq Nat \ {0}
         /\ ToSet(Found) = Range(Found)
         /\ setup.acl /\ call.pc = "back" => Range(Found) \subseteq seen
<1>1. Found \in Seq(Docs)
  <2>1. Len(call.ranked) \in Nat /\ DOMAIN call.ranked = 1 .. Len(call.ranked)
        /\ \A i \in DOMAIN call.ranked : call.ranked[i] \in Result
    BY DEF RetrievalInv
  <2>2. \A r \in Result : r.doc \in Docs
    BY DEF Result
  <2>3. Found \in [1 .. Len(call.ranked) -> Docs]
    BY <2>1, <2>2 DEF Found
  <2>. QED BY <2>1, <2>3
<1>. QED BY <1>1 DEF RetrievalInv, Range, ToSet

-----------------------------------------------------------------------------
(* The endpoints.                                                          *)

LEMMA NoCallType ==
  /\ DOMAIN NoCall = CallFields
  /\ NoCall.ranked = <<>> /\ NoCall.refs = <<>> /\ NoCall.allowed = {} /\ NoCall.pc = "idle"
BY DEF NoCall, CallFields

(* A new call, or none: nothing has been found yet.                        *)
Unanswered ==
  /\ DOMAIN call = CallFields
  /\ call.ranked = <<>> /\ call.allowed = {} /\ call.refs \in Seq(Docs)
  /\ call.left = {} /\ call.hits = {} /\ call.linked = {} /\ call.down = {}
  /\ call.pc \in {"idle", "files", "candidates"} /\ call.mode = "none"
  /\ call.kind \in {"search", "resolve", "elastic"} /\ call.second = FALSE
  /\ call.arms \subseteq Arms /\ call.forced \in BOOLEAN /\ call.raw \in BOOLEAN

LEMMA CallMade ==
  ASSUME RetrievalInv, UNCHANGED <<setup, visible, seen, changes, faults>>,
         \/ call' = NoCall
         \/ \E arms \in SUBSET Arms, forced \in BOOLEAN, raw \in BOOLEAN :
              call' = Search(arms, forced, raw)
         \/ \E refs \in Seq(Docs) : call' = Resolve(refs)
         \/ call' = Elastic
  PROVE  RetrievalInv'
<1>1. Unanswered'
  <2>1. CASE call' = NoCall
    BY <2>1 DEF NoCall, CallFields, Unanswered
  <2>2. ASSUME NEW arms \in SUBSET Arms, NEW forced \in BOOLEAN, NEW raw \in BOOLEAN,
               call' = Search(arms, forced, raw)
        PROVE  Unanswered'
    BY <2>2 DEF NoCall, CallFields, Search, Unanswered
  <2>3. ASSUME NEW refs \in Seq(Docs), call' = Resolve(refs)
        PROVE  Unanswered'
    BY <2>3 DEF NoCall, CallFields, Resolve, Unanswered
  <2>4. CASE call' = Elastic
    BY <2>4 DEF NoCall, CallFields, Elastic, Unanswered
  <2>. QED BY <2>1, <2>2, <2>3, <2>4
<1>2. ToSet(call'.refs) \subseteq Docs /\ ToSet(call'.ranked) \subseteq Result
  BY <1>1 DEF ToSet, Unanswered
<1>3. RetrievalTypeOK'
  BY <1>1, <1>2 DEF RetrievalInv, RetrievalTypeOK, Modes, Unanswered
<1>. QED BY <1>1, <1>3 DEF RetrievalInv, Unanswered

LEMMA Faulted ==
  ASSUME RetrievalInv, UNCHANGED faults \/ Fault
  PROVE  faults' \in 0 .. MaxFaults
BY RetrievalAssumption DEF RetrievalInv, RetrievalTypeOK, Fault

(* An arm adds what it finds, or fails.                                    *)
LEMMA ArmInv ==
  ASSUME RetrievalInv, FilesArm \/ VectorArm \/ GraphArm
  PROVE  RetrievalInv' /\ call'.kind = call.kind /\ call'.pc \notin {"idle", "back"}
<1>. USE DEF RetrievalInv
<1>0. call.hits \subseteq Docs /\ call.linked \subseteq Docs /\ call.down \subseteq call.arms
  BY DEF RetrievalTypeOK
<1>1. /\ UNCHANGED <<setup, visible, seen, changes>>
      /\ UNCHANGED faults \/ Fault
  BY DEF FilesArm, VectorArm, GraphArm
<1>4. DOMAIN call' = CallFields /\ call'.pc \in {"vector", "graph", "rank"}
  <2>1. CASE FilesArm
    BY <2>1 DEF FilesArm, CallFields
  <2>2. CASE VectorArm
    BY <2>2 DEF VectorArm, CallFields
  <2>3. CASE GraphArm
    BY <2>3 DEF GraphArm, CallFields
  <2>. QED BY <2>1, <2>2, <2>3
<1>5. call'.hits \subseteq Docs /\ call'.linked \subseteq Docs /\ call'.down \subseteq call.arms
  <2>1. CASE FilesArm
    BY ZenonT(60), <1>0, <2>1 DEF FilesArm, CallFields
  <2>2. CASE VectorArm
    BY ZenonT(60), <1>0, <2>2 DEF VectorArm, CallFields
  <2>3. CASE GraphArm
    BY ZenonT(60), <1>0, <2>3 DEF GraphArm, CallFields
  <2>. QED BY <2>1, <2>2, <2>3
<1>2. /\ call'.kind = call.kind /\ call'.arms = call.arms /\ call'.forced = call.forced
      /\ call'.raw = call.raw /\ call'.refs = call.refs /\ call'.second = call.second
      /\ call'.ranked = call.ranked /\ call'.left = call.left /\ call'.allowed = call.allowed
      /\ call'.mode = call.mode
  <2>1. CASE FilesArm
    BY <2>1 DEF FilesArm, CallFields
  <2>2. CASE VectorArm
    BY <2>2 DEF VectorArm, CallFields
  <2>3. CASE GraphArm
    BY <2>3 DEF GraphArm, CallFields
  <2>. QED BY <2>1, <2>2, <2>3
<1>3. RetrievalTypeOK'
  BY <1>1, <1>2, <1>4, <1>5, Faulted DEF RetrievalTypeOK, ToSet
<1>. QED BY <1>1, <1>2, <1>3, <1>4

(* What was found goes to the access check, and nothing is let through yet. *)
LEMMA ToCheck ==
  ASSUME RetrievalInv, NEW results \in Seq(Result), NEW mode \in Modes,
         call' \in {Check(results, mode), [Check(results, mode) EXCEPT !.second = TRUE]},
         UNCHANGED <<setup, visible, seen, changes>>, UNCHANGED faults \/ Fault
  PROVE  /\ RetrievalInv'
         /\ call'.pc = "acl" /\ call'.kind = call.kind /\ call'.refs = call.refs
         /\ call'.ranked = results
<1>. USE DEF RetrievalInv
<1>1. /\ DOMAIN call' = CallFields
      /\ call'.pc = "acl" /\ call'.kind = call.kind /\ call'.refs = call.refs
      /\ call'.ranked = results /\ call'.mode = mode /\ call'.second \in BOOLEAN
      /\ call'.arms = {} /\ call'.down = {} /\ call'.hits = {} /\ call'.linked = {}
      /\ call'.allowed = {} /\ call'.forced = FALSE /\ call'.raw = FALSE
      /\ call'.left = IF setup.acl THEN Ids(results) ELSE {}
  <2>1. CASE call' = Check(results, mode)
    BY <2>1 DEF Check, NoCall, CallFields
  <2>2. CASE call' = [Check(results, mode) EXCEPT !.second = TRUE]
    BY <2>2 DEF Check, NoCall, CallFields
  <2>. QED BY <2>1, <2>2
<1>2. call'.left \subseteq Docs
  BY <1>1, IdsType
<1>3. ToSet(call'.ranked) \subseteq Result /\ ToSet(call'.refs) \subseteq Docs
  BY <1>1 DEF ToSet, RetrievalTypeOK
<1>4. RetrievalTypeOK'
  BY <1>1, <1>2, <1>3, Faulted DEF RetrievalTypeOK
<1>. QED BY <1>1, <1>4

(* The steps that end the search, by what they hand over.                  *)
LEMMA FoundInv ==
  ASSUME RetrievalInv, TooBroad \/ NothingFound \/ RejectFlat \/ FuseFlat \/ Fuse
  PROVE  RetrievalInv' /\ call'.kind = call.kind /\ call'.pc = "acl"
<1>1. PICK results \in Seq(Result), mode \in Modes : call' = Check(results, mode)
  <2>1. CASE TooBroad \/ NothingFound \/ RejectFlat
    <3>1. <<>> \in Seq(Result) /\ {"too_unspecific", "none", "degraded", "unspecific"} \subseteq Modes
      BY DEF Modes
    <3>. QED BY <2>1, <3>1 DEF TooBroad, NothingFound, RejectFlat
  <2>2. CASE FuseFlat
    BY <2>2, RankingsType DEF FuseFlat, RetrievalInv, RetrievalTypeOK, Modes
  <2>3. CASE Fuse
    <3>1. call.hits \cup call.linked \subseteq Docs /\ "found" \in Modes
      BY DEF RetrievalInv, RetrievalTypeOK, Modes
    <3>. QED BY <2>3, <3>1, RankingsType DEF Fuse
  <2>. QED BY <2>1, <2>2, <2>3
<1>2. UNCHANGED <<setup, visible, seen, changes, faults>>
  BY DEF TooBroad, NothingFound, RejectFlat, FuseFlat, Fuse
<1>. QED BY <1>1, <1>2, ToCheck

(* A failure that is not caught: an error is all the reply says.           *)
LEMMA FailedInv ==
  ASSUME RetrievalInv, Fault, UNCHANGED <<setup, visible, seen, changes>>,
         call' \in {[NoCall EXCEPT !.pc = "back", !.mode = "error"],
                    [NoCall EXCEPT !.pc = "back", !.kind = call.kind, !.mode = "error"]}
  PROVE  /\ RetrievalInv'
         /\ call'.pc = "back" /\ call'.kind \in {"search", call.kind}
         /\ call'.refs = <<>> /\ call'.ranked = <<>>
<1>. USE DEF RetrievalInv
<1>1. /\ DOMAIN call' = CallFields
      /\ call'.pc = "back" /\ call'.kind \in {"search", call.kind} /\ call'.refs = <<>>
      /\ call'.ranked = <<>> /\ call'.mode = "error" /\ call'.second = FALSE
      /\ call'.arms = {} /\ call'.down = {} /\ call'.hits = {} /\ call'.linked = {}
      /\ call'.allowed = {} /\ call'.forced = FALSE /\ call'.raw = FALSE /\ call'.left = {}
  BY ZenonT(60) DEF NoCall, CallFields
<1>2. ToSet(call'.ranked) = {} /\ ToSet(call'.refs) = {} /\ Range(Found)' = {}
  BY <1>1 DEF ToSet, Range, Found
<1>3. RetrievalTypeOK'
  BY <1>1, <1>2, Faulted DEF RetrievalTypeOK, Modes
<1>. QED BY <1>1, <1>2, <1>3

LEMMA LookUpNameInv ==
  ASSUME RetrievalInv, LookUpName
  PROVE  RetrievalInv' /\ call'.pc # "idle"
<1>1. CASE \E hits \in SUBSET Docs : \E docs \in Orders(hits) :
             Len(docs) <= Limit /\ call' = Check(Singles(docs), "filename")
  <2>0. PICK hits \in SUBSET Docs :
          \E docs \in Orders(hits) : call' = Check(Singles(docs), "filename")
    BY <1>1
  <2>1. PICK docs \in Orders(hits) : call' = Check(Singles(docs), "filename")
    BY <2>0
  <2>2. docs \in Seq(Docs)
    BY OrdersType
  <2>3. Singles(docs) \in Seq(Result) /\ "filename" \in Modes
    BY <2>2, SinglesType DEF Modes
  <2>. QED BY <2>1, <2>3, ToCheck DEF LookUpName
<1>2. CASE Fault /\ call' = [NoCall EXCEPT !.pc = "back", !.mode = "error"]
  BY <1>2, FailedInv DEF LookUpName
<1>. QED BY <1>1, <1>2 DEF LookUpName

(* Of the references only those are handed on that the index still has.    *)
LEMMA FindReferencesInv ==
  ASSUME RetrievalInv, FindReferences
  PROVE  /\ RetrievalInv' /\ call'.kind = call.kind /\ call'.pc # "idle"
         /\ \A U : ResolvesOnly(U) => ResolvesOnly(U)'
<1>1. CASE \E left \in SUBSET ToSet(call.refs) : \E docs \in InOrderOf(call.refs, left) :
             call' = Check(Singles(docs), "found")
  <2>0. PICK left \in SUBSET ToSet(call.refs) :
          \E docs \in InOrderOf(call.refs, left) : call' = Check(Singles(docs), "found")
    BY <1>1
  <2>1. PICK docs \in InOrderOf(call.refs, left) : call' = Check(Singles(docs), "found")
    BY <2>0
  <2>2. docs \in Seq(Docs) /\ ToSet(docs) \subseteq ToSet(call.refs)
    <3>1. left \subseteq Docs
      BY DEF RetrievalInv, RetrievalTypeOK
    <3>. QED BY <3>1, InOrderType
  <2>3. Singles(docs) \in Seq(Result) /\ "found" \in Modes
    BY <2>2, SinglesType DEF Modes
  <2>4. /\ RetrievalInv' /\ call'.pc = "acl" /\ call'.kind = call.kind /\ call'.refs = call.refs
        /\ call'.ranked = Singles(docs)
    BY <1>1, <2>1, <2>3, ToCheck DEF FindReferences
  <2>5. \A i \in DOMAIN Singles(docs) : /\ Singles(docs)[i].doc \in ToSet(call.refs)
                                        /\ Singles(docs)[i].copies = {}
    <3>1. \A i \in DOMAIN docs : docs[i] \in ToSet(docs)
      BY DEF ToSet
    <3>. QED BY <2>2, <3>1, SinglesType
  <2>. QED BY <2>4, <2>5 DEF ResolvesOnly
<1>2. CASE Fault /\ call' = [NoCall EXCEPT !.pc = "back", !.kind = call.kind, !.mode = "error"]
  <2>1. /\ RetrievalInv' /\ call'.pc = "back" /\ call'.kind = call.kind
        /\ call'.refs = <<>> /\ call'.ranked = <<>>
    <3>1. call'.kind = call.kind
      BY <1>2 DEF NoCall
    <3>. QED BY <1>2, <3>1, FailedInv DEF FindReferences
  <2>. QED BY <2>1 DEF ResolvesOnly, ToSet
<1>. QED BY <1>1, <1>2 DEF FindReferences

LEMMA FindExactInv ==
  ASSUME RetrievalInv, FindExact
  PROVE  RetrievalInv' /\ call'.kind = call.kind /\ call'.pc # "idle"
<1>1. CASE \E hits \in SUBSET Docs : \E docs \in Orders(hits), complete \in BOOLEAN :
             call' = Check(Singles(docs), IF complete \/ ~setup.acl THEN "found" ELSE "incomplete")
  <2>0. PICK hits \in SUBSET Docs :
          \E docs \in Orders(hits), mode \in {"found", "incomplete"} :
            call' = Check(Singles(docs), mode)
    BY <1>1
  <2>1. PICK docs \in Orders(hits), mode \in {"found", "incomplete"} :
          call' = Check(Singles(docs), mode)
    BY <2>0
  <2>2. docs \in Seq(Docs)
    BY OrdersType
  <2>3. Singles(docs) \in Seq(Result) /\ mode \in Modes
    BY <2>2, SinglesType DEF Modes
  <2>. QED BY <2>1, <2>3, <1>1, ToCheck DEF FindExact
<1>2. CASE Fault /\ call' = [NoCall EXCEPT !.pc = "back", !.kind = call.kind, !.mode = "error"]
  <2>1. call'.kind = call.kind
    BY <1>2 DEF NoCall
  <2>. QED BY <1>2, <2>1, FailedInv DEF FindExact
<1>. QED BY <1>1, <1>2 DEF FindExact

(* A batch lets through what is visible now, which has been seen.          *)
LEMMA AclBatchInv ==
  ASSUME RetrievalInv, AclBatch
  PROVE  /\ RetrievalInv' /\ call'.kind = call.kind /\ call'.pc = "acl"
         /\ \A U : ResolvesOnly(U) => ResolvesOnly(U)'
<1>. USE DEF RetrievalInv
<1>1. PICK ids \in SUBSET call.left :
        call' = [call EXCEPT !.left = @ \ ids, !.allowed = @ \cup (ids \cap visible)]
  BY DEF AclBatch
<1>2. UNCHANGED <<setup, visible, seen, changes, faults>> /\ call.pc = "acl"
  BY DEF AclBatch
<1>3. /\ DOMAIN call' = CallFields
      /\ call'.left = call.left \ ids
      /\ call'.allowed = call.allowed \cup (ids \cap visible)
      /\ call'.pc = call.pc /\ call'.kind = call.kind /\ call'.arms = call.arms
      /\ call'.forced = call.forced /\ call'.raw = call.raw /\ call'.refs = call.refs
      /\ call'.second = call.second /\ call'.ranked = call.ranked /\ call'.mode = call.mode
      /\ call'.hits = call.hits /\ call'.linked = call.linked /\ call'.down = call.down
  BY <1>1 DEF CallFields
<1>4. RetrievalTypeOK'
  BY <1>2, <1>3 DEF RetrievalTypeOK, ToSet
<1>. QED BY <1>2, <1>3, <1>4 DEF ResolvesOnly

LEMMA AclFailsInv ==
  ASSUME RetrievalInv, AclFails
  PROVE  /\ RetrievalInv' /\ call'.kind = call.kind /\ call'.pc # "idle"
         /\ \A U : ResolvesOnly(U) => ResolvesOnly(U)'
<1>1. Fault /\ call' = [NoCall EXCEPT !.pc = "back", !.kind = call.kind, !.mode = "error"]
  BY DEF AclFails
<1>2. call'.kind = call.kind
  BY <1>1 DEF NoCall
<1>3. /\ RetrievalInv' /\ call'.pc = "back" /\ call'.refs = <<>> /\ call'.ranked = <<>>
  BY <1>1, FailedInv DEF AclFails
<1>. QED BY <1>2, <1>3 DEF ResolvesOnly, ToSet

(* A reply holds documents that were let through.                          *)
LEMMA Replied ==
  ASSUME RetrievalInv, NEW docs \in Seq(Docs), NEW mode \in Modes,
         setup.acl => ToSet(docs) \subseteq call.allowed,
         call' = Reply(docs, mode), UNCHANGED <<setup, visible, seen, changes, faults>>
  PROVE  /\ RetrievalInv'
         /\ call'.pc = "back" /\ call'.kind = call.kind /\ call'.refs = <<>>
         /\ call'.ranked = Singles(docs)
<1>. USE DEF RetrievalInv
<1>1. /\ DOMAIN call' = CallFields
      /\ call'.pc = "back" /\ call'.kind = call.kind /\ call'.refs = <<>>
      /\ call'.ranked = Singles(docs) /\ call'.mode = mode /\ call'.second = FALSE
      /\ call'.arms = {} /\ call'.down = {} /\ call'.hits = {} /\ call'.linked = {}
      /\ call'.allowed = {} /\ call'.forced = FALSE /\ call'.raw = FALSE /\ call'.left = {}
  BY DEF Reply, NoCall, CallFields
<1>2. Singles(docs) \in Seq(Result)
  BY SinglesType
<1>3. ToSet(call'.ranked) \subseteq Result /\ ToSet(call'.refs) = {}
  BY <1>1, <1>2 DEF ToSet
<1>4. RetrievalTypeOK'
  BY <1>1, <1>3 DEF RetrievalTypeOK
<1>5. Range(Found)' \subseteq ToSet(docs)
  BY <1>1, SinglesType DEF Range, Found, ToSet
<1>. QED BY <1>1, <1>2, <1>4, <1>5

LEMMA AuthorizedReply ==
  ASSUME RetrievalInv, NEW docs \in Authorized(call.ranked)
  PROVE  /\ docs \in Seq(Docs)
         /\ setup.acl => ToSet(docs) \subseteq call.allowed
BY AuthorizedType DEF RetrievalInv, ToSet

LEMMA ReplySearchInv ==
  ASSUME RetrievalInv, ReplySearch
  PROVE  RetrievalInv' /\ call'.kind = call.kind /\ call'.pc = "back"
<1>1. PICK docs \in Authorized(call.ranked) :
        call' = IF setup.acl /\ call.mode = "unspecific"
                THEN Reply(<<>>, IF docs = <<>> THEN "none" ELSE "unspecific")
                ELSE Reply(docs, call.mode)
  BY DEF ReplySearch
<1>2. call.mode \in Modes /\ "none" \in Modes /\ "unspecific" \in Modes
  BY DEF RetrievalInv, RetrievalTypeOK, Modes
<1>3. <<>> \in Seq(Docs) /\ ToSet(<<>>) = {}
  BY DEF ToSet
<1>4. UNCHANGED <<setup, visible, seen, changes, faults>>
  BY DEF ReplySearch
<1>. QED BY <1>1, <1>2, <1>3, <1>4, AuthorizedReply, Replied

LEMMA LoadResolvedInv ==
  ASSUME RetrievalInv, LoadResolved
  PROVE  /\ RetrievalInv' /\ call'.kind = call.kind /\ call'.pc = "acl"
         /\ \A U : ResolvesOnly(U) => ResolvesOnly(U)'
<1>1. PICK docs \in Authorized(call.ranked), mode \in {"found", "missing"} :
        call' = [Check(Singles(docs), mode) EXCEPT !.second = TRUE]
  BY DEF LoadResolved
<1>2. docs \in Seq(Docs) /\ mode \in Modes
  BY AuthorizedReply DEF Modes
<1>3. Singles(docs) \in Seq(Result)
  BY <1>2, SinglesType
<1>4. UNCHANGED <<setup, visible, seen, changes, faults>>
  BY DEF LoadResolved
<1>5. /\ RetrievalInv' /\ call'.pc = "acl" /\ call'.kind = call.kind /\ call'.refs = call.refs
      /\ call'.ranked = Singles(docs)
  BY <1>1, <1>2, <1>3, <1>4, ToCheck
<1>6. ASSUME NEW U, ResolvesOnly(U), NEW i \in DOMAIN docs PROVE docs[i] \in U
  <2>1. PICK k \in DOMAIN call.ranked : docs[i] \in {call.ranked[k].doc} \cup call.ranked[k].copies
    BY AuthorizedType DEF RetrievalInv
  <2>. QED BY <1>6, <2>1 DEF ResolvesOnly
<1>. QED BY <1>2, <1>5, <1>6, SinglesType DEF ResolvesOnly

LEMMA ReplyResolveInv ==
  ASSUME RetrievalInv, ReplyResolve
  PROVE  /\ RetrievalInv' /\ call'.kind = call.kind /\ call'.pc = "back"
         /\ \A U : ResolvesOnly(U) => ResolvesOnly(U)'
<1>1. PICK docs \in Authorized(call.ranked) : call' = Reply(docs, call.mode)
  BY DEF ReplyResolve
<1>2. docs \in Seq(Docs) /\ call.mode \in Modes
  BY AuthorizedReply DEF RetrievalInv, RetrievalTypeOK
<1>3. UNCHANGED <<setup, visible, seen, changes, faults>>
  BY DEF ReplyResolve
<1>4. /\ RetrievalInv' /\ call'.pc = "back" /\ call'.kind = call.kind /\ call'.refs = <<>>
      /\ call'.ranked = Singles(docs)
  BY <1>1, <1>2, <1>3, AuthorizedReply, Replied
<1>5. ASSUME NEW U, ResolvesOnly(U), NEW i \in DOMAIN docs PROVE docs[i] \in U
  <2>1. PICK k \in DOMAIN call.ranked : docs[i] \in {call.ranked[k].doc} \cup call.ranked[k].copies
    BY AuthorizedType DEF RetrievalInv
  <2>. QED BY <1>5, <2>1 DEF ResolvesOnly
<1>. QED BY <1>2, <1>4, <1>5, SinglesType DEF ResolvesOnly, ToSet

LEMMA ReplyElasticInv ==
  ASSUME RetrievalInv, ReplyElastic
  PROVE  RetrievalInv' /\ call'.kind = call.kind /\ call'.pc = "back"
<1>1. PICK docs \in Authorized(call.ranked) :
        call' = IF call.mode = "found" /\ Len(docs) > ExactLimit
                THEN Reply(SubSeq(docs, 1, ExactLimit), "too_many")
                ELSE Reply(SubSeq(docs, 1, AtMost(ExactLimit, Len(docs))), call.mode)
  BY DEF ReplyElastic
<1>2. docs \in Seq(Docs) /\ call.mode \in Modes /\ "too_many" \in Modes
  BY AuthorizedReply DEF RetrievalInv, RetrievalTypeOK, Modes
<1>3. PICK n \in 0 .. Len(docs), mode \in Modes : call' = Reply(SubSeq(docs, 1, n), mode)
  BY <1>1, <1>2, RetrievalAssumption DEF AtMost
<1>4. /\ SubSeq(docs, 1, n) \in Seq(Docs)
      /\ ToSet(SubSeq(docs, 1, n)) \subseteq ToSet(docs)
  BY <1>2 DEF ToSet
<1>5. UNCHANGED <<setup, visible, seen, changes, faults>>
  BY DEF ReplyElastic
<1>. QED BY <1>3, <1>4, <1>5, AuthorizedReply, Replied

LEMMA RetrievalStepInv ==
  ASSUME RetrievalInv, RetrievalStep
  PROVE  /\ RetrievalInv' /\ call'.pc # "idle"
         /\ \A U : ResolvesOnly(U) => ResolvesOnly(U)'
<1>1. CASE LookUpName
  BY <1>1, LookUpNameInv DEF LookUpName, ResolvesOnly
<1>2. CASE FilesArm \/ VectorArm \/ GraphArm
  BY <1>2, ArmInv DEF FilesArm, VectorArm, GraphArm, ResolvesOnly
<1>3. CASE TooBroad \/ NothingFound \/ RejectFlat \/ FuseFlat \/ Fuse
  BY <1>3, FoundInv DEF TooBroad, NothingFound, RejectFlat, FuseFlat, Fuse, ResolvesOnly
<1>4. CASE FindReferences
  BY <1>4, FindReferencesInv
<1>5. CASE FindExact
  BY <1>5, FindExactInv DEF FindExact, ResolvesOnly
<1>6. CASE AclBatch
  BY <1>6, AclBatchInv
<1>7. CASE AclFails
  BY <1>7, AclFailsInv
<1>8. CASE ReplySearch
  BY <1>8, ReplySearchInv DEF ReplySearch, ResolvesOnly
<1>9. CASE LoadResolved
  BY <1>9, LoadResolvedInv
<1>10. CASE ReplyResolve
  BY <1>10, ReplyResolveInv
<1>11. CASE ReplyElastic
  BY <1>11, ReplyElasticInv DEF ReplyElastic, ResolvesOnly
<1>. QED BY <1>1, <1>2, <1>3, <1>4, <1>5, <1>6, <1>7, <1>8, <1>9, <1>10, <1>11 DEF RetrievalStep

LEMMA StepFrame ==
  ASSUME RetrievalStep
  PROVE  UNCHANGED <<setup, visible, seen, changes>>
BY DEF RetrievalStep, LookUpName, FilesArm, VectorArm, GraphArm, TooBroad, NothingFound, RejectFlat,
       FuseFlat, Fuse, FindReferences, FindExact, AclBatch, AclFails, ReplySearch, LoadResolved,
       ReplyResolve, ReplyElastic

LEMMA ShareInv ==
  ASSUME RetrievalInv, NEW d \in Docs, Share(d)
  PROVE  RetrievalInv' /\ UNCHANGED <<setup, call, faults>> /\ seen \subseteq seen'
<1>. USE DEF RetrievalInv
<1>1. /\ UNCHANGED <<setup, call, faults>>
      /\ visible' \subseteq Docs /\ seen' = seen \cup visible'
      /\ changes' \in 0 .. MaxChanges
  BY RetrievalAssumption DEF Share, RetrievalTypeOK
<1>2. RetrievalTypeOK'
  BY <1>1 DEF RetrievalTypeOK, ToSet
<1>. QED BY <1>1, <1>2 DEF Found, Range

-----------------------------------------------------------------------------
(* The conversation.                                                       *)

LEMMA FreshFields ==
  ASSUME NEW r
  PROVE  /\ DOMAIN Fresh(r) = ReqFields
         /\ Fresh(r).asks = r /\ Fresh(r).pc = "idle" /\ Fresh(r).history = FALSE
         /\ Fresh(r).round = 1 /\ Fresh(r).recall = FALSE /\ Fresh(r).loaded = FALSE
         /\ Fresh(r).prior = <<>> /\ Fresh(r).known = {} /\ Fresh(r).mode = "none"
         /\ Fresh(r).ranked = Empty /\ Fresh(r).batches = <<>> /\ Fresh(r).matches = {}
         /\ Fresh(r).unsure = FALSE /\ Fresh(r).context = Empty /\ Fresh(r).cited = {}
         /\ Fresh(r).fallback = FALSE /\ Fresh(r).broken = FALSE
BY DEF Fresh, ReqFields

LEMMA EmptyIsNumbered ==
  IsNumbered(Empty) /\ DOMAIN Empty = {} /\ Range(Empty) = {} /\ ToSet(<<>>) = {}
BY DEF IsNumbered, Empty, Range, ToSet

LEMMA NobodyAsks ==
  /\ NoRequest.kind = "ask" /\ NoRequest.arms = {} /\ NoRequest.complete = FALSE
  /\ NoRequest.numbers = {}
BY DEF NoRequest

(* A request that ends with a text and its sources.                        *)
LEMMA Ended ==
  ASSUME AnswersInv, NEW list, NEW cited,
         NEW how \in {"static", "answered", "stream_error", "cut"},
         EndWith(list, cited, how), UNCHANGED <<world, read, confirmed, turns>>,
         IsNumbered(list), cited \subseteq DOMAIN list,
         told' \cup findings' \subseteq Docs,
         setup.acl => Range(list) \cup told' \cup findings' \subseteq seen,
         how \in {"answered", "stream_error"} => IsRestriction(list, read),
         how # "cut" => told' \subseteq Range(list)
  PROVE  AnswersInv'
<1>1. RetrievalInv'
  BY CallMade DEF AnswersInv, EndWith, world
<1>2. /\ req' = Fresh(NoRequest) /\ chat' = [list |-> list, cited |-> cited]
      /\ status' = how /\ call' = NoCall
      /\ UNCHANGED <<setup, visible, seen, changes, faults, read, confirmed, turns>>
  BY DEF EndWith, world
<1>3. /\ DOMAIN req' = ReqFields
      /\ req'.asks = NoRequest /\ req'.pc = "idle" /\ req'.history = FALSE
      /\ req'.round = 1 /\ req'.recall = FALSE /\ req'.loaded = FALSE
      /\ req'.prior = <<>> /\ req'.known = {} /\ req'.mode = "none"
      /\ req'.ranked = Empty /\ req'.batches = <<>> /\ req'.matches = {}
      /\ req'.unsure = FALSE /\ req'.context = Empty /\ req'.cited = {}
      /\ req'.fallback = FALSE /\ req'.broken = FALSE
  BY <1>2, FreshFields
<1>4. /\ chat'.list = list /\ chat'.cited = cited /\ DOMAIN chat' = {"list", "cited"}
      /\ call'.pc = "idle"
  BY <1>2, NoCallType
<1>5. ~Rewriting'
  BY <1>3, NobodyAsks DEF Rewriting, asked
<1>6. TypeOK'
  <2>1. UNION ToSet(<<>>) = {}
    BY EmptyIsNumbered
  <2>2. RetrievalTypeOK' /\ turns' \in 0 .. MaxTurns /\ confirmed' \subseteq Docs /\ IsNumbered(read)'
    BY <1>1, <1>2 DEF RetrievalInv, AnswersInv, TypeOK, IsNumbered
  <2>3. IsNumbered(chat.list)' /\ (chat.cited \subseteq DOMAIN chat.list)'
    BY <1>4 DEF IsNumbered
  <2>4. IsNumbered(req.ranked)' /\ IsNumbered(req.context)'
    BY <1>3, EmptyIsNumbered DEF IsNumbered
  <2>5. 1 \in 1 .. MaxRounds
    BY AnswersAssumption
  <2>. QED BY <1>2, <1>3, <1>4, <2>1, <2>2, <2>3, <2>4, <2>5, EmptyIsNumbered DEF TypeOK, Pcs, Modes
<1>7. Shape' /\ Control' /\ Lists' /\ Checks' /\ Reports'
  BY <1>2, <1>3, <1>4, <1>5, EmptyIsNumbered
  DEF Shape, Control, Lists, Checks, Reports, asked, Waiting, Empty
<1>8. AnswersAuthorized'
  BY <1>2, <1>3, <1>4, EmptyIsNumbered DEF AnswersInv, AnswersAuthorized
<1>9. VerifiedOnly'
  BY <1>5 DEF VerifiedOnly
<1>10. SourcesHonest'
  BY <1>2, <1>3, <1>4, NobodyAsks DEF SourcesHonest, asked
<1>. QED BY <1>1, <1>6, <1>7, <1>8, <1>9, <1>10 DEF AnswersInv

LEMMA InitInv == Init => AnswersInv
<1>. SUFFICES ASSUME Init PROVE AnswersInv
  OBVIOUS
<1>1. /\ req = Fresh(NoRequest) /\ chat = [list |-> Empty, cited |-> {}] /\ call = NoCall
      /\ setup \in Setups /\ visible = Docs /\ seen = Docs /\ changes = 0 /\ faults = 0
      /\ told = {} /\ findings = {} /\ read = Empty /\ confirmed = {} /\ status = "none" /\ turns = 0
  BY DEF Init, RetrievalInit
<1>2. /\ DOMAIN req = ReqFields
      /\ req.asks = NoRequest /\ req.pc = "idle" /\ req.history = FALSE
      /\ req.round = 1 /\ req.recall = FALSE /\ req.loaded = FALSE
      /\ req.prior = <<>> /\ req.known = {} /\ req.mode = "none"
      /\ req.ranked = Empty /\ req.batches = <<>> /\ req.matches = {}
      /\ req.unsure = FALSE /\ req.context = Empty /\ req.cited = {}
      /\ req.fallback = FALSE /\ req.broken = FALSE
  BY <1>1, FreshFields
<1>3. chat.list = Empty /\ chat.cited = {} /\ DOMAIN chat = {"list", "cited"} /\ call.pc = "idle"
  BY <1>1, NoCallType
<1>4. ~Rewriting
  BY <1>2, NobodyAsks DEF Rewriting, asked
<1>5. RetrievalInv
  <2>1. /\ DOMAIN call = CallFields /\ call.pc = "idle" /\ call.kind = "search"
        /\ call.arms = {} /\ call.down = {} /\ call.forced = FALSE /\ call.raw = FALSE
        /\ call.refs = <<>> /\ call.second = FALSE /\ call.hits = {} /\ call.linked = {}
        /\ call.ranked = <<>> /\ call.left = {} /\ call.allowed = {} /\ call.mode = "none"
    BY <1>1 DEF NoCall, CallFields
  <2>3. 0 \in 0 .. MaxChanges /\ 0 \in 0 .. MaxFaults
    BY RetrievalAssumption
  <2>2. RetrievalTypeOK
    BY <1>1, <2>1, <2>3, EmptyIsNumbered DEF RetrievalTypeOK, Modes
  <2>. QED BY <1>1, <2>1, <2>2 DEF RetrievalInv
<1>6. TypeOK
  <2>1. UNION ToSet(<<>>) = {}
    BY EmptyIsNumbered
  <2>2. RetrievalTypeOK /\ turns \in 0 .. MaxTurns /\ 1 \in 1 .. MaxRounds
    BY <1>1, <1>5, AnswersAssumption DEF RetrievalInv
  <2>3. IsNumbered(chat.list) /\ IsNumbered(req.ranked) /\ IsNumbered(req.context) /\ IsNumbered(read)
    BY <1>1, <1>2, <1>3, EmptyIsNumbered
  <2>. QED BY <1>1, <1>2, <1>3, <2>1, <2>2, <2>3, EmptyIsNumbered DEF TypeOK, Pcs, Modes
<1>7. Shape /\ Control /\ Lists /\ Checks /\ Reports
  BY <1>1, <1>2, <1>3, <1>4, EmptyIsNumbered
  DEF Shape, Control, Lists, Checks, Reports, asked, Waiting, Empty
<1>8. AnswersAuthorized /\ VerifiedOnly
  BY <1>1, <1>2, <1>3, <1>4, EmptyIsNumbered DEF AnswersAuthorized, VerifiedOnly
<1>9. SourcesHonest
  BY <1>1, <1>2, <1>3, NobodyAsks DEF SourcesHonest, asked
<1>. QED BY <1>2, <1>3, <1>5, <1>6, <1>7, <1>8, <1>9 DEF AnswersInv, Shape

(* The endpoints work, or Nextcloud changes its mind, while a request waits. *)
LEMMA CallStep ==
  ASSUME AnswersInv, RetrievalStep \/ \E d \in Docs : Share(d), UNCHANGED <<req, outcome>>
  PROVE  AnswersInv'
<1>1. /\ RetrievalInv' /\ setup' = setup /\ seen \subseteq seen'
      /\ call'.pc # "idle" \/ call' = call
      /\ \A U : ResolvesOnly(U) => ResolvesOnly(U)'
  <2>1. CASE RetrievalStep
    BY <2>1, RetrievalStepInv, StepFrame DEF AnswersInv
  <2>2. ASSUME NEW d \in Docs, Share(d)
        PROVE  RetrievalInv' /\ setup' = setup /\ seen \subseteq seen' /\ call' = call
    BY <2>2, ShareInv DEF AnswersInv
  <2>. QED BY <2>1, <2>2 DEF ResolvesOnly
<1>2. call'.pc # "idle" => call.pc # "idle"
  <2>1. RetrievalStep => call.pc # "idle"
    BY DEF RetrievalStep, LookUpName, FilesArm, VectorArm, GraphArm, TooBroad, NothingFound,
           RejectFlat, FuseFlat, Fuse, FindReferences, FindExact, AclBatch, AclFails, ReplySearch,
           LoadResolved, ReplyResolve, ReplyElastic, Checked
  <2>2. (\E d \in Docs : Share(d)) => call' = call
    BY DEF Share
  <2>. QED BY <2>1, <2>2
<1>3. UNCHANGED <<req, chat, told, findings, status, read, confirmed, turns>>
  BY DEF outcome
<1>4. TypeOK'
  BY <1>1, <1>2, <1>3 DEF AnswersInv, TypeOK, RetrievalInv, IsNumbered
<1>5. Control'
  <2>1. PICK U : U = UseReferences
    OBVIOUS
  <2>2. U = UseReferences'
    BY <1>3, <2>1 DEF UseReferences, asked
  <2>3. req.pc \in Waiting => call'.pc # "idle"
    BY <1>1 DEF AnswersInv, Control
  <2>4. req.pc \notin Waiting => call' = NoCall
    BY <1>1, <1>2, NoCallType DEF AnswersInv, Control
  <2>5. req.pc = "use" => ResolvesOnly(U)'
    BY <1>1, <2>1 DEF AnswersInv, Control
  <2>. QED BY <1>3, <2>2, <2>3, <2>4, <2>5 DEF AnswersInv, Control, asked, Searching, Listing
<1>6. Shape' /\ Lists' /\ Checks' /\ Reports'
  BY <1>3 DEF AnswersInv, Shape, Lists, Checks, Reports, Rewriting, Searching, Listing, asked
<1>7. AnswersAuthorized' /\ VerifiedOnly' /\ SourcesHonest'
  BY <1>1, <1>3
  DEF AnswersInv, AnswersAuthorized, VerifiedOnly, SourcesHonest, Rewriting, Searching, Listing, asked
<1>. QED BY <1>1, <1>4, <1>5, <1>6, <1>7 DEF AnswersInv

(* What a step has to show while the request goes on, before its answer.   *)
LEMMA Onward ==
  ASSUME AnswersInv, req.pc # "idle",
         RetrievalInv', UNCHANGED <<world, chat, told, status, read, turns>>,
         confirmed \subseteq confirmed', confirmed' \subseteq Docs,
         \/ findings' = findings
         \/ asked.kind # "use" /\ findings' \subseteq Range(req'.context),
         DOMAIN req' = ReqFields, req'.asks = asked, req'.pc \in Pcs \ {"idle", "cite", "sources"},
         req.pc \notin {"cite", "sources"},
         req'.round \in 1 .. MaxRounds, req'.mode \in Modes,
         {req'.history, req'.recall, req'.loaded, req'.unsure, req'.fallback, req'.broken} \subseteq BOOLEAN,
         req'.prior \in Seq(Docs), req'.known \subseteq Docs, req'.cited = {},
         IsNumbered(req'.ranked), req'.pc \in {"followup", "round"} => req'.ranked \in Seq(Docs),
         setup.acl => Range(req'.ranked) \cup ToSet(req'.prior) \cup Range(req'.context) \subseteq seen,
         req'.batches \in Seq(SUBSET DOMAIN req'.ranked), req'.matches \subseteq DOMAIN req'.ranked,
         {req'.ranked[n] : n \in req'.matches} \subseteq confirmed',
         req'.pc # "verify" => req'.matches = {} /\ req'.batches = <<>>,
         req'.pc \in {"judge", "review"} /\ Rewriting /\ ~Listing => Range(req'.ranked) \subseteq confirmed',
         IsNumbered(req'.context),
         \/ req'.context = req.context
         \/ /\ Rewriting /\ ~Listing => Range(req'.context) \subseteq confirmed'
            /\ asked.kind = "use" =>
                 Range(req'.context) \subseteq {chat.list[n] : n \in asked.numbers \cap DOMAIN chat.list},
         Control'
  PROVE  AnswersInv'
<1>0. UNCHANGED <<setup, visible, seen, changes, faults>>
  BY DEF world
<1>1. told = {} /\ status = "started"
  BY DEF AnswersInv, Reports, Control
<1>2. findings' \subseteq Docs /\ (setup.acl => findings' \subseteq seen)
  BY DEF AnswersInv, TypeOK, IsNumbered, AnswersAuthorized
<1>3. RetrievalTypeOK' /\ IsNumbered(chat.list)' /\ (chat.cited \subseteq DOMAIN chat.list)'
      /\ IsNumbered(read)' /\ turns' \in 0 .. MaxTurns
  BY DEF AnswersInv, TypeOK, RetrievalInv, IsNumbered
<1>4. ToSet(req'.prior) \subseteq Docs /\ UNION ToSet(req'.batches) \subseteq DOMAIN req'.ranked
  BY DEF ToSet
<1>5. call'.pc # "idle" => req'.pc \in Waiting
  BY NoCallType DEF Control
<1>6. asked \in Requests \cup {NoRequest}
  BY DEF AnswersInv, TypeOK, asked
<1>7. IsNumbered(req.ranked)' /\ IsNumbered(req.context)'
  BY DEF IsNumbered
<1>8. TypeOK'
  <2>1. /\ req'.history \in BOOLEAN /\ req'.recall \in BOOLEAN /\ req'.loaded \in BOOLEAN
        /\ {req'.unsure, req'.fallback, req'.broken} \subseteq BOOLEAN
    OBVIOUS
  <2>2. /\ (UNION ToSet(req'.batches)) \cup req'.matches \subseteq DOMAIN req'.ranked
        /\ req'.cited \subseteq DOMAIN req'.context
    BY <1>4
  <2>3. req'.asks \in Requests \cup {NoRequest} /\ req'.pc \in Pcs
    BY <1>6
  <2>4. told' \subseteq Docs /\ findings' \subseteq Docs /\ confirmed' \subseteq Docs
        /\ status' \in {"none", "started", "static", "answered", "stream_error", "cut"}
    BY <1>1, <1>2
  <2>. QED BY <1>3, <1>4, <1>5, <1>7, <2>1, <2>2, <2>3, <2>4 DEF TypeOK, Waiting
<1>9. Rewriting' = Rewriting /\ Listing' = Listing /\ asked' = asked
  BY DEF Rewriting, Searching, Listing, asked
<1>10. Shape' /\ Lists' /\ Checks' /\ Reports'
  BY <1>1, <1>9 DEF AnswersInv, Shape, Lists, Checks, Reports
<1>11. AnswersAuthorized'
  BY <1>0, <1>1, <1>2 DEF AnswersInv, AnswersAuthorized
<1>12. VerifiedOnly'
  BY <1>9 DEF AnswersInv, VerifiedOnly
<1>13. SourcesHonest'
  BY <1>1, <1>9 DEF AnswersInv, SourcesHonest
<1>. QED BY <1>8, <1>10, <1>11, <1>12, <1>13 DEF AnswersInv

(* The request as it stands, for Onward.                                   *)
LEMMA Standing ==
  ASSUME AnswersInv
  PROVE  /\ DOMAIN req = ReqFields /\ req.asks = asked
         /\ req.round \in 1 .. MaxRounds /\ req.mode \in Modes
         /\ {req.history, req.recall, req.loaded, req.unsure, req.fallback, req.broken} \subseteq BOOLEAN
         /\ req.prior \in Seq(Docs) /\ req.known \subseteq Docs
         /\ IsNumbered(req.ranked) /\ IsNumbered(req.context)
         /\ setup.acl => Range(req.ranked) \cup ToSet(req.prior) \cup Range(req.context) \subseteq seen
         /\ req.batches \in Seq(SUBSET DOMAIN req.ranked) /\ req.matches \subseteq DOMAIN req.ranked
         /\ {req.ranked[n] : n \in req.matches} \subseteq confirmed /\ confirmed \subseteq Docs
BY DEF AnswersInv, Shape, TypeOK, Lists, Checks, AnswersAuthorized, asked

LEMMA CallKept ==
  ASSUME AnswersInv, UNCHANGED <<setup, visible, seen, changes, faults, call>>
  PROVE  RetrievalInv'
BY CallMade DEF AnswersInv, RetrievalInv, RetrievalTypeOK, Found, Range, ToSet

(* From a place where nothing is being called or verified to another.      *)
LEMMA Moved ==
  ASSUME AnswersInv, NEW pc \in {"web", "answer", "review", "gate"}, NEW fallback \in BOOLEAN,
         NEW context \in {req.context, Empty},
         req' = [req EXCEPT !.pc = pc, !.context = context, !.fallback = fallback],
         UNCHANGED <<world, call, outcome>>,
         req.pc \in {"judge", "review", "gate", "web"}, pc = "review" => req.pc = "judge"
  PROVE  AnswersInv'
<1>1. /\ DOMAIN req' = ReqFields /\ req'.asks = req.asks /\ req'.pc = pc
      /\ req'.history = req.history /\ req'.round = req.round /\ req'.recall = req.recall
      /\ req'.loaded = req.loaded /\ req'.prior = req.prior /\ req'.known = req.known
      /\ req'.mode = req.mode /\ req'.ranked = req.ranked /\ req'.batches = req.batches
      /\ req'.matches = req.matches /\ req'.unsure = req.unsure /\ req'.context = context
      /\ req'.cited = req.cited /\ req'.fallback = fallback /\ req'.broken = req.broken
  BY DEF AnswersInv, Shape, ReqFields
<1>2. RetrievalInv'
  BY CallKept DEF world
<1>3. /\ call' = NoCall /\ req'.matches = {} /\ req'.batches = <<>> /\ req'.cited = {}
      /\ pc = "review" => Searching
  BY <1>1 DEF AnswersInv, Control, Waiting, Lists
<1>4. Control'
  BY <1>1, <1>3 DEF AnswersInv, Control, Waiting, asked, Searching, Listing, outcome
<1>5. IsNumbered(req'.context) /\ Range(req'.context) \subseteq Range(req.context)
  BY <1>1, Standing, EmptyIsNumbered
<1>6. /\ req'.pc \in {"judge", "review"} /\ Rewriting /\ ~Listing => Range(req'.ranked) \subseteq confirmed'
      /\ UNCHANGED <<world, chat, told, findings, status, read, confirmed, turns>>
  BY <1>1 DEF AnswersInv, Checks, outcome
<1>7. \/ req'.context = req.context
      \/ /\ Rewriting /\ ~Listing => Range(req'.context) \subseteq confirmed'
         /\ asked.kind = "use" =>
              Range(req'.context) \subseteq {chat.list[n] : n \in asked.numbers \cap DOMAIN chat.list}
  BY <1>1, EmptyIsNumbered
<1>8. req'.pc \in Pcs \ {"idle", "cite", "sources"} /\ req.pc \notin {"idle", "cite", "sources"}
  BY <1>1 DEF Pcs
<1>9. setup.acl => Range(req'.ranked) \cup ToSet(req'.prior) \cup Range(req'.context) \subseteq seen
  BY <1>1, <1>5, Standing
<1>. QED BY ZenonT(60), <1>1, <1>2, <1>3, <1>4, <1>5, <1>6, <1>7, <1>8, <1>9, Standing, Onward

(* A fixed text without sources.                                           *)
LEMMA EndInv ==
  ASSUME AnswersInv, req.pc \notin {"idle", "sources"}, End
  PROVE  AnswersInv'
<1>1. told = {} /\ findings \subseteq Docs /\ (setup.acl => findings \subseteq seen)
  BY DEF AnswersInv, Reports, TypeOK, AnswersAuthorized
<1>2. EndWith(Empty, {}, "static") /\ UNCHANGED <<world, told, findings, read, confirmed, turns>>
  BY DEF End
<1>. QED BY <1>1, <1>2, Ended, EmptyIsNumbered

LEMMA GoInv ==
  ASSUME AnswersInv, FromGeneralKnowledge \/ ToReview \/ WebGate \/ WebSearched
  PROVE  AnswersInv'
<1>1. req.pc \in {"judge", "gate", "web"}
  BY DEF FromGeneralKnowledge, ToReview, WebGate, WebSearched, Judging
<1>2. CASE End
  BY <1>1, <1>2, EndInv
<1>3. ASSUME NEW pc \in {"web", "answer", "review"}, Go(pc), pc = "review" => req.pc = "judge"
      PROVE  AnswersInv'
  <2>1. req' = [req EXCEPT !.pc = pc, !.context = req.context, !.fallback = req.fallback]
    BY <1>3 DEF Go, AnswersInv, Shape, ReqFields
  <2>2. req.fallback \in BOOLEAN
    BY Standing
  <2>. QED BY <1>1, <1>3, <2>1, <2>2, Moved DEF Go
<1>. QED BY <1>2, <1>3 DEF FromGeneralKnowledge, ToReview, WebGate, WebSearched, Judging

LEMMA TryWebInv ==
  ASSUME AnswersInv, TryWeb, req.pc \in {"judge", "review"}
  PROVE  AnswersInv'
BY Moved DEF TryWeb

LEMMA NothingUsableInv ==
  ASSUME AnswersInv, NothingUsable
  PROVE  AnswersInv'
BY EndInv, TryWebInv DEF NothingUsable, Judging

LEMMA AskedType ==
  ASSUME AnswersInv
  PROVE  asked.arms \in SUBSET Arms /\ asked.forced \in BOOLEAN
<1>1. asked \in Requests \cup {NoRequest}
  BY DEF AnswersInv, TypeOK, asked
<1>2. CASE asked \in Requests
  <2>1. asked \in
          [kind : {"ask", "list", "rawlist", "use", "elastic", "elasticlist", "web", "direct"},
           arms : SUBSET Arms, forced : BOOLEAN, complete : BOOLEAN,
           web : {"no", "asked", "allowed"}, stream : BOOLEAN, followup : BOOLEAN,
           numbers : SUBSET (Nat \ {0})]
    BY <1>2, AnswersAssumption
  <2>2. asked.arms \in SUBSET Arms
    BY <2>1
  <2>3. asked.forced \in BOOLEAN
    BY <2>1
  <2>. QED BY <2>2, <2>3
<1>3. CASE asked = NoRequest
  <2>1. NoRequest.arms = {} /\ NoRequest.forced = FALSE
    BY DEF NoRequest
  <2>. QED BY <1>3, <2>1
<1>. QED BY <1>1, <1>2, <1>3

LEMMA SeqNumbered ==
  ASSUME NEW s \in Seq(Docs)
  PROVE  IsNumbered(s) /\ Range(s) = ToSet(s)
BY DEF IsNumbered, Range, ToSet

LEMMA MergedType ==
  ASSUME NEW prior \in Seq(Docs), NEW found \in Seq(Docs), NEW s \in Merged(prior, found)
  PROVE  /\ s \in Seq(Docs) /\ IsNumbered(s)
         /\ Range(s) \subseteq ToSet(prior) \cup Range(found)
<1>1. ToSet(prior) \subseteq Docs /\ ToSet(found) \subseteq Docs /\ Range(found) = ToSet(found)
  BY DEF ToSet, Range
<1>2. CASE prior = <<>>
  BY <1>2, SeqNumbered DEF Merged
<1>3. CASE prior # <<>>
  <2>1. s \in InOrderOf(prior \o found, ToSet(prior) \cup ToSet(found))
    BY <1>3 DEF Merged
  <2>2. PICK S : S = ToSet(prior) \cup ToSet(found)
    OBVIOUS
  <2>3. s \in Seq(S) /\ ToSet(s) = S /\ S \subseteq Docs
    BY <1>1, <2>1, <2>2, InOrderType
  <2>4. s \in Seq(Docs)
    BY <2>3
  <2>. QED BY <1>1, <2>2, <2>3, <2>4, SeqNumbered
<1>. QED BY <1>2, <1>3

LEMMA AgainInv ==
  ASSUME AnswersInv, call' = SearchAgain, UNCHANGED world
  PROVE  RetrievalInv' /\ call'.pc = "files"
<1>1. RetrievalInv'
  BY CallMade, AskedType DEF AnswersInv, SearchAgain, world
<1>. QED BY <1>1 DEF SearchAgain, Search, NoCall

(* The request calls search, or waits for the documents of the answer      *)
(* before; what it knew of the round before is kept or dropped.            *)
LEMMA Calls ==
  ASSUME AnswersInv, NEW pc \in {"search", "followup"}, Searching,
         req.pc \notin {"idle", "cite", "sources", "verify"},
         RetrievalInv', call'.pc # "idle", UNCHANGED <<world, outcome>>,
         DOMAIN req' = ReqFields, req'.asks = asked, req'.pc = pc,
         req'.history = req.history, req'.round \in 1 .. MaxRounds, req'.recall \in BOOLEAN,
         req'.loaded = req.loaded, req'.prior = req.prior, req'.known \subseteq Docs,
         req'.mode \in Modes, req'.ranked \in Seq(Docs),
         setup.acl => Range(req'.ranked) \subseteq seen,
         req'.batches = req.batches, req'.matches = req.matches, req'.unsure = req.unsure,
         req'.context = req.context, req'.cited = req.cited, req'.fallback = req.fallback,
         req'.broken = req.broken
  PROVE  AnswersInv'
<1>1. req'.matches = {} /\ req'.batches = <<>> /\ req'.cited = {}
  BY DEF AnswersInv, Lists
<1>2. UNCHANGED <<chat, told, findings, status, read, confirmed, turns>>
  BY DEF outcome
<1>3. Control'
  BY <1>2 DEF AnswersInv, Control, Waiting, asked, Searching, Listing
<1>4. IsNumbered(req'.ranked)
  BY SeqNumbered
<1>5. /\ req'.pc \in Pcs \ {"idle", "cite", "sources"} /\ req'.pc \notin {"judge", "review", "verify"}
      /\ setup.acl => Range(req'.ranked) \cup ToSet(req'.prior) \cup Range(req'.context) \subseteq seen
      /\ <<>> \in Seq(SUBSET DOMAIN req'.ranked) /\ IsNumbered(req'.context)
  BY Standing DEF Pcs
<1>. QED BY <1>1, <1>2, <1>3, <1>4, <1>5, Standing, Onward

(* A round is over with these documents.                                   *)
LEMMA Rounds ==
  ASSUME AnswersInv, Searching, req.pc \in {"search", "followup"},
         call' = NoCall, UNCHANGED <<world, outcome>>,
         DOMAIN req' = ReqFields, req'.asks = asked, req'.pc = "round",
         req'.history = req.history, req'.round = req.round, req'.recall = req.recall,
         req'.loaded \in BOOLEAN, req'.prior \in Seq(Docs), req'.known = req.known,
         req'.mode \in Modes, req'.ranked \in Seq(Docs),
         setup.acl => Range(req'.ranked) \cup ToSet(req'.prior) \subseteq seen,
         req'.batches = req.batches, req'.matches = req.matches, req'.unsure = req.unsure,
         req'.context = req.context, req'.cited = req.cited, req'.fallback = req.fallback,
         req'.broken = req.broken
  PROVE  AnswersInv'
<1>1. req'.matches = {} /\ req'.batches = <<>> /\ req'.cited = {}
  BY DEF AnswersInv, Lists
<1>2. UNCHANGED <<chat, told, findings, status, read, confirmed, turns>>
  BY DEF outcome
<1>3. Control'
  BY <1>2 DEF AnswersInv, Control, Waiting, asked, Searching, Listing
<1>4. IsNumbered(req'.ranked)
  BY SeqNumbered
<1>5. /\ req'.pc \in Pcs \ {"idle", "cite", "sources"} /\ req'.pc \notin {"judge", "review", "verify"}
      /\ setup.acl => Range(req'.ranked) \cup ToSet(req'.prior) \cup Range(req'.context) \subseteq seen
      /\ <<>> \in Seq(SUBSET DOMAIN req'.ranked) /\ IsNumbered(req'.context)
  BY Standing DEF Pcs
<1>6. RetrievalInv'
  BY CallMade DEF AnswersInv, world
<1>. QED BY <1>1, <1>2, <1>3, <1>4, <1>5, <1>6, Standing, Onward

LEMMA NextRoundInv ==
  ASSUME AnswersInv, NextRound
  PROVE  AnswersInv'
<1>1. /\ DOMAIN req' = ReqFields /\ req'.asks = req.asks /\ req'.pc = "search"
      /\ req'.history = req.history /\ req'.round = req.round + 1 /\ req'.recall = req.recall
      /\ req'.loaded = req.loaded /\ req'.prior = req.prior /\ req'.known = Range(req.ranked)
      /\ req'.mode = req.mode /\ req'.ranked = <<>> /\ req'.batches = req.batches
      /\ req'.matches = req.matches /\ req'.unsure = req.unsure /\ req'.context = req.context
      /\ req'.cited = req.cited /\ req'.fallback = req.fallback /\ req'.broken = req.broken
  BY DEF NextRound, AnswersInv, Shape, ReqFields, Empty
<1>2. RetrievalInv' /\ call'.pc # "idle"
  BY AgainInv DEF NextRound
<1>3. /\ req'.round \in 1 .. MaxRounds /\ req'.known \subseteq Docs /\ req'.recall \in BOOLEAN
      /\ req'.mode \in Modes
  BY <1>1, Standing, AnswersAssumption DEF NextRound, IsNumbered
<1>4. Range(<<>>) = {} /\ <<>> \in Seq(Docs) /\ Searching /\ req.pc = "round"
  BY DEF Range, NextRound, AnswersInv, Control
<1>. QED BY <1>1, <1>2, <1>3, <1>4, Calls, Standing DEF NextRound

LEMMA NotEnoughInv ==
  ASSUME AnswersInv, NotEnough
  PROVE  AnswersInv'
<1>1. CASE /\ req.round < MaxRounds
           /\ req' = [req EXCEPT !.pc = "search", !.round = @ + 1, !.recall = TRUE, !.ranked = Empty]
           /\ call' = SearchAgain /\ UNCHANGED <<world, outcome>>
  <2>1. /\ DOMAIN req' = ReqFields /\ req'.asks = req.asks /\ req'.pc = "search"
        /\ req'.history = req.history /\ req'.round = req.round + 1 /\ req'.recall = TRUE
        /\ req'.loaded = req.loaded /\ req'.prior = req.prior /\ req'.known = req.known
        /\ req'.mode = req.mode /\ req'.ranked = <<>> /\ req'.batches = req.batches
        /\ req'.matches = req.matches /\ req'.unsure = req.unsure /\ req'.context = req.context
        /\ req'.cited = req.cited /\ req'.fallback = req.fallback /\ req'.broken = req.broken
    BY <1>1 DEF AnswersInv, Shape, ReqFields, Empty
  <2>2. RetrievalInv' /\ call'.pc # "idle"
    BY <1>1, AgainInv
  <2>3. /\ req'.round \in 1 .. MaxRounds /\ req'.known \subseteq Docs /\ req'.recall \in BOOLEAN
        /\ req'.mode \in Modes
    BY <1>1, <2>1, Standing, AnswersAssumption
  <2>4. Range(<<>>) = {} /\ <<>> \in Seq(Docs) /\ Searching /\ req.pc = "review"
    BY DEF Range, NotEnough, AnswersInv, Control
  <2>. QED BY <1>1, <2>1, <2>2, <2>3, <2>4, Calls, Standing
<1>2. CASE TryWeb \/ End
  BY <1>2, EndInv, TryWebInv DEF NotEnough
<1>. QED BY <1>1, <1>2 DEF NotEnough

(* The documents of the answer before.                                     *)
LEMMA SupportingType ==
  ASSUME AnswersInv, NEW refs \in Supporting
  PROVE  refs \in Seq(Docs)
<1>1. PICK S : S = Range(chat.list)
  OBVIOUS
<1>2. refs \in Seq(S)
  BY <1>1, OrdersType DEF Supporting
<1>. QED BY <1>1, <1>2 DEF AnswersInv, TypeOK, IsNumbered

LEMMA SearchedInv ==
  ASSUME AnswersInv, Searched
  PROVE  AnswersInv'
<1>0. /\ req.pc = "search" /\ call.pc = "back" /\ Searching /\ call.mode \in Modes
      /\ UNCHANGED <<world, outcome>>
  BY DEF Searched, Back, AnswersInv, Control, RetrievalInv, RetrievalTypeOK
<1>1. Found \in Seq(Docs) /\ (setup.acl => Range(Found) \subseteq seen)
  BY <1>0, FoundType DEF AnswersInv
<1>2. ASSUME NEW refs \in Supporting, call' = Resolve(refs),
             req' = [req EXCEPT !.pc = "followup", !.mode = call.mode, !.ranked = Found]
      PROVE  AnswersInv'
  <2>1. /\ DOMAIN req' = ReqFields /\ req'.asks = req.asks /\ req'.pc = "followup"
        /\ req'.history = req.history /\ req'.round = req.round /\ req'.recall = req.recall
        /\ req'.loaded = req.loaded /\ req'.prior = req.prior /\ req'.known = req.known
        /\ req'.mode = call.mode /\ req'.ranked = Found /\ req'.batches = req.batches
        /\ req'.matches = req.matches /\ req'.unsure = req.unsure /\ req'.context = req.context
        /\ req'.cited = req.cited /\ req'.fallback = req.fallback /\ req'.broken = req.broken
    BY <1>2 DEF AnswersInv, Shape, ReqFields
  <2>2. RetrievalInv' /\ call'.pc # "idle"
    BY <1>0, <1>2, CallMade, SupportingType DEF AnswersInv, world, Resolve, NoCall
  <2>. QED BY <1>0, <1>1, <2>1, <2>2, Calls, Standing
<1>3. ASSUME call' = NoCall, NEW ranked \in Merged(req.prior, Found),
             req' = [req EXCEPT !.pc = "round", !.mode = call.mode, !.ranked = ranked]
      PROVE  AnswersInv'
  <2>1. /\ DOMAIN req' = ReqFields /\ req'.asks = req.asks /\ req'.pc = "round"
        /\ req'.history = req.history /\ req'.round = req.round /\ req'.recall = req.recall
        /\ req'.loaded = req.loaded /\ req'.prior = req.prior /\ req'.known = req.known
        /\ req'.mode = call.mode /\ req'.ranked = ranked /\ req'.batches = req.batches
        /\ req'.matches = req.matches /\ req'.unsure = req.unsure /\ req'.context = req.context
        /\ req'.cited = req.cited /\ req'.fallback = req.fallback /\ req'.broken = req.broken
    BY <1>3 DEF AnswersInv, Shape, ReqFields
  <2>2. ranked \in Seq(Docs) /\ (setup.acl => Range(ranked) \subseteq seen)
    BY <1>1, Standing, MergedType
  <2>. QED BY <1>0, <1>3, <2>1, <2>2, Rounds, Standing
<1>. QED BY <1>2, <1>3 DEF Searched

LEMMA FollowupLoadedInv ==
  ASSUME AnswersInv, FollowupLoaded
  PROVE  AnswersInv'
<1>0. /\ req.pc = "followup" /\ call.pc = "back" /\ Searching /\ req.ranked \in Seq(Docs)
      /\ UNCHANGED <<world, outcome>> /\ call' = NoCall
  BY DEF FollowupLoaded, Back, AnswersInv, Control, Lists
<1>1. Found \in Seq(Docs) /\ (setup.acl => Range(Found) \subseteq seen) /\ ToSet(Found) = Range(Found)
  BY <1>0, FoundType DEF AnswersInv
<1>2. PICK ranked \in Merged(Found, req.ranked) :
        req' = [req EXCEPT !.pc = "round", !.loaded = TRUE, !.prior = Found, !.ranked = ranked]
  BY DEF FollowupLoaded
<1>3. /\ DOMAIN req' = ReqFields /\ req'.asks = req.asks /\ req'.pc = "round"
      /\ req'.history = req.history /\ req'.round = req.round /\ req'.recall = req.recall
      /\ req'.loaded = TRUE /\ req'.prior = Found /\ req'.known = req.known
      /\ req'.mode = req.mode /\ req'.ranked = ranked /\ req'.batches = req.batches
      /\ req'.matches = req.matches /\ req'.unsure = req.unsure /\ req'.context = req.context
      /\ req'.cited = req.cited /\ req'.fallback = req.fallback /\ req'.broken = req.broken
  BY <1>2 DEF AnswersInv, Shape, ReqFields
<1>4. ranked \in Seq(Docs) /\ (setup.acl => Range(ranked) \subseteq seen)
  BY <1>0, <1>1, Standing, MergedType
<1>. QED BY <1>0, <1>1, <1>3, <1>4, Rounds, Standing

-----------------------------------------------------------------------------
(* The verification.                                                       *)

LEMMA AtMostLeast ==
  ASSUME NEW a \in Nat, NEW b \in Nat
  PROVE  AtMost(a, b) \in Nat /\ AtMost(a, b) <= a /\ AtMost(a, b) <= b
BY DEF AtMost

(* The batches hold numbers of candidates.                                 *)
LEMMA ChunksType ==
  ASSUME NEW n \in Nat
  PROVE  Chunks(n) \in Seq(SUBSET (1 .. n))
<1>1. VerifyBatchSize \in Nat \ {0}
  BY AnswersAssumption
<1>2. (n + VerifyBatchSize - 1) \div VerifyBatchSize \in Nat
  BY <1>1
<1>3. ASSUME NEW i \in Nat \ {0}
      PROVE  (VerifyBatchSize * (i - 1) + 1) .. AtMost(VerifyBatchSize * i, n) \subseteq 1 .. n
  <2>1. VerifyBatchSize * (i - 1) \in Nat /\ VerifyBatchSize * i \in Nat
    BY <1>1
  <2>2. AtMost(VerifyBatchSize * i, n) \in Nat /\ AtMost(VerifyBatchSize * i, n) <= n
    BY <2>1, AtMostLeast
  <2>. QED BY <2>1, <2>2
<1>4. PICK D : D = SUBSET (1 .. n)
  OBVIOUS
<1>5. PICK k \in Nat : k = (n + VerifyBatchSize - 1) \div VerifyBatchSize
  BY <1>2
<1>6. Chunks(n) = [i \in 1 .. k |->
                     (VerifyBatchSize * (i - 1) + 1) .. AtMost(VerifyBatchSize * i, n)]
  BY <1>5 DEF Chunks
<1>7. \A i \in 1 .. k : (VerifyBatchSize * (i - 1) + 1) .. AtMost(VerifyBatchSize * i, n) \in D
  BY <1>3, <1>4
<1>8. Chunks(n) \in [1 .. k -> D]
  BY <1>6, <1>7
<1>. QED BY <1>4, <1>8

LEMMA RoundsOverInv ==
  ASSUME AnswersInv, RoundsOver
  PROVE  AnswersInv'
<1>0. /\ req.pc = "round" /\ Searching /\ req.ranked \in Seq(Docs) /\ req.prior \in Seq(Docs)
      /\ call = NoCall /\ UNCHANGED <<world, call, outcome>>
      /\ req.matches = {} /\ req.batches = <<>> /\ req.cited = {}
  BY DEF RoundsOver, AnswersInv, Control, Lists, Waiting
<1>a. PICK pc \in {"verify", "judge"} : \E batches :
        /\ req' = [req EXCEPT !.pc = pc, !.known = {}, !.batches = batches]
        /\ pc = "verify" => batches = Chunks(Candidates)
        /\ pc = "judge" => batches = <<>> /\ (Listing \/ ~Rewriting \/ req.ranked = Empty)
  <2>1. CASE Rewriting /\ req.ranked # Empty /\ ~Listing
    <3>1. req' = [req EXCEPT !.pc = "verify", !.known = {}, !.batches = Chunks(Candidates)]
      BY <2>1 DEF RoundsOver
    <3>. QED BY <3>1
  <2>2. CASE ~(Rewriting /\ req.ranked # Empty /\ ~Listing)
    <3>1. req' = [req EXCEPT !.pc = "judge", !.known = {}]
      BY <2>2 DEF RoundsOver
    <3>2. req' = [req EXCEPT !.pc = "judge", !.known = {}, !.batches = <<>>]
      BY <1>0, <3>1 DEF AnswersInv, Shape, ReqFields
    <3>. QED BY <2>2, <3>2
  <2>. QED BY <2>1, <2>2
<1>1. PICK batches :
        /\ req' = [req EXCEPT !.pc = pc, !.known = {}, !.batches = batches]
        /\ pc = "verify" => batches = Chunks(Candidates)
        /\ pc = "judge" => batches = <<>> /\ (Listing \/ ~Rewriting \/ req.ranked = Empty)
  BY <1>a
<1>2. /\ DOMAIN req' = ReqFields /\ req'.asks = req.asks /\ req'.pc = pc
      /\ req'.history = req.history /\ req'.round = req.round /\ req'.recall = req.recall
      /\ req'.loaded = req.loaded /\ req'.prior = req.prior /\ req'.known = {}
      /\ req'.mode = req.mode /\ req'.ranked = req.ranked /\ req'.batches = batches
      /\ req'.matches = req.matches /\ req'.unsure = req.unsure /\ req'.context = req.context
      /\ req'.cited = req.cited /\ req'.fallback = req.fallback /\ req'.broken = req.broken
  BY <1>1 DEF AnswersInv, Shape, ReqFields
<1>3. batches \in Seq(SUBSET DOMAIN req.ranked)
  <2>1. VerifyLimit \in Nat
    BY AnswersAssumption
  <2>2. Len(req.prior) \in Nat /\ Len(req.ranked) \in Nat /\ DOMAIN req.ranked = 1 .. Len(req.ranked)
    BY <1>0
  <2>3. Candidates \in Nat /\ Candidates <= Len(req.ranked)
    <3>1. VerifyLimit + Len(req.prior) \in Nat
      BY <2>1, <2>2
    <3>. QED BY <2>2, <3>1, AtMostLeast DEF Candidates
  <2>4. SUBSET (1 .. Candidates) \subseteq SUBSET DOMAIN req.ranked
    BY <2>2, <2>3
  <2>5. PICK D : D = SUBSET DOMAIN req.ranked
    OBVIOUS
  <2>6. CASE pc = "verify"
    <3>1. batches \in Seq(SUBSET (1 .. Candidates))
      BY <1>1, <2>3, <2>6, ChunksType
    <3>2. batches \in Seq(D)
      BY <2>4, <2>5, <3>1
    <3>. QED BY <2>5, <3>2
  <2>7. CASE pc = "judge"
    <3>1. batches \in Seq(D)
      BY <1>1, <2>7
    <3>. QED BY <2>5, <3>1
  <2>. QED BY <2>6, <2>7
<1>4. RetrievalInv'
  BY <1>0, CallKept DEF world
<1>5. UNCHANGED <<chat, told, findings, status, read, confirmed, turns>>
  BY <1>0 DEF outcome
<1>6. Control'
  BY <1>0, <1>2, <1>5 DEF AnswersInv, Control, Waiting, asked, Searching, Listing
<1>7. /\ req'.pc \in Pcs \ {"idle", "cite", "sources"} /\ req'.pc \notin {"followup", "round"}
      /\ req'.pc # "verify" => req'.batches = <<>>
      /\ req'.pc \in {"judge", "review"} /\ Rewriting /\ ~Listing => Range(req'.ranked) \subseteq confirmed'
  BY <1>1, <1>2, EmptyIsNumbered DEF Pcs
<1>. QED BY <1>0, <1>2, <1>3, <1>4, <1>5, <1>6, <1>7, Standing, Onward

(* A step of the verification: the batches that are left, and what matches. *)
LEMMA Verifies ==
  ASSUME AnswersInv, req.pc = "verify", UNCHANGED <<world, call, chat, told, findings, status, read, turns>>,
         DOMAIN req' = ReqFields, req'.asks = req.asks, req'.pc = req.pc,
         req'.history = req.history, req'.round = req.round, req'.recall = req.recall,
         req'.loaded = req.loaded, req'.prior = req.prior, req'.known = req.known,
         req'.mode = req.mode, req'.ranked = req.ranked,
         req'.batches \in Seq(SUBSET DOMAIN req.ranked), req'.matches \subseteq DOMAIN req.ranked,
         req'.unsure \in BOOLEAN, req'.context = req.context,
         req'.cited = req.cited, req'.fallback = req.fallback, req'.broken = req.broken,
         confirmed \subseteq confirmed', confirmed' \subseteq Docs,
         {req.ranked[n] : n \in req'.matches} \subseteq confirmed'
  PROVE  AnswersInv'
<1>1. RetrievalInv'
  BY CallKept DEF world
<1>2. Control'
  BY DEF AnswersInv, Control, Waiting, asked, Searching, Listing
<1>3. req'.pc \in Pcs \ {"idle", "cite", "sources"} /\ req'.cited = {}
  BY DEF Pcs, AnswersInv, Lists
<1>. QED BY <1>1, <1>2, <1>3, Standing, Onward

LEMMA BatchType ==
  ASSUME AnswersInv, req.batches # <<>>
  PROVE  /\ Batch \in SUBSET DOMAIN req.ranked
         /\ Tail(req.batches) \in Seq(SUBSET DOMAIN req.ranked)
         /\ \A n \in DOMAIN req.ranked : req.ranked[n] \in Docs
<1>1. PICK D : D = SUBSET DOMAIN req.ranked
  OBVIOUS
<1>2. req.batches \in Seq(D)
  BY <1>1, Standing
<1>3. Batch \in D /\ Tail(req.batches) \in Seq(D)
  BY <1>2 DEF Batch
<1>4. \A n \in DOMAIN req.ranked : req.ranked[n] \in Docs
  BY Standing DEF IsNumbered, Range
<1>. QED BY <1>1, <1>3, <1>4

LEMMA VerifyBatchInv ==
  ASSUME AnswersInv, VerifyBatch
  PROVE  AnswersInv'
<1>1. PICK matches \in SUBSET Batch, unsure \in BOOLEAN :
        /\ req' = [req EXCEPT !.batches = Tail(@), !.matches = @ \cup matches, !.unsure = @ \/ unsure]
        /\ confirmed' = confirmed \cup {req.ranked[n] : n \in matches}
  BY DEF VerifyBatch
<1>2. /\ DOMAIN req' = ReqFields /\ req'.asks = req.asks /\ req'.pc = req.pc
      /\ req'.history = req.history /\ req'.round = req.round /\ req'.recall = req.recall
      /\ req'.loaded = req.loaded /\ req'.prior = req.prior /\ req'.known = req.known
      /\ req'.mode = req.mode /\ req'.ranked = req.ranked /\ req'.batches = Tail(req.batches)
      /\ req'.matches = req.matches \cup matches /\ req'.context = req.context
      /\ req'.cited = req.cited /\ req'.fallback = req.fallback /\ req'.broken = req.broken
  BY <1>1 DEF AnswersInv, Shape, ReqFields
<1>3. req'.unsure = (req.unsure \/ unsure)
  BY <1>1 DEF AnswersInv, Shape, ReqFields
<1>4. matches \subseteq DOMAIN req.ranked /\ Tail(req.batches) \in Seq(SUBSET DOMAIN req.ranked)
  BY BatchType DEF VerifyBatch
<1>5. {req.ranked[n] : n \in matches} \subseteq Docs
  BY BatchType, <1>4 DEF VerifyBatch
<1>6. {req.ranked[n] : n \in req'.matches} \subseteq confirmed' /\ confirmed' \subseteq Docs
  BY <1>1, <1>2, <1>5, Standing
<1>7. req'.unsure \in BOOLEAN
  BY <1>3
<1>8. req'.matches \subseteq DOMAIN req.ranked
  BY <1>2, <1>4, Standing
<1>. QED BY <1>1, <1>2, <1>4, <1>6, <1>7, <1>8, Verifies DEF VerifyBatch

LEMMA VerifyFailsInv ==
  ASSUME AnswersInv, VerifyFails
  PROVE  AnswersInv'
<1>1. PICK batches \in Seq(SUBSET DOMAIN req.ranked), unsure \in BOOLEAN :
        req' = [req EXCEPT !.batches = batches, !.unsure = unsure]
  <2>1. CASE req' = [req EXCEPT !.batches = Tail(@), !.unsure = TRUE]
    BY <2>1, BatchType DEF VerifyFails
  <2>2. ASSUME NEW lower \in SUBSET Batch,
               req' = [req EXCEPT !.batches = <<lower, Batch \ lower>> \o Tail(@)]
        PROVE  \E batches \in Seq(SUBSET DOMAIN req.ranked), unsure \in BOOLEAN :
                 req' = [req EXCEPT !.batches = batches, !.unsure = unsure]
    <3>1. /\ lower \in SUBSET DOMAIN req.ranked /\ Batch \ lower \in SUBSET DOMAIN req.ranked
          /\ Tail(req.batches) \in Seq(SUBSET DOMAIN req.ranked)
      BY BatchType DEF VerifyFails
    <3>2. <<lower, Batch \ lower>> \o Tail(req.batches) \in Seq(SUBSET DOMAIN req.ranked)
      <4>1. PICK D : D = SUBSET DOMAIN req.ranked
        OBVIOUS
      <4>2. lower \in D /\ Batch \ lower \in D /\ Tail(req.batches) \in Seq(D)
        BY <3>1, <4>1
      <4>3. <<lower, Batch \ lower>> \in Seq(D)
        BY <4>2
      <4>4. <<lower, Batch \ lower>> \o Tail(req.batches) \in Seq(D)
        BY <4>2, <4>3
      <4>. QED BY <4>1, <4>4
    <3>3. req' = [req EXCEPT !.batches = <<lower, Batch \ lower>> \o Tail(req.batches),
                             !.unsure = req.unsure]
      BY <2>2 DEF AnswersInv, Shape, ReqFields
    <3>4. req.unsure \in BOOLEAN
      BY Standing
    <3>. QED BY <3>2, <3>3, <3>4
  <2>. QED BY <2>1, <2>2 DEF VerifyFails
<1>2. /\ DOMAIN req' = ReqFields /\ req'.asks = req.asks /\ req'.pc = req.pc
      /\ req'.history = req.history /\ req'.round = req.round /\ req'.recall = req.recall
      /\ req'.loaded = req.loaded /\ req'.prior = req.prior /\ req'.known = req.known
      /\ req'.mode = req.mode /\ req'.ranked = req.ranked /\ req'.batches = batches
      /\ req'.matches = req.matches /\ req'.unsure = unsure /\ req'.context = req.context
      /\ req'.cited = req.cited /\ req'.fallback = req.fallback /\ req'.broken = req.broken
  BY <1>1 DEF AnswersInv, Shape, ReqFields
<1>3. UNCHANGED <<world, call, chat, told, findings, status, read, confirmed, turns>> /\ req.pc = "verify"
  BY DEF VerifyFails, outcome
<1>. QED BY <1>1, <1>2, <1>3, Verifies, Standing

(* What is left of a numbered list keeps its numbers.                      *)
LEMMA RestrictNumbered ==
  ASSUME NEW f, IsNumbered(f), NEW S \in SUBSET DOMAIN f
  PROVE  /\ IsNumbered(Restrict(f, S)) /\ DOMAIN Restrict(f, S) = S
         /\ Range(Restrict(f, S)) = {f[n] : n \in S}
         /\ Range(Restrict(f, S)) \subseteq Range(f)
         /\ IsRestriction(Restrict(f, S), f)
BY DEF IsNumbered, Restrict, Range, IsRestriction

LEMMA VerifiedInv ==
  ASSUME AnswersInv, Verified
  PROVE  AnswersInv'
<1>1. CASE End
  BY <1>1, EndInv DEF Verified
<1>2. CASE /\ req' = [req EXCEPT !.pc = "judge", !.ranked = Restrict(@, req.matches), !.matches = {}, !.unsure = FALSE]
           /\ UNCHANGED <<world, call, outcome>>
  <2>0. req.pc = "verify" /\ req.batches = <<>>
    BY DEF Verified
  <2>1. /\ DOMAIN req' = ReqFields /\ req'.asks = req.asks /\ req'.pc = "judge"
        /\ req'.history = req.history /\ req'.round = req.round /\ req'.recall = req.recall
        /\ req'.loaded = req.loaded /\ req'.prior = req.prior /\ req'.known = req.known
        /\ req'.mode = req.mode /\ req'.ranked = Restrict(req.ranked, req.matches)
        /\ req'.batches = req.batches
        /\ req'.matches = {} /\ req'.unsure = FALSE /\ req'.context = req.context
        /\ req'.cited = req.cited /\ req'.fallback = req.fallback /\ req'.broken = req.broken
    BY <1>2 DEF AnswersInv, Shape, ReqFields
  <2>2. /\ IsNumbered(req'.ranked) /\ Range(req'.ranked) \subseteq confirmed
        /\ Range(req'.ranked) \subseteq Range(req.ranked)
    BY <2>1, Standing, RestrictNumbered
  <2>3. RetrievalInv'
    BY <1>2, CallKept DEF world
  <2>4. UNCHANGED <<chat, told, findings, status, read, confirmed, turns>>
    BY <1>2 DEF outcome
  <2>5. Control'
    BY <1>2, <2>0, <2>1, <2>4 DEF AnswersInv, Control, Waiting, asked, Searching, Listing
  <2>6. req'.pc \in Pcs \ {"idle", "cite", "sources", "verify", "followup", "round"} /\ req'.cited = {}
    BY <2>0, <2>1 DEF Pcs, AnswersInv, Lists
  <2>7. <<>> \in Seq(SUBSET DOMAIN req'.ranked) /\ FALSE \in BOOLEAN
    OBVIOUS
  <2>8. /\ req.pc # "idle" /\ req.pc \notin {"cite", "sources"}
        /\ req'.pc \notin {"followup", "round", "verify"}
    BY <2>0, <2>1
  <2>9. /\ req'.asks = asked /\ req'.round \in 1 .. MaxRounds /\ req'.mode \in Modes
        /\ {req'.history, req'.recall, req'.loaded, req'.unsure, req'.fallback, req'.broken} \subseteq BOOLEAN
        /\ req'.prior \in Seq(Docs) /\ req'.known \subseteq Docs
    BY <2>1, <2>7, Standing
  <2>10. setup.acl => Range(req'.ranked) \cup ToSet(req'.prior) \cup Range(req'.context) \subseteq seen
    BY <2>1, <2>2, Standing
  <2>11. /\ req'.batches = <<>> /\ req'.matches = {} /\ req'.context = req.context
         /\ IsNumbered(req'.context)
    BY <2>0, <2>1, Standing
  <2>12. /\ req'.batches \in Seq(SUBSET DOMAIN req'.ranked) /\ req'.matches \subseteq DOMAIN req'.ranked
         /\ {req'.ranked[n] : n \in req'.matches} \subseteq confirmed'
    BY <2>7, <2>11
  <2>13. confirmed \subseteq confirmed' /\ confirmed' \subseteq Docs /\ findings' = findings
    BY <2>4, Standing
  <2>14. /\ UNCHANGED <<world, chat, told, status, read, turns>> /\ DOMAIN req' = ReqFields
         /\ Range(req'.ranked) \subseteq confirmed'
    BY <1>2, <2>1, <2>2, <2>4
  <2>15. req'.pc \in Pcs \ {"idle", "cite", "sources"}
    BY <2>6
  <2>. QED
    BY <2>2, <2>3, <2>5, <2>6, <2>8, <2>9, <2>10, <2>11, <2>12, <2>13, <2>14, <2>15, Onward
<1>. QED BY <1>1, <1>2 DEF Verified

-----------------------------------------------------------------------------
(* From the result to the context of the answer.                           *)

LEMMA ShowListInv ==
  ASSUME AnswersInv, ShowList
  PROVE  AnswersInv'
<1>1. /\ told = {} /\ findings \subseteq Docs /\ (setup.acl => findings \subseteq seen)
      /\ IsNumbered(req.ranked) /\ (setup.acl => Range(req.ranked) \subseteq seen)
  BY Standing DEF ShowList, AnswersInv, Reports, TypeOK, AnswersAuthorized
<1>2. EndWith(req.ranked, DOMAIN req.ranked, "static")
      /\ UNCHANGED <<world, told, findings, read, confirmed, turns>>
  BY DEF ShowList
<1>. QED BY <1>1, <1>2, Ended

LEMMA ConflictInv ==
  ASSUME AnswersInv, Conflict
  PROVE  AnswersInv'
<1>1. /\ told = {} /\ findings \subseteq Docs /\ (setup.acl => findings \subseteq seen)
      /\ IsNumbered(req.ranked) /\ (setup.acl => Range(req.ranked) \subseteq seen)
      /\ Range(req.ranked) \subseteq Docs
  BY Standing DEF Conflict, AnswersInv, Reports, TypeOK, AnswersAuthorized, IsNumbered
<1>2. PICK numbers \in SUBSET DOMAIN req.ranked :
        /\ EndWith(Restrict(req.ranked, numbers), numbers, "static")
        /\ \E docs \in Reported({req.ranked[n] : n \in numbers}) : told' = told \cup docs
  BY DEF Conflict
<1>3. PICK list : list = Restrict(req.ranked, numbers)
  OBVIOUS
<1>4. /\ IsNumbered(list) /\ DOMAIN list = numbers /\ Range(list) \subseteq Range(req.ranked)
      /\ Range(list) = {req.ranked[n] : n \in numbers}
  BY <1>1, <1>3, RestrictNumbered
<1>5. told' \subseteq Range(list)
  BY <1>1, <1>2, <1>4 DEF Reported
<1>6. UNCHANGED <<world, findings, read, confirmed, turns>>
  BY DEF Conflict
<1>. QED BY <1>1, <1>2, <1>3, <1>4, <1>5, <1>6, Ended

LEMMA HeadsType ==
  ASSUME NEW list, IsNumbered(list), NEW context \in Heads(list)
  PROVE  IsNumbered(context) /\ Range(context) \subseteq Range(list)
<1>1. PICK k \in DOMAIN list : context = Restrict(list, {n \in DOMAIN list : n <= k})
  BY DEF Heads
<1>2. PICK S : S = {n \in DOMAIN list : n <= k}
  OBVIOUS
<1>. QED BY <1>1, <1>2, RestrictNumbered

LEMMA ContextsType ==
  ASSUME AnswersInv, NEW selected \in SUBSET DOMAIN req.ranked, NEW context \in Contexts(selected)
  PROVE  IsNumbered(context) /\ Range(context) \subseteq Range(req.ranked)
<1>1. CASE selected # {}
  <2>1. PICK list : list = Restrict(req.ranked, selected)
    OBVIOUS
  <2>2. IsNumbered(list) /\ Range(list) \subseteq Range(req.ranked)
    BY <2>1, Standing, RestrictNumbered
  <2>3. context \in Heads(list)
    BY <1>1, <2>1 DEF Contexts
  <2>. QED BY <2>2, <2>3, HeadsType
<1>2. CASE selected = {}
  BY <1>2, Standing, HeadsType DEF Contexts
<1>. QED BY <1>1, <1>2

(* The request goes on to its answer with a context.                       *)
TakesContext(pc, context) == req' = [req EXCEPT !.pc = pc, !.context = context]

LEMMA ContextMade ==
  ASSUME AnswersInv, NEW pc \in {"web", "answer"}, NEW context,
         req.pc \in {"review", "use", "elastic"},
         TakesContext(pc, context),
         call' = NoCall, UNCHANGED <<world, chat, told, status, read, confirmed, turns>>,
         findings' = findings \/ (asked.kind # "use" /\ findings' \subseteq Range(context)),
         IsNumbered(context), setup.acl => Range(context) \subseteq seen,
         Rewriting /\ ~Listing => Range(context) \subseteq confirmed,
         asked.kind = "use" =>
           Range(context) \subseteq {chat.list[n] : n \in asked.numbers \cap DOMAIN chat.list}
  PROVE  AnswersInv'
<1>1. /\ DOMAIN req' = ReqFields /\ req'.asks = req.asks /\ req'.pc = pc
      /\ req'.history = req.history /\ req'.round = req.round /\ req'.recall = req.recall
      /\ req'.loaded = req.loaded /\ req'.prior = req.prior /\ req'.known = req.known
      /\ req'.mode = req.mode /\ req'.ranked = req.ranked /\ req'.batches = req.batches
      /\ req'.matches = req.matches /\ req'.unsure = req.unsure /\ req'.context = context
      /\ req'.cited = req.cited /\ req'.fallback = req.fallback /\ req'.broken = req.broken
  BY DEF TakesContext, AnswersInv, Shape, ReqFields
<1>2. RetrievalInv'
  BY CallMade DEF AnswersInv, world
<1>3. Control'
  BY <1>1 DEF AnswersInv, Control, Waiting, asked
<1>4. req'.matches = {} /\ req'.batches = <<>> /\ req'.cited = {}
  BY <1>1 DEF AnswersInv, Lists
<1>5. req'.pc \in Pcs \ {"idle", "cite", "sources", "judge", "review", "verify", "followup", "round"}
  BY <1>1 DEF Pcs
<1>6. setup.acl => Range(req'.ranked) \cup ToSet(req'.prior) \cup Range(req'.context) \subseteq seen
  BY <1>1, Standing
<1>. QED BY <1>1, <1>2, <1>3, <1>4, <1>5, <1>6, Standing, Onward

LEMMA EnoughInv ==
  ASSUME AnswersInv, Enough
  PROVE  AnswersInv'
<1>1. PICK selected \in SUBSET DOMAIN req.ranked :
        \E context \in Contexts(selected) :
          /\ req' = [req EXCEPT !.pc = IF asked.web = "asked" THEN "web" ELSE "answer", !.context = context]
          /\ findings' \in {{}, IF Rewriting THEN Range(context) ELSE {}}
  BY DEF Enough
<1>2. PICK context \in Contexts(selected) :
        /\ req' = [req EXCEPT !.pc = IF asked.web = "asked" THEN "web" ELSE "answer", !.context = context]
        /\ findings' \in {{}, IF Rewriting THEN Range(context) ELSE {}}
  BY <1>1
<1>3. PICK pc \in {"web", "answer"} : pc = IF asked.web = "asked" THEN "web" ELSE "answer"
  OBVIOUS
<1>4. /\ req.pc = "review" /\ call' = NoCall
      /\ UNCHANGED <<world, chat, told, status, read, confirmed, turns>>
  BY DEF Enough, AnswersInv, Control, Waiting
<1>5. IsNumbered(context) /\ Range(context) \subseteq Range(req.ranked)
  BY ContextsType
<1>6. /\ asked.kind # "use"
      /\ Rewriting /\ ~Listing => Range(context) \subseteq confirmed
      /\ setup.acl => Range(context) \subseteq seen
  BY <1>4, <1>5, Standing DEF AnswersInv, Control, Checks, Searching, Listing
<1>7. findings' \subseteq Range(context) /\ TakesContext(pc, context)
  BY <1>2, <1>3 DEF TakesContext
<1>. QED BY <1>4, <1>5, <1>6, <1>7, ContextMade

LEMMA UseResolvedInv ==
  ASSUME AnswersInv, UseResolved
  PROVE  AnswersInv'
<1>0. req.pc = "use" /\ call.pc = "back"
  BY DEF UseResolved, Back
<1>1. CASE End
  BY <1>0, <1>1, EndInv
<1>2. CASE /\ req' = [req EXCEPT !.pc = IF asked.web = "asked" THEN "web" ELSE "answer", !.context = Found]
           /\ call' = NoCall /\ UNCHANGED <<world, outcome>>
  <2>1. PICK pc \in {"web", "answer"} : pc = IF asked.web = "asked" THEN "web" ELSE "answer"
    OBVIOUS
  <2>2. /\ asked.kind = "use" /\ asked.numbers \subseteq DOMAIN chat.list
        /\ ResolvesOnly(UseReferences)
    BY <1>0 DEF AnswersInv, Control
  <2>3. Found \in Seq(Docs) /\ (setup.acl => Range(Found) \subseteq seen)
    BY <1>0, FoundType DEF AnswersInv
  <2>4. Range(Found) \subseteq {chat.list[n] : n \in asked.numbers \cap DOMAIN chat.list}
    BY <2>2 DEF ResolvesOnly, UseReferences, Range, Found
  <2>5. UNCHANGED <<world, chat, told, findings, status, read, confirmed, turns>> /\ ~Rewriting
    BY <1>2, <2>2 DEF outcome, Rewriting, Searching, Listing
  <2>6. TakesContext(pc, Found) /\ call' = NoCall
    BY <1>2, <2>1 DEF TakesContext
  <2>7. PICK context : context = Found
    OBVIOUS
  <2>8. IsNumbered(Found)
    BY <2>3, SeqNumbered
  <2>. QED BY <1>0, <2>2, <2>3, <2>4, <2>5, <2>6, <2>7, <2>8, ContextMade
<1>. QED BY <1>1, <1>2 DEF UseResolved

LEMMA ExactFoundInv ==
  ASSUME AnswersInv, ExactFound
  PROVE  AnswersInv'
<1>0. req.pc = "elastic" /\ call.pc = "back" /\ asked.kind \in {"elastic", "elasticlist"}
  BY DEF ExactFound, Back, AnswersInv, Control
<1>1. /\ IsNumbered(Found) /\ (setup.acl => Range(Found) \subseteq seen) /\ told = {}
      /\ findings \subseteq Docs /\ (setup.acl => findings \subseteq seen)
  BY <1>0, FoundType, SeqNumbered DEF AnswersInv, Reports, TypeOK, AnswersAuthorized
<1>2. CASE End
  BY <1>0, <1>2, EndInv
<1>3. CASE /\ EndWith(Found, DOMAIN Found, "static")
           /\ UNCHANGED <<world, told, findings, read, confirmed, turns>>
  BY <1>1, <1>3, Ended
<1>4. CASE /\ \E context \in Heads(Found) : req' = [req EXCEPT !.pc = "answer", !.context = context]
           /\ call' = NoCall /\ UNCHANGED <<world, outcome>>
  <2>1. PICK context \in Heads(Found) : req' = [req EXCEPT !.pc = "answer", !.context = context]
    BY <1>4
  <2>2. IsNumbered(context) /\ Range(context) \subseteq Range(Found)
    BY <1>1, HeadsType
  <2>3. UNCHANGED <<world, chat, told, findings, status, read, confirmed, turns>> /\ ~Rewriting
    BY <1>0, <1>4 DEF outcome, Rewriting, Searching, Listing
  <2>4. /\ asked.kind # "use" /\ (setup.acl => Range(context) \subseteq seen)
        /\ TakesContext("answer", context)
    BY <1>0, <1>1, <2>1, <2>2 DEF TakesContext
  <2>. QED BY <1>0, <1>4, <2>1, <2>2, <2>3, <2>4, ContextMade
<1>. QED BY <1>2, <1>3, <1>4 DEF ExactFound

-----------------------------------------------------------------------------
(* The answer.                                                             *)

(* From the context to the text, and from the text to its sources.         *)
LEMMA Answering ==
  ASSUME AnswersInv, req.pc \in {"answer", "cite"},
         UNCHANGED <<world, call, chat, findings, status, confirmed, turns>>,
         DOMAIN req' = ReqFields, req'.asks = req.asks, req'.pc \in {"cite", "sources"},
         req'.history = req.history, req'.round = req.round, req'.recall = req.recall,
         req'.loaded = req.loaded, req'.prior = req.prior, req'.known = req.known,
         req'.mode = req.mode, req'.ranked = req.ranked, req'.batches = req.batches,
         req'.matches = req.matches, req'.unsure = req.unsure, req'.context = req.context,
         req'.cited \subseteq DOMAIN req.context, req'.fallback = req.fallback,
         req'.broken \in BOOLEAN, read' = req.context,
         told' \subseteq {req.context[n] : n \in req'.cited},
         req'.pc = "cite" => told' = {}
  PROVE  AnswersInv'
<1>1. RetrievalInv'
  BY CallKept DEF world
<1>2. told' \subseteq Range(req.context) /\ call' = NoCall
  BY DEF Range, AnswersInv, Control, Waiting
<1>3. told' \subseteq Docs /\ (setup.acl => told' \subseteq seen) /\ IsNumbered(read')
  BY <1>2, Standing DEF IsNumbered
<1>4. TypeOK'
  <2>1. RetrievalTypeOK' /\ IsNumbered(req.ranked)' /\ IsNumbered(req.context)' /\ IsNumbered(chat.list)'
        /\ IsNumbered(read)'
    BY <1>1, <1>3 DEF RetrievalInv, AnswersInv, TypeOK, IsNumbered
  <2>2. req'.pc \in Pcs /\ call'.pc = "idle"
    BY <1>2, NoCallType DEF Pcs
  <2>3. /\ req'.history \in BOOLEAN /\ req'.recall \in BOOLEAN /\ req'.loaded \in BOOLEAN
        /\ {req'.unsure, req'.fallback, req'.broken} \subseteq BOOLEAN
    BY Standing
  <2>. QED BY <1>3, <2>1, <2>2, <2>3 DEF AnswersInv, TypeOK
<1>5. Shape' /\ Control' /\ Lists' /\ Checks' /\ Reports'
  BY <1>2
  DEF AnswersInv, Shape, Control, Lists, Checks, Reports, Waiting, Rewriting, Searching, Listing, asked
<1>6. AnswersAuthorized'
  BY <1>3, Standing DEF AnswersInv, AnswersAuthorized, world
<1>7. VerifiedOnly' /\ SourcesHonest'
  BY DEF AnswersInv, VerifiedOnly, SourcesHonest, Control, Rewriting, Searching, Listing, asked
<1>. QED BY <1>1, <1>4, <1>5, <1>6, <1>7 DEF AnswersInv

LEMMA AnswerInv ==
  ASSUME AnswersInv, Answer
  PROVE  AnswersInv'
<1>1. PICK cited \in SUBSET DOMAIN req.context, broken \in BOOLEAN :
        req' = [req EXCEPT !.pc = "cite", !.cited = cited, !.broken = broken]
  BY DEF Answer
<1>2. /\ DOMAIN req' = ReqFields /\ req'.asks = req.asks /\ req'.pc = "cite"
      /\ req'.history = req.history /\ req'.round = req.round /\ req'.recall = req.recall
      /\ req'.loaded = req.loaded /\ req'.prior = req.prior /\ req'.known = req.known
      /\ req'.mode = req.mode /\ req'.ranked = req.ranked /\ req'.batches = req.batches
      /\ req'.matches = req.matches /\ req'.unsure = req.unsure /\ req'.context = req.context
      /\ req'.cited = cited /\ req'.fallback = req.fallback /\ req'.broken = broken
  BY <1>1 DEF AnswersInv, Shape, ReqFields
<1>3. /\ req.pc = "answer" /\ told' = {} /\ read' = req.context
      /\ UNCHANGED <<world, call, chat, findings, status, confirmed, turns>>
  BY DEF Answer, AnswersInv, Reports
<1>. QED BY <1>2, <1>3, Answering

LEMMA CiteInv ==
  ASSUME AnswersInv, Cite
  PROVE  AnswersInv'
<1>1. PICK cited \in Cited :
        /\ req' = [req EXCEPT !.pc = "sources", !.cited = cited]
        /\ \E docs \in Reported({req.context[n] : n \in cited}) : told' = told \cup docs
  BY DEF Cite
<1>2. /\ DOMAIN req' = ReqFields /\ req'.asks = req.asks /\ req'.pc = "sources"
      /\ req'.history = req.history /\ req'.round = req.round /\ req'.recall = req.recall
      /\ req'.loaded = req.loaded /\ req'.prior = req.prior /\ req'.known = req.known
      /\ req'.mode = req.mode /\ req'.ranked = req.ranked /\ req'.batches = req.batches
      /\ req'.matches = req.matches /\ req'.unsure = req.unsure /\ req'.context = req.context
      /\ req'.cited = cited /\ req'.fallback = req.fallback /\ req'.broken = req.broken
  BY <1>1 DEF AnswersInv, Shape, ReqFields
<1>3. /\ req.pc = "cite" /\ told = {} /\ read' = req.context
      /\ UNCHANGED <<world, call, chat, findings, status, confirmed, turns>>
  BY DEF Cite, AnswersInv, Reports
<1>4. cited \subseteq DOMAIN req.context
  BY DEF Cited, AnswersInv, TypeOK
<1>5. told' \subseteq {req.context[n] : n \in cited}
  BY <1>1, <1>3 DEF Reported
<1>6. req.broken \in BOOLEAN
  BY Standing
<1>. QED BY <1>2, <1>3, <1>4, <1>5, <1>6, Answering

LEMMA ShowSourcesInv ==
  ASSUME AnswersInv, ShowSources
  PROVE  AnswersInv'
<1>1. PICK S : S = IF asked.complete THEN DOMAIN req.context ELSE req.cited
  OBVIOUS
<1>2. PICK list : list = Shown
  OBVIOUS
<1>3. list = Restrict(req.context, S)
  BY <1>1, <1>2 DEF Shown
<1>4. /\ req.pc = "sources" /\ read = req.context /\ told \subseteq {req.context[n] : n \in req.cited}
      /\ req.cited \subseteq DOMAIN req.context
  BY DEF ShowSources, AnswersInv, Reports, TypeOK
<1>5. /\ IsNumbered(list) /\ IsRestriction(list, read) /\ DOMAIN list = S
      /\ Range(list) = {req.context[n] : n \in S} /\ Range(list) \subseteq Range(req.context)
  BY <1>1, <1>3, <1>4, Standing, RestrictNumbered
<1>6. told \subseteq Range(list)
  BY <1>1, <1>4, <1>5
<1>7. PICK how \in {"answered", "stream_error"} : EndWith(list, req.cited \cap DOMAIN list, how)
  BY <1>2 DEF ShowSources
<1>8. findings' \in {findings, Range(req.context)} /\ UNCHANGED <<world, told, read, confirmed, turns>>
  BY DEF ShowSources
<1>9. /\ told' \cup findings' \subseteq Docs
      /\ setup.acl => Range(list) \cup told' \cup findings' \subseteq seen
  BY <1>5, <1>8, Standing DEF AnswersInv, TypeOK, AnswersAuthorized, IsNumbered
<1>. QED BY <1>5, <1>6, <1>7, <1>8, <1>9, Ended

LEMMA DisconnectInv ==
  ASSUME AnswersInv, Disconnect
  PROVE  AnswersInv'
<1>1. /\ told \cup findings \subseteq Docs /\ (setup.acl => told \cup findings \subseteq seen)
      /\ EndWith(Empty, {}, "cut") /\ UNCHANGED <<world, told, findings, read, confirmed, turns>>
  BY DEF Disconnect, AnswersInv, TypeOK, AnswersAuthorized
<1>. QED BY <1>1, Ended, EmptyIsNumbered

-----------------------------------------------------------------------------
(* From the request to the first call.                                     *)

(* A new request: what the one before has seen does not count any more.    *)
LEMMA BeginInv ==
  ASSUME AnswersInv, NEW r \in Requests, Begin(r)
  PROVE  AnswersInv'
<1>1. /\ req.pc = "idle" /\ turns < MaxTurns /\ turns' = turns + 1
      /\ seen' = visible /\ told' = {} /\ findings' = {} /\ read' = Empty /\ confirmed' = {}
      /\ status' = "started" /\ UNCHANGED <<setup, visible, call, changes, faults, chat>>
  BY DEF Begin
<1>2. PICK h \in BOOLEAN : req' = [Fresh(r) EXCEPT !.pc = "plan", !.history = h]
  <2>1. req' = [Fresh(r) EXCEPT !.pc = "plan", !.history = (r.followup /\ chat.list # Empty)]
    BY DEF Begin
  <2>2. PICK h : h = (r.followup /\ chat.list # Empty)
    OBVIOUS
  <2>. QED BY <2>1, <2>2
<1>3. /\ DOMAIN req' = ReqFields
      /\ req'.asks = r /\ req'.pc = "plan" /\ req'.history = h
      /\ req'.round = 1 /\ req'.recall = FALSE /\ req'.loaded = FALSE
      /\ req'.prior = <<>> /\ req'.known = {} /\ req'.mode = "none"
      /\ req'.ranked = Empty /\ req'.batches = <<>> /\ req'.matches = {}
      /\ req'.unsure = FALSE /\ req'.context = Empty /\ req'.cited = {}
      /\ req'.fallback = FALSE /\ req'.broken = FALSE
  BY ZenonT(60), <1>2, FreshFields DEF ReqFields
<1>4. call = NoCall /\ call.pc = "idle" /\ call.allowed = {}
  BY <1>1, NoCallType DEF AnswersInv, Control, Waiting
<1>5. RetrievalInv'
  BY <1>1, <1>4 DEF AnswersInv, RetrievalInv, RetrievalTypeOK, ToSet
<1>6. TypeOK'
  <2>1. UNION ToSet(<<>>) = {}
    BY EmptyIsNumbered
  <2>2. RetrievalTypeOK' /\ turns' \in 0 .. MaxTurns /\ 1 \in 1 .. MaxRounds
    BY <1>1, <1>5, AnswersAssumption DEF AnswersInv, TypeOK, RetrievalInv
  <2>3. IsNumbered(chat.list)' /\ IsNumbered(req.ranked)' /\ IsNumbered(req.context)' /\ IsNumbered(read)'
    BY <1>1, <1>3, EmptyIsNumbered DEF AnswersInv, TypeOK, IsNumbered
  <2>4. chat'.cited \subseteq DOMAIN chat'.list
    BY <1>1 DEF AnswersInv, TypeOK
  <2>5. h \in BOOLEAN /\ FALSE \in BOOLEAN
    OBVIOUS
  <2>. QED BY <1>1, <1>3, <1>4, <2>1, <2>2, <2>3, <2>4, <2>5, EmptyIsNumbered DEF TypeOK, Pcs, Modes
<1>7. Shape' /\ Control' /\ Lists' /\ Checks' /\ Reports'
  BY <1>1, <1>3, <1>4, EmptyIsNumbered
  DEF AnswersInv, Shape, Control, Lists, Checks, Reports, asked, Waiting, Empty
<1>8. AnswersAuthorized' /\ VerifiedOnly'
  BY <1>1, <1>3, EmptyIsNumbered DEF AnswersAuthorized, VerifiedOnly
<1>9. SourcesHonest'
  BY <1>1, <1>3, EmptyIsNumbered DEF SourcesHonest
<1>. QED BY <1>5, <1>6, <1>7, <1>8, <1>9 DEF AnswersInv

LEMMA PlanInv ==
  ASSUME AnswersInv, Plan
  PROVE  AnswersInv'
<1>1. req.pc = "plan" /\ UNCHANGED <<world, outcome>> /\ call = NoCall
  BY DEF Plan, AnswersInv, Control, Waiting
<1>2. PICK pc \in {"search", "use", "elastic", "web", "answer"} : req' = [req EXCEPT !.pc = pc]
  BY DEF Plan
<1>3. /\ DOMAIN req' = ReqFields /\ req'.asks = req.asks /\ req'.pc = pc
      /\ req'.history = req.history /\ req'.round = req.round /\ req'.recall = req.recall
      /\ req'.loaded = req.loaded /\ req'.prior = req.prior /\ req'.known = req.known
      /\ req'.mode = req.mode /\ req'.ranked = req.ranked /\ req'.batches = req.batches
      /\ req'.matches = req.matches /\ req'.unsure = req.unsure /\ req'.context = req.context
      /\ req'.cited = req.cited /\ req'.fallback = req.fallback /\ req'.broken = req.broken
  BY <1>2 DEF AnswersInv, Shape, ReqFields
<1>4. UNCHANGED <<chat, told, findings, status, read, confirmed, turns>> /\ asked' = asked
  BY <1>1, <1>3 DEF outcome, asked
<1>5. RetrievalInv' /\ Control'
  <2>1. CASE Searching /\ call' = SearchAgain /\ req' = [req EXCEPT !.pc = "search"]
    <3>1. RetrievalInv' /\ call'.pc # "idle"
      BY <1>1, <2>1, AgainInv
    <3>2. req'.pc = "search"
      BY <2>1 DEF AnswersInv, Shape, ReqFields
    <3>. QED BY <1>1, <1>3, <1>4, <2>1, <3>1, <3>2
         DEF AnswersInv, Control, Waiting, asked, Searching, Listing
  <2>2. CASE /\ asked.kind = "use" /\ asked.numbers \subseteq DOMAIN chat.list
             /\ \E refs \in Orders(UseReferences) : ToSet(refs) = UseReferences /\ call' = Resolve(refs)
             /\ req' = [req EXCEPT !.pc = "use"]
    <3>0. PICK U : U = UseReferences
      OBVIOUS
    <3>1. PICK refs \in Orders(U) : ToSet(refs) = U /\ call' = Resolve(refs)
      BY <2>2, <3>0
    <3>2. U \subseteq Docs
      BY <2>2, <3>0 DEF UseReferences, AnswersInv, TypeOK, IsNumbered, Range
    <3>3. refs \in Seq(Docs)
      <4>1. refs \in Seq(U)
        BY OrdersType
      <4>. QED BY <3>2, <4>1
    <3>4. RetrievalInv'
      BY <1>1, <3>1, <3>3, CallMade DEF AnswersInv, world
    <3>5. /\ call'.kind = "resolve" /\ call'.pc = "candidates" /\ call'.refs = refs
          /\ call'.ranked = <<>>
      BY <3>1 DEF Resolve, NoCall
    <3>6. ResolvesOnly(U)'
      BY <3>1, <3>5 DEF ResolvesOnly
    <3>7. U = UseReferences'
      BY <1>4, <3>0 DEF UseReferences
    <3>8. req'.pc = "use"
      BY <2>2 DEF AnswersInv, Shape, ReqFields
    <3>9. ResolvesOnly(UseReferences)'
      BY <3>6, <3>7
    <3>. QED BY <1>1, <1>4, <2>2, <3>4, <3>5, <3>8, <3>9 DEF AnswersInv, Control, Waiting
  <2>3. CASE /\ asked.kind \in {"elastic", "elasticlist"} /\ call' = Elastic
             /\ req' = [req EXCEPT !.pc = "elastic"]
    <3>1. RetrievalInv' /\ call'.pc # "idle"
      BY <1>1, <2>3, CallMade DEF AnswersInv, world, Elastic, NoCall
    <3>2. req'.pc = "elastic"
      BY <2>3 DEF AnswersInv, Shape, ReqFields
    <3>. QED BY <1>1, <1>4, <2>3, <3>1, <3>2 DEF AnswersInv, Control, Waiting
  <2>4. CASE /\ req' = [req EXCEPT !.pc = IF asked.kind = "web" THEN "web" ELSE "answer"]
             /\ UNCHANGED call
    <3>1. RetrievalInv'
      BY <1>1, <2>4, CallKept DEF world
    <3>2. req'.pc \in {"web", "answer"}
      BY <2>4 DEF AnswersInv, Shape, ReqFields
    <3>. QED BY <1>1, <1>4, <2>4, <3>1, <3>2 DEF AnswersInv, Control, Waiting
  <2>. QED BY <2>1, <2>2, <2>3, <2>4 DEF Plan
<1>6. req'.matches = {} /\ req'.batches = <<>> /\ req'.cited = {}
  BY <1>1, <1>3 DEF AnswersInv, Lists
<1>7. req'.pc \in Pcs \ {"idle", "cite", "sources", "judge", "review", "verify", "followup", "round"}
  BY <1>3 DEF Pcs
<1>. QED BY <1>1, <1>3, <1>4, <1>5, <1>6, <1>7, Standing, Onward

-----------------------------------------------------------------------------
(* The theorems.                                                           *)

LEMMA NextInv ==
  ASSUME AnswersInv, [Next]_vars
  PROVE  AnswersInv'
<1>1. CASE \E r \in Requests : Begin(r)
  BY <1>1, BeginInv
<1>2. CASE Refuse \/ SearchFailed \/ Clarify \/ NoAnswer
  BY <1>2, EndInv DEF Refuse, SearchFailed, Clarify, NoAnswer, Back
<1>3. CASE Plan
  BY <1>3, PlanInv
<1>4. CASE Searched \/ FollowupLoaded \/ NextRound \/ RoundsOver
  BY <1>4, SearchedInv, FollowupLoadedInv, NextRoundInv, RoundsOverInv
<1>5. CASE VerifyBatch \/ VerifyFails \/ Verified
  BY <1>5, VerifyBatchInv, VerifyFailsInv, VerifiedInv
<1>6. CASE ShowList \/ NothingUsable \/ FromGeneralKnowledge \/ ToReview \/ WebGate \/ WebSearched
  BY <1>6, ShowListInv, NothingUsableInv, GoInv
<1>7. CASE NotEnough \/ Conflict \/ Enough \/ UseResolved \/ ExactFound
  BY <1>7, NotEnoughInv, ConflictInv, EnoughInv, UseResolvedInv, ExactFoundInv
<1>8. CASE Answer \/ Cite \/ ShowSources \/ Disconnect
  BY <1>8, AnswerInv, CiteInv, ShowSourcesInv, DisconnectInv
<1>9. CASE (RetrievalStep \/ \E d \in Docs : Share(d)) /\ UNCHANGED <<req, outcome>>
  BY <1>9, CallStep
<1>10. CASE UNCHANGED vars
  <2>1. UNCHANGED <<setup, visible, seen, call, changes, faults, req, chat, told, findings, status, read,
                    confirmed, turns>>
    BY <1>10 DEF vars, retrievalVars
  <2>2. UNCHANGED <<req, outcome>> /\ UNCHANGED <<setup, visible, seen, changes, faults, call>>
    BY <2>1 DEF outcome
  <2>3. RetrievalInv'
    BY <2>2, CallKept
  <2>4. TypeOK' /\ Shape' /\ Lists' /\ Checks' /\ Reports'
    BY <2>1, <2>3
    DEF AnswersInv, TypeOK, RetrievalInv, IsNumbered, Shape, Lists, Checks, Reports,
        Rewriting, Searching, Listing, asked
  <2>5. Control'
    BY <2>1 DEF AnswersInv, Control, ResolvesOnly, UseReferences, Searching, Listing, asked
  <2>6. AnswersAuthorized' /\ VerifiedOnly' /\ SourcesHonest'
    BY <2>1
    DEF AnswersInv, AnswersAuthorized, VerifiedOnly, SourcesHonest, Rewriting, Searching, Listing, asked
  <2>. QED BY <2>3, <2>4, <2>5, <2>6 DEF AnswersInv
<1>. QED BY <1>1, <1>2, <1>3, <1>4, <1>5, <1>6, <1>7, <1>8, <1>9, <1>10 DEF Next, Serve

(* The inductive invariant.  The promises alone are none: a reply is only  *)
(* harmless because its call let nothing through that was not visible      *)
(* during this request, the review only sees confirmed documents because   *)
(* every match was confirmed before, and the graph is told of shown        *)
(* sources because it is told last.                                        *)
THEOREM AnswersInvariant == Spec => []AnswersInv
<1>1. Init => AnswersInv
  BY InitInv
<1>2. AnswersInv /\ [Next]_vars => AnswersInv'
  BY NextInv
<1>. QED BY <1>1, <1>2, PTL DEF Spec

(* Whatever models answer, calls fail and permissions change: every list   *)
(* of the provider is numbered, names known documents, and a call is made  *)
(* only where chat_completions waits for one.                              *)
THEOREM AnswersTypeCorrect == Spec => []TypeOK
<1>1. AnswersInv => TypeOK
  BY DEF AnswersInv
<1>. QED BY <1>1, AnswersInvariant, PTL

(* Under live ACL nothing reaches a model, the user, the graph queue or    *)
(* the findings but what the user could read at some moment of this very   *)
(* request: filter_response_live, the two checks of /documents/resolve and *)
(* the renewed resolution of a follow-up's documents, taken together.      *)
THEOREM AnswersStayAuthorized == Spec => []AnswersAuthorized
<1>1. AnswersInv => AnswersAuthorized
  BY DEF AnswersInv
<1>. QED BY <1>1, AnswersInvariant, PTL

(* Where the question was rewritten, answers and findings are made of      *)
(* documents that _verify_exhaustive_candidates confirmed for this         *)
(* request, however its calls fail and are repeated in halves.             *)
THEOREM OnlyVerifiedUsed == Spec => []VerifiedOnly
<1>1. AnswersInv => VerifiedOnly
  BY DEF AnswersInv
<1>. QED BY <1>1, AnswersInvariant, PTL

(* The sources that _source_suffix shows are those the model has read,     *)
(* under the same numbers, the graph queue hears of shown sources only,    *)
(* and /use answers from what the answer before showed under its numbers.  *)
THEOREM SourcesStayHonest == Spec => []SourcesHonest
<1>1. AnswersInv => SourcesHonest
  BY DEF AnswersInv
<1>. QED BY <1>1, AnswersInvariant, PTL

-----------------------------------------------------------------------------
(* Fusion.  Its promises are about every list the arms may return, so the  *)
(* proof is about its operators: what they make of lists of any length.    *)
(* The filters and orders come down to Arranged, the groups of copies to a *)
(* fold.                                                                   *)

(* Order.  Arranged is well defined for what puts the members of a finite  *)
(* set in line.                                                            *)

Linear(S, before) ==
  /\ \A i \in S : <<i, i>> \notin before
  /\ \A i, j \in S : i # j => <<i, j>> \in before \/ <<j, i>> \in before
  /\ \A i, j, k \in S : <<i, j>> \in before /\ <<j, k>> \in before => <<i, k>> \in before

Numbering(S, before, order) ==
  /\ order \in [1 .. Cardinality(S) -> S]
  /\ \A i, j \in 1 .. Cardinality(S) : i < j => <<order[i], order[j]>> \in before

(* The members of a finite set in line can be numbered.                    *)
LEMMA NumberingExists ==
  ASSUME NEW S, IsFiniteSet(S), NEW before, Linear(S, before)
  PROVE  \E order : Numbering(S, before, order)
<1> DEFINE n == Cardinality(S)
           Below(i) == {j \in S : <<j, i>> \in before}
           rank == [i \in S |-> Cardinality(Below(i)) + 1]
<1>0. n \in Nat
  BY FS_CardinalityType
<1>1. ASSUME NEW i \in S
      PROVE  IsFiniteSet(Below(i)) /\ Cardinality(Below(i)) \in 0 .. n - 1
  <2>1. IsFiniteSet(S \ {i}) /\ Cardinality(S \ {i}) = n - 1
    BY FS_RemoveElement
  <2>2. Below(i) \subseteq S \ {i}
    BY DEF Linear
  <2> HIDE DEF Below, n
  <2>3. IsFiniteSet(Below(i)) /\ Cardinality(Below(i)) <= n - 1
    BY <2>1, <2>2, FS_Subset
  <2>4. Cardinality(Below(i)) \in Nat
    BY <2>3, FS_CardinalityType
  <2>. QED
    BY <1>0, <2>3, <2>4
<1>2. ASSUME NEW i \in S, NEW j \in S, <<i, j>> \in before
      PROVE  rank[i] < rank[j]
  <2>1. Below(i) \cup {i} \subseteq Below(j) /\ i \notin Below(i)
    BY <1>2 DEF Linear
  <2> HIDE DEF Below, n
  <2>2. Cardinality(Below(i) \cup {i}) = Cardinality(Below(i)) + 1
    BY <1>1, <2>1, FS_AddElement
  <2>3. Cardinality(Below(i) \cup {i}) <= Cardinality(Below(j))
    BY <1>1, <2>1, FS_Subset
  <2>4. Cardinality(Below(i)) \in Int /\ Cardinality(Below(j)) \in Int
    BY <1>1
  <2>. QED
    BY <2>2, <2>3, <2>4
<1>3. rank \in [S -> 1 .. n]
  <2> HIDE DEF Below, n
  <2>. QED
    BY <1>0, <1>1
<1> HIDE DEF rank, n
<1>4. \A i, j \in S : i # j => rank[i] # rank[j]
  <2> SUFFICES ASSUME NEW i \in S, NEW j \in S, i # j
               PROVE  rank[i] # rank[j]
    OBVIOUS
  <2>1. rank[i] \in Int /\ rank[j] \in Int
    BY <1>0, <1>3
  <2>2. rank[i] < rank[j] \/ rank[j] < rank[i]
    BY <1>2 DEF Linear
  <2>. QED
    BY <2>1, <2>2
<1>5. rank \in Surjection(S, 1 .. n)
  <2>1. rank \in Injection(S, 1 .. n)
    BY <1>3, <1>4 DEF Injection, IsInjective
  <2>2. IsFiniteSet(1 .. n) /\ Cardinality(1 .. n) = n
    BY <1>0, FS_Interval
  <2>. QED
    BY <2>1, <2>2, FS_Injection DEF n
<1> DEFINE order == [k \in 1 .. n |-> CHOOSE i \in S : rank[i] = k]
<1>6. ASSUME NEW k \in 1 .. n
      PROVE  order[k] \in S /\ rank[order[k]] = k
  BY <1>5 DEF Surjection
<1>7. order \in [1 .. n -> S]
  BY <1>6
<1>8. ASSUME NEW k \in 1 .. n, NEW l \in 1 .. n, k < l
      PROVE  <<order[k], order[l]>> \in before
  <2>1. order[k] # order[l]
    BY <1>6, <1>8
  <2>2. ~(<<order[l], order[k]>> \in before)
    <3> SUFFICES ASSUME <<order[l], order[k]>> \in before
                 PROVE  FALSE
      OBVIOUS
    <3>1. rank[order[l]] < rank[order[k]]
      BY <1>2, <1>6
    <3>2. rank[order[l]] = l /\ rank[order[k]] = k
      BY <1>6
    <3>. QED
      BY <1>8, <3>1, <3>2
  <2>. QED
    BY <1>6, <2>1, <2>2 DEF Linear
<1>. QED
  BY <1>7, <1>8 DEF Numbering, n

(* Arranged numbers them: every member once, and in order.                 *)
LEMMA ArrangedInOrder ==
  ASSUME NEW S, IsFiniteSet(S), NEW before, Linear(S, before)
  PROVE  /\ Cardinality(S) \in Nat
         /\ Arranged(S, before) \in [1 .. Cardinality(S) -> S]
         /\ \A i, j \in 1 .. Cardinality(S) :
              i < j <=> <<Arranged(S, before)[i], Arranged(S, before)[j]>> \in before
         /\ \A i, j \in 1 .. Cardinality(S) :
              Arranged(S, before)[i] = Arranged(S, before)[j] => i = j
         /\ \A x \in S : \E i \in 1 .. Cardinality(S) : Arranged(S, before)[i] = x
<1> DEFINE n == Cardinality(S)
           order == Arranged(S, before)
<1>0. n \in Nat
  BY FS_CardinalityType
<1>1. Numbering(S, before, order)
  <2>1. PICK any : Numbering(S, before, any)
    BY NumberingExists
  <2>. QED
    BY <2>1 DEF Numbering, Arranged
<1> HIDE DEF n, order
<1>2. /\ order \in [1 .. n -> S]
      /\ \A i, j \in 1 .. n : i < j => <<order[i], order[j]>> \in before
  BY <1>1 DEF Numbering, n
<1>3. \A i, j \in 1 .. n : i < j <=> <<order[i], order[j]>> \in before
  <2> SUFFICES ASSUME NEW i \in 1 .. n, NEW j \in 1 .. n, <<order[i], order[j]>> \in before, ~(i < j)
               PROVE  FALSE
    BY <1>2
  <2>1. CASE i = j
    BY <1>2, <2>1 DEF Linear
  <2>2. CASE j < i
    <3>1. <<order[j], order[i]>> \in before /\ order[i] \in S /\ order[j] \in S
      BY <1>2, <2>2
    <3>. QED
      BY <3>1 DEF Linear
  <2>. QED
    BY <1>0, <2>1, <2>2
<1>4. \A i, j \in 1 .. n : order[i] = order[j] => i = j
  <2> SUFFICES ASSUME NEW i \in 1 .. n, NEW j \in 1 .. n, order[i] = order[j], i < j
               PROVE  FALSE
    BY <1>0
  <2>. QED
    BY <1>2 DEF Linear
<1>5. \A x \in S : \E i \in 1 .. n : order[i] = x
  <2>1. order \in Injection(1 .. n, S)
    BY <1>2, <1>4 DEF Injection, IsInjective
  <2>2. IsFiniteSet(1 .. n) /\ Cardinality(1 .. n) = n
    BY <1>0, FS_Interval
  <2>3. order \in Surjection(1 .. n, S)
    BY <2>1, <2>2, FS_Injection DEF n
  <2>. QED
    BY <2>3 DEF Surjection
<1>. QED
  BY <1>0, <1>2, <1>3, <1>4, <1>5 DEF n, order

Distinct(s) == \A i, j \in DOMAIN s : s[i] = s[j] => i = j

DistinctDocs(s) == \A i, j \in DOMAIN s : s[i].doc = s[j].doc => i = j

(* t is what s has at some positions, which keep their order and move      *)
(* forward at most.                                                        *)
Selects(order, t, s, positions) ==
  /\ order \in [DOMAIN t -> positions]
  /\ \A k \in DOMAIN t : t[k] = s[order[k]] /\ k <= order[k]
  /\ \A k, l \in DOMAIN t : k < l <=> order[k] < order[l]
  /\ \A i \in positions : \E k \in DOMAIN t : order[k] = i

(* What is left of a sequence at some positions, and where it was before.  *)
LEMMA AtPositions ==
  ASSUME NEW T, NEW s \in Seq(T), NEW positions \in SUBSET (DOMAIN s)
  PROVE  /\ At(s, positions) \in Seq(T)
         /\ Len(At(s, positions)) = Cardinality(positions)
         /\ \E order : Selects(order, At(s, positions), s, positions)
<1> DEFINE before == {p \in positions \X positions : p[1] < p[2]}
           n == Cardinality(positions)
           order == Arranged(positions, before)
           t == At(s, positions)
<1>1. Len(s) \in Nat /\ DOMAIN s = 1 .. Len(s)
  OBVIOUS
<1>2. IsFiniteSet(positions) /\ positions \subseteq Nat
  <2>1. IsFiniteSet(1 .. Len(s))
    BY <1>1, FS_Interval
  <2>. QED
    BY <1>1, <2>1, FS_Subset
<1>3. Linear(positions, before)
  BY <1>2 DEF Linear
<1>4. \A i, j \in positions : <<i, j>> \in before <=> i < j
  OBVIOUS
<1> HIDE DEF before
<1>5. /\ n \in Nat
      /\ order \in [1 .. n -> positions]
      /\ \A i, j \in 1 .. n : i < j <=> <<order[i], order[j]>> \in before
      /\ \A i, j \in 1 .. n : order[i] = order[j] => i = j
      /\ \A i \in positions : \E k \in 1 .. n : order[k] = i
  BY <1>2, <1>3, ArrangedInOrder
<1>6. t = [k \in DOMAIN order |-> s[order[k]]]
  BY DEF At, before
<1> HIDE DEF order, n, t
<1>7. t \in Seq(T) /\ DOMAIN t = 1 .. n /\ Len(t) = n
  <2>1. \A k \in 1 .. n : s[order[k]] \in T
    BY <1>1, <1>5
  <2>. QED
    BY <1>5, <1>6, <2>1
<1>8. ASSUME NEW k \in 1 .. n
      PROVE  k <= order[k]
  <2> DEFINE first == 1 .. k
             room == 1 .. order[k]
             shift == [i \in first |-> order[i]]
  <2>0. order[k] \in Nat
    BY <1>2, <1>5
  <2>1. ASSUME NEW i \in first
        PROVE  order[i] \in room
    <3>1. i \in 1 .. n /\ order[i] \in positions /\ order[i] \in 1 .. Len(s)
      BY <1>1, <1>5
    <3>2. i < k => order[i] < order[k]
      BY <1>4, <1>5, <3>1
    <3>. QED
      BY <2>0, <3>1, <3>2
  <2>2. shift \in Injection(first, room)
    BY <1>5, <2>1 DEF Injection, IsInjective
  <2>3. /\ IsFiniteSet(first) /\ Cardinality(first) = k
        /\ IsFiniteSet(room) /\ Cardinality(room) = order[k]
    <3>1. order[k] >= 1
      BY <2>1
    <3>. QED
      BY <1>5, <2>0, <3>1, FS_Interval
  <2> HIDE DEF first, room, shift
  <2>. QED
    BY <2>2, <2>3, FS_Injection
<1>9. Selects(order, t, s, positions)
  BY ZenonT(30), <1>4, <1>5, <1>6, <1>7, <1>8 DEF Selects
<1>. QED
  BY <1>7, <1>9 DEF t, n

(* Of equal elements the first stays, and none moves back.                 *)
LEMMA OnceFirst ==
  ASSUME NEW T, NEW s \in Seq(T)
  PROVE  /\ Once(s) \in Seq(T) /\ Distinct(Once(s)) /\ ToSet(Once(s)) = ToSet(s)
         /\ \A i \in DOMAIN s : \E k \in DOMAIN Once(s) : k <= i /\ Once(s)[k] = s[i]
<1> DEFINE firsts == {i \in DOMAIN s : \A j \in DOMAIN s : j < i => s[j] # s[i]}
           t == Once(s)
<1>1. t = At(s, firsts) /\ firsts \in SUBSET (DOMAIN s)
  BY DEF Once
<1>2. ASSUME NEW i \in DOMAIN s
      PROVE  \E j \in firsts : s[j] = s[i] /\ j <= i
  <2> DEFINE same == {j \in DOMAIN s : s[j] = s[i]}
  <2>1. same \subseteq Nat /\ same # {}
    OBVIOUS
  <2>2. PICK j \in same : \A k \in same : ~(<<k, j>> \in OpToRel(<, Nat))
    BY <2>1, NatLessThanWellFounded, WFMin
  <2>3. \A k \in same : ~(k < j)
    BY <2>1, <2>2 DEF OpToRel
  <2>. QED
    BY <2>1, <2>3
<1> HIDE DEF firsts, t
<1>3. t \in Seq(T)
  BY <1>1, AtPositions
<1>4. PICK order : Selects(order, t, s, firsts)
  BY <1>1, AtPositions
<1>5. Distinct(t)
  <2> SUFFICES ASSUME NEW k \in DOMAIN t, NEW l \in DOMAIN t, t[k] = t[l], k < l
               PROVE  FALSE
    BY <1>3 DEF Distinct
  <2>1. order[k] \in firsts /\ order[l] \in firsts /\ order[k] < order[l] /\ s[order[k]] = s[order[l]]
    BY <1>4 DEF Selects
  <2>. QED
    BY <2>1 DEF firsts
<1>6. ASSUME NEW i \in DOMAIN s
      PROVE  \E k \in DOMAIN t : k <= i /\ t[k] = s[i]
  <2>1. PICK j \in firsts : s[j] = s[i] /\ j <= i
    BY <1>2
  <2>2. PICK k \in DOMAIN t : order[k] = j
    BY <1>4 DEF Selects
  <2>3. k <= j /\ t[k] = s[i]
    BY <1>4, <2>1, <2>2 DEF Selects
  <2>4. k \in Int /\ j \in Int /\ i \in Int
    BY <1>1, <1>3
  <2>. QED
    BY <2>1, <2>3, <2>4
<1>7. ToSet(t) = ToSet(s)
  BY <1>1, <1>4, <1>6 DEF ToSet, Selects
<1>. QED
  BY <1>3, <1>5, <1>6, <1>7 DEF t

(* A selection holds what was selected and repeats nothing anew.           *)
LEMMA AtSelected ==
  ASSUME NEW T, NEW s \in Seq(T), NEW positions \in SUBSET (DOMAIN s)
  PROVE  /\ At(s, positions) \in Seq(T)
         /\ ToSet(At(s, positions)) = {s[i] : i \in positions}
         /\ Distinct(s) => Distinct(At(s, positions))
         /\ DistinctDocs(s) => DistinctDocs(At(s, positions))
<1> DEFINE t == At(s, positions)
<1>1. t \in Seq(T)
  BY AtPositions
<1>2. PICK order : Selects(order, t, s, positions)
  BY AtPositions
<1> HIDE DEF t
<1>3. ToSet(t) = {s[i] : i \in positions}
  BY <1>2 DEF ToSet, Selects
<1>4. ASSUME NEW k \in DOMAIN t, NEW l \in DOMAIN t, k < l
      PROVE  /\ t[k] = s[order[k]] /\ t[l] = s[order[l]]
             /\ order[k] \in DOMAIN s /\ order[l] \in DOMAIN s /\ order[k] # order[l]
  <2>1. order[k] < order[l] /\ order[k] \in positions /\ order[l] \in positions
    BY <1>2, <1>4 DEF Selects
  <2>2. order[k] \in Int /\ order[l] \in Int
    BY <2>1
  <2>. QED
    BY <1>2, <2>1, <2>2 DEF Selects
<1>5. \A k, l \in DOMAIN t : k # l => k < l \/ l < k
  BY <1>1
<1>6. Distinct(s) => Distinct(t)
  BY <1>4, <1>5 DEF Distinct
<1>7. DistinctDocs(s) => DistinctDocs(t)
  BY <1>4, <1>5 DEF DistinctDocs
<1>. QED
  BY <1>1, <1>3, <1>6, <1>7 DEF t

LEMMA WithinIn ==
  ASSUME NEW T, NEW s \in Seq(T), NEW set
  PROVE  /\ Within(s, set) \in Seq(T)
         /\ ToSet(Within(s, set)) = ToSet(s) \cap set
         /\ Distinct(s) => Distinct(Within(s, set))
<1> DEFINE there == {i \in DOMAIN s : s[i] \in set}
<1>1. there \in SUBSET (DOMAIN s) /\ {s[i] : i \in there} = ToSet(s) \cap set
  BY DEF ToSet
<1>. QED
  BY <1>1, AtSelected DEF Within

LEMMA AboutIs ==
  ASSUME NEW T, NEW s \in Seq(T), NEW docs
  PROVE  /\ About(s, docs) \in Seq(T)
         /\ ToSet(About(s, docs)) = {r \in ToSet(s) : r.doc \in docs}
         /\ DistinctDocs(s) => DistinctDocs(About(s, docs))
<1> DEFINE there == {i \in DOMAIN s : s[i].doc \in docs}
<1>1. there \in SUBSET (DOMAIN s) /\ {s[i] : i \in there} = {r \in ToSet(s) : r.doc \in docs}
  BY DEF ToSet
<1>. QED
  BY <1>1, AtSelected DEF About

(* Of some places in a finite line one is the first.                       *)
LEMMA FirstOfLine ==
  ASSUME NEW S, IsFiniteSet(S), NEW before, Linear(S, before), S # {}
  PROVE  \E x \in S : \A y \in S : <<y, x>> \notin before
<1> DEFINE n == Cardinality(S)
           order == Arranged(S, before)
<1>1. n \in Nat /\ n # 0
  BY FS_CardinalityType, FS_EmptySet
<1>2. /\ order \in [1 .. n -> S]
      /\ \A i, j \in 1 .. n : i < j <=> <<order[i], order[j]>> \in before
      /\ \A x \in S : \E i \in 1 .. n : order[i] = x
  BY ArrangedInOrder
<1> HIDE DEF n, order
<1>3. 1 \in 1 .. n /\ \A i \in 1 .. n : ~(i < 1)
  BY <1>1
<1>. QED
  BY <1>2, <1>3

(* InOrder names every document of the lists once.                         *)
LEMMA InOrderEach ==
  ASSUME NEW T, NEW lists \in Seq(Seq(T)), \A r \in T : r.doc \in Docs
  PROVE  /\ InOrder(lists) \in Seq(Docs) /\ Distinct(InOrder(lists))
         /\ \A d : d \in ToSet(InOrder(lists)) <=>
                     \E i \in DOMAIN lists : \E k \in DOMAIN lists[i] : lists[i][k].doc = d
<1> DEFINE places == UNION {{i} \X (DOMAIN lists[i]) : i \in DOMAIN lists}
           before == {p \in places \X places :
                        p[1][1] < p[2][1] \/ (p[1][1] = p[2][1] /\ p[1][2] < p[2][2])}
           DocAt(p) == lists[p[1]][p[2]].doc
           firsts == {p \in places : \A q \in places : <<q, p>> \in before => DocAt(q) # DocAt(p)}
           order == Arranged(firsts, before)
           docs == InOrder(lists)
<1>1. docs = [k \in DOMAIN order |-> DocAt(order[k])]
  BY DEF InOrder
<1>2. \A i \in DOMAIN lists : lists[i] \in Seq(T)
  OBVIOUS
<1>3. IsFiniteSet(places)
  <2>1. IsFiniteSet(DOMAIN lists)
    BY FS_Interval
  <2> DEFINE part == [i \in DOMAIN lists |-> {i} \X (DOMAIN lists[i])]
             parts == {{i} \X (DOMAIN lists[i]) : i \in DOMAIN lists}
  <2>2. part \in Surjection(DOMAIN lists, parts)
    BY DEF Surjection
  <2>3. IsFiniteSet(parts)
    BY <2>1, <2>2, FS_Surjection
  <2>4. ASSUME NEW i \in DOMAIN lists
        PROVE  IsFiniteSet({i} \X (DOMAIN lists[i]))
    <3>1. IsFiniteSet(DOMAIN lists[i])
      <4>1. Len(lists[i]) \in Nat /\ DOMAIN lists[i] = 1 .. Len(lists[i])
        BY <1>2
      <4>. QED
        BY <4>1, FS_Interval
    <3>. QED
      BY <3>1, FS_Singleton, FS_Product
  <2>5. \A s \in parts : IsFiniteSet(s)
    BY <2>4
  <2>. QED
    BY <2>3, <2>5, FS_UNION
<1>4. \A p \in places : /\ p = <<p[1], p[2]>> /\ p[1] \in Nat /\ p[2] \in Nat
                         /\ p[1] \in DOMAIN lists /\ p[2] \in DOMAIN lists[p[1]]
                         /\ DocAt(p) \in Docs
  <2> SUFFICES ASSUME NEW i \in DOMAIN lists, NEW k \in DOMAIN lists[i]
               PROVE  i \in Nat /\ k \in Nat /\ lists[i][k].doc \in Docs
    OBVIOUS
  <2>1. lists[i] \in Seq(T)
    BY <1>2
  <2>. QED
    BY <2>1
<1>5. \A i \in DOMAIN lists : \A k \in DOMAIN lists[i] : <<i, k>> \in places /\ DocAt(<<i, k>>) = lists[i][k].doc
  OBVIOUS
<1>6. Linear(places, before)
  <2>1. \A p, q \in places : <<p, q>> \in before <=> p[1] < q[1] \/ (p[1] = q[1] /\ p[2] < q[2])
    OBVIOUS
  <2> HIDE DEF before, places, DocAt
  <2>0. \A p \in places : p[1] \in Nat /\ p[2] \in Nat
    BY <1>4
  <2>2. \A p \in places : <<p, p>> \notin before
    BY <2>0, <2>1
  <2>3. \A p, q \in places : p # q => <<p, q>> \in before \/ <<q, p>> \in before
    <3> SUFFICES ASSUME NEW p \in places, NEW q \in places, p # q
                 PROVE  <<p, q>> \in before \/ <<q, p>> \in before
      OBVIOUS
    <3>1. p[1] # q[1] \/ p[2] # q[2]
      BY <1>4
    <3>2. /\ p[1] \in Nat /\ p[2] \in Nat /\ q[1] \in Nat /\ q[2] \in Nat
          /\ <<p, q>> \in before <=> p[1] < q[1] \/ (p[1] = q[1] /\ p[2] < q[2])
          /\ <<q, p>> \in before <=> q[1] < p[1] \/ (q[1] = p[1] /\ q[2] < p[2])
      BY <2>0, <2>1
    <3>. QED
      BY <3>1, <3>2
  <2>4. \A p, q, r \in places : <<p, q>> \in before /\ <<q, r>> \in before => <<p, r>> \in before
    <3> SUFFICES ASSUME NEW p \in places, NEW q \in places, NEW r \in places,
                        <<p, q>> \in before, <<q, r>> \in before
                 PROVE  <<p, r>> \in before
      OBVIOUS
    <3>1. p[1] \in Nat /\ p[2] \in Nat /\ q[1] \in Nat /\ q[2] \in Nat /\ r[1] \in Nat /\ r[2] \in Nat
      BY <2>0
    <3>2. /\ p[1] < q[1] \/ (p[1] = q[1] /\ p[2] < q[2])
          /\ q[1] < r[1] \/ (q[1] = r[1] /\ q[2] < r[2])
      BY <2>1
    <3>3. p[1] < r[1] \/ (p[1] = r[1] /\ p[2] < r[2])
      BY <3>1, <3>2
    <3>. QED
      BY <2>1, <3>3
  <2>. QED
    BY <2>2, <2>3, <2>4 DEF Linear
<1> HIDE DEF before, places, DocAt, docs
<1>7. \A p \in places : \E q \in firsts : DocAt(q) = DocAt(p)
  <2> SUFFICES ASSUME NEW p \in places
               PROVE  \E q \in firsts : DocAt(q) = DocAt(p)
    OBVIOUS
  <2> DEFINE same == {q \in places : DocAt(q) = DocAt(p)}
  <2>1. IsFiniteSet(same) /\ same # {}
    BY <1>3, FS_Subset
  <2>2. Linear(same, before)
    BY <1>6 DEF Linear
  <2>3. PICK x \in same : \A y \in same : <<y, x>> \notin before
    <3> HIDE DEF same
    <3>. QED
      BY <2>1, <2>2, FirstOfLine
  <2>. QED
    BY <2>3
<1>8. \A p, q \in firsts : DocAt(p) = DocAt(q) => p = q
  BY <1>6 DEF Linear
<1>9. firsts \subseteq places /\ IsFiniteSet(firsts) /\ Linear(firsts, before)
  BY <1>3, <1>6, FS_Subset DEF Linear
<1> HIDE DEF firsts
<1>10. /\ Cardinality(firsts) \in Nat
       /\ order \in [1 .. Cardinality(firsts) -> firsts]
       /\ \A i, j \in 1 .. Cardinality(firsts) : order[i] = order[j] => i = j
       /\ \A x \in firsts : \E i \in 1 .. Cardinality(firsts) : order[i] = x
  BY <1>9, ArrangedInOrder
<1> HIDE DEF order
<1>11. docs \in Seq(Docs) /\ DOMAIN docs = 1 .. Cardinality(firsts)
  <2>1. \A k \in 1 .. Cardinality(firsts) : DocAt(order[k]) \in Docs
    BY <1>4, <1>9, <1>10
  <2>. QED
    BY <1>1, <1>10, <2>1
<1>12. Distinct(docs)
  BY SMTT(30), <1>1, <1>8, <1>10, <1>11 DEF Distinct
<1>13. ASSUME NEW d
       PROVE  d \in ToSet(docs) <=> \E p \in places : DocAt(p) = d
  BY <1>1, <1>7, <1>9, <1>10, <1>11 DEF ToSet
<1>14. ASSUME NEW d
       PROVE  (\E p \in places : DocAt(p) = d) <=>
                \E i \in DOMAIN lists : \E k \in DOMAIN lists[i] : lists[i][k].doc = d
  <2>1. ASSUME NEW p \in places, DocAt(p) = d
        PROVE  \E i \in DOMAIN lists : \E k \in DOMAIN lists[i] : lists[i][k].doc = d
    BY <1>4, <2>1 DEF DocAt
  <2>. QED
    BY <1>5, <2>1
<1>. QED
  BY <1>11, <1>12, <1>13, <1>14 DEF docs

-----------------------------------------------------------------------------
(* Folds.  What holds of 0 and is handed on holds of every number; hence a *)
(* fold over a finite set is defined, whatever order its members are taken *)
(* in.                                                                     *)

LEMMA HandedOn ==
  ASSUME NEW X, 0 \in X, NEW top \in Nat, \A n \in 0 .. top : n \in X /\ n # top => n + 1 \in X
  PROVE  0 .. top \subseteq X
<1> SUFFICES ASSUME (0 .. top) \ X # {}
             PROVE  FALSE
  OBVIOUS
<1> DEFINE rest == (0 .. top) \ X
<1>1. rest \subseteq Nat /\ rest # {}
  OBVIOUS
<1>2. PICK n \in rest : \A m \in rest : ~(<<m, n>> \in OpToRel(<, Nat))
  BY <1>1, NatLessThanWellFounded, WFMin
<1>3. \A m \in rest : ~(m < n)
  BY <1>1, <1>2 DEF OpToRel
<1>4. n # 0 /\ n \in Nat /\ n - 1 \in 0 .. top /\ n - 1 # top
  OBVIOUS
<1>5. n - 1 \in X
  BY <1>3, <1>4
<1>. QED
  BY <1>4, <1>5

(* What holds of the empty set, and of a set when it holds without one     *)
(* member, holds of every subset of a finite set.                          *)
LEMMA EverySubset ==
  ASSUME NEW S, IsFiniteSet(S), NEW X, {} \in X,
         \A s \in SUBSET S : s # {} => \E x \in s : s \ {x} \in X => s \in X
  PROVE  SUBSET S \subseteq X
<1> SUFFICES ASSUME (SUBSET S) \ X # {}
             PROVE  FALSE
  OBVIOUS
<1> DEFINE rest == (SUBSET S) \ X
<1>1. rest \subseteq FiniteSubsetsOf(S) /\ rest # {}
  BY FS_Subset DEF FiniteSubsetsOf
<1>2. PICK s \in rest : \A t \in rest : ~(<<t, s>> \in StrictSubsetOrdering(S))
  <2> HIDE DEF rest
  <2>. QED
    BY <1>1, FS_StrictSubsetOrderingWellFounded, WFMin
<1>3. PICK x \in s : s \ {x} \in X => s \in X
  OBVIOUS
<1>4. s \ {x} \in SUBSET S /\ <<s \ {x}, s>> \in StrictSubsetOrdering(S)
  BY DEF StrictSubsetOrdering
<1>. QED
  BY <1>2, <1>3, <1>4

Folds(h, sets, first, step, base) ==
  \A s \in sets : h[s] = IF s = {} THEN base ELSE step[<<first[s], h[s \ {first[s]}]>>]

(* The equation by which a fold is defined has a solution of the type.     *)
LEMMA FoldExists ==
  ASSUME NEW S, IsFiniteSet(S), NEW A, NEW base \in A,
         NEW first, \A s \in SUBSET S : s # {} => first[s] \in s,
         NEW step, \A x \in S, v \in A : step[<<x, v>>] \in A
  PROVE  \E h \in [SUBSET S -> A] : Folds(h, SUBSET S, first, step, base)
<1> DEFINE Small(n) == {s \in SUBSET S : Cardinality(s) <= n}
           Good(n) == \E h \in [Small(n) -> A] : Folds(h, Small(n), first, step, base)
           top == Cardinality(S)
<1>1. \A s \in SUBSET S : IsFiniteSet(s) /\ Cardinality(s) \in Nat /\ Cardinality(s) <= top
  BY FS_Subset, FS_CardinalityType
<1>2. top \in Nat
  BY FS_CardinalityType
<1>3. ASSUME NEW s \in SUBSET S, s # {}
      PROVE  s \ {first[s]} \in SUBSET S /\ Cardinality(s \ {first[s]}) = Cardinality(s) - 1
  BY <1>1, <1>3, FS_RemoveElement
<1> HIDE DEF top
<1>4. Good(0)
  <2> DEFINE h == [s \in Small(0) |-> base]
  <2>1. \A s \in Small(0) : s = {}
    BY <1>1, FS_EmptySet
  <2>2. h \in [Small(0) -> A] /\ Folds(h, Small(0), first, step, base)
    BY <2>1 DEF Folds
  <2>. QED
    BY <2>2
<1>5. ASSUME NEW n \in Nat, Good(n)
      PROVE  Good(n + 1)
  <2>1. PICK h \in [Small(n) -> A] : Folds(h, Small(n), first, step, base)
    BY <1>5
  <2> DEFINE g == [s \in Small(n + 1) |-> IF s = {} THEN base ELSE step[<<first[s], h[s \ {first[s]}]>>]]
  <2>2. ASSUME NEW s \in Small(n + 1), s # {}
        PROVE  s \ {first[s]} \in Small(n) /\ first[s] \in S
    BY <1>1, <1>3, <2>2
  <2>3. \A s \in Small(n) : s \in Small(n + 1) /\ g[s] = h[s]
    BY <1>1, <2>1 DEF Folds
  <2> HIDE DEF Small
  <2>4. g \in [Small(n + 1) -> A]
    <3>1. \A s \in Small(n + 1) : s # {} => h[s \ {first[s]}] \in A
      BY <2>2
    <3>. QED
      BY <2>2, <3>1
  <2>5. Folds(g, Small(n + 1), first, step, base)
    <3> SUFFICES ASSUME NEW s \in Small(n + 1)
                 PROVE  g[s] = IF s = {} THEN base ELSE step[<<first[s], g[s \ {first[s]}]>>]
      BY DEF Folds
    <3>1. s # {} => g[s \ {first[s]}] = h[s \ {first[s]}]
      BY <2>2, <2>3
    <3>. QED
      BY <3>1
  <2>. QED
    BY <2>4, <2>5
<1> HIDE DEF Good
<1>6. Good(top)
  <2> DEFINE X == {n \in Nat : Good(n)}
  <2>1. 0 \in X /\ \A n \in 0 .. top : n \in X /\ n # top => n + 1 \in X
    BY <1>2, <1>4, <1>5
  <2> HIDE DEF X
  <2>2. 0 .. top \subseteq X
    BY <1>2, <2>1, HandedOn
  <2>. QED
    BY <1>2, <2>2 DEF X
<1>7. Small(top) = SUBSET S
  BY <1>1
<1> HIDE DEF Small
<1>. QED
  BY <1>6, <1>7 DEF Good

(* A sum of natural numbers is one.                                        *)
LEMMA SumNat ==
  ASSUME NEW f, IsFiniteSet(DOMAIN f), \A x \in DOMAIN f : f[x] \in Nat
  PROVE  SumFunction(f) \in Nat
<1> DEFINE S == DOMAIN f
           Follows(sum) ==
             sum = [s \in SUBSET S |-> IF s = {} THEN 0
                     ELSE f[CHOOSE x \in s : TRUE] + sum[s \ {CHOOSE x \in s : TRUE}]]
           fold == CHOOSE sum : Follows(sum)
           first == [s \in SUBSET S |-> CHOOSE x \in s : TRUE]
           step == [p \in S \X Nat |-> f[p[1]] + p[2]]
<1>1. SumFunction(f) = fold[S]
  BY Zenon DEF SumFunction, SumFunctionOnSet, FoldFunction, FoldFunctionOnSet, MapThenFoldSet
<1>2. \A s \in SUBSET S : s # {} => first[s] \in s
  OBVIOUS
<1>3. \A x \in S, v \in Nat : step[<<x, v>>] = f[x] + v /\ step[<<x, v>>] \in Nat
  OBVIOUS
<1>4. PICK h \in [SUBSET S -> Nat] : Folds(h, SUBSET S, first, step, 0)
  <2> HIDE DEF S, first, step
  <2>. QED
    BY <1>2, <1>3, FoldExists DEF S
<1>5. Follows(h)
  <2>1. ASSUME NEW s \in SUBSET S
        PROVE  h[s] = IF s = {} THEN 0 ELSE f[CHOOSE x \in s : TRUE] + h[s \ {CHOOSE x \in s : TRUE}]
    <3>1. CASE s = {}
      BY <1>4, <3>1 DEF Folds
    <3>2. CASE s # {}
      <4>1. first[s] = (CHOOSE x \in s : TRUE) /\ first[s] \in S
        BY <1>2, <3>2
      <4>2. h[s \ {first[s]}] \in Nat
        OBVIOUS
      <4>3. h[s] = step[<<first[s], h[s \ {first[s]}]>>]
        BY <1>4, <3>2 DEF Folds
      <4>4. h[s] = f[first[s]] + h[s \ {first[s]}]
        BY <1>3, <4>1, <4>2, <4>3
      <4>. QED
        BY <3>2, <4>1, <4>4
    <3>. QED
      BY <3>1, <3>2
  <2>. QED
    BY <2>1
<1> HIDE DEF Follows
<1>6. Follows(fold)
  BY <1>5
<1> HIDE DEF fold
<1>7. \A s \in SUBSET S : fold[s] =
        IF s = {} THEN 0 ELSE f[first[s]] + fold[s \ {first[s]}]
  BY <1>6 DEF Follows
<1> DEFINE X == {s \in SUBSET S : fold[s] \in Nat}
<1>8. \A s \in SUBSET S : s # {} => \E x \in s : s \ {x} \in X => s \in X
  <2> SUFFICES ASSUME NEW s \in SUBSET S, s # {}, s \ {first[s]} \in X
               PROVE  fold[s] \in Nat
    BY <1>2
  <2>1. fold[s] = f[first[s]] + fold[s \ {first[s]}]
    BY <1>7
  <2>2. f[first[s]] \in Nat /\ fold[s \ {first[s]}] \in Nat
    BY <1>2
  <2>. QED
    BY <2>1, <2>2
<1>9. {} \in X
  <2>1. fold[{}] = 0
    BY <1>7
  <2>. QED
    BY <2>1
<1>10. IsFiniteSet(S)
  OBVIOUS
<1>11. ASSUME NEW R, R = S, NEW Y, Y = X
       PROVE  SUBSET R \subseteq Y
  <2>1. IsFiniteSet(R) /\ {} \in Y
    BY <1>9, <1>10, <1>11
  <2>2. \A s \in SUBSET R : s # {} => \E x \in s : s \ {x} \in Y => s \in Y
    <3> HIDE DEF X, S
    <3>. QED
      BY <1>8, <1>11
  <2> HIDE DEF X, S
  <2>. QED
    BY <2>1, <2>2, EverySubset
<1>12. SUBSET S \subseteq X
  <2> HIDE DEF X, S
  <2>. QED
    BY <1>11
<1>. QED
  BY <1>1, <1>12

LEMMA MaxOf ==
  ASSUME NEW n \in Nat, NEW s \in SUBSET (1 .. n), s # {}
  PROVE  Max(s) \in s /\ \A y \in s : Max(s) >= y
<1> DEFINE before == {p \in s \X s : p[1] > p[2]}
<1>1. IsFiniteSet(s)
  <2>1. IsFiniteSet(1 .. n)
    BY FS_Interval
  <2>. QED
    BY <2>1, FS_Subset
<1>2. Linear(s, before)
  BY DEF Linear
<1>3. PICK x \in s : \A y \in s : <<y, x>> \notin before
  <2> HIDE DEF before
  <2>. QED
    BY <1>1, <1>2, FirstOfLine
<1>4. \A y \in s : x >= y
  <2>1. \A y \in s : ~(y > x)
    BY <1>3
  <2>. QED
    BY <2>1
<1>. QED
  BY <1>4 DEF Max

LEMMA MaxOfFirst ==
  ASSUME NEW k \in Nat, k # 0
  PROVE  Max(1 .. k) = k /\ (1 .. k) \ {k} = 1 .. (k - 1)
<1>1. Max(1 .. k) \in 1 .. k /\ \A y \in 1 .. k : Max(1 .. k) >= y
  <2> DEFINE s == 1 .. k
  <2>1. s \in SUBSET (1 .. k) /\ s # {}
    OBVIOUS
  <2> HIDE DEF s
  <2>2. Max(s) \in s /\ \A y \in s : Max(s) >= y
    BY <2>1, MaxOf
  <2>. QED
    BY <2>2 DEF s
<1>. QED
  BY <1>1

-----------------------------------------------------------------------------
(* Groups.                                                                 *)

Rec == [doc : Docs, copies : SUBSET Docs, ranks : [Arms -> Nat], texts : SUBSET ({"files", "vector", "graph"} \X Docs), score : Nat]
Group == [first : Rec, now : Rec]

(* Merging what two arms know of a document changes neither it nor its     *)
(* copies.                                                                 *)
LEMMA ProvenanceType ==
  ASSUME NEW r \in Rec, NEW s \in Rec
  PROVE  /\ Provenance(r, s) \in Rec
         /\ Provenance(r, s).doc = r.doc /\ Provenance(r, s).copies = r.copies
BY DEF Provenance, Rec

AlikeTo(groups, s) == {i \in DOMAIN groups : Alike(groups[i].first, s)}
Widened(groups, i, s) == [groups EXCEPT ![i].now = Joining(@, s)]
FirstAlike(groups, s) == CHOOSE i \in AlikeTo(groups, s) : \A j \in AlikeTo(groups, s) : i <= j

LEMMA JoiningType ==
  ASSUME NEW r \in Rec, NEW s \in Rec
  PROVE  /\ Joining(r, s) \in Rec /\ Joining(r, s).doc = r.doc
         /\ Joining(r, s).copies = r.copies \cup {s.doc} \cup s.copies
<1>1. Provenance(r, s) \in Rec /\ Provenance(r, s).doc = r.doc /\ Provenance(r, s).copies = r.copies
  BY ProvenanceType
<1>2. r.copies \cup {s.doc} \cup s.copies \in SUBSET Docs
  BY DEF Rec
<1>. QED
  BY <1>1, <1>2 DEF Joining, Rec

(* What may become of a record: left out, a group of its own, or a copy in *)
(* another.                                                                *)
LEMMA CollectCases ==
  ASSUME NEW max \in Nat, NEW groups \in Seq(Group), NEW s \in Rec
  PROVE  \/ Len(groups) = max /\ Collect(max, groups, s) = groups
         \/ /\ Len(groups) # max /\ AlikeTo(groups, s) = {}
            /\ Collect(max, groups, s) = Append(groups, [first |-> s, now |-> s])
         \/ \E i \in AlikeTo(groups, s) :
              Collect(max, groups, s) = Widened(groups, i, s)
<1>1. CASE AlikeTo(groups, s) = {}
  BY <1>1 DEF Collect, AlikeTo
<1>2. CASE AlikeTo(groups, s) # {}
  <2> DEFINE a == AlikeTo(groups, s)
             before == {p \in a \X a : p[1] < p[2]}
  <2>1. IsFiniteSet(a) /\ a \subseteq Nat
    <3>1. Len(groups) \in Nat /\ DOMAIN groups = 1 .. Len(groups)
      OBVIOUS
    <3>. QED
      <4>1. IsFiniteSet(1 .. Len(groups)) /\ a \subseteq 1 .. Len(groups)
        BY <3>1, FS_Interval DEF AlikeTo
      <4>. QED
        BY <4>1, FS_Subset
  <2>2. Linear(a, before)
    <3> HIDE DEF a
    <3>. QED
      BY <2>1 DEF Linear
  <2>3. PICK x \in a : \A y \in a : <<y, x>> \notin before
    <3> HIDE DEF a, before
    <3>. QED
      BY <1>2, <2>1, <2>2, FirstOfLine DEF a
  <2>4. \A y \in a : x <= y
    <3>1. \A y \in a : ~(y < x)
      BY <2>3
    <3>. QED
      BY <2>1, <3>1
  <2>5. FirstAlike(groups, s) \in a
    BY <2>4 DEF FirstAlike
  <2>6. Len(groups) # max => Collect(max, groups, s) = Widened(groups, FirstAlike(groups, s), s)
    BY <1>2, Zenon DEF Collect, AlikeTo, FirstAlike, Widened
  <2>7. Len(groups) = max => Collect(max, groups, s) = groups
    BY DEF Collect
  <2>. QED
    BY <2>5, <2>6, <2>7
<1>. QED
  BY <1>1, <1>2

LEMMA CollectType ==
  ASSUME NEW max \in Nat, NEW groups \in Seq(Group), NEW s \in Rec
  PROVE  Collect(max, groups, s) \in Seq(Group)
<1>1. [first |-> s, now |-> s] \in Group
  BY DEF Group
<1>2. ASSUME NEW i \in AlikeTo(groups, s)
      PROVE  Widened(groups, i, s) \in Seq(Group)
  <2>1. i \in DOMAIN groups /\ groups[i] \in Group
    BY DEF AlikeTo
  <2>2. Joining(groups[i].now, s) \in Rec
    BY <2>1, JoiningType DEF Group
  <2>3. [groups[i] EXCEPT !.now = Joining(@, s)] \in Group
    BY <2>1, <2>2 DEF Group
  <2>. QED
    BY <2>1, <2>3 DEF Widened
<1>3. Append(groups, [first |-> s, now |-> s]) \in Seq(Group)
  BY <1>1
<1>. QED
  BY <1>2, <1>3, CollectCases

(* Grouped is reached group by group: the fold over the records, step by   *)
(* step.                                                                   *)
LEMMA GroupSteps ==
  ASSUME NEW max \in Nat, NEW records \in Seq(Rec)
  PROVE  \E g : /\ g \in [0 .. Len(records) -> Seq(Group)]
                /\ g[0] = <<>>
                /\ \A k \in 1 .. Len(records) : g[k] = Collect(max, g[k - 1], records[k])
                /\ Grouped(max, records) = [i \in DOMAIN g[Len(records)] |-> g[Len(records)][i].now]
<1> DEFINE S == DOMAIN records
           n == Len(records)
           Follows(f) ==
             f = [s \in SUBSET S |-> IF s = {} THEN <<>>
                     ELSE Collect(max, f[s \ {Max(s)}], records[Max(s)])]
           fold == CHOOSE f : Follows(f)
           first == [s \in SUBSET S |-> Max(s)]
           step == [p \in S \X Seq(Group) |-> Collect(max, p[2], records[p[1]])]
<1>1. Grouped(max, records) = [i \in DOMAIN fold[S] |-> fold[S][i].now]
  BY Zenon DEF Grouped, FoldLeft, MapThenFoldSet
<1>2. n \in Nat /\ S = 1 .. n /\ \A i \in S : records[i] \in Rec
  OBVIOUS
<1>3. \A s \in SUBSET S : s # {} => first[s] \in s
  BY <1>2, MaxOf
<1>4. \A x \in S, v \in Seq(Group) : step[<<x, v>>] = Collect(max, v, records[x]) /\ step[<<x, v>>] \in Seq(Group)
  BY CollectType
<1>5. PICK h \in [SUBSET S -> Seq(Group)] : Folds(h, SUBSET S, first, step, <<>>)
  <2>1. IsFiniteSet(S) /\ <<>> \in Seq(Group)
    BY <1>2, FS_Interval
  <2> HIDE DEF S, first, step
  <2>. QED
    BY <1>3, <1>4, <2>1, FoldExists
<1>6. Follows(h)
  <2>1. ASSUME NEW s \in SUBSET S
        PROVE  h[s] = IF s = {} THEN <<>> ELSE Collect(max, h[s \ {Max(s)}], records[Max(s)])
    <3>1. CASE s = {}
      BY <1>5, <3>1 DEF Folds
    <3>2. CASE s # {}
      <4>1. first[s] = Max(s) /\ first[s] \in S
        BY <1>3, <3>2
      <4>2. h[s \ {first[s]}] \in Seq(Group)
        OBVIOUS
      <4>3. h[s] = step[<<first[s], h[s \ {first[s]}]>>]
        BY <1>5, <3>2 DEF Folds
      <4> HIDE DEF step, first, S
      <4>4. h[s] = Collect(max, h[s \ {first[s]}], records[first[s]])
        BY <1>4, <4>1, <4>2, <4>3
      <4>. QED
        BY <3>2, <4>1, <4>4
    <3>. QED
      BY <3>1, <3>2
  <2>. QED
    BY <2>1
<1> HIDE DEF Follows
<1>7. Follows(fold)
  BY <1>6
<1> HIDE DEF fold
<1>8. \A s \in SUBSET S : fold[s] =
        IF s = {} THEN <<>> ELSE Collect(max, fold[s \ {Max(s)}], records[Max(s)])
  BY <1>7 DEF Follows
<1> HIDE DEF S, n
<1> DEFINE g == [k \in 0 .. n |-> fold[1 .. k]]
<1>9. g[0] = <<>>
  <2>1. g[0] = fold[1 .. 0]
    BY <1>2
  <2>2. 1 .. 0 = {}
    OBVIOUS
  <2>3. fold[{}] = <<>>
    BY <1>8
  <2>. QED
    BY <2>1, <2>2, <2>3
<1>10. ASSUME NEW k \in 1 .. n
       PROVE  g[k] = Collect(max, g[k - 1], records[k])
  <2>1. Max(1 .. k) = k /\ (1 .. k) \ {k} = 1 .. (k - 1)
    BY MaxOfFirst
  <2>2. 1 .. k \in SUBSET S /\ 1 .. k # {} /\ k \in 0 .. n /\ k - 1 \in 0 .. n
    <3>1. k \in Nat /\ 1 <= k /\ k <= n
      BY <1>2
    <3>2. n \in Nat /\ S = 1 .. n
      BY <1>2
    <3>3. 1 .. k \subseteq 1 .. n /\ k \in 1 .. k
      BY <3>1, <3>2
    <3>4. k \in 0 .. n /\ k - 1 \in 0 .. n
      BY <3>1, <3>2
    <3>5. 1 .. k \in SUBSET S /\ 1 .. k # {}
      BY <3>2, <3>3, Zenon
    <3>. QED
      BY <3>4, <3>5
  <2>3. fold[1 .. k] = Collect(max, fold[1 .. (k - 1)], records[k])
    BY <1>8, <2>1, <2>2
  <2>. QED
    BY <2>2, <2>3
<1>11. g[n] = fold[S]
  BY <1>2
<1> HIDE DEF g
<1>12. g \in [0 .. n -> Seq(Group)]
  <2> DEFINE X == {k \in 0 .. n : g[k] \in Seq(Group)}
  <2>1. 0 \in X
    <3>1. 0 \in 0 .. n /\ <<>> \in Seq(Group)
      BY <1>2
    <3>. QED
      BY <1>9, <3>1
  <2>2. \A k \in 0 .. n : k \in X /\ k # n => k + 1 \in X
    <3> SUFFICES ASSUME NEW k \in 0 .. n, k \in X, k # n
                 PROVE  k + 1 \in 0 .. n /\ g[k + 1] \in Seq(Group)
      OBVIOUS
    <3>1. k + 1 \in 1 .. n /\ (k + 1) - 1 = k
      BY <1>2
    <3>2. g[k + 1] = Collect(max, g[k], records[k + 1])
      BY <1>10, <3>1
    <3>. QED
      BY <1>2, <3>1, <3>2, CollectType
  <2> HIDE DEF X
  <2>3. 0 .. n \subseteq X
    BY <1>2, <2>1, <2>2, HandedOn
  <2>4. \A k \in 0 .. n : g[k] \in Seq(Group)
    BY <2>3 DEF X
  <2>5. g = [k \in 0 .. n |-> g[k]]
    BY DEF g
  <2>. QED
    BY <2>4, <2>5
<1>. QED
  <2>1. Grouped(max, records) = [i \in DOMAIN g[n] |-> g[n][i].now]
    BY <1>1, <1>11
  <2>. QED
    BY <1>9, <1>10, <1>12, <2>1 DEF n

(* A copy that joins a group changes no other, and takes its own copies    *)
(* along.                                                                  *)
LEMMA WidenedIs ==
  ASSUME NEW groups \in Seq(Group), NEW s \in Rec, NEW i \in AlikeTo(groups, s)
  PROVE  /\ Widened(groups, i, s) \in Seq(Group) /\ Len(Widened(groups, i, s)) = Len(groups)
         /\ i \in 1 .. Len(groups)
         /\ \A j \in 1 .. Len(groups) :
              /\ Widened(groups, i, s)[j].first = groups[j].first
              /\ Widened(groups, i, s)[j].now.doc = groups[j].now.doc
              /\ groups[j].now.copies \subseteq Widened(groups, i, s)[j].now.copies
              /\ j # i => Widened(groups, i, s)[j] = groups[j]
         /\ Widened(groups, i, s)[i].now.copies = groups[i].now.copies \cup {s.doc} \cup s.copies
<1> DEFINE w == Widened(groups, i, s)
           wide == [groups[i] EXCEPT !.now = Joining(@, s)]
<1>1. i \in 1 .. Len(groups) /\ groups[i] \in Group /\ Len(groups) \in Nat
  BY DEF AlikeTo
<1>2. /\ Joining(groups[i].now, s) \in Rec /\ Joining(groups[i].now, s).doc = groups[i].now.doc
      /\ Joining(groups[i].now, s).copies = groups[i].now.copies \cup {s.doc} \cup s.copies
  BY <1>1, JoiningType DEF Group
<1>3. /\ wide \in Group /\ wide.first = groups[i].first /\ wide.now = Joining(groups[i].now, s)
  BY <1>1, <1>2 DEF Group
<1>4. w = [groups EXCEPT ![i] = wide]
  BY DEF Widened
<1> HIDE DEF w, wide
<1>5. w \in Seq(Group) /\ Len(w) = Len(groups)
  BY <1>1, <1>3, <1>4
<1>6. w[i] = wide /\ \A j \in 1 .. Len(groups) : j # i => w[j] = groups[j]
  BY <1>1, <1>4
<1>. QED
  BY <1>1, <1>2, <1>3, <1>5, <1>6 DEF w

(* The groups made of the first k records.                                 *)
Counted(groups, k, max) == Len(groups) <= max /\ Len(groups) <= k /\ (k # 0 /\ max # 0 => Len(groups) # 0)
Started(groups, records, k) ==
  \A i \in 1 .. Len(groups) :
    groups[i].now.doc = groups[i].first.doc /\ \E j \in 1 .. k : groups[i].first = records[j]
Unlike(groups) == \A i, j \in 1 .. Len(groups) : groups[i].first.doc = groups[j].first.doc => i = j
In(r, group) == r.doc \in {group.now.doc} \cup group.now.copies
Covered(groups, records, k, max) ==
  \A j \in 1 .. k : j <= max => \E i \in 1 .. Len(groups) : In(records[j], groups[i])
Formed(groups, records, k, max) ==
  Counted(groups, k, max) /\ Started(groups, records, k) /\ Unlike(groups) /\ Covered(groups, records, k, max)

(* One record more.                                                        *)
LEMMA FormedStep ==
  ASSUME NEW max \in Nat, NEW records \in Seq(Rec), DistinctDocs(records),
         NEW k \in 1 .. Len(records), NEW groups \in Seq(Group), Formed(groups, records, k - 1, max)
  PROVE  Formed(Collect(max, groups, records[k]), records, k, max)
<1>1. records[k] \in Rec /\ k \in Nat /\ k # 0 /\ Len(groups) \in Nat /\ Len(records) \in Nat
  OBVIOUS
<1>2. 1 .. k = (1 .. (k - 1)) \cup {k} /\ k \notin 1 .. (k - 1)
  BY <1>1
<1>3. CASE Len(groups) = max /\ Collect(max, groups, records[k]) = groups
  <2>1. ~(k <= max)
    BY <1>1, <1>3 DEF Formed, Counted
  <2>2. Counted(groups, k, max)
    BY <1>1, <1>3 DEF Formed, Counted
  <2>3. Started(groups, records, k) /\ Unlike(groups)
    BY <1>2 DEF Formed, Started
  <2>4. Covered(groups, records, k, max)
    BY <1>2, <2>1 DEF Formed, Covered
  <2>. QED
    BY <1>3, <2>2, <2>3, <2>4 DEF Formed
<1>4. CASE /\ Len(groups) # max /\ AlikeTo(groups, records[k]) = {}
           /\ Collect(max, groups, records[k]) = Append(groups, [first |-> records[k], now |-> records[k]])
  <2> DEFINE new == [first |-> records[k], now |-> records[k]]
             w == Append(groups, new)
             n == Len(groups)
  <2>1. /\ Len(w) = n + 1 /\ w[n + 1] = new /\ \A i \in 1 .. n : w[i] = groups[i]
        /\ 1 .. (n + 1) = (1 .. n) \cup {n + 1} /\ n + 1 \notin 1 .. n
    OBVIOUS
  <2>2. new.first = records[k] /\ new.now = records[k]
    OBVIOUS
  <2>3. Counted(w, k, max)
    BY <1>1, <1>4, <2>1 DEF Formed, Counted
  <2>4. /\ Started(groups, records, k - 1) /\ Unlike(groups) /\ Covered(groups, records, k - 1, max)
        /\ n = Len(groups)
    BY DEF Formed
  <2> HIDE DEF w, new, n
  <2>5. ASSUME NEW i \in 1 .. Len(w)
        PROVE  w[i].now.doc = w[i].first.doc /\ \E j \in 1 .. k : w[i].first = records[j]
    <3>1. CASE i = n + 1
      BY <1>2, <2>1, <2>2, <3>1
    <3>2. CASE i \in 1 .. n
      BY <1>2, <2>1, <2>4, <3>2 DEF Started
    <3>. QED
      BY SMTT(30), <2>1, <3>1, <3>2
  <2>6. ASSUME NEW i \in 1 .. n
        PROVE  w[i].first.doc # w[n + 1].first.doc
    <3>1. PICK j \in 1 .. (k - 1) : w[i].first = records[j]
      BY <2>1, <2>4 DEF Started
    <3>2. j \in DOMAIN records /\ k \in DOMAIN records /\ j # k
      BY <1>1, <1>2
    <3>. QED
      BY <2>1, <2>2, <3>1, <3>2 DEF DistinctDocs
  <2>7. Unlike(w)
    BY <2>1, <2>4, <2>6 DEF Unlike
  <2>8. ASSUME NEW j \in 1 .. k, j <= max
        PROVE  \E i \in 1 .. Len(w) : In(records[j], w[i])
    <3>1. CASE j = k
      BY <2>1, <2>2, <3>1 DEF In
    <3>2. CASE j \in 1 .. (k - 1)
      <4>1. PICK i \in 1 .. n : In(records[j], groups[i])
        BY <2>4, <2>8, <3>2 DEF Covered
      <4>. QED
        BY <2>1, <4>1
    <3>. QED
      BY <1>2, <3>1, <3>2
  <2>9. Started(w, records, k) /\ Covered(w, records, k, max)
    BY <2>5, <2>8 DEF Started, Covered
  <2>. QED
    BY <1>4, <2>3, <2>7, <2>9 DEF Formed, w, new
<1>5. ASSUME NEW i \in AlikeTo(groups, records[k]),
             Collect(max, groups, records[k]) = Widened(groups, i, records[k])
      PROVE  Formed(Collect(max, groups, records[k]), records, k, max)
  <2> DEFINE w == Widened(groups, i, records[k])
             n == Len(groups)
  <2>1. /\ Len(w) = n /\ i \in 1 .. n
        /\ \A j \in 1 .. n : /\ w[j].first = groups[j].first
                             /\ w[j].now.doc = groups[j].now.doc
                             /\ groups[j].now.copies \subseteq w[j].now.copies
        /\ records[k].doc \in w[i].now.copies
    BY <1>1, WidenedIs
  <2>2. /\ Counted(groups, k - 1, max) /\ Started(groups, records, k - 1) /\ Unlike(groups)
        /\ Covered(groups, records, k - 1, max) /\ n = Len(groups)
    BY DEF Formed
  <2> HIDE DEF w, n
  <2>3. Counted(w, k, max)
    <3>1. Len(w) <= max /\ Len(w) <= k - 1 /\ Len(w) # 0
      BY <1>1, <2>1, <2>2 DEF Counted
    <3>. QED
      BY <1>1, <2>1, <2>2, <3>1 DEF Counted
  <2>4. Started(w, records, k)
    BY SMTT(30), <1>2, <2>1, <2>2 DEF Started
  <2>5. Unlike(w)
    BY <2>1, <2>2 DEF Unlike
  <2>6. ASSUME NEW j \in 1 .. k, j <= max
        PROVE  \E l \in 1 .. n : In(records[j], w[l])
    <3>1. CASE j = k
      BY <2>1, <3>1 DEF In
    <3>2. CASE j \in 1 .. (k - 1)
      <4>1. PICK l \in 1 .. n : In(records[j], groups[l])
        BY <2>2, <2>6, <3>2 DEF Covered
      <4>. QED
        BY <2>1, <4>1 DEF In
    <3>. QED
      BY <1>2, <3>1, <3>2
  <2>7. Covered(w, records, k, max)
    BY <2>1, <2>6 DEF Covered
  <2>. QED
    BY <1>5, <2>3, <2>4, <2>5, <2>7 DEF Formed, w
<1>. QED
  BY <1>1, <1>3, <1>4, <1>5, CollectCases

(* deduplicate_for_reranker: every group has a document of its own, and    *)
(* each of the first records is in one, itself or as a copy, as long as    *)
(* there are enough groups.                                                *)
LEMMA GroupedForms ==
  ASSUME NEW max \in Nat, NEW records \in Seq(Rec), DistinctDocs(records)
  PROVE  LET groups == Grouped(max, records) IN
           /\ groups \in Seq(Rec) /\ DistinctDocs(groups) /\ Len(groups) <= max
           /\ records # <<>> /\ max # 0 => groups # <<>>
           /\ \A i \in DOMAIN groups : \E j \in DOMAIN records : groups[i].doc = records[j].doc
           /\ \A j \in DOMAIN records : j <= max =>
                \E i \in DOMAIN groups : records[j].doc \in {groups[i].doc} \cup groups[i].copies
<1> DEFINE n == Len(records)
<1>1. PICK g : /\ g \in [0 .. n -> Seq(Group)]
               /\ g[0] = <<>>
               /\ \A k \in 1 .. n : g[k] = Collect(max, g[k - 1], records[k])
               /\ Grouped(max, records) = [i \in DOMAIN g[n] |-> g[n][i].now]
  BY GroupSteps
<1>2. n \in Nat /\ DOMAIN records = 1 .. n /\ (records # <<>> => n # 0)
  OBVIOUS
<1> DEFINE X == {k \in 0 .. n : Formed(g[k], records, k, max)}
<1>3. 0 \in X
  <2>1. 0 \in 0 .. n /\ Len(<<>>) = 0 /\ 1 .. 0 = {}
    BY <1>2
  <2>. QED
    BY <1>1, <2>1 DEF Formed, Counted, Started, Unlike, Covered
<1>4. ASSUME NEW k \in 0 .. n, k \in X, k # n
      PROVE  k + 1 \in X
  <2>1. k + 1 \in 1 .. n /\ (k + 1) - 1 = k /\ k + 1 \in 0 .. n
    <3>1. n \in Nat /\ k \in 0 .. n /\ k # n
      BY <1>2, <1>4
    <3> HIDE DEF n, X
    <3>. QED
      BY <3>1
  <2>2. g[k + 1] = Collect(max, g[k], records[k + 1]) /\ g[k] \in Seq(Group)
    BY <1>1, <2>1
  <2>3. Formed(g[k], records, (k + 1) - 1, max)
    BY <1>4, <2>1
  <2>. QED
    BY <2>1, <2>2, <2>3, FormedStep
<1> HIDE DEF n
<1>5. n \in X
  <2>1. \A k \in 0 .. n : k \in X /\ k # n => k + 1 \in X
    BY <1>4
  <2> HIDE DEF X
  <2>2. 0 .. n \subseteq X
    BY <1>2, <1>3, <2>1, HandedOn
  <2>. QED
    BY <1>2, <2>2
<1> DEFINE last == g[n]
           groups == Grouped(max, records)
<1>6. last \in Seq(Group) /\ Formed(last, records, n, max)
  BY <1>1, <1>2, <1>5
<1>7. groups = [i \in DOMAIN last |-> last[i].now]
  BY <1>1
<1> HIDE DEF X, last, groups
<1>8. \A i \in DOMAIN last : last[i].now \in Rec
  <2>1. \A i \in DOMAIN last : last[i] \in Group
    BY <1>6
  <2>. QED
    BY <2>1 DEF Group
<1>9. /\ groups \in Seq(Rec) /\ Len(groups) = Len(last) /\ Len(last) \in Nat
      /\ DOMAIN groups = 1 .. Len(last) /\ \A i \in 1 .. Len(last) : groups[i] = last[i].now
  BY <1>6, <1>7, <1>8
<1>10. DistinctDocs(groups)
  BY SMTT(30), <1>6, <1>9 DEF DistinctDocs, Formed, Started, Unlike
<1>11. Len(groups) <= max /\ (records # <<>> /\ max # 0 => groups # <<>>)
  BY <1>2, <1>6, <1>9 DEF Formed, Counted
<1>12. \A i \in DOMAIN groups : \E j \in DOMAIN records : groups[i].doc = records[j].doc
  BY <1>2, <1>6, <1>9 DEF Formed, Started
<1>13. \A j \in DOMAIN records : j <= max =>
         \E i \in DOMAIN groups : records[j].doc \in {groups[i].doc} \cup groups[i].copies
  <2>1. Covered(last, records, n, max)
    BY <1>6 DEF Formed
  <2>. QED
    BY <1>2, <1>9, <2>1 DEF Covered, In
<1>. QED
  BY <1>9, <1>10, <1>11, <1>12, <1>13 DEF groups

(* What a record of documents of the pool may hold, and a record that has  *)
(* passages of its own document only.                                      *)
Sound(r, pool) == r.doc \in pool /\ r.copies \subseteq {e \in pool : Family[e] = Family[r.doc]}
Plain(r) == \A t \in r.texts : t[2] = r.doc

(* What has nearly the same passages is of one family.                     *)
LEMMA AlikeIsKin ==
  ASSUME NEW r, NEW s, Plain(r), Plain(s), Alike(r, s)
  PROVE  Family[r.doc] = Family[s.doc]
<1>1. PICK pair \in (r.texts \X s.texts) \cap Twins : TRUE
  BY DEF Alike
<1>2. pair[1] \in r.texts /\ pair[2] \in s.texts /\ pair \in Twins
  OBVIOUS
<1>3. Family[pair[1][2]] = Family[pair[2][2]]
  BY <1>2, FusionAssumption
<1>. QED
  BY <1>2, <1>3 DEF Plain

SoundGroups(groups, pool) ==
  \A i \in 1 .. Len(groups) :
    Plain(groups[i].first) /\ groups[i].now.doc = groups[i].first.doc /\ Sound(groups[i].now, pool)

LEMMA SoundStep ==
  ASSUME NEW max \in Nat, NEW pool, NEW groups \in Seq(Group), SoundGroups(groups, pool),
         NEW s \in Rec, Plain(s), Sound(s, pool)
  PROVE  SoundGroups(Collect(max, groups, s), pool)
<1>1. CASE /\ Len(groups) # max /\ AlikeTo(groups, s) = {}
           /\ Collect(max, groups, s) = Append(groups, [first |-> s, now |-> s])
  <2> DEFINE new == [first |-> s, now |-> s]
             w == Append(groups, new)
             n == Len(groups)
  <2>1. /\ Len(w) = n + 1 /\ w[n + 1] = new /\ \A i \in 1 .. n : w[i] = groups[i]
        /\ 1 .. (n + 1) = (1 .. n) \cup {n + 1} /\ n + 1 \notin 1 .. n
    OBVIOUS
  <2>2. new.first = s /\ new.now = s
    OBVIOUS
  <2> HIDE DEF w, new
  <2>3. SoundGroups(w, pool)
    BY <2>1, <2>2 DEF SoundGroups
  <2>. QED
    BY <1>1, <2>3 DEF w, new
<1>2. ASSUME NEW i \in AlikeTo(groups, s), Collect(max, groups, s) = Widened(groups, i, s)
      PROVE  SoundGroups(Collect(max, groups, s), pool)
  <2> DEFINE w == Widened(groups, i, s)
             n == Len(groups)
  <2>1. /\ Len(w) = n /\ i \in 1 .. n
        /\ \A j \in 1 .. n : /\ w[j].first = groups[j].first
                             /\ w[j].now.doc = groups[j].now.doc
                             /\ j # i => w[j] = groups[j]
        /\ w[i].now.copies = groups[i].now.copies \cup {s.doc} \cup s.copies
    BY WidenedIs
  <2>2. Alike(groups[i].first, s)
    BY DEF AlikeTo
  <2>3. \A j \in 1 .. n : Plain(groups[j].first) /\ groups[j].now.doc = groups[j].first.doc /\ Sound(groups[j].now, pool)
    BY DEF SoundGroups
  <2> HIDE DEF w, n
  <2>4. Family[groups[i].now.doc] = Family[s.doc]
    <3>1. Plain(groups[i].first) /\ groups[i].now.doc = groups[i].first.doc
      BY <2>1, <2>3
    <3>2. Family[groups[i].first.doc] = Family[s.doc]
      BY <2>2, <3>1, AlikeIsKin
    <3>. QED
      BY <3>1, <3>2
  <2>5. Sound(w[i].now, pool)
    <3>1. Sound(groups[i].now, pool) /\ w[i].now.doc = groups[i].now.doc
      BY <2>1, <2>3
    <3>. QED
      BY <2>1, <2>4, <3>1 DEF Sound
  <2>6. SoundGroups(w, pool)
    BY <2>1, <2>3, <2>5 DEF SoundGroups
  <2>. QED
    BY <1>2, <2>6 DEF w
<1>. QED
  BY <1>1, <1>2, CollectCases

(* Copies are grouped with what they are copies of.                        *)
LEMMA GroupedSound ==
  ASSUME NEW max \in Nat, NEW records \in Seq(Rec), NEW pool,
         \A j \in DOMAIN records : Plain(records[j]) /\ Sound(records[j], pool)
  PROVE  \A i \in DOMAIN Grouped(max, records) : Sound(Grouped(max, records)[i], pool)
<1> DEFINE n == Len(records)
<1>1. PICK g : /\ g \in [0 .. n -> Seq(Group)]
               /\ g[0] = <<>>
               /\ \A k \in 1 .. n : g[k] = Collect(max, g[k - 1], records[k])
               /\ Grouped(max, records) = [i \in DOMAIN g[n] |-> g[n][i].now]
  BY GroupSteps
<1>2. n \in Nat /\ DOMAIN records = 1 .. n /\ \A j \in 1 .. n : records[j] \in Rec
  OBVIOUS
<1> HIDE DEF n
<1> DEFINE X == {k \in 0 .. n : SoundGroups(g[k], pool)}
<1>3. 0 \in X
  <2>1. 0 \in 0 .. n /\ Len(<<>>) = 0 /\ 1 .. 0 = {}
    BY <1>2
  <2>. QED
    BY <1>1, <2>1 DEF SoundGroups
<1>4. ASSUME NEW k \in 0 .. n, k \in X, k # n
      PROVE  k + 1 \in X
  <2>1. k + 1 \in 1 .. n /\ (k + 1) - 1 = k /\ k + 1 \in 0 .. n
    <3>1. n \in Nat /\ k \in 0 .. n /\ k # n
      BY <1>2, <1>4
    <3> HIDE DEF X
    <3>. QED
      BY <3>1
  <2>2. g[k + 1] = Collect(max, g[k], records[k + 1]) /\ g[k] \in Seq(Group)
    BY <1>1, <2>1
  <2>3. Plain(records[k + 1]) /\ Sound(records[k + 1], pool) /\ records[k + 1] \in Rec
    BY <1>2, <2>1
  <2>. QED
    BY <1>4, <2>1, <2>2, <2>3, SoundStep
<1>5. n \in X
  <2>1. \A k \in 0 .. n : k \in X /\ k # n => k + 1 \in X
    BY <1>4
  <2> HIDE DEF X
  <2>2. 0 .. n \subseteq X
    BY <1>2, <1>3, <2>1, HandedOn
  <2>. QED
    BY <1>2, <2>2
<1> DEFINE last == g[n]
<1>6. last \in Seq(Group) /\ SoundGroups(last, pool)
  BY <1>1, <1>2, <1>5
<1>7. Grouped(max, records) = [i \in DOMAIN last |-> last[i].now]
  BY <1>1
<1> HIDE DEF X, last
<1>8. DOMAIN last = 1 .. Len(last)
  BY <1>6
<1>. QED
  BY <1>6, <1>7, <1>8 DEF SoundGroups

LEMMA FirstIs ==
  ASSUME NEW T, NEW s \in Seq(T), NEW n \in Nat
  PROVE  /\ First(n, s) \in Seq(T) /\ Len(First(n, s)) <= n /\ Len(First(n, s)) <= Len(s)
         /\ DOMAIN First(n, s) \subseteq DOMAIN s
         /\ \A i \in DOMAIN First(n, s) : First(n, s)[i] = s[i]
         /\ ToSet(First(n, s)) \subseteq ToSet(s)
         /\ Len(s) <= n => First(n, s) = s
         /\ s # <<>> /\ n # 0 => First(n, s) # <<>>
         /\ Distinct(s) => Distinct(First(n, s))
         /\ DistinctDocs(s) => DistinctDocs(First(n, s))
<1> DEFINE t == First(n, s)
           m == AtMost(n, Len(s))
<1>1. m \in Nat /\ m <= n /\ m <= Len(s) /\ (Len(s) <= n => m = Len(s)) /\ (s # <<>> /\ n # 0 => m # 0)
  BY DEF AtMost
<1>2. t = SubSeq(s, 1, m)
  BY DEF First
<1> HIDE DEF t, m
<1>3. t \in Seq(T) /\ Len(t) = m /\ DOMAIN t = 1 .. m /\ \A i \in 1 .. m : t[i] = s[i]
  BY <1>1, <1>2
<1>4. DOMAIN t \subseteq DOMAIN s
  BY <1>1, <1>3
<1>5. Len(s) <= n => t = s
  BY <1>1, <1>2
<1>6. s # <<>> /\ n # 0 => t # <<>>
  BY <1>1, <1>3
<1>7. ToSet(t) \subseteq ToSet(s)
  BY <1>3, <1>4 DEF ToSet
<1>8. (Distinct(s) => Distinct(t)) /\ (DistinctDocs(s) => DistinctDocs(t))
  BY <1>3, <1>4 DEF Distinct, DistinctDocs
<1>. QED
  BY <1>1, <1>3, <1>4, <1>5, <1>6, <1>7, <1>8 DEF t

LEMMA RecordIs ==
  ASSUME NEW arm \in {"files", "vector", "graph"}, NEW d \in Docs, NEW rank \in Nat
  PROVE  /\ Record(arm, d, rank) \in Rec /\ Record(arm, d, rank).doc = d
         /\ Plain(Record(arm, d, rank)) /\ Sound(Record(arm, d, rank), Docs)
BY DEF Record, Rec, Plain, Sound

(* What an arm finds: documents, each once.                                *)
LEMMA HitsOnce ==
  ASSUME NEW arm \in {"files", "vector", "graph"}, NEW found \in Seq(Docs),
         arm \in {"files", "graph"} => Distinct(found),
         NEW scope, NEW entities
  PROVE  Hits(arm, found, scope, entities) \in Seq(Docs) /\ Distinct(Hits(arm, found, scope, entities))
<1> DEFINE there == Within(found, scope)
           each == Once(there)
<1>1. there \in Seq(Docs) /\ (Distinct(found) => Distinct(there))
  BY WithinIn
<1>2. each \in Seq(Docs) /\ Distinct(each)
  BY <1>1, OnceFirst
<1>3. Window \in Nat
  BY FusionAssumption
<1>4. CASE arm = "files"
  BY <1>1, <1>3, <1>4, FirstIs DEF Hits, FileHits
<1>5. CASE arm = "vector"
  BY <1>2, <1>3, <1>5, FirstIs DEF Hits, VectorHits
<1>6. CASE arm = "graph"
  <2>1. <<>> \in Seq(Docs) /\ Distinct(<<>>)
    BY DEF Distinct
  <2>2. First(Window, there) \in Seq(Docs) /\ Distinct(First(Window, there))
    BY <1>1, <1>3, <1>6, FirstIs
  <2>. QED
    BY <1>6, <2>1, <2>2 DEF Hits, LinkedHits
<1>. QED
  BY <1>4, <1>5, <1>6

(* A list of an arm: records of different documents, with their copies.    *)
ArmList(list) == list \in Seq(Rec) /\ DistinctDocs(list) /\ \A i \in DOMAIN list : Sound(list[i], Docs)

(* deduplicate_retrieval_arm.                                              *)
LEMMA UniqueList ==
  ASSUME NEW arm \in {"files", "vector", "graph"}, NEW hits \in Seq(Docs), Distinct(hits)
  PROVE  ArmList(Unique(arm, hits))
<1> DEFINE found == [i \in DOMAIN hits |-> Record(arm, hits[i], 0)]
           groups == IF arm = "graph" THEN found ELSE Grouped(Len(hits) + 1, found)
<1>1. \A i \in DOMAIN hits : hits[i] \in Docs
  OBVIOUS
<1>2. \A i \in DOMAIN hits :
        /\ found[i] \in Rec /\ found[i].doc = hits[i] /\ Plain(found[i]) /\ Sound(found[i], Docs)
  BY <1>1, RecordIs
<1>3. found \in Seq(Rec) /\ DOMAIN found = DOMAIN hits
  <2>1. DOMAIN hits = 1 .. Len(hits) /\ Len(hits) \in Nat
    OBVIOUS
  <2>. QED
    BY <1>2, <2>1
<1>4. DistinctDocs(found)
  BY <1>2, <1>3 DEF Distinct, DistinctDocs
<1> HIDE DEF found
<1>5. ArmList(Grouped(Len(hits) + 1, found))
  <2>1. Len(hits) + 1 \in Nat
    OBVIOUS
  <2>2. Grouped(Len(hits) + 1, found) \in Seq(Rec) /\ DistinctDocs(Grouped(Len(hits) + 1, found))
    BY <1>3, <1>4, <2>1, GroupedForms
  <2>3. \A i \in DOMAIN Grouped(Len(hits) + 1, found) : Sound(Grouped(Len(hits) + 1, found)[i], Docs)
    BY <1>2, <1>3, <2>1, GroupedSound
  <2>. QED
    BY <2>2, <2>3 DEF ArmList
<1>6. ArmList(groups)
  BY <1>2, <1>3, <1>4, <1>5 DEF ArmList
<1>7. Unique(arm, hits) = [i \in DOMAIN groups |-> [groups[i] EXCEPT !.ranks[arm] = i]]
  BY Zenon DEF Unique, found, groups
<1> HIDE DEF groups
<1> DEFINE list == Unique(arm, hits)
<1>8. DOMAIN groups = 1 .. Len(groups) /\ Len(groups) \in Nat /\ \A i \in DOMAIN groups : groups[i] \in Rec
  BY <1>6 DEF ArmList
<1>9. \A i \in DOMAIN groups : /\ list[i] \in Rec /\ list[i].doc = groups[i].doc
                               /\ list[i].copies = groups[i].copies
  <2> SUFFICES ASSUME NEW i \in DOMAIN groups
               PROVE  /\ list[i] \in Rec /\ list[i].doc = groups[i].doc
                      /\ list[i].copies = groups[i].copies
    OBVIOUS
  <2>1. list[i] = [groups[i] EXCEPT !.ranks = [@ EXCEPT ![arm] = i]]
    BY <1>7
  <2> DEFINE r == groups[i]
             ranks == [r.ranks EXCEPT ![arm] = i]
  <2>2. r \in Rec /\ i \in Nat
    BY <1>8
  <2>3. ranks \in [Arms -> Nat]
    BY <2>2 DEF Rec
  <2>4. list[i] = [r EXCEPT !.ranks = ranks]
    BY <2>1
  <2> HIDE DEF r, ranks, list
  <2>5. list[i] \in Rec /\ list[i].doc = r.doc /\ list[i].copies = r.copies
    BY <2>2, <2>3, <2>4 DEF Rec
  <2>. QED
    BY <2>5 DEF r
<1>10. DOMAIN list = 1 .. Len(groups)
  BY <1>7, <1>8
<1> HIDE DEF list
<1>11. list \in Seq(Rec)
  <2>1. list = [i \in 1 .. Len(groups) |-> list[i]]
    BY <1>7, <1>8 DEF list
  <2>2. \A i \in 1 .. Len(groups) : list[i] \in Rec
    BY <1>8, <1>9
  <2>. QED
    BY <1>8, <2>1, <2>2
<1>12. DistinctDocs(list) /\ \A i \in DOMAIN list : Sound(list[i], Docs)
  BY <1>6, <1>8, <1>9, <1>10 DEF ArmList, DistinctDocs, Sound
<1>. QED
  BY <1>11, <1>12 DEF ArmList, list

(* The lists of a search.                                                  *)
LEMMA ArmListsAre ==
  ASSUME NEW lists \in ArmLists
  PROVE  /\ DOMAIN lists = Arms
         /\ \A a \in Arms : ArmList(lists[a])
<1>1. Arms \subseteq {"files", "vector", "graph"}
  BY RetrievalAssumption
<1>2. ASSUME NEW arm \in {"files", "vector", "graph"}, NEW list \in ListsOf(arm)
      PROVE  ArmList(list)
  <2>1. PICK found \in Finds(arm), scope \in SUBSET Docs, enabled \in BOOLEAN, connected \in BOOLEAN :
          list = Unique(arm, Hits(arm, found, scope, QueryEntities(enabled, connected, {"e"})))
    BY DEF ListsOf
  <2>2. \A n \in Nat : \A s \in SeqOf(Docs, n) : s \in Seq(Docs)
    BY DEF SeqOf
  <2>3. \A s \in Orders(Docs) : s \in Seq(Docs) /\ Distinct(s)
    <3>1. Cardinality(Docs) \in Nat
      BY FusionAssumption, FS_CardinalityType
    <3>. QED
      BY <2>2, <3>1 DEF Orders, Distinct
  <2>4. found \in Seq(Docs) /\ (arm \in {"files", "graph"} => Distinct(found))
    <3>1. CASE arm \in {"files", "graph"}
      BY <2>1, <2>3, <3>1 DEF Finds
    <3>2. CASE arm = "vector"
      BY <2>1, <2>2, <3>2, FusionAssumption DEF Finds, BoundedSeq
    <3>. QED
      BY <3>1, <3>2
  <2>. QED
    BY <2>1, <2>4, HitsOnce, UniqueList
<1>3. \A a \in Arms : lists[a] \in ListsOf(a)
  BY <1>1 DEF ArmLists
<1>4. DOMAIN lists = Arms
  BY DEF ArmLists
<1>. QED
  BY <1>1, <1>2, <1>3, <1>4

LEMMA ImageFinite ==
  ASSUME NEW f, IsFiniteSet(DOMAIN f)
  PROVE  IsFiniteSet({f[x] : x \in DOMAIN f}) /\ Cardinality({f[x] : x \in DOMAIN f}) <= Cardinality(DOMAIN f)
<1> DEFINE S == DOMAIN f
           T == {f[x] : x \in S}
           g == [x \in S |-> f[x]]
<1>1. g \in Surjection(S, T)
  BY DEF Surjection
<1> HIDE DEF g, T
<1>. QED
  BY <1>1, FS_Surjection DEF T

LEMMA ArmsFinite == IsFiniteSet(Arms)
<1>1. IsFiniteSet({"files", "vector", "graph"})
  <2>1. IsFiniteSet({} \cup {"files"})
    BY FS_EmptySet, FS_AddElement
  <2>2. IsFiniteSet(({} \cup {"files"}) \cup {"vector"})
    BY <2>1, FS_AddElement
  <2>3. IsFiniteSet((({} \cup {"files"}) \cup {"vector"}) \cup {"graph"})
    BY <2>2, FS_AddElement
  <2>4. {"files", "vector", "graph"} = (({} \cup {"files"}) \cup {"vector"}) \cup {"graph"}
    OBVIOUS
  <2>. QED
    BY <2>3, <2>4
<1>. QED
  BY <1>1, FS_Subset, RetrievalAssumption

LEMMA ArmOrderIs ==
  ArmOrder \in Seq(Arms) /\ Distinct(ArmOrder) /\ ToSet(ArmOrder) = Arms
<1> DEFINE all == <<"files", "vector", "graph">>
           S == {"files", "vector", "graph"}
<1>1. all \in Seq(S) /\ Distinct(all) /\ ToSet(all) = S
  BY DEF Distinct, ToSet
<1>2. ArmOrder = Within(all, Arms)
  BY DEF ArmOrder
<1> HIDE DEF all, S
<1>3. ArmOrder \in Seq(S) /\ Distinct(ArmOrder) /\ ToSet(ArmOrder) = S \cap Arms
  BY <1>1, <1>2, WithinIn
<1>4. S \cap Arms = Arms
  BY RetrievalAssumption DEF S
<1>5. ArmOrder \in Seq(Arms)
  <2>1. \A i \in DOMAIN ArmOrder : ArmOrder[i] \in Arms
    BY <1>3, <1>4 DEF ToSet
  <2>. QED
    BY <1>3, <2>1
<1>. QED
  BY <1>3, <1>4, <1>5

LEMMA PlaceIs ==
  ASSUME NEW list \in Seq(Rec), NEW d
  PROVE  /\ Place(list, d) \in 0 .. Len(list)
         /\ Place(list, d) # 0 <=> \E i \in DOMAIN list : list[i].doc = d
         /\ Place(list, d) # 0 => Place(list, d) \in DOMAIN list /\ list[Place(list, d)].doc = d
<1>1. DOMAIN list = 1 .. Len(list) /\ Len(list) \in Nat
  OBVIOUS
<1>. QED
  BY <1>1 DEF Place

LEMMA PartNat ==
  ASSUME NEW weight \in Nat, NEW rank \in Nat, rank # 0
  PROVE  Part(weight, rank) \in Nat
<1>1. RrfK \in Nat /\ Unit \in Nat
  BY FusionAssumption
<1> DEFINE b == RrfK + rank
           q == Unit \div b
<1>2. b \in Nat /\ b > 0
  BY <1>1
<1> HIDE DEF b
<1>3. q \in Int
  BY <1>1, <1>2
<1>4. q >= 0
  BY <1>1, <1>2
<1>5. q \in Nat
  BY <1>3, <1>4
<1> HIDE DEF q
<1>6. Part(weight, rank) = weight * q
  BY DEF Part, q, b
<1>7. weight * q \in Nat
  BY <1>5
<1>. QED
  BY <1>6, <1>7

(* Sorting by score and discovery loses nothing and repeats nothing.       *)
LEMMA ScoreOrders ==
  ASSUME NEW records, IsFiniteSet(records), records \subseteq Rec, NEW docs \in Seq(Docs), Distinct(docs),
         \A r \in records : r.doc \in ToSet(docs),
         \A r, s \in records : r.doc = s.doc => r = s
  PROVE  /\ ByScore(records, docs) \in Seq(Rec)
         /\ ToSet(ByScore(records, docs)) = records
         /\ DistinctDocs(ByScore(records, docs))
<1> DEFINE Earlier(d, e) == \E i, j \in DOMAIN docs : i < j /\ docs[i] = d /\ docs[j] = e
           before == {p \in records \X records :
                        \/ p[1].score > p[2].score
                        \/ p[1].score = p[2].score /\ Earlier(p[1].doc, p[2].doc)}
           n == Cardinality(records)
           order == Arranged(records, before)
<1>1. ByScore(records, docs) = order
  BY DEF ByScore
<1>2. \A r \in records : r.score \in Nat
  BY DEF Rec
<1>3. \A i \in DOMAIN docs : i \in Nat
  OBVIOUS
<1>4. \A d : ~Earlier(d, d)
  BY <1>3 DEF Distinct
<1>5. \A d, e \in ToSet(docs) : d # e => Earlier(d, e) \/ Earlier(e, d)
  BY <1>3 DEF ToSet
<1>6. \A d, e, f : Earlier(d, e) /\ Earlier(e, f) => Earlier(d, f)
  <2> SUFFICES ASSUME NEW i \in DOMAIN docs, NEW j \in DOMAIN docs, NEW k \in DOMAIN docs, NEW l \in DOMAIN docs,
                      i < j, k < l, docs[j] = docs[k]
               PROVE  Earlier(docs[i], docs[l])
    OBVIOUS
  <2>1. j = k /\ i \in Nat /\ j \in Nat /\ l \in Nat
    BY <1>3 DEF Distinct
  <2>2. i < l
    BY <2>1
  <2>. QED
    BY <2>2
<1> HIDE DEF Earlier
<1>7. \A r, s \in records : <<r, s>> \in before <=>
        r.score > s.score \/ (r.score = s.score /\ Earlier(r.doc, s.doc))
  OBVIOUS
<1> HIDE DEF before
<1>8. Linear(records, before)
  <2>1. \A r \in records : <<r, r>> \notin before
    BY <1>2, <1>4, <1>7
  <2>2. \A r, s \in records : r # s => <<r, s>> \in before \/ <<s, r>> \in before
    BY <1>2, <1>5, <1>7
  <2>3. ASSUME NEW r \in records, NEW s \in records, NEW t \in records, <<r, s>> \in before, <<s, t>> \in before
        PROVE  <<r, t>> \in before
    <3>1. r.score \in Nat /\ s.score \in Nat /\ t.score \in Nat
      BY <1>2
    <3>. QED
      BY <1>6, <1>7, <2>3, <3>1
  <2>. QED
    BY <2>1, <2>2, <2>3 DEF Linear
<1>9. /\ n \in Nat /\ order \in [1 .. n -> records]
      /\ \A i, j \in 1 .. n : order[i] = order[j] => i = j
      /\ \A r \in records : \E i \in 1 .. n : order[i] = r
  BY <1>8, ArrangedInOrder
<1> HIDE DEF order, n
<1>10. order \in Seq(Rec)
  BY <1>9
<1>11. DOMAIN order = 1 .. n
  BY <1>9
<1>12. ToSet(order) = records
  BY <1>9, <1>11 DEF ToSet
<1>13. DistinctDocs(order)
  BY <1>9, <1>11 DEF DistinctDocs
<1>. QED
  BY <1>1, <1>10, <1>12, <1>13

(* What fusion makes of what the arms found of one document.               *)
Stems(r, lists) ==
  /\ Plain(r)
  /\ r.ranks = [a \in Arms |-> Place(lists[a], r.doc)]
  /\ \E a \in Arms : \E k \in DOMAIN lists[a] : lists[a][k].doc = r.doc
  /\ \A c \in r.copies :
       \E a \in Arms : \E k \in DOMAIN lists[a] : lists[a][k].doc = r.doc /\ c \in lists[a][k].copies

(* fuse_results: each document that an arm has found, once, with what it   *)
(* was found with.                                                         *)
LEMMA FusedIs ==
  ASSUME NEW lists \in [Arms -> Seq(Rec)], NEW weights \in [Arms -> Nat]
  PROVE  LET fused == Fused(lists, weights) IN
           /\ fused \in Seq(Rec) /\ DistinctDocs(fused)
           /\ \A i \in DOMAIN fused : Stems(fused[i], lists)
           /\ \A a \in Arms : \A k \in DOMAIN lists[a] : \E i \in DOMAIN fused : fused[i].doc = lists[a][k].doc
<1> DEFINE ranks(d) == [a \in Arms |-> Place(lists[a], d)]
           by(d) == {a \in Arms : ranks(d)[a] # 0}
           copies(d) == UNION {lists[a][ranks(d)[a]].copies : a \in by(d)}
           score(d) == SumFunction([a \in by(d) |-> Part(weights[a], ranks(d)[a])])
           Joined(d) == [doc |-> d, copies |-> copies(d), ranks |-> ranks(d),
                         texts |-> by(d) \X {d}, score |-> score(d)]
           ordered == [i \in DOMAIN ArmOrder |-> lists[ArmOrder[i]]]
           docs == InOrder(ordered)
           records == {Joined(d) : d \in ToSet(docs)}
           fused == Fused(lists, weights)
<1>1. fused = ByScore(records, docs)
  BY DEF Fused
<1>2. ordered \in Seq(Seq(Rec)) /\ DOMAIN ordered = DOMAIN ArmOrder
  <2>1. \A i \in DOMAIN ArmOrder : ArmOrder[i] \in Arms
    BY ArmOrderIs
  <2>2. DOMAIN ArmOrder = 1 .. Len(ArmOrder) /\ Len(ArmOrder) \in Nat
    BY ArmOrderIs
  <2>. QED
    BY <2>1, <2>2
<1>3. \A r \in Rec : r.doc \in Docs
  BY DEF Rec
<1>4. docs \in Seq(Docs) /\ Distinct(docs)
  BY <1>2, <1>3, InOrderEach
<1>5. \A d : d \in ToSet(docs) <=> \E a \in Arms : \E k \in DOMAIN lists[a] : lists[a][k].doc = d
  <2>1. \A d : d \in ToSet(docs) <=> \E i \in DOMAIN ordered : \E k \in DOMAIN ordered[i] : ordered[i][k].doc = d
    BY <1>2, <1>3, InOrderEach
  <2>2. \A i \in DOMAIN ordered : ordered[i] = lists[ArmOrder[i]] /\ ArmOrder[i] \in Arms
    BY ArmOrderIs
  <2>3. \A a \in Arms : \E i \in DOMAIN ordered : ordered[i] = lists[a]
    <3> SUFFICES ASSUME NEW a \in Arms
                 PROVE  \E i \in DOMAIN ordered : ordered[i] = lists[a]
      OBVIOUS
    <3>1. PICK i \in DOMAIN ArmOrder : ArmOrder[i] = a
      BY ArmOrderIs DEF ToSet
    <3>. QED
      BY <3>1
  <2> HIDE DEF ordered, docs
  <2>. QED
    BY <2>1, <2>2, <2>3
<1> HIDE DEF ordered, docs
<1>6. ToSet(docs) \subseteq Docs
  BY <1>4 DEF ToSet
<1>7. \A d : \A a \in Arms :
        /\ ranks(d)[a] \in Nat
        /\ ranks(d)[a] # 0 => ranks(d)[a] \in DOMAIN lists[a] /\ lists[a][ranks(d)[a]].doc = d
  BY PlaceIs
<1>8. ASSUME NEW d \in ToSet(docs)
      PROVE  Joined(d) \in Rec
  <2>1. ranks(d) \in [Arms -> Nat]
    BY <1>7
  <2>2. copies(d) \in SUBSET Docs
    <3>1. \A a \in Arms : \A k \in DOMAIN lists[a] : lists[a][k] \in Rec
      OBVIOUS
    <3>2. \A r \in Rec : r.copies \in SUBSET Docs
      BY DEF Rec
    <3>3. \A a \in by(d) : lists[a][ranks(d)[a]] \in Rec
      BY <1>7, <3>1
    <3> HIDE DEF ranks, by
    <3>. QED
      BY <3>2, <3>3
  <2>3. by(d) \X {d} \in SUBSET ({"files", "vector", "graph"} \X Docs)
    BY <1>6, RetrievalAssumption
  <2>4. score(d) \in Nat
    <3> DEFINE f == [a \in by(d) |-> Part(weights[a], ranks(d)[a])]
               B == by(d)
    <3>1. IsFiniteSet(B)
      BY ArmsFinite, FS_Subset
    <3>2. \A a \in B : f[a] \in Nat
      BY <1>7, PartNat
    <3>3. DOMAIN f = B
      OBVIOUS
    <3> HIDE DEF f, B
    <3>4. SumFunction(f) \in Nat
      BY <3>1, <3>2, <3>3, SumNat
    <3>. QED
      BY <3>4 DEF f
  <2> HIDE DEF ranks, by, copies, score
  <2>. QED
    BY <1>6, <2>1, <2>2, <2>3, <2>4 DEF Rec
<1>9. \A d : /\ Joined(d).doc = d /\ Joined(d).ranks = ranks(d) /\ Joined(d).copies = copies(d)
             /\ Plain(Joined(d))
  BY DEF Plain
<1>10. \A d : \A c \in copies(d) :
         \E a \in Arms : \E k \in DOMAIN lists[a] : lists[a][k].doc = d /\ c \in lists[a][k].copies
  <2> SUFFICES ASSUME NEW d, NEW c \in copies(d)
               PROVE  \E a \in Arms : \E k \in DOMAIN lists[a] : lists[a][k].doc = d /\ c \in lists[a][k].copies
    BY Zenon
  <2>1. PICK a \in by(d) : c \in lists[a][ranks(d)[a]].copies
    <3> HIDE DEF ranks, by
    <3>. QED
      OBVIOUS
  <2>2. a \in Arms /\ ranks(d)[a] # 0
    OBVIOUS
  <2> HIDE DEF ranks, by
  <2>. QED
    BY <1>7, <2>1, <2>2
<1> HIDE DEF Joined, copies, by, score
<1>11. IsFiniteSet(records)
  <2> DEFINE f == [d \in ToSet(docs) |-> Joined(d)]
  <2>1. IsFiniteSet(ToSet(docs))
    BY <1>6, FusionAssumption, FS_Subset
  <2>2. records = {f[d] : d \in DOMAIN f} /\ DOMAIN f = ToSet(docs)
    OBVIOUS
  <2> HIDE DEF f, records
  <2>. QED
    BY <2>1, <2>2, ImageFinite
<1>12. /\ records \subseteq Rec /\ \A r \in records : r.doc \in ToSet(docs)
       /\ \A r, s \in records : r.doc = s.doc => r = s
  BY <1>8, <1>9
<1>13. \A r \in records : r = Joined(r.doc)
  BY <1>9
<1>14. \A d \in ToSet(docs) : \E r \in records : r.doc = d
  BY <1>9
<1> HIDE DEF records, fused, ranks
<1>15. fused \in Seq(Rec) /\ ToSet(fused) = records /\ DistinctDocs(fused)
  BY <1>1, <1>4, <1>11, <1>12, ScoreOrders
<1>16. \A i \in DOMAIN fused : fused[i] \in records
  BY <1>15 DEF ToSet
<1>17. ASSUME NEW i \in DOMAIN fused
       PROVE  Stems(fused[i], lists)
  <2> DEFINE d == fused[i].doc
  <2>1. fused[i] = Joined(d) /\ d \in ToSet(docs)
    BY <1>12, <1>13, <1>16
  <2> HIDE DEF d
  <2>2. Plain(fused[i]) /\ fused[i].ranks = ranks(d) /\ fused[i].copies = copies(d)
    BY <1>9, <2>1
  <2>3. \E a \in Arms : \E k \in DOMAIN lists[a] : lists[a][k].doc = d
    BY <1>5, <2>1
  <2>4. \A c \in fused[i].copies :
           \E a \in Arms : \E k \in DOMAIN lists[a] : lists[a][k].doc = d /\ c \in lists[a][k].copies
    BY <1>10, <2>2
  <2>5. fused[i].ranks = [a \in Arms |-> Place(lists[a], d)]
    BY <2>2 DEF ranks
  <2>. QED
    BY <2>2, <2>3, <2>4, <2>5, Zenon DEF d, Stems
<1>18. ASSUME NEW a \in Arms, NEW k \in DOMAIN lists[a]
       PROVE  \E i \in DOMAIN fused : fused[i].doc = lists[a][k].doc
  <2>1. lists[a][k].doc \in ToSet(docs)
    BY <1>5
  <2>2. PICK r \in records : r.doc = lists[a][k].doc
    BY <1>14, <2>1
  <2>3. PICK i \in DOMAIN fused : fused[i] = r
    BY <1>15 DEF ToSet
  <2>. QED
    BY <2>2, <2>3
<1>. QED
  BY <1>15, <1>17, <1>18 DEF fused

LEMMA WeightsNat ==
  ASSUME NEW how, NEW lists
  PROVE  Weights(how, lists) \subseteq [Arms -> Nat]
<1> DEFINE Weigh(pair, g) == [a \in Arms |-> CASE a = "files" -> pair[1] [] a = "vector" -> pair[2] [] a = "graph" -> g]
           found == lists["graph"] # <<>>
           graph == IF found THEN GraphWeights ELSE {0}
           Applied(files, vector) ==
             IF ~Unspecific(files, vector) THEN Observed(files, vector)
             ELSE IF found THEN {<<4, 3>>}
             ELSE IF how = "forced" THEN {<<20, 20>>} ELSE {}
           pairs == UNION {Applied(files, vector) : files \in Curves(lists["files"]), vector \in Curves(lists["vector"])}
<1>1. SecondaryFloor \in Nat /\ GraphWeights \subseteq Nat
  BY FusionAssumption
<1>2. ASSUME NEW pair \in Nat \X Nat, NEW g \in Nat
      PROVE  Weigh(pair, g) \in [Arms -> Nat]
  <2>1. pair[1] \in Nat /\ pair[2] \in Nat
    OBVIOUS
  <2>. QED
    BY <2>1, RetrievalAssumption
<1>3. \A list : \A curve \in Curves(list) : curve \in {"absent", "clear", "flat"}
  BY DEF Curves
<1>4. ASSUME NEW files \in {"absent", "clear", "flat"}, NEW vector \in {"absent", "clear", "flat"}
      PROVE  Applied(files, vector) \subseteq Nat \X Nat
  <2>1. ~Unspecific(files, vector) => Observed(files, vector) \subseteq Nat \X Nat
    BY <1>1 DEF Unspecific, Observed
  <2>2. <<4, 3>> \in Nat \X Nat /\ <<20, 20>> \in Nat \X Nat
    OBVIOUS
  <2>. QED
    BY <2>1, <2>2
<1>5. graph \subseteq Nat
  BY <1>1
<1> HIDE DEF Applied
<1>6. pairs \subseteq Nat \X Nat
  BY <1>3, <1>4
<1>7. <<20, 20>> \in Nat \X Nat /\ 20 \in Nat
  OBVIOUS
<1>8. Weights(how, lists) = IF how = "raw" THEN {Weigh(<<20, 20>>, 20)} ELSE {Weigh(pair, g) : pair \in pairs, g \in graph}
  BY DEF Weights, Applied
<1> HIDE DEF Weigh, pairs, graph
<1>. QED
  BY <1>2, <1>5, <1>6, <1>7, <1>8

LEMMA DistinctLength ==
  ASSUME NEW T, NEW s \in Seq(T), Distinct(s)
  PROVE  IsFiniteSet(ToSet(s)) /\ Cardinality(ToSet(s)) = Len(s)
<1> DEFINE n == Len(s)
           S == ToSet(s)
           f == [i \in 1 .. n |-> s[i]]
<1>1. n \in Nat /\ DOMAIN s = 1 .. n
  OBVIOUS
<1>2. f \in [1 .. n -> S] /\ \A i \in 1 .. n : f[i] = s[i]
  BY <1>1 DEF ToSet
<1>3. \A x \in S : \E i \in 1 .. n : s[i] = x
  BY <1>1 DEF ToSet
<1>4. \A i, j \in 1 .. n : s[i] = s[j] => i = j
  BY <1>1 DEF Distinct
<1> HIDE DEF f, S, n
<1>5. f \in Bijection(1 .. n, S)
  BY <1>2, <1>3, <1>4 DEF Bijection, Injection, Surjection, IsInjective
<1>6. ExistsBijection(1 .. n, S)
  BY <1>5 DEF ExistsBijection
<1>7. Cardinality(S) = n
  BY <1>1, <1>6, FS_CountingElements
<1>8. IsFiniteSet(S)
  BY <1>1, <1>6, FS_Interval, FS_Bijection
<1>. QED
  BY <1>7, <1>8 DEF S, n

(* _arm_head_document_ids: one head for each arm that has found anything.  *)
LEMMA HeadsAre ==
  ASSUME NEW fused \in Seq(Rec)
  PROVE  LET heads == ArmHeads(fused)
             active == {a \in Arms : \E r \in ToSet(fused) : r.ranks[a] # 0}
         IN /\ heads \in Seq(Rec) /\ ToSet(heads) \subseteq ToSet(fused)
            /\ Len(heads) = Cardinality(active)
            /\ \A a \in active : \E i \in DOMAIN heads :
                 /\ heads[i].ranks[a] # 0
                 /\ \A q \in ToSet(fused) : q.ranks[a] # 0 => heads[i].ranks[a] <= q.ranks[a]
<1> DEFINE FoundBy(a) == {r \in ToSet(fused) : r.ranks[a] # 0}
           running == {a \in Arms : FoundBy(a) # {}}
           active == Within(ArmOrder, running)
           Best(a) == CHOOSE r \in FoundBy(a) : \A q \in FoundBy(a) : r.ranks[a] <= q.ranks[a]
           heads == ArmHeads(fused)
<1>1. heads = [i \in DOMAIN active |-> Best(active[i])]
  BY DEF ArmHeads
<1>2. ToSet(fused) \subseteq Rec
  BY DEF ToSet
<1>3. ASSUME NEW a \in running
      PROVE  Best(a) \in FoundBy(a) /\ \A q \in FoundBy(a) : Best(a).ranks[a] <= q.ranks[a]
  <2> DEFINE F == FoundBy(a)
             places == {r.ranks[a] : r \in F}
  <2>1. \A r \in F : r.ranks[a] \in Nat
    BY <1>2 DEF Rec
  <2>2. F # {}
    OBVIOUS
  <2> HIDE DEF F
  <2>3. places \subseteq Nat /\ places # {}
    BY <2>1, <2>2
  <2>4. PICK n \in places : \A m \in places : ~(<<m, n>> \in OpToRel(<, Nat))
    BY <2>3, NatLessThanWellFounded, WFMin
  <2>5. \A m \in places : ~(m < n)
    BY <2>3, <2>4 DEF OpToRel
  <2>6. PICK r \in F : r.ranks[a] = n
    OBVIOUS
  <2>7. \A q \in F : r.ranks[a] <= q.ranks[a]
    <3> SUFFICES ASSUME NEW q \in F
                 PROVE  n <= q.ranks[a]
      BY <2>6
    <3>1. q.ranks[a] \in places /\ q.ranks[a] \in Nat /\ n \in Nat
      BY <2>1, <2>3
    <3> DEFINE m == q.ranks[a]
    <3>2. ~(m < n) /\ m \in Nat /\ n \in Nat
      BY <2>5, <3>1
    <3> HIDE DEF m
    <3>3. n <= m
      BY <3>2
    <3>. QED
      BY <3>3 DEF m
  <2>8. \E x \in F : \A q \in F : x.ranks[a] <= q.ranks[a]
    BY <2>7
  <2>9. Best(a) = CHOOSE x \in F : \A q \in F : x.ranks[a] <= q.ranks[a]
    BY DEF F
  <2>10. Best(a) \in F /\ \A q \in F : Best(a).ranks[a] <= q.ranks[a]
    <3> HIDE DEF Best
    <3>. QED
      BY <2>8, <2>9
  <2>. QED
    BY <2>10 DEF F
<1>4. active \in Seq(Arms) /\ Distinct(active) /\ ToSet(active) = running
  <2>1. Arms \cap running = running
    OBVIOUS
  <2> HIDE DEF running
  <2>. QED
    BY <2>1, WithinIn, ArmOrderIs
<1>5. Len(active) = Cardinality(running)
  <2> HIDE DEF active, running
  <2>. QED
    BY <1>4, DistinctLength
<1>6. running = {a \in Arms : \E r \in ToSet(fused) : r.ranks[a] # 0}
  OBVIOUS
<1> HIDE DEF Best, active, running, heads
<1>7. \A i \in DOMAIN active : active[i] \in running
  BY <1>4 DEF ToSet
<1>8. DOMAIN active = 1 .. Len(active) /\ Len(active) \in Nat
  BY <1>4
<1>9. \A i \in DOMAIN active : heads[i] \in ToSet(fused) /\ heads[i] \in Rec
  BY <1>1, <1>2, <1>3, <1>7
<1>10. heads \in Seq(Rec) /\ Len(heads) = Len(active) /\ DOMAIN heads = DOMAIN active
  BY <1>1, <1>8, <1>9
<1>11. ToSet(heads) \subseteq ToSet(fused)
  BY <1>9, <1>10 DEF ToSet
<1>12. ASSUME NEW a \in running
       PROVE  \E i \in DOMAIN heads :
                 /\ heads[i].ranks[a] # 0
                 /\ \A q \in ToSet(fused) : q.ranks[a] # 0 => heads[i].ranks[a] <= q.ranks[a]
  <2>1. PICK i \in DOMAIN active : active[i] = a
    BY <1>4 DEF ToSet
  <2>2. heads[i] = Best(a)
    BY <1>1, <2>1
  <2>. QED
    BY <1>3, <1>10, <2>1, <2>2
<1>. QED
  BY <1>5, <1>6, <1>10, <1>11, <1>12 DEF heads

LEMMA ArmListsType ==
  ASSUME NEW lists \in ArmLists
  PROVE  lists \in [Arms -> Seq(Rec)]
<1>1. \A a \in Arms : lists[a] \in Seq(Rec)
  BY ArmListsAre DEF ArmList
<1>2. lists = [a \in Arms |-> lists[a]]
  BY DEF ArmLists
<1>. QED
  BY <1>1, <1>2

LEMMA AllDocsAre ==
  ASSUME NEW lists \in [Arms -> Seq(Rec)]
  PROVE  \A d : d \in AllDocs(lists) <=>
           \E a \in Arms : \E k \in DOMAIN lists[a] : d \in {lists[a][k].doc} \cup lists[a][k].copies
<1> DEFINE all == UNION {ToSet(lists[a]) : a \in Arms}
<1>1. \A r : r \in all <=> \E a \in Arms : \E k \in DOMAIN lists[a] : r = lists[a][k]
  BY DEF ToSet
<1>2. AllDocs(lists) = UNION {{r.doc} \cup r.copies : r \in all}
  BY DEF AllDocs
<1> HIDE DEF all
<1>3. \A d : d \in AllDocs(lists) <=> \E r \in all : d \in {r.doc} \cup r.copies
  BY <1>2
<1>4. \A d : (\E r \in all : d \in {r.doc} \cup r.copies) <=>
        \E a \in Arms : \E k \in DOMAIN lists[a] : d \in {lists[a][k].doc} \cup lists[a][k].copies
  BY <1>1
<1>. QED
  BY <1>3, <1>4

(* Nothing is fused that was not found.                                    *)
LEMMA FusedSound ==
  ASSUME NEW lists \in ArmLists, NEW weights \in [Arms -> Nat]
  PROVE  \A i \in DOMAIN Fused(lists, weights) : Sound(Fused(lists, weights)[i], AllDocs(lists))
<1> DEFINE pool == AllDocs(lists)
           fused == Fused(lists, weights)
<1>1. lists \in [Arms -> Seq(Rec)]
  BY ArmListsType
<1>2. \A d : d \in pool <=>
        \E a \in Arms : \E k \in DOMAIN lists[a] : d \in {lists[a][k].doc} \cup lists[a][k].copies
  BY <1>1, AllDocsAre
<1>3. \A i \in DOMAIN fused : Stems(fused[i], lists)
  BY <1>1, FusedIs
<1>4. \A a \in Arms : \A k \in DOMAIN lists[a] : \A c \in lists[a][k].copies : Family[c] = Family[lists[a][k].doc]
  BY ArmListsAre DEF ArmList, Sound
<1> HIDE DEF pool, fused
<1>5. ASSUME NEW i \in DOMAIN fused
      PROVE  Sound(fused[i], pool)
  <2>1. fused[i].doc \in pool
    BY <1>2, <1>3 DEF Stems
  <2>2. ASSUME NEW c \in fused[i].copies
        PROVE  c \in pool /\ Family[c] = Family[fused[i].doc]
    <3>1. PICK a \in Arms : \E k \in DOMAIN lists[a] :
               lists[a][k].doc = fused[i].doc /\ c \in lists[a][k].copies
      BY <1>3 DEF Stems
    <3>2. PICK k \in DOMAIN lists[a] : lists[a][k].doc = fused[i].doc /\ c \in lists[a][k].copies
      BY <3>1
    <3>. QED
      BY <1>2, <1>4, <3>2
  <2>. QED
    BY <2>1, <2>2 DEF Sound
<1>. QED
  BY <1>5 DEF pool, fused

(* What is fused with the best of every arm before it.                     *)
LEMMA FusedWithHeads ==
  ASSUME NEW fused \in Seq(Rec), DistinctDocs(fused)
  PROVE  LET all == ArmHeads(fused) \o fused IN
           /\ all \in Seq(Rec) /\ ToSet(all) = ToSet(fused)
           /\ Once(all) \in Seq(Rec) /\ DistinctDocs(Once(all)) /\ ToSet(Once(all)) = ToSet(fused)
<1> DEFINE heads == ArmHeads(fused)
           all == heads \o fused
           once == Once(all)
<1>1. heads \in Seq(Rec) /\ ToSet(heads) \subseteq ToSet(fused)
  BY HeadsAre
<1> HIDE DEF heads
<1>2. all \in Seq(Rec)
  BY <1>1
<1>3. ToSet(all) = ToSet(fused)
  <2>1. \A i \in DOMAIN all : all[i] \in ToSet(fused)
    <3> SUFFICES ASSUME NEW i \in DOMAIN all
                 PROVE  all[i] \in ToSet(fused)
      OBVIOUS
    <3>1. CASE i \in DOMAIN heads
      <4>1. all[i] = heads[i]
        BY <1>1, <3>1
      <4>. QED
        BY <1>1, <3>1, <4>1 DEF ToSet
    <3>2. CASE i \notin DOMAIN heads
      <4>1. i - Len(heads) \in DOMAIN fused /\ all[i] = fused[i - Len(heads)]
        BY <1>1, <3>2
      <4>. QED
        BY <4>1 DEF ToSet
    <3>. QED
      BY <3>1, <3>2
  <2>2. \A i \in DOMAIN fused : Len(heads) + i \in DOMAIN all /\ all[Len(heads) + i] = fused[i]
    BY <1>1
  <2> HIDE DEF all
  <2>. QED
    BY <2>1, <2>2 DEF ToSet
<1> HIDE DEF all
<1>4. once \in Seq(Rec) /\ Distinct(once) /\ ToSet(once) = ToSet(all)
  BY <1>2, OnceFirst
<1> HIDE DEF once
<1>5. \A r, s \in ToSet(fused) : r.doc = s.doc => r = s
  BY DEF DistinctDocs, ToSet
<1>6. \A i \in DOMAIN once : once[i] \in ToSet(fused)
  BY <1>3, <1>4 DEF ToSet
<1>7. DistinctDocs(once)
  BY <1>4, <1>5, <1>6 DEF Distinct, DistinctDocs
<1>. QED
  BY <1>2, <1>3, <1>4, <1>7 DEF once, all, heads

(* What the reranker judges: different documents that were found, with     *)
(* copies of theirs, and not nothing if anything was found.                *)
LEMMA CandidatesAre ==
  ASSUME NEW lists \in ArmLists, NEW weights \in [Arms -> Nat], NEW how
  PROVE  LET candidates == RerankCandidates(how, Fused(lists, weights)) IN
           /\ candidates \in Seq(Rec) /\ DistinctDocs(candidates)
           /\ AllDocs(lists) # {} => candidates # <<>>
           /\ \A i \in DOMAIN candidates : Sound(candidates[i], AllDocs(lists))
<1> DEFINE pool == AllDocs(lists)
           fused == Fused(lists, weights)
           once == Once(ArmHeads(fused) \o fused)
           max == IF how = "raw" THEN Limit ELSE PoolLimit
           records == IF how = "raw" THEN fused ELSE once
           candidates == RerankCandidates(how, fused)
<1>1. lists \in [Arms -> Seq(Rec)]
  BY ArmListsType
<1>2. /\ fused \in Seq(Rec) /\ DistinctDocs(fused)
      /\ \A i \in DOMAIN fused : Plain(fused[i])
      /\ \A a \in Arms : \A k \in DOMAIN lists[a] : \E i \in DOMAIN fused : fused[i].doc = lists[a][k].doc
  BY <1>1, FusedIs DEF Stems
<1>3. \A i \in DOMAIN fused : Sound(fused[i], pool)
  BY FusedSound
<1>4. pool # {} => fused # <<>>
  <2>1. pool # {} => \E a \in Arms : \E k \in DOMAIN lists[a] : TRUE
    BY <1>1, AllDocsAre
  <2> HIDE DEF pool, fused
  <2>. QED
    BY <1>2, <2>1
<1> HIDE DEF pool, fused
<1>5. once \in Seq(Rec) /\ DistinctDocs(once) /\ ToSet(once) = ToSet(fused)
  BY <1>2, FusedWithHeads
<1> HIDE DEF once
<1>6. records \in Seq(Rec) /\ DistinctDocs(records) /\ ToSet(records) = ToSet(fused)
  BY <1>2, <1>5
<1>7. max \in Nat /\ max # 0
  BY RetrievalAssumption, FusionAssumption
<1>8. candidates = Grouped(max, records)
  BY DEF RerankCandidates, once
<1> HIDE DEF records, max, candidates
<1>9. \A i \in DOMAIN records : Plain(records[i]) /\ Sound(records[i], pool)
  <2>1. \A r \in ToSet(fused) : Plain(r) /\ Sound(r, pool)
    BY <1>2, <1>3 DEF ToSet
  <2>. QED
    BY <1>6, <2>1 DEF ToSet
<1>10. fused # <<>> => records # <<>>
  <2>1. fused # <<>> => fused[1] \in ToSet(fused)
    BY <1>2 DEF ToSet
  <2>2. records = <<>> => ToSet(records) = {}
    BY DEF ToSet
  <2>. QED
    BY <1>6, <2>1, <2>2
<1>11. candidates \in Seq(Rec) /\ DistinctDocs(candidates) /\ (records # <<>> => candidates # <<>>)
  BY <1>6, <1>7, <1>8, GroupedForms
<1>12. \A i \in DOMAIN candidates : Sound(candidates[i], pool)
  BY <1>6, <1>7, <1>8, <1>9, GroupedSound
<1>. QED
  BY <1>4, <1>10, <1>11, <1>12 DEF candidates, fused, pool

(* What the reranker leaves.                                               *)
LEMMA RankedAre ==
  ASSUME NEW candidates \in Seq(Rec), DistinctDocs(candidates), NEW how, NEW ranked \in Ranked(how, candidates)
  PROVE  /\ ranked \in Seq(Rec) /\ Len(ranked) <= Limit /\ DistinctDocs(ranked)
         /\ ToSet(ranked) \subseteq ToSet(candidates)
         /\ candidates # <<>> => ranked # <<>>
<1>1. Limit \in Nat /\ Limit # 0
  BY RetrievalAssumption
<1>2. CASE ranked = First(Limit, candidates)
  BY <1>1, <1>2, FirstIs
<1>3. CASE ranked \in Orders(ToSet(candidates)) /\ Len(ranked) \in 1 .. Limit
  <2>1. ToSet(candidates) \subseteq Rec
    BY DEF ToSet
  <2> DEFINE S == ToSet(candidates)
  <2>2. IsFiniteSet(S)
    <3> DEFINE f == [i \in DOMAIN candidates |-> candidates[i]]
    <3>1. IsFiniteSet(DOMAIN f)
      <4>1. DOMAIN f = 1 .. Len(candidates) /\ Len(candidates) \in Nat
        OBVIOUS
      <4>. QED
        BY <4>1, FS_Interval
    <3>2. S = {f[i] : i \in DOMAIN f}
      BY DEF ToSet
    <3> HIDE DEF f, S
    <3>. QED
      BY <3>1, <3>2, ImageFinite
  <2>3. \A r, s \in S : r.doc = s.doc => r = s
    BY DEF DistinctDocs, ToSet
  <2>4. ranked \in Orders(S)
    BY <1>3
  <2> HIDE DEF S
  <2>5. ranked \in SeqOf(S, Cardinality(S)) /\ Distinct(ranked)
    BY <2>4 DEF Orders, Distinct
  <2>6. PICK m \in Nat : ranked \in [1 .. m -> S]
    BY <2>2, <2>5, FS_CardinalityType DEF SeqOf
  <2>7. ranked \in Seq(Rec) /\ DOMAIN ranked = 1 .. m /\ \A i \in 1 .. m : ranked[i] \in S
    BY <2>1, <2>6 DEF S
  <2>8. DistinctDocs(ranked)
    BY <2>3, <2>5, <2>7 DEF Distinct, DistinctDocs
  <2>9. ToSet(ranked) \subseteq S
    BY <2>7 DEF ToSet
  <2>10. Len(ranked) <= Limit /\ ranked # <<>>
    BY <1>1, <1>3, <2>7
  <2>. QED
    BY <2>7, <2>8, <2>9, <2>10 DEF S
<1>. QED
  BY <1>2, <1>3 DEF Ranked

(* Such a ranking is one of Rankings.                                      *)
LEMMA ResultsAllowed ==
  ASSUME NEW pool \in SUBSET Docs, NEW ranked \in Seq(Rec), Len(ranked) <= Limit, DistinctDocs(ranked),
         \A i \in DOMAIN ranked : Sound(ranked[i], pool),
         pool # {} => ranked # <<>>
  PROVE  Results(ranked) \in IF pool = {} THEN {<<>>} ELSE Rankings(pool)
<1> DEFINE results == Results(ranked)
           entries == UNION {{[doc |-> d, copies |-> copies] : copies \in SUBSET Kin(d, pool)} : d \in pool}
<1>1. results = [i \in DOMAIN ranked |-> [doc |-> ranked[i].doc, copies |-> ranked[i].copies \ {ranked[i].doc}]]
  BY DEF Results
<1>2. DOMAIN ranked = 1 .. Len(ranked) /\ Len(ranked) \in Nat
  OBVIOUS
<1>3. CASE pool = {}
  <2>1. ranked = <<>>
    BY <1>2, <1>3 DEF Sound
  <2>2. results = <<>>
    BY <1>1, <2>1
  <2>. QED
    BY <1>3, <2>2
<1>4. CASE pool # {}
  <2>1. ASSUME NEW i \in DOMAIN ranked
        PROVE  [doc |-> ranked[i].doc, copies |-> ranked[i].copies \ {ranked[i].doc}] \in entries
    <3>1. ranked[i].doc \in pool /\ ranked[i].copies \ {ranked[i].doc} \in SUBSET Kin(ranked[i].doc, pool)
      BY DEF Sound, Kin
    <3> DEFINE d == ranked[i].doc
               kept == ranked[i].copies \ {d}
               ofDoc(e) == {[doc |-> e, copies |-> copies] : copies \in SUBSET Kin(e, pool)}
    <3>2. [doc |-> d, copies |-> kept] \in ofDoc(d)
      <4> HIDE DEF d, kept
      <4>1. d \in pool /\ kept \in SUBSET Kin(d, pool)
        BY <3>1 DEF d, kept
      <4>. QED
        BY <4>1
    <3>3. entries = UNION {ofDoc(e) : e \in pool}
      OBVIOUS
    <3> HIDE DEF ofDoc, entries
    <3>. QED
      BY <3>1, <3>2, <3>3
  <2> HIDE DEF entries, results
  <2>2. results \in [1 .. Len(ranked) -> entries]
    BY <1>1, <1>2, <2>1
  <2>3. Limit \in Nat
    BY RetrievalAssumption
  <2>4. results \in BoundedSeq(entries, Limit)
    <3> DEFINE m == Len(ranked)
    <3>1. m \in 0 .. Limit /\ results \in [1 .. m -> entries]
      BY <1>2, <2>2, <2>3
    <3> HIDE DEF m
    <3>. QED
      BY <3>1 DEF BoundedSeq, SeqOf
  <2>5. results # <<>>
    <3>1. Len(ranked) # 0
      BY <1>4
    <3>2. 1 \in DOMAIN results
      BY <1>2, <2>2, <3>1
    <3>3. DOMAIN <<>> = {}
      OBVIOUS
    <3>. QED
      BY <3>2, <3>3
  <2>6. \A i, j \in DOMAIN results : results[i].doc = results[j].doc => i = j
    BY <1>1 DEF DistinctDocs
  <2>. QED
    BY <1>4, <2>4, <2>5, <2>6 DEF Rankings, entries, results
<1>. QED
  BY <1>3, <1>4

(* Whatever the arms find, however it is weighed and reranked, the results *)
(* are among those that perform_search goes on with in module Retrieval.   *)
LEMMA NoStrays == Strays = {}
<1> SUFFICES ASSUME NEW lists \in ArmLists, NEW how \in Hows, NEW weights \in Weights(how, lists),
                    NEW ranked \in Ranked(how, RerankCandidates(how, Fused(lists, weights)))
             PROVE  Results(ranked) \in IF AllDocs(lists) = {} THEN {<<>>} ELSE Rankings(AllDocs(lists))
  BY Zenon DEF Strays
<1> DEFINE pool == AllDocs(lists)
           candidates == RerankCandidates(how, Fused(lists, weights))
<1>1. weights \in [Arms -> Nat]
  BY WeightsNat
<1>2. /\ candidates \in Seq(Rec) /\ DistinctDocs(candidates)
      /\ pool # {} => candidates # <<>>
      /\ \A i \in DOMAIN candidates : Sound(candidates[i], pool)
  BY <1>1, CandidatesAre
<1>3. pool \in SUBSET Docs
  <2>1. lists \in [Arms -> Seq(Rec)]
    BY ArmListsType
  <2>2. \A a \in Arms : \A k \in DOMAIN lists[a] : lists[a][k] \in Rec
    BY <2>1
  <2>3. \A r \in Rec : {r.doc} \cup r.copies \subseteq Docs
    BY DEF Rec
  <2>. QED
    BY <2>1, <2>2, <2>3, AllDocsAre
<1>4. ranked \in Ranked(how, candidates)
  OBVIOUS
<1> HIDE DEF pool, candidates
<1>5. /\ ranked \in Seq(Rec) /\ Len(ranked) <= Limit /\ DistinctDocs(ranked)
      /\ ToSet(ranked) \subseteq ToSet(candidates)
      /\ candidates # <<>> => ranked # <<>>
  BY <1>2, <1>4, RankedAre
<1>6. \A i \in DOMAIN ranked : Sound(ranked[i], pool)
  BY <1>2, <1>5 DEF ToSet
<1>7. Results(ranked) \in IF pool = {} THEN {<<>>} ELSE Rankings(pool)
  BY <1>2, <1>3, <1>5, <1>6, ResultsAllowed
<1>. QED
  BY <1>7 DEF pool

(* The head of an arm comes before what was fused, none before it is       *)
(* repeated, so it is among the first PoolLimit records, and these are all *)
(* grouped.                                                                *)
LEMMA HeadsStay ==
  ASSUME NEW lists \in ArmLists, Cardinality({a \in Arms : lists[a] # <<>>}) <= PoolLimit,
         NEW how, how # "raw", NEW weights \in Weights(how, lists), NEW arm \in Arms, lists[arm] # <<>>
  PROVE  lists[arm][1].doc \in AllDocs([a \in Arms |-> RerankCandidates(how, Fused(lists, weights))])
<1> DEFINE fused == Fused(lists, weights)
           heads == ArmHeads(fused)
           all == heads \o fused
           once == Once(all)
           candidates == RerankCandidates(how, fused)
           d == lists[arm][1].doc
           active == {a \in Arms : \E r \in ToSet(fused) : r.ranks[a] # 0}
           judged == [a \in Arms |-> candidates]
<1>1. lists \in [Arms -> Seq(Rec)] /\ weights \in [Arms -> Nat]
  BY ArmListsType, WeightsNat
<1>2. /\ fused \in Seq(Rec) /\ DistinctDocs(fused)
      /\ \A i \in DOMAIN fused : fused[i].ranks = [a \in Arms |-> Place(lists[a], fused[i].doc)]
      /\ \A a \in Arms : \A k \in DOMAIN lists[a] : \E i \in DOMAIN fused : fused[i].doc = lists[a][k].doc
  BY <1>1, FusedIs DEF Stems
<1>3. \A a \in Arms : lists[a] \in Seq(Rec) /\ DistinctDocs(lists[a])
  BY ArmListsAre DEF ArmList
<1>4. candidates = Grouped(PoolLimit, once)
  BY DEF RerankCandidates
<1> HIDE DEF fused
<1>5. \A r \in ToSet(fused) : \A a \in Arms : r.ranks[a] = Place(lists[a], r.doc)
  <2>1. ASSUME NEW r \in ToSet(fused)
        PROVE  r.ranks = [a \in Arms |-> Place(lists[a], r.doc)]
    <3>1. PICK j \in DOMAIN fused : r = fused[j]
      BY DEF ToSet
    <3>. QED
      BY <1>2, <3>1
  <2>. QED
    BY <2>1
<1>6. \A a \in Arms : \A k \in DOMAIN lists[a] : \E r \in ToSet(fused) : r.doc = lists[a][k].doc
  BY <1>2 DEF ToSet
<1>7. active = {a \in Arms : lists[a] # <<>>}
  <2>1. ASSUME NEW a \in Arms, lists[a] # <<>>
        PROVE  \E r \in ToSet(fused) : r.ranks[a] # 0
    <3>1. 1 \in DOMAIN lists[a]
      BY <1>3, <2>1
    <3>2. PICK r \in ToSet(fused) : r.doc = lists[a][1].doc
      BY <1>6, <3>1
    <3>3. Place(lists[a], r.doc) # 0
      BY <1>3, <3>1, <3>2, PlaceIs
    <3>. QED
      BY <1>5, <3>3
  <2>2. ASSUME NEW a \in Arms, NEW r \in ToSet(fused), r.ranks[a] # 0
        PROVE  lists[a] # <<>>
    <3>1. Place(lists[a], r.doc) # 0
      BY <1>5, <2>2
    <3>2. \E i \in DOMAIN lists[a] : TRUE
      BY <1>3, <3>1, PlaceIs
    <3>. QED
      BY <3>2
  <2>. QED
    BY <2>1, <2>2
<1>8. /\ heads \in Seq(Rec) /\ ToSet(heads) \subseteq ToSet(fused)
      /\ Len(heads) = Cardinality(active)
      /\ \A a \in active : \E i \in DOMAIN heads :
           /\ heads[i].ranks[a] # 0
           /\ \A q \in ToSet(fused) : q.ranks[a] # 0 => heads[i].ranks[a] <= q.ranks[a]
  BY <1>2, HeadsAre
<1>9. Len(heads) <= PoolLimit /\ arm \in active
  BY <1>7, <1>8
<1> HIDE DEF heads, active
<1>10. PICK i \in DOMAIN heads :
         /\ heads[i].ranks[arm] # 0
         /\ \A q \in ToSet(fused) : q.ranks[arm] # 0 => heads[i].ranks[arm] <= q.ranks[arm]
  BY <1>8, <1>9
<1>11. 1 \in DOMAIN lists[arm]
  BY <1>3
<1>12. Place(lists[arm], d) = 1
  <2>1. Place(lists[arm], d) \in DOMAIN lists[arm] /\ lists[arm][Place(lists[arm], d)].doc = d
    BY <1>3, <1>11, PlaceIs
  <2>. QED
    BY <1>3, <1>11, <2>1 DEF DistinctDocs
<1>13. heads[i].doc = d
  <2>1. PICK r \in ToSet(fused) : r.doc = d
    BY <1>6, <1>11
  <2>2. heads[i].ranks[arm] <= 1
    BY <1>5, <1>10, <1>12, <2>1
  <2>3. heads[i] \in ToSet(fused)
    BY <1>8 DEF ToSet
  <2>4. Place(lists[arm], heads[i].doc) # 0 /\ Place(lists[arm], heads[i].doc) <= 1
    BY <1>5, <1>10, <2>2, <2>3
  <2>5. Place(lists[arm], heads[i].doc) \in Nat /\ lists[arm][Place(lists[arm], heads[i].doc)].doc = heads[i].doc
    BY <1>3, <2>4, PlaceIs
  <2>6. Place(lists[arm], heads[i].doc) = 1
    BY <2>4, <2>5
  <2>. QED
    BY <2>5, <2>6
<1>14. i <= PoolLimit /\ i \in DOMAIN all /\ all[i] = heads[i] /\ i \in Nat /\ PoolLimit \in Nat
  BY <1>2, <1>8, <1>9, FusionAssumption
<1>15. all \in Seq(Rec) /\ once \in Seq(Rec) /\ DistinctDocs(once)
  BY <1>2, FusedWithHeads DEF heads
<1> HIDE DEF all
<1>16. PICK k \in DOMAIN once : k <= i /\ once[k] = all[i]
  BY <1>14, <1>15, OnceFirst
<1> HIDE DEF once
<1>17. once[k].doc = d /\ k <= PoolLimit
  <2>1. k \in Nat
    BY <1>15
  <2>. QED
    BY <1>13, <1>14, <1>16, <2>1
<1> HIDE DEF candidates, d
<1>18. candidates \in Seq(Rec) /\ \E j \in DOMAIN candidates : d \in {candidates[j].doc} \cup candidates[j].copies
  BY <1>4, <1>14, <1>15, <1>17, GroupedForms
<1>19. judged \in [Arms -> Seq(Rec)] /\ judged[arm] = candidates
  BY <1>18
<1> HIDE DEF judged
<1>20. d \in AllDocs(judged)
  BY <1>18, <1>19, AllDocsAre
<1>. QED
  BY <1>20 DEF judged, candidates, fused, d

(* No weight keeps the best document of an arm from the reranker.          *)
LEMMA NoHeadsLost == HeadsLost = {}
<1> SUFFICES ASSUME NEW lists \in ArmLists, Cardinality({a \in Arms : lists[a] # <<>>}) <= PoolLimit,
                    NEW how \in Hows \ {"raw"}, NEW weights \in Weights(how, lists), NEW arm \in Arms, lists[arm] # <<>>
             PROVE  lists[arm][1].doc \in AllDocs([a \in Arms |-> RerankCandidates(how, Fused(lists, weights))])
  BY Zenon DEF HeadsLost
<1>. QED
  BY HeadsStay

(* A document keeps its identity while probes are merged into it.          *)
LEMMA ProvenanceFold ==
  ASSUME NEW r \in Rec, NEW records \in Seq(Rec)
  PROVE  FoldLeft(Provenance, r, records) \in Rec /\ FoldLeft(Provenance, r, records).doc = r.doc
<1> DEFINE S == DOMAIN records
           A == {x \in Rec : x.doc = r.doc}
           Follows(f) ==
             f = [s \in SUBSET S |-> IF s = {} THEN r
                     ELSE Provenance(f[s \ {Max(s)}], records[Max(s)])]
           fold == CHOOSE f : Follows(f)
           first == [s \in SUBSET S |-> Max(s)]
           step == [p \in S \X A |-> Provenance(p[2], records[p[1]])]
<1>1. FoldLeft(Provenance, r, records) = fold[S]
  BY Zenon DEF FoldLeft, MapThenFoldSet
<1>2. Len(records) \in Nat /\ S = 1 .. Len(records) /\ \A i \in S : records[i] \in Rec
  OBVIOUS
<1>3. \A s \in SUBSET S : s # {} => first[s] \in s
  BY <1>2, MaxOf
<1>4. \A x \in S, v \in A : step[<<x, v>>] = Provenance(v, records[x]) /\ step[<<x, v>>] \in A
  <2> SUFFICES ASSUME NEW x \in S, NEW v \in A
               PROVE  Provenance(v, records[x]) \in A
    OBVIOUS
  <2>. QED
    BY ProvenanceType
<1>5. IsFiniteSet(S)
  BY <1>2, FS_Interval
<1>6. PICK h \in [SUBSET S -> A] : Folds(h, SUBSET S, first, step, r)
  <2>1. r \in A
    OBVIOUS
  <2> HIDE DEF S, A, first, step
  <2>. QED
    BY <1>3, <1>4, <1>5, <2>1, FoldExists
<1>7. Follows(h)
  <2>1. ASSUME NEW s \in SUBSET S
        PROVE  h[s] = IF s = {} THEN r ELSE Provenance(h[s \ {Max(s)}], records[Max(s)])
    <3>1. CASE s = {}
      BY <1>6, <3>1 DEF Folds
    <3>2. CASE s # {}
      <4>1. first[s] = Max(s) /\ first[s] \in S
        BY <1>3, <3>2
      <4>2. h[s \ {first[s]}] \in A
        OBVIOUS
      <4>3. h[s] = step[<<first[s], h[s \ {first[s]}]>>]
        BY <1>6, <3>2 DEF Folds
      <4> HIDE DEF step, first, S, A
      <4>4. h[s] = Provenance(h[s \ {first[s]}], records[first[s]])
        BY <1>4, <4>1, <4>2, <4>3
      <4>. QED
        BY <3>2, <4>1, <4>4
    <3>. QED
      BY <3>1, <3>2
  <2>. QED
    BY <2>1
<1> HIDE DEF Follows
<1>8. Follows(fold)
  BY <1>7
<1> HIDE DEF fold
<1>9. \A s \in SUBSET S : fold[s] =
        IF s = {} THEN r ELSE Provenance(fold[s \ {Max(s)}], records[Max(s)])
  BY <1>8 DEF Follows
<1> DEFINE X == {s \in SUBSET S : fold[s] \in A}
<1>10. {} \in X
  <2>1. fold[{}] = r
    BY <1>9
  <2>. QED
    BY <2>1
<1>11. \A s \in SUBSET S : s # {} => \E x \in s : s \ {x} \in X => s \in X
  <2> SUFFICES ASSUME NEW s \in SUBSET S, s # {}, s \ {Max(s)} \in X
               PROVE  fold[s] \in A
    BY <1>3
  <2>1. Max(s) \in S
    BY <1>3
  <2>2. fold[s] = Provenance(fold[s \ {Max(s)}], records[Max(s)])
    BY <1>9
  <2>3. fold[s \ {Max(s)}] \in A /\ records[Max(s)] \in Rec
    BY <1>2, <2>1
  <2>. QED
    BY <2>2, <2>3, ProvenanceType
<1>12. ASSUME NEW R, R = S, NEW Y, Y = X
       PROVE  SUBSET R \subseteq Y
  <2> HIDE DEF X, S
  <2>1. IsFiniteSet(R) /\ {} \in Y
    BY <1>5, <1>10, <1>12
  <2>2. \A s \in SUBSET R : s # {} => \E x \in s : s \ {x} \in Y => s \in Y
    BY <1>11, <1>12
  <2>. QED
    BY <2>1, <2>2, EverySubset
<1>13. SUBSET S \subseteq X
  <2> HIDE DEF X, S
  <2>. QED
    BY <1>12
<1>14. fold[S] \in A
  BY <1>13
<1>. QED
  BY <1>1, <1>14

(* _merge_probe_rankings: different documents, as every probe that found   *)
(* one has it.                                                             *)
LEMMA ProbesFusedIs ==
  ASSUME NEW rankings \in Seq(Seq(Rec))
  PROVE  ProbesFused(rankings) \in Seq(Rec) /\ DistinctDocs(ProbesFused(rankings))
<1> DEFINE finds(d) == At(rankings, {i \in DOMAIN rankings : Place(rankings[i], d) # 0})
           all(d) == [i \in DOMAIN finds(d) |-> finds(d)[i][Place(finds(d)[i], d)]]
           score(d) == SumFunction([i \in DOMAIN finds(d) |-> Part(20, Place(finds(d)[i], d))])
           Joined(d) == [FoldLeft(Provenance, all(d)[1], Tail(all(d))) EXCEPT !.score = score(d)]
           docs == InOrder(rankings)
           records == {Joined(d) : d \in ToSet(docs)}
<1>1. ProbesFused(rankings) = ByScore(records, docs)
  BY DEF ProbesFused
<1>2. \A r \in Rec : r.doc \in Docs
  BY DEF Rec
<1>3. docs \in Seq(Docs) /\ Distinct(docs)
  BY <1>2, InOrderEach
<1>4. \A d \in ToSet(docs) : \E i \in DOMAIN rankings : \E k \in DOMAIN rankings[i] : rankings[i][k].doc = d
  BY <1>2, InOrderEach
<1> HIDE DEF docs
<1>5. \A i \in DOMAIN rankings : rankings[i] \in Seq(Rec)
  OBVIOUS
<1>6. ASSUME NEW d \in ToSet(docs)
      PROVE  Joined(d) \in Rec /\ Joined(d).doc = d
  <2> DEFINE found == {i \in DOMAIN rankings : Place(rankings[i], d) # 0}
             lists == finds(d)
             n == Len(lists)
  <2>1. found # {}
    <3>1. PICK i \in DOMAIN rankings : \E k \in DOMAIN rankings[i] : rankings[i][k].doc = d
      BY <1>4
    <3>2. Place(rankings[i], d) # 0
      BY <1>5, <3>1, PlaceIs
    <3>. QED
      BY <3>2
  <2>2. lists \in Seq(Seq(Rec)) /\ ToSet(lists) = {rankings[i] : i \in found}
    <3>1. found \in SUBSET (DOMAIN rankings) /\ lists = At(rankings, found)
      OBVIOUS
    <3> HIDE DEF found, lists
    <3>. QED
      BY <3>1, AtSelected
  <2>3. \A i \in DOMAIN lists : Place(lists[i], d) # 0 /\ lists[i] \in Seq(Rec)
    <3>1. \A list \in ToSet(lists) : Place(list, d) # 0
      BY <2>2
    <3> HIDE DEF lists
    <3>2. \A i \in DOMAIN lists : lists[i] \in ToSet(lists) /\ lists[i] \in Seq(Rec)
      BY <2>2 DEF ToSet
    <3>. QED
      BY <3>1, <3>2
  <2>4. all(d) = [i \in DOMAIN lists |-> lists[i][Place(lists[i], d)]]
        /\ score(d) = SumFunction([i \in DOMAIN lists |-> Part(20, Place(lists[i], d))])
    OBVIOUS
  <2>5. n \in Nat /\ n # 0 /\ DOMAIN lists = 1 .. n
    <3> HIDE DEF lists
    <3>1. n \in Nat /\ DOMAIN lists = 1 .. n
      BY <2>2
    <3>2. n # 0
      <4>1. ToSet(lists) # {}
        BY <2>1, <2>2
      <4>. QED
        BY <3>1, <4>1 DEF ToSet
    <3>. QED
      BY <3>1, <3>2
  <2> HIDE DEF finds, found, lists
  <2> DEFINE a == all(d)
             f == [i \in DOMAIN lists |-> Part(20, Place(lists[i], d))]
  <2>6. \A i \in DOMAIN lists : /\ Place(lists[i], d) \in Nat
                                /\ lists[i][Place(lists[i], d)] \in Rec
                                /\ lists[i][Place(lists[i], d)].doc = d
    <3> SUFFICES ASSUME NEW i \in DOMAIN lists
                 PROVE  /\ Place(lists[i], d) \in Nat
                        /\ lists[i][Place(lists[i], d)] \in Rec
                        /\ lists[i][Place(lists[i], d)].doc = d
      OBVIOUS
    <3> DEFINE list == lists[i]
    <3>1. list \in Seq(Rec) /\ Place(list, d) # 0
      BY <2>3
    <3> HIDE DEF list
    <3>2. Place(list, d) \in DOMAIN list /\ list[Place(list, d)].doc = d /\ Place(list, d) \in 0 .. Len(list)
      BY <3>1, PlaceIs
    <3>3. list[Place(list, d)] \in Rec /\ Place(list, d) \in Nat
      BY <3>1, <3>2
    <3>. QED
      BY <3>2, <3>3 DEF list
  <2>7. a \in Seq(Rec) /\ a # <<>> /\ a[1].doc = d /\ a[1] \in Rec
    <3>1. a = [i \in 1 .. n |-> lists[i][Place(lists[i], d)]]
      BY <2>4, <2>5
    <3>2. \A i \in 1 .. n : lists[i][Place(lists[i], d)] \in Rec /\ lists[i][Place(lists[i], d)].doc = d
      BY <2>5, <2>6
    <3> HIDE DEF a
    <3>3. a \in Seq(Rec) /\ Len(a) = n /\ 1 \in 1 .. n
      BY <2>5, <3>1, <3>2
    <3>. QED
      BY <2>5, <3>1, <3>2, <3>3
  <2>8. score(d) \in Nat
    <3>1. IsFiniteSet(DOMAIN f)
      BY <2>5, FS_Interval
    <3>2. \A i \in DOMAIN f : f[i] \in Nat
      BY <2>3, <2>6, PartNat
    <3>3. score(d) = SumFunction(f)
      BY <2>4
    <3> HIDE DEF f, score
    <3>. QED
      BY <3>1, <3>2, <3>3, SumNat
  <2> HIDE DEF a, score
  <2> DEFINE merged == FoldLeft(Provenance, a[1], Tail(a))
  <2>9. merged \in Rec /\ merged.doc = d
    <3>1. Tail(a) \in Seq(Rec)
      BY <2>7
    <3>. QED
      BY <2>7, <3>1, ProvenanceFold
  <2>10. Joined(d) = [merged EXCEPT !.score = score(d)]
    BY DEF a
  <2> HIDE DEF merged, Joined
  <2>. QED
    BY <2>8, <2>9, <2>10 DEF Rec
<1> HIDE DEF Joined
<1>7. IsFiniteSet(records)
  <2> DEFINE f == [d \in ToSet(docs) |-> Joined(d)]
  <2>1. IsFiniteSet(ToSet(docs))
    <3>1. ToSet(docs) \subseteq Docs
      BY <1>3 DEF ToSet
    <3>. QED
      BY <3>1, FusionAssumption, FS_Subset
  <2>2. records = {f[d] : d \in DOMAIN f} /\ DOMAIN f = ToSet(docs)
    OBVIOUS
  <2> HIDE DEF f, records
  <2>. QED
    BY <2>1, <2>2, ImageFinite
<1>8. /\ records \subseteq Rec /\ \A r \in records : r.doc \in ToSet(docs)
      /\ \A r, s \in records : r.doc = s.doc => r = s
  BY <1>6
<1> HIDE DEF records
<1>. QED
  BY <1>1, <1>3, <1>7, <1>8, ScoreOrders

LEMMA SetToSeqIs ==
  ASSUME NEW S, IsFiniteSet(S)
  PROVE  SetToSeq(S) \in Seq(S) /\ Distinct(SetToSeq(S))
<1> DEFINE n == Cardinality(S)
<1>1. n \in Nat /\ ExistsBijection(1 .. n, S)
  BY FS_CardinalityType
<1>2. PICK f \in [1 .. n -> S] : IsInjective(f)
  BY <1>1 DEF ExistsBijection, Bijection, Injection
<1> HIDE DEF n
<1>3. SetToSeq(S) \in [1 .. n -> S] /\ IsInjective(SetToSeq(S))
  <2>1. SetToSeq(S) = CHOOSE g \in [1 .. n -> S] : IsInjective(g)
    BY DEF SetToSeq, n
  <2>. QED
    BY <1>2, <2>1
<1>. QED
  BY <1>1, <1>3 DEF Distinct, IsInjective

(* The documents of records, counted.                                      *)
LEMMA DocsAre ==
  ASSUME NEW s \in Seq(Rec)
  PROVE  /\ DocsOf(s) \in Seq(Docs)
         /\ \A d : d \in ToSet(DocsOf(s)) <=> \E r \in ToSet(s) : r.doc = d
         /\ IsFiniteSet(ToSet(DocsOf(s)))
         /\ Cardinality(ToSet(DocsOf(s))) \in Nat
         /\ DistinctDocs(s) => Cardinality(ToSet(DocsOf(s))) = Len(s)
<1> DEFINE docs == DocsOf(s)
<1>1. \A i \in DOMAIN s : s[i].doc \in Docs
  <2>1. \A i \in DOMAIN s : s[i] \in Rec
    OBVIOUS
  <2>. QED
    BY <2>1 DEF Rec
<1>2. docs \in Seq(Docs) /\ Len(docs) = Len(s) /\ DOMAIN docs = DOMAIN s /\ \A i \in DOMAIN s : docs[i] = s[i].doc
  <2>1. DOMAIN s = 1 .. Len(s) /\ Len(s) \in Nat
    OBVIOUS
  <2>. QED
    BY <1>1, <2>1 DEF DocsOf
<1> HIDE DEF docs
<1>3. \A d : d \in ToSet(docs) <=> \E r \in ToSet(s) : r.doc = d
  BY <1>2 DEF ToSet
<1>4. ToSet(docs) \subseteq Docs
  BY <1>2 DEF ToSet
<1>5. IsFiniteSet(ToSet(docs)) /\ Cardinality(ToSet(docs)) \in Nat
  BY <1>4, FusionAssumption, FS_Subset, FS_CardinalityType
<1>6. DistinctDocs(s) => Distinct(docs)
  BY <1>2 DEF DistinctDocs, Distinct
<1>7. DistinctDocs(s) => Cardinality(ToSet(docs)) = Len(s)
  BY <1>2, <1>6, DistinctLength
<1>. QED
  BY <1>2, <1>3, <1>5, <1>7 DEF docs

LEMMA Joint ==
  ASSUME NEW s \in Seq(Rec), NEW t \in Seq(Rec)
  PROVE  /\ s \o t \in Seq(Rec) /\ ToSet(s \o t) = ToSet(s) \cup ToSet(t)
         /\ DistinctDocs(s) /\ DistinctDocs(t) /\ (\A q \in ToSet(s), r \in ToSet(t) : q.doc # r.doc) => DistinctDocs(s \o t)
<1> DEFINE all == s \o t
           m == Len(s)
           n == Len(t)
<1>1. /\ all \in Seq(Rec) /\ m \in Nat /\ n \in Nat /\ DOMAIN all = 1 .. (m + n)
      /\ DOMAIN s = 1 .. m /\ DOMAIN t = 1 .. n
      /\ \A i \in 1 .. m : all[i] = s[i]
      /\ \A i \in 1 .. n : all[m + i] = t[i]
  OBVIOUS
<1> HIDE DEF all, m, n
<1>2. \A i \in 1 .. (m + n) : i \in 1 .. m \/ i - m \in 1 .. n
  BY <1>1
<1>3. \A i \in 1 .. (m + n) : i - m \in 1 .. n => all[i] = t[i - m]
  <2> SUFFICES ASSUME NEW i \in 1 .. (m + n), i - m \in 1 .. n
               PROVE  all[i] = t[i - m]
    OBVIOUS
  <2>1. m + (i - m) = i
    BY <1>1
  <2>. QED
    BY <1>1, <2>1
<1>4. \A i \in 1 .. m : i \in 1 .. (m + n)
  BY <1>1
<1>5. \A i \in 1 .. n : m + i \in 1 .. (m + n)
  BY <1>1
<1>6. ToSet(all) = ToSet(s) \cup ToSet(t)
  <2>1. \A i \in 1 .. (m + n) : all[i] \in ToSet(s) \cup ToSet(t)
    BY <1>1, <1>2, <1>3 DEF ToSet
  <2>2. ToSet(all) \subseteq ToSet(s) \cup ToSet(t)
    BY <1>1, <2>1 DEF ToSet
  <2>3. ToSet(s) \subseteq ToSet(all)
    BY <1>1, <1>4 DEF ToSet
  <2>4. ToSet(t) \subseteq ToSet(all)
    BY <1>1, <1>5 DEF ToSet
  <2>. QED
    BY <2>2, <2>3, <2>4
<1>7. ASSUME DistinctDocs(s), DistinctDocs(t), \A q \in ToSet(s), r \in ToSet(t) : q.doc # r.doc,
             NEW i \in 1 .. (m + n), NEW j \in 1 .. (m + n), all[i].doc = all[j].doc
      PROVE  i = j
  <2>1. CASE i \in 1 .. m /\ j \in 1 .. m
    BY <1>1, <1>7, <2>1 DEF DistinctDocs
  <2>2. CASE i - m \in 1 .. n /\ j - m \in 1 .. n
    <3>1. t[i - m].doc = t[j - m].doc
      BY <1>3, <1>7, <2>2
    <3>2. i - m = j - m
      BY <1>1, <1>7, <2>2, <3>1 DEF DistinctDocs
    <3>. QED
      BY <1>1, <3>2
  <2>3. \A k \in 1 .. (m + n) : (k \in 1 .. m => all[k] \in ToSet(s)) /\ (k - m \in 1 .. n => all[k] \in ToSet(t))
    BY <1>1, <1>3 DEF ToSet
  <2>. QED
    BY <1>2, <1>7, <2>1, <2>2, <2>3
<1>. QED
  BY <1>1, <1>6, <1>7 DEF DistinctDocs, all

LEMMA UnionBound ==
  ASSUME NEW A, NEW B, IsFiniteSet(A), IsFiniteSet(B)
  PROVE  IsFiniteSet(A \cup B) /\ Cardinality(A \cup B) <= Cardinality(A) + Cardinality(B)
<1>1. IsFiniteSet(A \cup B) /\ Cardinality(A \cup B) = Cardinality(A) + Cardinality(B) - Cardinality(A \cap B)
  BY FS_Union
<1>2. IsFiniteSet(A \cap B)
  <2>1. A \cap B \subseteq A
    OBVIOUS
  <2>. QED
    BY <2>1, FS_Subset
<1>3. Cardinality(A) \in Nat /\ Cardinality(B) \in Nat /\ Cardinality(A \cap B) \in Nat
  BY <1>2, FS_CardinalityType
<1>. QED
  BY <1>1, <1>3

(* _preserve_required_after_rerank: with all mandatory candidates back and *)
(* the others cut to the room that is left, the limit holds without        *)
(* cutting a mandatory one.                                                *)
LEMMA PreservedKeeps ==
  ASSUME NEW candidates \in Seq(Rec), NEW ranked \in Seq(Rec), DistinctDocs(candidates), DistinctDocs(ranked),
         ToSet(ranked) \subseteq ToSet(candidates),
         NEW required \in SUBSET Docs, Cardinality(required) <= Limit
  PROVE  ToSet(DocsOf(candidates)) \cap required \subseteq ToSet(DocsOf(Preserved(ranked, candidates, required)))
<1> DEFINE answered == ToSet(DocsOf(ranked))
           lost == About(candidates, required \ answered)
           others == About(ranked, Docs \ required)
           mine == About(ranked, required)
           room == Limit - Len(mine) - Len(lost)
           rest == First(room, others)
           staying == IF room > 0 THEN ToSet(DocsOf(rest)) ELSE {}
           all == ranked \o lost
           kept == About(all, required \cup staying)
<1>1. Preserved(ranked, candidates, required) = First(Limit, kept)
  BY DEF Preserved
<1>2. /\ lost \in Seq(Rec) /\ DistinctDocs(lost)
      /\ ToSet(lost) = {r \in ToSet(candidates) : r.doc \in required \ answered}
  BY AboutIs
<1>3. /\ mine \in Seq(Rec) /\ DistinctDocs(mine) /\ ToSet(mine) = {r \in ToSet(ranked) : r.doc \in required}
      /\ others \in Seq(Rec) /\ DistinctDocs(others)
  BY AboutIs
<1>4. \A d : d \in answered <=> \E r \in ToSet(ranked) : r.doc = d
  BY DocsAre
<1> HIDE DEF answered, lost, mine, others
<1>5. all \in Seq(Rec) /\ DistinctDocs(all) /\ ToSet(all) = ToSet(ranked) \cup ToSet(lost)
  <2>1. \A q \in ToSet(ranked), r \in ToSet(lost) : q.doc # r.doc
    BY <1>2, <1>4
  <2>. QED
    BY <1>2, <2>1, Joint
<1> HIDE DEF all
<1>6. Len(mine) \in Nat /\ Len(lost) \in Nat /\ Limit \in Nat
  BY <1>2, <1>3, RetrievalAssumption
<1>7. /\ kept \in Seq(Rec) /\ DistinctDocs(kept)
      /\ ToSet(kept) = {r \in ToSet(all) : r.doc \in required \cup staying}
  <2> HIDE DEF staying
  <2>. QED
    BY <1>5, AboutIs
<1> HIDE DEF kept
<1>8. \A d : d \in ToSet(DocsOf(kept)) <=> \E r \in ToSet(kept) : r.doc = d
  BY <1>7, DocsAre
<1>9. Len(kept) <= Limit
  <2> DEFINE K == ToSet(DocsOf(kept))
             M == ToSet(DocsOf(mine))
             L == ToSet(DocsOf(lost))
  <2>1. /\ IsFiniteSet(K) /\ Cardinality(K) = Len(kept)
        /\ IsFiniteSet(M) /\ Cardinality(M) = Len(mine)
        /\ IsFiniteSet(L) /\ Cardinality(L) = Len(lost)
    BY <1>2, <1>3, <1>7, DocsAre
  <2>2. \A d : (d \in M <=> \E r \in ToSet(mine) : r.doc = d) /\ (d \in L <=> \E r \in ToSet(lost) : r.doc = d)
    BY <1>2, <1>3, DocsAre
  <2>3. CASE room > 0
    <3>1. rest \in Seq(Rec) /\ Len(rest) <= room /\ DistinctDocs(rest)
      <4>1. room \in Nat
        BY <1>6, <2>3
      <4> HIDE DEF room
      <4>. QED
        BY <1>3, <4>1, FirstIs
    <3> HIDE DEF rest
    <3> DEFINE R == ToSet(DocsOf(rest))
    <3>2. IsFiniteSet(R) /\ Cardinality(R) = Len(rest)
      BY <3>1, DocsAre
    <3>3. staying = R
      BY <2>3
    <3> HIDE DEF staying, R, K, M, L
    <3>4. K \subseteq (M \cup L) \cup R
      BY <1>3, <1>5, <1>7, <1>8, <2>2, <3>3 DEF K
    <3>5. IsFiniteSet(M \cup L) /\ Cardinality(M \cup L) <= Cardinality(M) + Cardinality(L)
      BY <2>1, UnionBound
    <3>6. IsFiniteSet((M \cup L) \cup R) /\ Cardinality((M \cup L) \cup R) <= Cardinality(M \cup L) + Cardinality(R)
      BY <3>2, <3>5, UnionBound
    <3>7. Cardinality(K) <= Cardinality((M \cup L) \cup R)
      BY <3>4, <3>6, FS_Subset
    <3>8. /\ Cardinality(M \cup L) \in Nat /\ Cardinality((M \cup L) \cup R) \in Nat
          /\ Len(rest) \in Nat /\ Len(kept) \in Nat
      BY <1>7, <3>1, <3>5, <3>6, FS_CardinalityType
    <3>9. Len(kept) <= Len(mine) + Len(lost) + Len(rest)
      BY <1>6, <2>1, <3>2, <3>5, <3>6, <3>7, <3>8
    <3>. QED
      BY <1>6, <3>1, <3>8, <3>9
  <2>4. CASE ~(room > 0)
    <3>1. staying = {}
      BY <2>4
    <3>2. K \subseteq required
      BY <1>7, <1>8, <3>1
    <3>3. IsFiniteSet(required) /\ Cardinality(required) \in Nat
      BY FusionAssumption, FS_Subset, FS_CardinalityType
    <3>4. Cardinality(K) <= Cardinality(required)
      BY <3>2, <3>3, FS_Subset
    <3>5. Len(kept) \in Nat
      BY <1>7
    <3>. QED
      BY <1>6, <2>1, <3>3, <3>4, <3>5
  <2>. QED
    BY <2>3, <2>4
<1>10. First(Limit, kept) = kept
  BY <1>6, <1>7, <1>9, FirstIs
<1>11. ASSUME NEW d \in required, NEW r \in ToSet(candidates), r.doc = d
       PROVE  d \in ToSet(DocsOf(kept))
  <2>1. \E q \in ToSet(all) : q.doc = d
    BY <1>2, <1>4, <1>5, <1>11
  <2>. QED
    BY <1>7, <1>8, <2>1
<1>12. \A d : d \in ToSet(DocsOf(candidates)) <=> \E r \in ToSet(candidates) : r.doc = d
  BY DocsAre
<1>. QED
  BY <1>1, <1>10, <1>11, <1>12

LEMMA RequiredDocs ==
  ASSUME NEW required \in Requireds
  PROVE  required \in SUBSET Docs
<1>1. \A hits \in Orders(Docs) : hits \in Seq(Docs)
  <2>1. Cardinality(Docs) \in Nat
    BY FusionAssumption, FS_CardinalityType
  <2>. QED
    BY <2>1 DEF Orders, SeqOf
<1>2. PICK hits \in Orders(Docs), bearing \in SUBSET Docs, strict \in Orders(Docs) :
        required = Mandatory(NamedHits(hits, bearing), strict)
  BY DEF Requireds
<1>3. NamedHits(hits, bearing) \subseteq Docs
  BY DEF NamedHits
<1>4. ToSet(First(StrictLimit, strict)) \subseteq Docs
  <2>1. strict \in Seq(Docs) /\ StrictLimit \in Nat
    BY <1>1, FusionAssumption
  <2>2. ToSet(First(StrictLimit, strict)) \subseteq ToSet(strict)
    BY <2>1, FirstIs
  <2>3. \A i \in DOMAIN strict : strict[i] \in Docs
    BY <2>1
  <2>4. ToSet(strict) \subseteq Docs
    BY <2>3 DEF ToSet
  <2>. QED
    BY <2>2, <2>4
<1>. QED
  BY <1>2, <1>3, <1>4 DEF Mandatory

LEMMA WithRequiredIs ==
  ASSUME NEW fused \in Seq(Rec), DistinctDocs(fused), NEW required \in SUBSET Docs
  PROVE  WithRequired(fused, required) \in Seq(Rec) /\ DistinctDocs(WithRequired(fused, required))
<1> DEFINE S == required \ ToSet(DocsOf(fused))
           missing == SetToSeq(S)
           more == [i \in DOMAIN missing |-> Record("files", missing[i], 0)]
<1>1. IsFiniteSet(S)
  BY FusionAssumption, FS_Subset
<1>2. missing \in Seq(S) /\ Distinct(missing)
  <2> HIDE DEF S
  <2>. QED
    BY <1>1, SetToSeqIs
<1>3. WithRequired(fused, required) = fused \o more
  BY DEF WithRequired
<1> HIDE DEF missing
<1>4. S \subseteq Docs /\ \A d \in S : \A r \in ToSet(fused) : r.doc # d
  BY DocsAre
<1> HIDE DEF S
<1>5. \A i \in DOMAIN missing : missing[i] \in S
  BY <1>2
<1>6. \A i \in DOMAIN missing : more[i] \in Rec /\ more[i].doc = missing[i]
  BY <1>4, <1>5, RecordIs
<1>7. more \in Seq(Rec) /\ DOMAIN more = DOMAIN missing
  <2>1. DOMAIN missing = 1 .. Len(missing) /\ Len(missing) \in Nat
    BY <1>2
  <2>. QED
    BY <1>6, <2>1
<1> HIDE DEF more
<1>8. DistinctDocs(more)
  BY <1>2, <1>6, <1>7 DEF Distinct, DistinctDocs
<1>9. \A q \in ToSet(fused), r \in ToSet(more) : q.doc # r.doc
  BY <1>4, <1>5, <1>6, <1>7 DEF ToSet
<1>. QED
  BY <1>3, <1>7, <1>8, <1>9, Joint

(* What holds of any candidates holds of those of the search by probes.    *)
LEMMA RequiredStay ==
  ASSUME NEW required \in Requireds, Cardinality(required) <= Limit,
         NEW one \in ExactProbes, NEW other \in RawProbes, NEW literal \in SUBSET Docs,
         NEW ranked \in Ranked("usual", ProbeCandidates(<<one, other>>, literal, required))
  PROVE  ToSet(DocsOf(ProbeCandidates(<<one, other>>, literal, required))) \cap required
           \subseteq ToSet(DocsOf(Preserved(ranked, ProbeCandidates(<<one, other>>, literal, required), required)))
<1> DEFINE rankings == <<one, other>>
           audited == Audited(rankings, literal)
           fused == ProbesFused(audited)
           all == WithRequired(fused, required)
           max == AtMost(JointLimit, Len(all))
           candidates == ProbeCandidates(rankings, literal, required)
<1>1. required \in SUBSET Docs
  BY RequiredDocs
<1>2. one \in Seq(Rec)
  <2>1. PICK hits \in Orders(Docs) : one = [i \in DOMAIN hits |-> Record("files", hits[i], i)]
    BY DEF ExactProbes, ExactList
  <2>2. hits \in Seq(Docs)
    <3>1. Cardinality(Docs) \in Nat
      BY FusionAssumption, FS_CardinalityType
    <3>. QED
      BY <3>1 DEF Orders, SeqOf
  <2>3. DOMAIN hits = 1 .. Len(hits) /\ Len(hits) \in Nat /\ \A i \in DOMAIN hits : hits[i] \in Docs
    BY <2>2
  <2>4. \A i \in DOMAIN hits : Record("files", hits[i], i) \in Rec
    BY <2>3, RecordIs
  <2>. QED
    BY <2>1, <2>3, <2>4
<1>3. other \in Seq(Rec)
  <2>1. PICK lists \in ArmLists : other = RerankCandidates("raw", Fused(lists, [a \in Arms |-> 20]))
    BY DEF RawProbes
  <2> DEFINE weights == [a \in Arms |-> 20]
  <2>2. weights \in [Arms -> Nat]
    OBVIOUS
  <2> HIDE DEF weights
  <2>3. RerankCandidates("raw", Fused(lists, weights)) \in Seq(Rec)
    BY <2>2, CandidatesAre
  <2>. QED
    BY <2>1, <2>3 DEF weights
<1>4. audited \in Seq(Seq(Rec))
  <2>1. rankings \in Seq(Seq(Rec)) /\ DOMAIN rankings = 1 .. 2 /\ \A i \in 1 .. 2 : rankings[i] \in Seq(Rec)
    BY <1>2, <1>3
  <2> HIDE DEF rankings
  <2>2. \A i \in 1 .. 2 : About(rankings[i], literal) \in Seq(Rec)
    BY <2>1, AboutIs
  <2>. QED
    BY <2>1, <2>2 DEF Audited
<1> HIDE DEF audited
<1>5. fused \in Seq(Rec) /\ DistinctDocs(fused)
  BY <1>4, ProbesFusedIs
<1> HIDE DEF fused
<1>6. all \in Seq(Rec) /\ DistinctDocs(all)
  BY <1>1, <1>5, WithRequiredIs
<1>7. candidates = Grouped(max, all)
  BY DEF ProbeCandidates, audited, fused
<1> HIDE DEF all
<1>8. max \in Nat
  BY <1>6, FusionAssumption DEF AtMost
<1> HIDE DEF max, rankings
<1>9. candidates \in Seq(Rec) /\ DistinctDocs(candidates)
  BY <1>6, <1>7, <1>8, GroupedForms
<1>10. ranked \in Ranked("usual", candidates)
  BY DEF rankings
<1> HIDE DEF candidates
<1>11. ranked \in Seq(Rec) /\ DistinctDocs(ranked) /\ ToSet(ranked) \subseteq ToSet(candidates)
  BY <1>9, <1>10, RankedAre
<1>12. ToSet(DocsOf(candidates)) \cap required \subseteq ToSet(DocsOf(Preserved(ranked, candidates, required)))
  BY <1>1, <1>9, <1>11, PreservedKeeps
<1>. QED
  BY <1>12 DEF candidates, rankings

(* Mandatory documents among the candidates are answered from.             *)
LEMMA NoRequiredLost == RequiredLost = {}
<1> SUFFICES ASSUME NEW required \in Requireds, Cardinality(required) <= Limit,
                    NEW one \in ExactProbes, NEW other \in RawProbes, NEW literal \in SUBSET Docs,
                    NEW ranked \in Ranked("usual", ProbeCandidates(<<one, other>>, literal, required))
             PROVE  ToSet(DocsOf(ProbeCandidates(<<one, other>>, literal, required))) \cap required
           \subseteq ToSet(DocsOf(Preserved(ranked, ProbeCandidates(<<one, other>>, literal, required), required)))
  BY Zenon DEF RequiredLost
<1>. QED
  BY RequiredStay

(* Whatever the arms of a call have found, and however it is weighed and   *)
(* reranked, the results are among those module Retrieval lets the call go *)
(* on with: found documents, each once, with found copies of theirs, as    *)
(* many as Limit allows and not without any (fuse_results,                 *)
(* deduplicate_for_reranker and the stages between them).                  *)
THEOREM FusionStaysWithin == Spec => []RankingsAllowed
<1>1. RankingsAllowed
  BY NoStrays DEF RankingsAllowed
<1>. QED BY <1>1, PTL

(* However little an arm weighs, its best document is judged by the        *)
(* reranker, itself or as a copy, if there is room for one of every arm;   *)
(* and whatever the reranker drops, mandatory documents among the          *)
(* candidates are answered from, if there is room for all of them          *)
(* (_arm_head_document_ids, _preserve_required_after_rerank).              *)
THEOREM FusionKeepsPromises == Spec => []PromisesKept
<1>1. PromisesKept
  BY NoHeadsLost, NoRequiredLost DEF PromisesKept
<1>. QED BY <1>1, PTL

=============================================================================

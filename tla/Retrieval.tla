----------------------------- MODULE Retrieval -----------------------------
(***************************************************************************)
(* The document side of the API process: perform_search of rag/search.py,  *)
(* the live access check of rag/acl.py, and the endpoints /search,         *)
(* /documents/resolve and /elastic of rag/api.py that put the two in       *)
(* sequence.  One call at a time: the provider (module Answers) makes it   *)
(* and waits for its reply.                                                *)
(*                                                                         *)
(* Elasticsearch, Qdrant and Neo4j are what they may return: any documents *)
(* in any order, or nothing.  Nextcloud decides who sees what, and may     *)
(* decide otherwise at any moment, also between two batches of one check.  *)
(***************************************************************************)
EXTENDS Naturals, Sequences, FiniteSets, SequencesExt

CONSTANTS
  Docs,
  Family,      \* the documents that are copies of each other have one family
  Arms,        \* arms a search may ask for
  Limit,       \* results of a search
  ExactLimit,  \* documents /elastic loads
  BatchSize,   \* ids in one request to Nextcloud
  Setups,      \* settings: live_acl.enabled, ALLOW_GENERAL_KNOWLEDGE
  MaxChanges,  \* bound: permissions granted or withdrawn
  MaxFaults    \* bound: requests to other services that fail

ASSUME RetrievalAssumption ==
  /\ DOMAIN Family = Docs /\ Arms \subseteq {"files", "vector", "graph"}
  /\ Limit \in Nat \ {0} /\ ExactLimit \in Nat \ {0} /\ BatchSize \in Nat \ {0}
  /\ Setups \subseteq [acl : BOOLEAN, general : BOOLEAN]
  /\ MaxChanges \in Nat /\ MaxFaults \in Nat

VARIABLES
  setup,    \* the settings of this installation
  visible,  \* Nextcloud: what the user may read now
  seen,     \* history: what he could read at some moment since his request came in
  call,     \* the call of an endpoint, and its reply
  changes, faults

retrievalVars == <<setup, visible, seen, call, changes, faults>>

\* A result: its document, and the copies of it that were found as well.
Result == [doc : Docs, copies : SUBSET Docs]
Modes == {"found", "none", "filename", "too_unspecific", "unspecific", "degraded", "missing",
          "incomplete", "too_many", "error"}

NoCall ==
  [pc |-> "idle", kind |-> "search", arms |-> {}, forced |-> FALSE, raw |-> FALSE,
   refs |-> <<>>, second |-> FALSE, hits |-> {}, linked |-> {}, down |-> {},
   ranked |-> <<>>, left |-> {}, allowed |-> {}, mode |-> "none"]

RetrievalTypeOK ==
  /\ setup \in Setups
  /\ visible \subseteq Docs /\ seen \subseteq Docs
  /\ call.pc \in {"idle", "candidates", "files", "vector", "graph", "rank", "acl", "back"}
  /\ call.kind \in {"search", "resolve", "elastic"}
  /\ call.arms \subseteq Arms /\ call.down \subseteq call.arms
  /\ call.forced \in BOOLEAN /\ call.raw \in BOOLEAN /\ call.second \in BOOLEAN
  /\ ToSet(call.refs) \subseteq Docs
  /\ call.hits \subseteq Docs /\ call.linked \subseteq Docs
  /\ ToSet(call.ranked) \subseteq Result
  /\ call.left \subseteq Docs /\ call.allowed \subseteq Docs
  /\ call.left \cap call.allowed = {}
  /\ call.mode \in Modes
  /\ changes \in 0 .. MaxChanges /\ faults \in 0 .. MaxFaults

RetrievalInit ==
  /\ setup \in Setups
  /\ visible = Docs /\ seen = Docs
  /\ call = NoCall
  /\ changes = 0 /\ faults = 0

AtMost(a, b) == IF a < b THEN a ELSE b
Fault == faults < MaxFaults /\ faults' = faults + 1

\* Nextcloud: a document is shared with the user, or no longer. Without live ACL
\* nobody asks.
Share(d) ==
  /\ setup.acl /\ changes < MaxChanges
  /\ visible' = IF d \in visible THEN visible \ {d} ELSE visible \cup {d}
  /\ seen' = seen \cup visible'
  /\ changes' = changes + 1
  /\ UNCHANGED <<setup, call, faults>>

\* _rag_search, _rag_resolve_documents, _elastic_search: the request that is posted.
Search(arms, forced, raw) ==
  [NoCall EXCEPT !.pc = "files", !.arms = arms, !.forced = forced, !.raw = raw]
Resolve(refs) == [NoCall EXCEPT !.pc = "candidates", !.kind = "resolve", !.refs = refs]
Elastic == [NoCall EXCEPT !.pc = "candidates", !.kind = "elastic", !.arms = Arms \cap {"files"}]

\* _response_file_ids: representatives and variants, each once.
Ids(results) ==
  {results[i].doc : i \in DOMAIN results} \cup UNION {results[i].copies : i \in DOMAIN results}

Check(results, mode) ==
  [NoCall EXCEPT !.pc = "acl", !.kind = call.kind, !.refs = call.refs, !.ranked = results,
                 !.mode = mode, !.left = IF setup.acl THEN Ids(results) ELSE {}]

Singles(docs) == [i \in DOMAIN docs |-> [doc |-> docs[i], copies |-> {}]]
Orders(docs) == {s \in SeqOf(docs, Cardinality(docs)) : \A i, j \in DOMAIN s : s[i] = s[j] => i = j}

\* These documents in the order in which s names them first: one sequence.
InOrderOf(s, docs) ==
  {t \in Orders(docs) :
     /\ ToSet(t) = docs
     /\ \A i, j \in DOMAIN t : i < j =>
          \E k \in DOMAIN s : s[k] = t[i] /\ \A l \in 1 .. k : s[l] # t[j]}

-----------------------------------------------------------------------------
(* perform_search.                                                         *)

\* With live ACL on the breadth of a field is judged behind the check only.
Forced == call.forced \/ setup.acl

\* An arm that was not asked for is skipped; one that fails leaves the others.
FilesArm ==
  /\ call.pc = "files"
  /\ \/ /\ "files" \in call.arms
        /\ \E hits \in SUBSET Docs : call' = [call EXCEPT !.pc = "vector", !.hits = hits]
        /\ UNCHANGED faults
     \/ /\ "files" \in call.arms /\ Fault
        /\ call' = [call EXCEPT !.pc = "vector", !.down = @ \cup {"files"}]
     \/ /\ "files" \notin call.arms
        /\ call' = [call EXCEPT !.pc = "vector"] /\ UNCHANGED faults
  /\ UNCHANGED <<setup, visible, seen, changes>>

\* A question that is a file name is looked up by it; no arm runs, and a failure
\* of the lookup is not caught.
LookUpName ==
  /\ call.pc = "files" /\ "files" \in call.arms
  /\ \/ /\ \E hits \in SUBSET Docs : \E docs \in Orders(hits) :
             Len(docs) <= Limit /\ call' = Check(Singles(docs), "filename")
        /\ UNCHANGED faults
     \/ Fault /\ call' = [NoCall EXCEPT !.pc = "back", !.mode = "error"]
  /\ UNCHANGED <<setup, visible, seen, changes>>

\* broad_entity_guard: a bare name with more hits than the window stops here.
TooBroad ==
  /\ call.pc = "files" /\ "files" \in call.arms /\ ~call.raw /\ ~Forced
  /\ call' = Check(<<>>, "too_unspecific")
  /\ UNCHANGED <<setup, visible, seen, changes, faults>>

VectorArm ==
  /\ call.pc = "vector"
  /\ \/ /\ "vector" \in call.arms
        /\ \E hits \in SUBSET Docs : call' = [call EXCEPT !.pc = "graph", !.hits = @ \cup hits]
        /\ UNCHANGED faults
     \/ /\ "vector" \in call.arms /\ Fault
        /\ call' = [call EXCEPT !.pc = "graph", !.down = @ \cup {"vector"}]
     \/ /\ "vector" \notin call.arms
        /\ call' = [call EXCEPT !.pc = "graph"] /\ UNCHANGED faults
  /\ UNCHANGED <<setup, visible, seen, changes>>

GraphArm ==
  /\ call.pc = "graph"
  /\ \/ /\ "graph" \in call.arms
        /\ \E docs \in SUBSET Docs : call' = [call EXCEPT !.pc = "rank", !.linked = docs]
        /\ UNCHANGED faults
     \/ /\ "graph" \in call.arms /\ Fault
        /\ call' = [call EXCEPT !.pc = "rank", !.down = @ \cup {"graph"}]
     \/ /\ "graph" \notin call.arms
        /\ call' = [call EXCEPT !.pc = "rank"] /\ UNCHANGED faults
  /\ UNCHANGED <<setup, visible, seen, changes>>

\* Fusion, deduplication and reranking (or its fallback): some families of the
\* pool in some order, each with one representative and all its copies.
Kin(d, pool) == {e \in pool : Family[e] = Family[d]} \ {d}
Rankings(pool) ==
  {s \in BoundedSeq(UNION {{[doc |-> d, copies |-> copies] : copies \in SUBSET Kin(d, pool)} : d \in pool}, Limit) :
     s # <<>> /\ \A i, j \in DOMAIN s : s[i].doc = s[j].doc => i = j}

NothingFound ==
  /\ call.pc = "rank" /\ call.hits \cup call.linked = {}
  /\ call' = Check(<<>>, IF call.down = {} THEN "none" ELSE "degraded")
  /\ UNCHANGED <<setup, visible, seen, changes, faults>>

\* A flat field is rejected, unless the graph supports it or the search is forced.
RejectFlat ==
  /\ call.pc = "rank" /\ call.hits # {} /\ call.linked = {} /\ ~call.raw /\ ~Forced
  /\ call' = Check(<<>>, "unspecific")
  /\ UNCHANGED <<setup, visible, seen, changes, faults>>

\* forced_fusion under live ACL: the field is flat, and is judged behind the check.
FuseFlat ==
  /\ call.pc = "rank" /\ call.hits # {} /\ call.linked = {} /\ ~call.raw
  /\ setup.acl /\ ~call.forced
  /\ \E results \in Rankings(call.hits) : call' = Check(results, "unspecific")
  /\ UNCHANGED <<setup, visible, seen, changes, faults>>

Fuse ==
  /\ call.pc = "rank" /\ call.hits \cup call.linked # {}
  /\ \E results \in Rankings(call.hits \cup call.linked) : call' = Check(results, "found")
  /\ UNCHANGED <<setup, visible, seen, changes, faults>>

\* document_reference_candidates: what the index still has of the references.
FindReferences ==
  /\ call.pc = "candidates" /\ call.kind = "resolve"
  /\ \/ /\ \E left \in SUBSET ToSet(call.refs) : \E docs \in InOrderOf(call.refs, left) :
             call' = Check(Singles(docs), "found")
        /\ UNCHANGED faults
     \/ Fault /\ call' = [NoCall EXCEPT !.pc = "back", !.kind = call.kind, !.mode = "error"]
  /\ UNCHANGED <<setup, visible, seen, changes>>

\* elastic_exact_search: all hits, or those of a prefix (count_complete).
FindExact ==
  /\ call.pc = "candidates" /\ call.kind = "elastic"
  /\ \/ /\ \E hits \in SUBSET Docs : \E docs \in Orders(hits), complete \in BOOLEAN :
             call' = Check(Singles(docs), IF complete \/ ~setup.acl THEN "found" ELSE "incomplete")
        /\ UNCHANGED faults
     \/ Fault /\ call' = [NoCall EXCEPT !.pc = "back", !.kind = call.kind, !.mode = "error"]
  /\ UNCHANGED <<setup, visible, seen, changes>>

-----------------------------------------------------------------------------
(* The live access check.                                                  *)

\* One SEARCH by file ids: Nextcloud returns those the user sees now.
AclBatch ==
  /\ call.pc = "acl" /\ call.left # {}
  /\ \E ids \in SUBSET call.left :
       /\ Cardinality(ids) = AtMost(BatchSize, Cardinality(call.left))
       /\ call' = [call EXCEPT !.left = @ \ ids, !.allowed = @ \cup (ids \cap visible)]
  /\ UNCHANGED <<setup, visible, seen, changes, faults>>

\* AclIdentityError, AclBackendError: one failed batch fails the whole request.
AclFails ==
  /\ call.pc = "acl" /\ call.left # {} /\ Fault
  /\ call' = [NoCall EXCEPT !.pc = "back", !.kind = call.kind, !.mode = "error"]
  /\ UNCHANGED <<setup, visible, seen, changes>>

\* A denied representative gives way to a copy the user sees, or the result goes.
Promoted(r) ==
  IF ~setup.acl \/ r.doc \in call.allowed THEN {r.doc} ELSE r.copies \cap call.allowed

\* The sequences a list of results may become: those that are left, in their order.
Authorized(results) ==
  LET kept == {i \in DOMAIN results : Promoted(results[i]) # {}}
      Places == {at \in [1 .. Cardinality(kept) -> kept] : \A i, j \in DOMAIN at : i < j => at[i] < at[j]}
  IN UNION {{s \in [DOMAIN at -> Docs] : \A i \in DOMAIN at : s[i] \in Promoted(results[at[i]])} : at \in Places}

Checked == call.pc = "acl" /\ call.left = {}

Reply(docs, mode) == [NoCall EXCEPT !.pc = "back", !.kind = call.kind, !.mode = mode, !.ranked = Singles(docs)]

\* /search: a field that was judged flat is told to him only who sees some of it.
ReplySearch ==
  /\ Checked /\ call.kind = "search"
  /\ \E docs \in Authorized(call.ranked) :
       call' = IF setup.acl /\ call.mode = "unspecific"
               THEN Reply(<<>>, IF docs = <<>> THEN "none" ELSE "unspecific")
               ELSE Reply(docs, call.mode)
  /\ UNCHANGED <<setup, visible, seen, changes, faults>>

\* /documents/resolve: what is visible is loaded, and checked a second time.
LoadResolved ==
  /\ Checked /\ call.kind = "resolve" /\ ~call.second
  /\ \E docs \in Authorized(call.ranked) :
       call' = [Check(Singles(docs), IF ToSet(docs) = ToSet(call.refs) THEN "found" ELSE "missing")
                EXCEPT !.second = TRUE]
  /\ UNCHANGED <<setup, visible, seen, changes, faults>>

ReplyResolve ==
  /\ Checked /\ call.kind = "resolve" /\ call.second
  /\ \E docs \in Authorized(call.ranked) : call' = Reply(docs, call.mode)
  /\ UNCHANGED <<setup, visible, seen, changes, faults>>

ReplyElastic ==
  /\ Checked /\ call.kind = "elastic"
  /\ \E docs \in Authorized(call.ranked) :
       call' = IF call.mode = "found" /\ Len(docs) > ExactLimit
               THEN Reply(SubSeq(docs, 1, ExactLimit), "too_many")
               ELSE Reply(SubSeq(docs, 1, AtMost(ExactLimit, Len(docs))), call.mode)
  /\ UNCHANGED <<setup, visible, seen, changes, faults>>

RetrievalStep ==
  \/ LookUpName \/ FilesArm \/ TooBroad \/ VectorArm \/ GraphArm
  \/ NothingFound \/ RejectFlat \/ FuseFlat \/ Fuse
  \/ FindReferences \/ FindExact
  \/ AclBatch \/ AclFails
  \/ ReplySearch \/ LoadResolved \/ ReplyResolve \/ ReplyElastic

=============================================================================

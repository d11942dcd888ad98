------------------------------- MODULE Fusion -------------------------------
(***************************************************************************)
(* How rag/search.py makes one list of the documents its arms find, in     *)
(* detail: the groups of copies within an arm, the strategy read off the   *)
(* score curves, weighted reciprocal rank fusion, the candidates of the    *)
(* reranker, and the search by several probes with mandatory documents     *)
(* (/multi-search).  Module Retrieval takes the outcome as any of          *)
(* Rankings; RankingsAllowed says that this is all fusion can do.          *)
(*                                                                         *)
(* Weights are counted in twentieths, and Unit stands for the whole that   *)
(* 1 / (rrf_k + rank) is a share of.  What the code filters and sorts is   *)
(* here what Arranged makes of a set and an order: SelectSeq and SortSeq   *)
(* are recursive, and nothing could be proved of them.                     *)
(***************************************************************************)
EXTENDS Retrieval

CONSTANTS
  Twins,            \* pairs of finds <<arm, document>>: of one file, or with passages nearly alike
  RrfK, Unit,
  Window,           \* hits an arm may return
  PoolLimit,        \* candidates of the reranker; Limit of them after a rewrite of the question
  FlatFrom,         \* retrieval_signal.min_curve_candidates
  SecondaryFloor,   \* secondary_weight_floor
  GraphWeights,     \* what the graph weighs, by the kind of its result
  JointLimit,       \* candidates of a search by probes
  StrictLimit,      \* documents of earlier rounds that are mandatory
  MaxPassages,      \* bound: passages a vector search finds
  MaxLinked         \* bound: documents a graph search finds

ASSUME FusionAssumption ==
  /\ IsFiniteSet(Docs)
  /\ \A pair \in Twins : Family[pair[1][2]] = Family[pair[2][2]] /\ <<pair[2], pair[1]>> \in Twins
  /\ RrfK \in Nat /\ Unit \in Nat /\ \A rank \in 1 .. Cardinality(Docs) : Unit % (RrfK + rank) = 0
  /\ PoolLimit \in Nat \ {0} /\ FlatFrom \in Nat \ {0, 1} /\ StrictLimit \in Nat /\ Window \in Nat
  /\ SecondaryFloor \in 0 .. 20 /\ GraphWeights \subseteq 0 .. 20 /\ JointLimit \in Nat
  /\ MaxPassages \in Nat /\ MaxLinked \in Nat

\* The members of a finite set one after the other: before holds the pairs of which the
\* first precedes the second.
Arranged(S, before) ==
  CHOOSE order \in [1 .. Cardinality(S) -> S] :
    \A i, j \in 1 .. Cardinality(S) : i < j => <<order[i], order[j]>> \in before

\* What s has at some of its positions.
At(s, positions) ==
  LET order == Arranged(positions, {p \in positions \X positions : p[1] < p[2]})
  IN [k \in DOMAIN order |-> s[order[k]]]

\* A filter by membership.
Within(s, set) == At(s, {i \in DOMAIN s : s[i] \in set})

\* Each element where it occurs first.
Once(s) == At(s, {i \in DOMAIN s : \A j \in DOMAIN s : j < i => s[j] # s[i]})

First(n, s) == SubSeq(s, 1, AtMost(n, Len(s)))

\* A document as a stage hands it on: its copies so far, the rank each arm gave it
\* (0: not found by it), and the passages at hand.
Record(arm, d, rank) ==
  [doc |-> d, copies |-> {}, ranks |-> [a \in Arms |-> IF a = arm THEN rank ELSE 0], texts |-> {<<arm, d>>}, score |-> 0]

-----------------------------------------------------------------------------
(* Copies.                                                                 *)

Alike(r, s) == (r.texts \X s.texts) \cap Twins # {}

\* _merge_retrieval_provenance: the best rank of each arm, and passages of arms
\* that had not found the document.
Provenance(r, s) ==
  [r EXCEPT !.ranks = [a \in Arms |-> IF @[a] = 0 \/ (s.ranks[a] # 0 /\ s.ranks[a] < @[a]) THEN s.ranks[a] ELSE @[a]],
            !.texts = @ \cup {t \in s.texts : \A u \in @ : u[1] # t[1]}]

\* _merge_duplicate_variants: what a group is after a copy has joined it.
Joining(r, s) == [Provenance(r, s) EXCEPT !.copies = @ \cup {s.doc} \cup s.copies]

\* mistake: a copy goes to the latest group, not to the one it is a copy of
CollectLast(max, groups, s) ==
  LET alike == {i \in DOMAIN groups : Alike(groups[i].first, s)} IN
    IF Len(groups) = max THEN groups
    ELSE IF alike = {} THEN Append(groups, [first |-> s, now |-> s])
    ELSE [groups EXCEPT ![Len(groups)].now = Joining(@, s)]

\* A document joins the first group whose first document it is alike, or starts one;
\* when there are enough, the rest is not looked at.
Collect(max, groups, s) ==
  LET alike == {i \in DOMAIN groups : Alike(groups[i].first, s)} IN
    IF Len(groups) = max THEN groups
    ELSE IF alike = {} THEN Append(groups, [first |-> s, now |-> s])
    ELSE [groups EXCEPT ![CHOOSE i \in alike : \A j \in alike : i <= j].now = Joining(@, s)]

Grouped(max, records) ==
  LET groups == FoldLeft(LAMBDA g, s : Collect(max, g, s), <<>>, records)
  IN [i \in DOMAIN groups |-> groups[i].now]

-----------------------------------------------------------------------------
(* The arms of one search.                                                 *)

\* fulltext_search: the best hits within the source scope.
FileHits(hits, scope) == First(Window, Within(hits, scope))

\* vector_search: of the passages that are near enough, the nearest of each document.
VectorHits(passages, scope) == First(Window, Once(Within(passages, scope)))

\* prepare_entity_context: whatever fails, the search goes on without entities.
QueryEntities(enabled, connected, known) == IF enabled /\ connected THEN known ELSE {}

\* graph_search: the documents linked to an entity of the question.
LinkedHits(entities, linked, scope) ==
  IF entities = {} THEN <<>> ELSE First(Window, Within(linked, scope))

\* deduplicate_retrieval_arm: files and vector give ranks to groups, the graph to documents.
Unique(arm, hits) ==
  LET found == [i \in DOMAIN hits |-> Record(arm, hits[i], 0)]
      groups == IF arm = "graph" THEN found ELSE Grouped(Len(hits) + 1, found)
  IN [i \in DOMAIN groups |-> [groups[i] EXCEPT !.ranks[arm] = i]]

-----------------------------------------------------------------------------
(* Weights and fusion.                                                     *)

\* analyze_score_curve: a short list is never flat.
Curves(list) ==
  IF list = <<>> THEN {"absent"} ELSE IF Len(list) < FlatFrom THEN {"clear"} ELSE {"clear", "flat"}

\* choose_retrieval_strategy: a flat arm weighs little beside a clear one, and of two
\* clear ones either may dominate.
Observed(files, vector) ==
  CASE files # "clear" /\ vector # "clear"      -> {<<0, 0>>}
    [] files = "absent" /\ vector = "clear"     -> {<<0, 20>>}
    [] files = "clear" /\ vector = "absent"     -> {<<20, 0>>}
    [] files = "flat" /\ vector = "clear"       -> {<<SecondaryFloor, 20>>}
    [] files = "clear" /\ vector = "flat"       -> {<<20, SecondaryFloor>>}
    [] files = "clear" /\ vector = "clear"      -> {<<20, 20>>, <<20, SecondaryFloor>>, <<SecondaryFloor, 20>>}

Unspecific(files, vector) == {files, vector} \subseteq {"absent", "flat"} /\ "flat" \in {files, vector}

\* The weights a search may apply, how: "usual", "forced" or "raw". A flat field
\* that nothing supports is rejected, unless the search is forced.
Weights(how, lists) ==
  LET Weigh(pair, g) == [a \in Arms |-> CASE a = "files" -> pair[1] [] a = "vector" -> pair[2] [] a = "graph" -> g]
      found == lists["graph"] # <<>>
      graph == IF found THEN GraphWeights ELSE {0}
      Applied(files, vector) ==
        IF ~Unspecific(files, vector) THEN Observed(files, vector)
        ELSE IF found THEN {<<4, 3>>}
        ELSE IF how = "forced" THEN {<<20, 20>>} ELSE {}
  IN IF how = "raw" THEN {Weigh(<<20, 20>>, 20)}
     ELSE {Weigh(pair, g) : pair \in UNION {Applied(files, vector) : files \in Curves(lists["files"]),
                                                                   vector \in Curves(lists["vector"])}, g \in graph}

\* fuse_results, and the probe-level fusion: by falling score; of equal ones the document
\* that was found first comes first.
ByScore(records, docs) ==
  LET Earlier(d, e) == \E i, j \in DOMAIN docs : i < j /\ docs[i] = d /\ docs[j] = e
  IN Arranged(records, {p \in records \X records :
                          \/ p[1].score > p[2].score
                          \/ p[1].score = p[2].score /\ Earlier(p[1].doc, p[2].doc)})

Part(weight, rank) == weight * (Unit \div (RrfK + rank))

Place(list, d) == IF \E i \in DOMAIN list : list[i].doc = d THEN CHOOSE i \in DOMAIN list : list[i].doc = d ELSE 0

ArmOrder == Within(<<"files", "vector", "graph">>, Arms)

\* A filter by document.
About(list, docs) == At(list, {i \in DOMAIN list : list[i].doc \in docs})
DocsOf(list) == [i \in DOMAIN list |-> list[i].doc]

\* The documents of several lists, list by list, each where it occurs first.
InOrder(lists) ==
  LET places == UNION {{i} \X (DOMAIN lists[i]) : i \in DOMAIN lists}
      before == {p \in places \X places : p[1][1] < p[2][1] \/ (p[1][1] = p[2][1] /\ p[1][2] < p[2][2])}
      DocAt(p) == lists[p[1]][p[2]].doc
      order == Arranged({p \in places : \A q \in places : <<q, p>> \in before => DocAt(q) # DocAt(p)}, before)
  IN [k \in DOMAIN order |-> DocAt(order[k])]

Fused(lists, weights) ==
  LET Joined(d) ==
        LET ranks == [a \in Arms |-> Place(lists[a], d)]
            by == {a \in Arms : ranks[a] # 0}
        IN [doc |-> d, copies |-> UNION {lists[a][ranks[a]].copies : a \in by}, ranks |-> ranks,
            texts |-> by \X {d}, score |-> SumFunction([a \in by |-> Part(weights[a], ranks[a])])]
      docs == InOrder([i \in DOMAIN ArmOrder |-> lists[ArmOrder[i]]])
  IN ByScore({Joined(d) : d \in ToSet(docs)}, docs)

\* mistake: the score alone decides what the reranker sees
NoHeads(fused) == <<>>

\* _arm_head_document_ids: the best document of every arm that has found any.
ArmHeads(fused) ==
  LET Found(a) == {r \in ToSet(fused) : r.ranks[a] # 0}
      active == Within(ArmOrder, {a \in Arms : Found(a) # {}})
      Best(a) == CHOOSE r \in Found(a) : \A q \in Found(a) : r.ranks[a] <= q.ranks[a]
  IN [i \in DOMAIN active |-> Best(active[i])]

\* deduplicate_for_reranker.
RerankCandidates(how, fused) ==
  IF how = "raw" THEN Grouped(Limit, fused) ELSE Grouped(PoolLimit, Once(ArmHeads(fused) \o fused))

\* The reranker orders the candidates as it likes and drops some, never all; without it
\* they stay as they are.
Ranked(how, candidates) ==
  {First(Limit, candidates)} \cup
  {s \in Orders(ToSet(candidates)) : how # "raw" /\ Len(s) \in 1 .. Limit}

Results(ranked) == [i \in DOMAIN ranked |-> [doc |-> ranked[i].doc, copies |-> ranked[i].copies \ {ranked[i].doc}]]

-----------------------------------------------------------------------------
(* The search by probes.                                                   *)

\* A probe is answered by the exact search or by a raw search of its own.
ExactList(hits) == [i \in DOMAIN hits |-> Record("files", hits[i], i)]

\* _filter_probe_rankings_by_hard_constraints: years, dates and identifiers of the
\* question must occur; when that cannot be found out, everything stays.
Audited(rankings, literal) == [i \in DOMAIN rankings |-> About(rankings[i], literal)]

\* _merge_probe_rankings: the first probe that found a document gives its copies.
ProbesFused(rankings) ==
  LET Joined(d) ==
        LET finds == At(rankings, {i \in DOMAIN rankings : Place(rankings[i], d) # 0})
            all == [i \in DOMAIN finds |-> finds[i][Place(finds[i], d)]]
        IN [FoldLeft(Provenance, all[1], Tail(all)) EXCEPT
              !.score = SumFunction([i \in DOMAIN finds |-> Part(20, Place(finds[i], d))])]
      docs == InOrder(rankings)
  IN ByScore({Joined(d) : d \in ToSet(docs)}, docs)

\* strict_filename_lookup: of the hits, those that bear the name in the question.
NamedHits(hits, bearing) == ToSet(hits) \cap bearing

\* multi_search: the one file of that name, and the documents of earlier rounds, as many
\* as an answer may be complete about.
Mandatory(named, strict) ==
  (IF Cardinality(named) = 1 THEN named ELSE {}) \cup ToSet(First(StrictLimit, strict))

\* _merge_required_results: what no probe has found comes last.
WithRequired(fused, required) ==
  LET missing == SetToSeq(required \ ToSet(DocsOf(fused)))
  IN fused \o [i \in DOMAIN missing |-> Record("files", missing[i], 0)]

ProbeCandidates(rankings, literal, required) ==
  LET all == WithRequired(ProbesFused(Audited(rankings, literal)), required)
  IN Grouped(AtMost(JointLimit, Len(all)), all)

\* _preserve_required_after_rerank: mandatory candidates the reranker has dropped come
\* back, and the last of the others make room.
Preserved(ranked, candidates, required) ==
  LET lost == About(candidates, required \ ToSet(DocsOf(ranked)))
      others == About(ranked, Docs \ required)
      room == Limit - Len(About(ranked, required)) - Len(lost)
      staying == IF room > 0 THEN ToSet(DocsOf(First(room, others))) ELSE {}
  IN First(Limit, About(ranked \o lost, required \cup staying))

-----------------------------------------------------------------------------
(* What fusion promises, for all hits of a few documents.                  *)

Hows == {"usual", "forced", "raw"}

Hits(arm, found, scope, entities) ==
  CASE arm = "files" -> FileHits(found, scope)
    [] arm = "vector" -> VectorHits(found, scope)
    [] arm = "graph" -> LinkedHits(entities, found, scope)

\* What an index may have found: passages repeat documents.
Finds(arm) ==
  CASE arm = "files" -> Orders(Docs)
    [] arm = "vector" -> BoundedSeq(Docs, MaxPassages)
    [] arm = "graph" -> {found \in Orders(Docs) : Len(found) <= MaxLinked}

\* The lists an arm may contribute: the user, a setting or a failure may restrict any
\* of them.
ListsOf(arm) ==
  {Unique(arm, Hits(arm, found, scope, QueryEntities(enabled, connected, {"e"}))) :
     found \in Finds(arm), scope \in SUBSET Docs, enabled \in BOOLEAN, connected \in BOOLEAN}

ArmLists ==
  {[a \in Arms |-> CASE a = "files" -> files [] a = "vector" -> vector [] a = "graph" -> graph] :
     files \in ListsOf("files"), vector \in ListsOf("vector"), graph \in ListsOf("graph")}

AllDocs(lists) == UNION {{r.doc} \cup r.copies : r \in UNION {ToSet(lists[a]) : a \in Arms}}

\* What arms may have found so that fusion can make results of it that module Retrieval
\* does not allow.
Strays ==
  {pool \in {AllDocs(l) : l \in ArmLists} :
     LET allowed == IF pool = {} THEN {<<>>} ELSE Rankings(pool)
     IN \E lists \in {l \in ArmLists : AllDocs(l) = pool}, how \in Hows : \E weights \in Weights(how, lists) :
          \E ranked \in Ranked(how, RerankCandidates(how, Fused(lists, weights))) : Results(ranked) \notin allowed}

\* Whatever the arms of a call have found, and however it is weighed and reranked, the
\* results are among those module Retrieval lets the call go on with: documents that were
\* found, each once, with copies of them that were found, no more than the limit and not
\* without any (deduplicate_for_reranker and what feeds it).
RankingsAllowed ==
  call.pc = "rank" => call.hits \cup call.linked \notin Strays

\* The lists of which the best document of an arm is not judged by the reranker, neither
\* itself nor as a copy, though there is room for one of every arm.
HeadsLost ==
  {lists \in ArmLists :
     /\ Cardinality({a \in Arms : lists[a] # <<>>}) <= PoolLimit
     /\ \E how \in Hows \ {"raw"} : \E weights \in Weights(how, lists) :
          LET judged == AllDocs([a \in Arms |-> RerankCandidates(how, Fused(lists, weights))])
          IN \E a \in Arms : lists[a] # <<>> /\ lists[a][1].doc \notin judged}

ExactProbes == {ExactList(hits) : hits \in Orders(Docs)}
RawProbes ==
  {RerankCandidates("raw", Fused(lists, [a \in Arms |-> 20])) : lists \in {l \in ArmLists : l["graph"] = <<>>}}
Requireds ==
  {Mandatory(NamedHits(hits, bearing), strict) : hits \in Orders(Docs), bearing \in SUBSET Docs, strict \in Orders(Docs)}

\* The sets of mandatory documents of which one that is a candidate of its own does not
\* reach the answer, though there is room for all of them.
RequiredLost ==
  {required \in Requireds :
     /\ Cardinality(required) <= Limit
     /\ \E one \in ExactProbes, other \in RawProbes, literal \in SUBSET Docs :
          LET candidates == ProbeCandidates(<<one, other>>, literal, required) IN
            \E ranked \in Ranked("usual", candidates) :
              ~(ToSet(DocsOf(candidates)) \cap required \subseteq ToSet(DocsOf(Preserved(ranked, candidates, required))))}

\* However little an arm weighs beside the others, the best document it has found is
\* judged by the reranker (_arm_head_document_ids); and whatever the probes find, the
\* constraints of the question exclude and the reranker drops, the mandatory documents
\* among the candidates are answered from (_preserve_required_after_rerank).
PromisesKept ==
  call.pc = "rank" =>
    /\ \A lists \in HeadsLost : AllDocs(lists) # call.hits \cup call.linked
    /\ \A required \in RequiredLost : ~(required \subseteq call.hits \cup call.linked)

=============================================================================

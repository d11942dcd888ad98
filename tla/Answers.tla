------------------------------ MODULE Answers ------------------------------
(***************************************************************************)
(* A conversation with the chat provider: chat_completions of              *)
(* rag/openai_provider.py, on top of the endpoints of module Retrieval.    *)
(*                                                                         *)
(* A request searches, in rounds, or takes documents of the answer before  *)
(* by their numbers; a model verifies the candidates, another one reviews  *)
(* what is left, a third one answers and cites.  The answer shows the      *)
(* sources it cites by number, the graph queue and the research findings   *)
(* are told which documents were used, and the next request of the         *)
(* conversation may go back to the numbers.                                *)
(*                                                                         *)
(* What a model decides is open: it may answer anything, or fail.  The     *)
(* rewriting of the question before the first call changes nothing here    *)
(* and belongs to the first step.                                          *)
(***************************************************************************)
EXTENDS Retrieval, Functions

CONSTANTS
  Requests,        \* what the user may ask
  Later,           \* bound: those of them that are asked later in a conversation
  MaxRounds,       \* retrieval_planner.max_retrieval_rounds
  VerifyLimit,     \* candidates of a request that are verified
  VerifyBatchSize, \* candidates in one call of the verifier
  MaxComplete,     \* max_complete_documents
  FollowupLimit,   \* FOLLOWUP_EVIDENCE_DOCUMENTS
  EvidenceLimit,   \* GRAPH_EVIDENCE_HOOK_MAX_DOCUMENTS
  MaxTurns         \* bound: requests of the conversation

ASSUME AnswersAssumption ==
  /\ Requests \subseteq
       [kind : {"ask", "list", "rawlist", "use", "elastic", "elasticlist", "web", "direct"},
        arms : SUBSET Arms, forced : BOOLEAN, complete : BOOLEAN,
        web : {"no", "asked", "allowed"}, stream : BOOLEAN, followup : BOOLEAN,
        numbers : SUBSET (Nat \ {0})]
  /\ Later \subseteq Requests
  /\ MaxRounds \in Nat \ {0} /\ VerifyBatchSize \in Nat \ {0}
  /\ {VerifyLimit, MaxComplete, FollowupLimit, EvidenceLimit, MaxTurns} \subseteq Nat

VARIABLES
  req,     \* the request being served
  chat,    \* the answer before: the sources it shows, and those its text cites
  told,    \* documents this request has handed to the graph queue
  findings, \* documents this request has stored findings of
  status,  \* of the query record of this request
  read,    \* history: what the answer was made from, by number
  confirmed, \* history: documents a verifier has confirmed for this request
  turns

vars == <<retrievalVars, req, chat, told, findings, status, read, confirmed, turns>>

Empty == <<>>

\* Documents by number: a list that is shown, or what is left of one.
IsNumbered(f) == DOMAIN f \subseteq Nat \ {0} /\ Range(f) \subseteq Docs

\* kind: ask, list, rawlist, use, elastic, elasticlist, web, direct; forced: /force;
\* complete: the question is for all documents; web: "asked" by the user himself,
\* or "allowed" by client and policy; stream: the answer is; numbers: of /use;
\* followup: the question reads as one about the answer before.
NoRequest ==
  [kind |-> "ask", arms |-> {}, forced |-> FALSE, complete |-> FALSE, web |-> "no",
   stream |-> FALSE, followup |-> FALSE, numbers |-> {}]

Fresh(r) ==
  [asks |-> r, pc |-> "idle", history |-> FALSE, round |-> 1, recall |-> FALSE,
   loaded |-> FALSE, prior |-> <<>>, known |-> {}, mode |-> "none", ranked |-> Empty,
   batches |-> <<>>, matches |-> {}, unsure |-> FALSE,
   context |-> Empty, cited |-> {}, fallback |-> FALSE, broken |-> FALSE]

Pcs == {"idle", "plan", "search", "followup", "round", "verify", "judge", "review", "use",
        "elastic", "gate", "web", "answer", "cite", "sources"}

TypeOK ==
  /\ RetrievalTypeOK
  /\ req.asks \in Requests \cup {NoRequest} /\ req.pc \in Pcs
  /\ req.round \in 1 .. MaxRounds
  /\ req.history \in BOOLEAN /\ req.recall \in BOOLEAN /\ req.loaded \in BOOLEAN
  /\ req.known \subseteq Docs /\ ToSet(req.prior) \subseteq Docs
  /\ req.mode \in Modes /\ IsNumbered(req.ranked) /\ IsNumbered(req.context)
  /\ (UNION ToSet(req.batches)) \cup req.matches \subseteq DOMAIN req.ranked
  /\ req.cited \subseteq DOMAIN req.context
  /\ {req.unsure, req.fallback, req.broken} \subseteq BOOLEAN
  /\ IsNumbered(chat.list) /\ chat.cited \subseteq DOMAIN chat.list
  /\ told \subseteq Docs /\ findings \subseteq Docs /\ IsNumbered(read) /\ confirmed \subseteq Docs
  /\ status \in {"none", "started", "static", "answered", "stream_error", "cut"}
  /\ turns \in 0 .. MaxTurns
  /\ call.pc # "idle" => req.pc \in {"search", "followup", "use", "elastic"}

Init ==
  /\ RetrievalInit
  /\ req = Fresh(NoRequest)
  /\ chat = [list |-> Empty, cited |-> {}]
  /\ told = {} /\ findings = {} /\ read = Empty /\ confirmed = {}
  /\ status = "none"
  /\ turns = 0

asked == req.asks
world == <<setup, visible, seen, changes, faults>>
outcome == <<chat, told, findings, status, read, confirmed, turns>>

\* The structured rewrite serves the arms files and vector; others search as before.
Listing == asked.kind \in {"list", "rawlist"}
Searching == asked.kind = "ask" \/ Listing
Rewriting == Searching /\ asked.arms \cap {"files", "vector"} # {}

SearchAgain == Search(asked.arms, asked.forced \/ asked.kind = "list", asked.kind = "rawlist")

\* The request ends with a text that names the sources list.
EndWith(list, cited, how) ==
  /\ req' = Fresh(NoRequest)
  /\ chat' = [list |-> list, cited |-> cited]
  /\ status' = how
  /\ call' = NoCall

\* A fixed text without sources.
End ==
  /\ EndWith(Empty, {}, "static")
  /\ UNCHANGED <<world, told, findings, read, confirmed, turns>>

Go(pc) ==
  /\ req' = [req EXCEPT !.pc = pc]
  /\ UNCHANGED <<world, call, outcome>>

-----------------------------------------------------------------------------
(* From the request to the first call.                                     *)

\* A request is taken up, and a follow-up question is read with its history.
Begin(r) ==
  /\ req.pc = "idle" /\ turns < MaxTurns /\ (turns > 0 => r \in Later)
  /\ turns' = turns + 1
  /\ seen' = visible /\ told' = {} /\ findings' = {} /\ read' = Empty /\ confirmed' = {}
  /\ status' = "started"
  /\ req' = [Fresh(r) EXCEPT !.pc = "plan", !.history = r.followup /\ chat.list # Empty]
  /\ UNCHANGED <<setup, visible, call, changes, faults, chat>>

\* What ends before any search: /help, a blocked arm, no login, a disabled
\* source, a question that could not be rewritten, a number nobody was shown.
Refuse == req.pc = "plan" /\ End

\* _resolve_use_references: what the answer before shows under the numbers.
UseReferences == {chat.list[n] : n \in asked.numbers}

Plan ==
  /\ req.pc = "plan"
  /\ \/ /\ Searching
        /\ call' = SearchAgain
        /\ req' = [req EXCEPT !.pc = "search"]
     \/ /\ asked.kind = "use" /\ asked.numbers \subseteq DOMAIN chat.list
        /\ \E refs \in Orders(UseReferences) :
             /\ ToSet(refs) = UseReferences
             /\ call' = Resolve(refs)
        /\ req' = [req EXCEPT !.pc = "use"]
     \/ /\ asked.kind \in {"elastic", "elasticlist"}
        /\ call' = Elastic
        /\ req' = [req EXCEPT !.pc = "elastic"]
     \/ /\ asked.kind \in {"web", "direct"}
        /\ req' = [req EXCEPT !.pc = IF asked.kind = "web" THEN "web" ELSE "answer"]
        /\ UNCHANGED call
  /\ UNCHANGED <<world, outcome>>

-----------------------------------------------------------------------------
(* Retrieval rounds.                                                       *)

Back(pc) == req.pc = pc /\ call.pc = "back"
Found == [i \in DOMAIN call.ranked |-> call.ranked[i].doc]

\* _merge_followup_evidence: prior documents first, none of them twice; a list that
\* nothing is merged into stays as it is.
Merged(prior, found) ==
  IF prior = <<>> THEN {found} ELSE InOrderOf(prior \o found, ToSet(prior) \cup ToSet(found))

\* _previous_supporting_document_ids: cited documents first, then the others.
Supporting ==
  {s \in Orders(Range(chat.list)) :
     /\ Len(s) = AtMost(FollowupLimit, Cardinality(Range(chat.list)))
     /\ LET cited == {chat.list[n] : n \in chat.cited}
        IN ToSet(s) \subseteq cited \/ cited \subseteq ToSet(s)}

\* mistake: the documents of the answer before are taken over as they are
SearchedTrusting ==
  /\ Back("search") /\ call.mode # "error"
  /\ \/ /\ req.history /\ ~req.loaded
        /\ \E refs \in Supporting :
             \E ranked \in Merged(refs, Found) :
               req' = [req EXCEPT !.pc = "round", !.loaded = TRUE, !.mode = call.mode, !.prior = refs, !.ranked = ranked]
     \/ /\ ~req.history \/ req.loaded
        /\ \E ranked \in Merged(req.prior, Found) :
             req' = [req EXCEPT !.pc = "round", !.mode = call.mode, !.ranked = ranked]
  /\ call' = NoCall
  /\ UNCHANGED <<world, outcome>>

\* The first search of a follow-up question: the documents of the answer before
\* are resolved anew; later rounds keep them.
Searched ==
  /\ Back("search") /\ call.mode # "error"
  /\ \/ /\ req.history /\ ~req.loaded
        /\ \E refs \in Supporting : call' = Resolve(refs)
        /\ req' = [req EXCEPT !.pc = "followup", !.mode = call.mode, !.ranked = Found]
     \/ /\ ~req.history \/ req.loaded
        /\ call' = NoCall
        /\ \E ranked \in Merged(req.prior, Found) :
             req' = [req EXCEPT !.pc = "round", !.mode = call.mode, !.ranked = ranked]
  /\ UNCHANGED <<world, outcome>>

SearchFailed == Back("search") /\ call.mode = "error" /\ End

\* A failure costs the prior documents only.
FollowupLoaded ==
  /\ Back("followup")
  /\ \E ranked \in Merged(Found, req.ranked) :
       req' = [req EXCEPT !.pc = "round", !.loaded = TRUE, !.prior = Found, !.ranked = ranked]
  /\ call' = NoCall
  /\ UNCHANGED <<world, outcome>>

\* A round found documents, but none the round before had not.
Diminishing == req.round > 1 /\ req.ranked # Empty /\ Range(req.ranked) \subseteq req.known

\* The rewriter wants another search: what this round found is dropped.
NextRound ==
  /\ req.pc = "round" /\ Rewriting /\ req.round < MaxRounds /\ ~Diminishing
  /\ req' = [req EXCEPT !.pc = "search", !.round = @ + 1, !.known = Range(req.ranked), !.ranked = Empty]
  /\ call' = SearchAgain
  /\ UNCHANGED <<world, outcome>>

Chunks(n) == [i \in 1 .. (n + VerifyBatchSize - 1) \div VerifyBatchSize |->
               (VerifyBatchSize * (i - 1) + 1) .. AtMost(VerifyBatchSize * i, n)]

\* Documents of the answer before do not count against the limit.
Candidates == AtMost(VerifyLimit + Len(req.prior), Len(req.ranked))

RoundsOver ==
  /\ req.pc = "round"
  /\ IF Rewriting /\ req.ranked # Empty /\ ~Listing
     THEN req' = [req EXCEPT !.pc = "verify", !.known = {}, !.batches = Chunks(Candidates)]
     ELSE req' = [req EXCEPT !.pc = "judge", !.known = {}]
  /\ UNCHANGED <<world, call, outcome>>

-----------------------------------------------------------------------------
(* _verify_exhaustive_candidates.                                          *)

Batch == Head(req.batches)

\* The verifier and the audits of its verdict confirm some of a batch.
VerifyBatch ==
  /\ req.pc = "verify" /\ req.batches # <<>>
  /\ \E matches \in SUBSET Batch, unsure \in BOOLEAN :
       /\ unsure => matches # Batch
       /\ req' = [req EXCEPT !.batches = Tail(@), !.matches = @ \cup matches, !.unsure = @ \/ unsure]
       /\ confirmed' = confirmed \cup {req.ranked[n] : n \in matches}
  /\ UNCHANGED <<world, call, chat, told, findings, status, read, turns>>

\* mistake: what cannot be verified is kept
VerifyFailsOpen ==
  /\ req.pc = "verify" /\ req.batches # <<>>
  /\ req' = [req EXCEPT !.batches = Tail(@), !.matches = @ \cup Batch]
  /\ UNCHANGED <<world, call, outcome>>

\* A call that fails is repeated for each half; a single document stays uncertain.
VerifyFails ==
  /\ req.pc = "verify" /\ req.batches # <<>>
  /\ IF Cardinality(Batch) = 1
     THEN req' = [req EXCEPT !.batches = Tail(@), !.unsure = TRUE]
     ELSE \E lower \in SUBSET Batch :
            /\ Cardinality(lower) = Cardinality(Batch) \div 2
            /\ \A i \in lower, j \in Batch \ lower : i < j
            /\ req' = [req EXCEPT !.batches = <<lower, Batch \ lower>> \o Tail(@)]
  /\ UNCHANGED <<world, call, outcome>>

\* Only matches go on: neither the uncertain ones nor those beyond the limit. A
\* question for all documents ends here when they are too many, or when there is
\* nothing but uncertain ones.
Verified ==
  /\ req.pc = "verify" /\ req.batches = <<>>
  /\ IF asked.complete /\ (Cardinality(req.matches) > MaxComplete \/ (req.matches = {} /\ req.unsure))
     THEN End
     ELSE /\ req' = [req EXCEPT !.pc = "judge", !.ranked = Restrict(@, req.matches), !.matches = {}, !.unsure = FALSE]
          /\ UNCHANGED <<world, call, outcome>>

-----------------------------------------------------------------------------
(* What becomes of the result.                                             *)

ShowList ==
  /\ req.pc = "judge" /\ (Listing \/ req.mode = "filename")
  /\ EndWith(req.ranked, DOMAIN req.ranked, "static")
  /\ UNCHANGED <<world, told, findings, read, confirmed, turns>>

Judging == req.pc = "judge" /\ ~Listing /\ req.mode # "filename"
Hopeless == req.mode \in {"too_unspecific", "unspecific", "degraded"}

\* The web after all: without asking when the user asked for it himself.
TryWeb ==
  /\ req' = [req EXCEPT !.pc = IF asked.web = "asked" THEN "web" ELSE "gate",
                        !.context = Empty, !.fallback = TRUE]
  /\ UNCHANGED <<world, call, outcome>>

NothingUsable ==
  /\ Judging /\ (Hopeless \/ (req.ranked = Empty /\ (asked.web = "allowed" \/ ~setup.general)))
  /\ CASE asked.web = "allowed" \/ (asked.web = "asked" /\ req.mode \in {"too_unspecific", "degraded"}) -> TryWeb
       [] OTHER -> End

\* ALLOW_GENERAL_KNOWLEDGE: the model answers without documents.
FromGeneralKnowledge ==
  /\ Judging /\ ~Hopeless /\ req.ranked = Empty /\ setup.general /\ asked.web # "allowed"
  /\ Go(IF asked.web = "asked" THEN "web" ELSE "answer")

ToReview == Judging /\ ~Hopeless /\ req.ranked # Empty /\ Go("review")

\* retry and insufficient: one search with entity recall, the web, or the end.
NotEnough ==
  /\ req.pc = "review"
  /\ \/ /\ req.round < MaxRounds /\ ~Rewriting /\ ~req.recall
        /\ req' = [req EXCEPT !.pc = "search", !.round = @ + 1, !.recall = TRUE, !.ranked = Empty]
        /\ call' = SearchAgain
        /\ UNCHANGED <<world, outcome>>
     \/ IF asked.web = "allowed" THEN TryWeb ELSE End

\* _graph_enqueue_evidence: as many as a batch may hold, or none when it fails.
Reported(docs) ==
  {d \in SUBSET docs : d = {} \/ Cardinality(d) = AtMost(EvidenceLimit, Cardinality(docs))}

\* The sources that contradict each other are shown, and the graph is told.
Conflict ==
  /\ req.pc = "review"
  /\ \E numbers \in SUBSET DOMAIN req.ranked :
       /\ EndWith(Restrict(req.ranked, numbers), numbers, "static")
       /\ \E docs \in Reported({req.ranked[n] : n \in numbers}) : told' = told \cup docs
  /\ UNCHANGED <<world, findings, read, confirmed, turns>>

Clarify == req.pc = "review" /\ End

\* _build_context: everything, or as much from the front as fits.
Heads(list) == {Restrict(list, {n \in DOMAIN list : n <= k}) : k \in DOMAIN list}
Contexts(selected) ==
  CASE selected # {} -> Heads(Restrict(req.ranked, selected))
    [] selected = {} /\ asked.complete -> {req.ranked}
    [] OTHER -> Heads(req.ranked)

\* Review names the sources to answer from, or none it could use. They keep their
\* numbers. Findings of verified documents are stored before the model answers.
Enough ==
  /\ req.pc = "review"
  /\ \E selected \in SUBSET DOMAIN req.ranked : \E context \in Contexts(selected) :
         /\ req' = [req EXCEPT !.pc = IF asked.web = "asked" THEN "web" ELSE "answer", !.context = context]
         /\ findings' \in {{}, IF Rewriting THEN Range(context) ELSE {}}
  /\ UNCHANGED <<world, call, chat, told, status, read, confirmed, turns>>

-----------------------------------------------------------------------------
(* /use and /elastic.                                                      *)

UseResolved ==
  /\ Back("use")
  /\ IF call.mode \in {"error", "missing"} \/ call.ranked = <<>> THEN End
     ELSE /\ req' = [req EXCEPT !.pc = IF asked.web = "asked" THEN "web" ELSE "answer", !.context = Found]
          /\ call' = NoCall
          /\ UNCHANGED <<world, outcome>>

ExactFound ==
  /\ Back("elastic")
  /\ CASE call.mode # "error" /\ asked.kind = "elasticlist" ->
            /\ EndWith(Found, DOMAIN Found, "static")
            /\ UNCHANGED <<world, told, findings, read, confirmed, turns>>
       [] asked.kind = "elastic" /\ call.mode = "found" /\ call.ranked # <<>> ->
            /\ \E context \in Heads(Found) : req' = [req EXCEPT !.pc = "answer", !.context = context]
            /\ call' = NoCall
            /\ UNCHANGED <<world, outcome>>
       [] OTHER -> End

-----------------------------------------------------------------------------
(* The web.                                                                *)

\* _decide_web_use: only after the documents were not enough, and fail closed.
WebGate == req.pc = "gate" /\ (Go("web") \/ End)

\* Without web sources documents still make an answer.
WebSearched ==
  /\ req.pc = "web"
  /\ \/ Go("answer")
     \/ (asked.kind = "web" \/ (req.context = Empty /\ req.fallback)) /\ End

-----------------------------------------------------------------------------
(* The answer.                                                             *)

\* The text, with the numbers it cites; a stream may break off in the middle.
Answer ==
  /\ req.pc = "answer"
  /\ \E cited \in SUBSET DOMAIN req.context, broken \in BOOLEAN :
       /\ broken => asked.stream
       /\ req' = [req EXCEPT !.pc = "cite", !.cited = cited, !.broken = broken]
  /\ read' = req.context
  /\ UNCHANGED <<world, call, chat, told, findings, status, confirmed, turns>>

\* No answer of the model: no sources, and nothing was used.
NoAnswer == req.pc = "answer" /\ ~asked.stream /\ End

\* _repair_missing_citations: numbers are supplied when the text has none.
Cited == IF req.cited = {} THEN SUBSET DOMAIN req.context ELSE {req.cited}

\* mistake: the whole context is reported as used
CiteAll ==
  /\ req.pc = "cite"
  /\ \E cited \in Cited :
       /\ req' = [req EXCEPT !.pc = "sources", !.cited = cited]
       /\ told' \in {told, told \cup Range(req.context)}
  /\ UNCHANGED <<world, call, chat, findings, status, read, confirmed, turns>>

\* The graph is told what is cited, unless the queue cannot be reached.
Cite ==
  /\ req.pc = "cite"
  /\ \E cited \in Cited :
       /\ req' = [req EXCEPT !.pc = "sources", !.cited = cited]
       /\ \E docs \in Reported({req.context[n] : n \in cited}) : told' = told \cup docs
  /\ UNCHANGED <<world, call, chat, findings, status, read, confirmed, turns>>

\* _source_suffix: the cited documents under their numbers; all of them when the
\* question was for all.
Shown ==
  Restrict(req.context, IF asked.complete THEN DOMAIN req.context ELSE req.cited)

\* The findings of /use are stored after a whole answer only.
ShowSources ==
  /\ req.pc = "sources"
  /\ LET list == Shown IN
       EndWith(list, req.cited \cap DOMAIN list, IF req.broken THEN "stream_error" ELSE "answered")
  /\ findings' = IF asked.kind = "use" /\ status' = "answered" THEN Range(req.context) ELSE findings
  /\ UNCHANGED <<world, told, read, confirmed, turns>>

\* The client goes away: the stream is closed where it stands, without a record.
Disconnect ==
  /\ req.pc \in {"answer", "cite", "sources"} /\ asked.stream
  /\ EndWith(Empty, {}, "cut")
  /\ UNCHANGED <<world, told, findings, read, confirmed, turns>>

-----------------------------------------------------------------------------
Serve ==
  \/ Refuse \/ Plan \/ Searched \/ SearchFailed \/ FollowupLoaded \/ NextRound \/ RoundsOver
  \/ VerifyBatch \/ VerifyFails \/ Verified
  \/ ShowList \/ NothingUsable \/ FromGeneralKnowledge \/ ToReview
  \/ NotEnough \/ Conflict \/ Clarify \/ Enough
  \/ UseResolved \/ ExactFound \/ WebGate \/ WebSearched
  \/ Answer \/ NoAnswer \/ Cite \/ ShowSources \/ Disconnect

Next ==
  \/ \E r \in Requests : Begin(r)
  \/ Serve
  \/ (RetrievalStep \/ \E d \in Docs : Share(d)) /\ UNCHANGED <<req, outcome>>

Spec == Init /\ [][Next]_vars

-----------------------------------------------------------------------------
(* Properties.                                                             *)

\* Whatever reaches a model, the user, the graph queue or the findings is a
\* document the user could read at some moment of this very request: what the
\* answer before showed him does not count, nor what one batch let through.
AnswersAuthorized ==
  setup.acl =>
    /\ Range(req.ranked) \cup Range(req.context) \cup ToSet(req.prior) \subseteq seen
    /\ told \cup findings \cup Range(read) \subseteq seen
    /\ req.pc = "idle" => Range(chat.list) \subseteq seen

\* Where the query was rewritten, an answer is made of documents a verifier has
\* confirmed for it: none that only a failed call, an earlier round or the answer
\* before speaks for.
VerifiedOnly ==
  Rewriting /\ ~Listing => Range(req.context) \cup findings \subseteq confirmed

\* The sources an answer shows are those it was made from, under the numbers the
\* model had read them by; the graph is told of shown sources only, /use takes
\* what the answer before shows under its numbers, and its findings are stored
\* after a whole answer only.
SourcesHonest ==
  /\ status \in {"answered", "stream_error"} => IsRestriction(chat.list, read)
  /\ req.pc = "idle" /\ status # "cut" => told \subseteq Range(chat.list)
  /\ asked.kind = "use" =>
       /\ Range(req.context) \subseteq {chat.list[n] : n \in asked.numbers \cap DOMAIN chat.list}
       /\ findings = {}

=============================================================================

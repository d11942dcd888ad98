---------------------------- MODULE WebResearch ----------------------------
(***************************************************************************)
(* Research in the public web: WebResearchArm and NextcloudWebArchive of   *)
(* rag/web_research.py, and what the chat provider makes of their results. *)
(*                                                                         *)
(* One request asks one or several queries.  For each the middleware       *)
(* searches, fetches the hits in parallel, lets a model choose among them  *)
(* and archives what was chosen in the user's Nextcloud; pages are printed *)
(* by a task in the background afterwards.  The provider numbers the       *)
(* sources W1, W2, ..., has the answer written and files it in the         *)
(* archive.  The next request may go back to a number (/use:W1), and reads *)
(* the archived text then: the page may have changed.                      *)
(***************************************************************************)
EXTENDS Naturals, Sequences, FiniteSets, SequencesExt, Functions

CONSTANTS
  Pages,       \* what a search may find
  Html,        \* the pages that are printed; the others are archived as they are
  MaxSources,  \* relevance.max_sources
  Requests,    \* what the user may ask
  Later,       \* bound: what he asks later in the conversation
  Background,  \* archive.renderer.background: print after the answer
  MaxTurns,    \* bound: requests of the conversation
  MaxRuns,     \* bound: the queries of all requests
  MaxEvents    \* bound: pages or settings that change, snapshots that are deleted,
               \* calls of other services that fail, restarts of the middleware

\* kind: web (/web), auto (beside the documents), use; queries: how many are asked;
\* stream: the answer is sent as it is written, which that to /web never is;
\* numbers: of /use.
Request == [kind : {"web", "auto", "use"}, queries : Nat, stream : BOOLEAN, numbers : SUBSET Nat]

ASSUME WebAssumption ==
  /\ Html \subseteq Pages /\ Background \in BOOLEAN /\ MaxSources \in Nat \ {0}
  /\ Requests \cup Later \subseteq Request /\ \A r \in Requests \cup Later : r.stream => r.kind = "auto"
  /\ {MaxTurns, MaxRuns, MaxEvents} \subseteq Nat

VARIABLES
  served,    \* the web: the version of each page that is served now
  settings,  \* of the user, by the administrator: web research, and its archive
  archive,   \* Nextcloud: the texts, the metadata and the record of each run
  run,       \* the call of /web/search, and its reply
  runs,      \* runs that have a directory
  batches,   \* background tasks of the middleware, in the order they wait
  req,       \* the request being served
  chat,      \* the answer before
  accepted,  \* history: the sources a gate has let through for this request
  lost,      \* history: pages whose printing was cut off, or never asked for
  removed,   \* history: snapshots the user has deleted
  turns, events

world == <<served, settings, removed>>
vars == <<world, events, archive, run, runs, batches, req, chat, accepted, lost, turns>>

\* A page as it was fetched; the place of a source in a run; a source of the reply.
Source == [page : Pages, version : 0 .. MaxEvents]
NoPath == <<0, 0>>
Path == (1 .. MaxRuns) \X (1 .. MaxSources)
Evidence == [source : Source, path : Path \cup {NoPath}]
Empty == <<>>
Orders(S) == {s \in SeqOf(S, Cardinality(S)) : IsInjective(s)}

NoRequest == [kind |-> "web", queries |-> 1, stream |-> FALSE, numbers |-> {}]

Fresh(r) ==
  [asks |-> r, pc |-> "idle", left |-> r.queries, answering |-> FALSE, sources |-> <<>>,
   runs |-> <<>>, filed |-> 0, errors |-> FALSE, context |-> <<>>, whole |-> TRUE, used |-> Empty]

NoRun ==
  [pc |-> "idle", missing |-> {}, hits |-> {}, got |-> Empty, selected |-> <<>>, id |-> 0,
   records |-> <<>>, jobs |-> <<>>, errors |-> FALSE]

NoAnswer == [web |-> <<>>, runs |-> <<>>, turn |-> 0, answered |-> FALSE, streamed |-> FALSE,
             told |-> FALSE]

Partial(S, T) == UNION {[D -> T] : D \in SUBSET S}

Archive == [text : Partial(Path, Source),
            meta : Partial(Path, {"plain", "pending", "complete", "failed"}),
            answer : Partial(1 .. MaxRuns, 0 .. MaxTurns)]
Run == [pc : {"idle", "search", "fetch", "archive", "sources", "back", "failed"},
        missing : SUBSET Pages, hits : SUBSET Pages, got : Partial(Pages, Source),
        selected : Seq(Source), id : 0 .. MaxRuns, records : Seq(Path), jobs : Seq(Path),
        errors : BOOLEAN]
Batch == [jobs : Seq(Path), started : BOOLEAN]
Answer == [web : Seq(Evidence), runs : Seq(1 .. MaxRuns), turn : 0 .. MaxTurns,
           answered : BOOLEAN, streamed : BOOLEAN, told : BOOLEAN]
Serve == [asks : Request, pc : {"idle", "call", "wait", "answer", "file", "use"}, left : Nat,
          answering : BOOLEAN, sources : Seq(Evidence), runs : Seq(1 .. MaxRuns), filed : Nat,
          errors : BOOLEAN, context : Seq(Evidence), whole : BOOLEAN,
          used : Partial(DOMAIN chat.web, Source)]

TypeOK ==
  /\ served \in [Pages -> 0 .. MaxEvents]
  /\ settings \in [web : BOOLEAN, archive : BOOLEAN]
  /\ archive \in Archive /\ run \in Run /\ runs \in 0 .. MaxRuns
  /\ batches \in Seq(Batch) /\ req \in Serve /\ chat \in Answer
  /\ accepted \subseteq Source /\ lost \subseteq Path /\ removed \subseteq Path
  /\ turns \in 0 .. MaxTurns /\ events \in 0 .. MaxEvents

Init ==
  /\ served = [p \in Pages |-> 0]
  /\ settings = [web |-> TRUE, archive |-> TRUE]
  /\ archive = [text |-> Empty, meta |-> Empty, answer |-> Empty]
  /\ run = NoRun /\ runs = 0 /\ batches = <<>>
  /\ req = Fresh(NoRequest) /\ chat = NoAnswer
  /\ accepted = {} /\ lost = {} /\ removed = {}
  /\ turns = 0 /\ events = 0

Event == events < MaxEvents /\ events' = events + 1
Fine == UNCHANGED events

\* Nextcloud holds what was there before, and this.
Put(f, key, value) == [k \in DOMAIN f \cup {key} |-> IF k = key THEN value ELSE f[k]]

-----------------------------------------------------------------------------
(* Around the program.                                                     *)

\* A page changes; what nobody has read yet may as well have been so before.
Edit(p) ==
  /\ Event
  /\ [page |-> p, version |-> served[p]] \in Range(run.got) \cup ToSet(run.selected) \cup accepted
  /\ served' = [served EXCEPT ![p] = events']
  /\ UNCHANGED <<settings, removed, archive, run, runs, batches, req, chat, accepted, lost, turns>>

\* The administrator withdraws the permission to research or to archive.
Withdraw ==
  /\ Event
  /\ settings' \in {[settings EXCEPT !.web = FALSE], [settings EXCEPT !.archive = FALSE]}
  /\ UNCHANGED <<served, removed, archive, run, runs, batches, req, chat, accepted, lost, turns>>

\* The user tidies up what an answer has shown.
DeleteSnapshot(p) ==
  /\ Event
  /\ p \in DOMAIN archive.text /\ p \in {e.path : e \in ToSet(chat.web)}
  /\ archive' = [archive EXCEPT !.text = Restrict(@, DOMAIN @ \ {p})]
  /\ removed' = removed \cup {p}
  /\ UNCHANGED <<served, settings, run, runs, batches, req, chat, accepted, lost, turns>>

\* The pages whose metadata say they will be printed.
Waiting == {p \in DOMAIN archive.meta : archive.meta[p] = "pending"}

\* The middleware goes down and comes up again: the call in flight fails, the
\* tasks in the background are gone.
Restart ==
  /\ Event
  /\ run' = IF run.pc = "idle" THEN run ELSE [NoRun EXCEPT !.pc = "failed"]
  /\ batches' = <<>>
  /\ lost' = lost \cup Waiting
  /\ UNCHANGED <<world, archive, runs, req, chat, accepted, turns>>

-----------------------------------------------------------------------------
(* WebResearchArm.research.                                                *)

Researching == UNCHANGED <<world, runs, batches, req, chat, accepted, lost, turns>>

\* WebSearchProvider.search
SearchWeb ==
  /\ run.pc = "search"
  /\ \/ /\ \E hits \in SUBSET Pages :
             run' = [run EXCEPT !.pc = "fetch", !.hits = hits, !.missing = hits]
        /\ Fine
     \/ Event /\ run' = [NoRun EXCEPT !.pc = "failed"]
  /\ UNCHANGED archive /\ Researching

\* WebFetcher.fetch, for all hits side by side: what cannot be loaded or has no
\* text is no source.
Fetch(p) ==
  /\ run.pc = "fetch" /\ p \in run.missing
  /\ \/ run' = [run EXCEPT !.missing = @ \ {p}, !.got = Put(@, p, [page |-> p, version |-> served[p]])]
     \/ run' = [run EXCEPT !.missing = @ \ {p}]
  /\ Fine /\ UNCHANGED archive /\ Researching

\* The best come first; without hits there is nothing to archive.
Chosen(sources) ==
  [run EXCEPT !.pc = IF run.hits = {} THEN "back" ELSE "archive",
              !.hits = {}, !.got = Empty, !.selected = sources]

\* mistake: without a verdict everything that was fetched is relevant
GateOpen ==
  /\ run.pc = "fetch" /\ run.missing = {}
  /\ \E chosen \in Orders(Range(run.got)) :
       /\ Len(chosen) <= MaxSources
       /\ run' = Chosen(chosen)
  /\ Fine /\ UNCHANGED <<world, archive, runs, batches, req, chat, accepted, lost, turns>>

\* RelevanceGate.evaluate: a verdict on every source, or none.
Gate ==
  /\ run.pc = "fetch" /\ run.missing = {}
  /\ \/ \E chosen \in Orders(Range(run.got)) :
          /\ Len(chosen) <= MaxSources
          /\ run' = Chosen(chosen)
          /\ accepted' = accepted \cup ToSet(chosen)
     \/ /\ run.got # Empty
        /\ run' = [NoRun EXCEPT !.pc = "failed"]
        /\ UNCHANGED accepted
  /\ Fine /\ UNCHANGED <<world, archive, runs, batches, req, chat, lost, turns>>

\* What becomes of the directory, and of the log of the fetches in it.
OpenRun ==
  /\ run.pc = "archive"
  /\ IF ~settings.archive
     THEN run' = [run EXCEPT !.pc = "back"] /\ Fine /\ UNCHANGED runs
     ELSE \/ /\ runs' = runs + 1
             /\ \/ run' = [run EXCEPT !.pc = "sources", !.id = runs'] /\ Fine
                \/ run' = [run EXCEPT !.pc = "sources", !.id = runs', !.errors = TRUE] /\ Event
          \/ Event /\ run' = [run EXCEPT !.pc = "back", !.errors = TRUE] /\ UNCHANGED runs
  /\ UNCHANGED <<world, archive, batches, req, chat, accepted, lost, turns>>

Here == <<run.id, Len(run.records) + 1>>
Current == run.selected[Len(run.records) + 1]

\* mistake: the place of a source is kept when everything has been written only
ArchiveCompletely ==
  /\ run.pc = "sources" /\ run.selected # <<>> /\ Len(run.records) < Len(run.selected)
  /\ \/ /\ archive' = [archive EXCEPT !.text = Put(@, Here, Current), !.meta = Put(@, Here, "plain")]
        /\ run' = [run EXCEPT !.records = Append(@, Here)]
        /\ Fine
     \/ /\ Event /\ UNCHANGED archive
        /\ run' = [run EXCEPT !.selected = Tail(@), !.errors = TRUE]
  /\ Researching

\* One source: its text, the page as it came or printed, its metadata. The place
\* of the text is noted before it is written, and kept when something fails.  _put
\* may fail after the file was stored (the answer is lost, or it cannot be
\* registered): then the metadata may say that a page will be printed, and nobody
\* is asked to print it.
ArchiveSource ==
  /\ run.pc = "sources" /\ Len(run.records) < Len(run.selected)
  /\ LET printable == Current.page \in Html
         status == IF ~printable THEN "plain" ELSE IF Background THEN "pending" ELSE "complete"
         text == [archive EXCEPT !.text = Put(@, Here, Current)]
         With(s) == [text EXCEPT !.meta = Put(@, Here, s)]
         noted == [run EXCEPT !.records = Append(@, Here)]
         failed == [noted EXCEPT !.errors = TRUE]
     IN \/ /\ archive' = With(status)
           /\ run' = IF status = "pending" THEN [noted EXCEPT !.jobs = Append(@, Here)] ELSE noted
           /\ Fine /\ UNCHANGED lost
        \/ /\ Event /\ run' = failed
           /\ archive' \in {archive, text} \cup (IF status = "complete" THEN {With("plain")} ELSE {})
           /\ UNCHANGED lost
        \/ /\ Event /\ run' = failed
           /\ archive' = With(status)
           /\ lost' = IF status = "pending" THEN lost \cup {Here} ELSE lost
  /\ UNCHANGED <<world, runs, batches, req, chat, accepted, turns>>

\* mistake: the one reference to the task is overwritten, and the task collected
ScheduledAlone ==
  IF run.jobs = <<>> THEN batches ELSE <<[jobs |-> run.jobs, started |-> FALSE]>>

\* _schedule_render_batch: a task of its own for the pages of this run.
Scheduled ==
  IF run.jobs = <<>> THEN batches
  ELSE Append(batches, [jobs |-> run.jobs, started |-> FALSE])

\* The record of the run, which the answer will be filed in; then the pages to
\* print are handed over, and the reply goes out.
FileRun ==
  /\ run.pc = "sources" /\ Len(run.records) = Len(run.selected)
  /\ LET recorded == [archive EXCEPT !.answer = Put(@, run.id, 0)] IN
       \/ /\ archive' = recorded
          /\ run' = [run EXCEPT !.pc = "back"]
          /\ Fine
       \/ /\ Event /\ archive' \in {archive, recorded}
          /\ run' = [run EXCEPT !.pc = "back", !.errors = TRUE]
  /\ batches' = Scheduled
  /\ UNCHANGED <<world, runs, req, chat, accepted, lost, turns>>

\* The sources of the reply, each with the record of its place in the list.
Reply ==
  [i \in DOMAIN run.selected |->
     [source |-> run.selected[i],
      path |-> IF i \in DOMAIN run.records THEN run.records[i] ELSE NoPath]]

ResearchStep ==
  SearchWeb \/ (\E p \in Pages : Fetch(p)) \/ Gate \/ OpenRun \/ ArchiveSource \/ FileRun

-----------------------------------------------------------------------------
(* The background task: one batch at a time.                               *)

Printing == UNCHANGED <<world, run, runs, req, chat, accepted, turns>>

\* Without a credential the whole batch is given up.
StartBatch ==
  /\ batches # <<>> /\ ~Head(batches).started
  /\ \/ batches' = [batches EXCEPT ![1].started = TRUE] /\ Fine /\ UNCHANGED lost
     \/ Event /\ batches' = Tail(batches) /\ lost' = lost \cup ToSet(Head(batches).jobs)
  /\ UNCHANGED archive /\ Printing

\* A page that cannot be printed is noted as such, unless that fails as well.
PrintPage ==
  /\ batches # <<>> /\ Head(batches).started /\ Head(batches).jobs # <<>>
  /\ LET p == Head(Head(batches).jobs) IN
       \/ /\ archive' \in {[archive EXCEPT !.meta[p] = s] : s \in {"complete", "failed"}}
          /\ Fine /\ UNCHANGED lost
       \/ Event /\ lost' = lost \cup {p} /\ UNCHANGED archive
  /\ batches' = [batches EXCEPT ![1].jobs = Tail(@)]
  /\ Printing

EndBatch ==
  /\ batches # <<>> /\ Head(batches).started /\ Head(batches).jobs = <<>>
  /\ batches' = Tail(batches)
  /\ Fine /\ UNCHANGED <<archive, lost>> /\ Printing

PrintStep == StartBatch \/ PrintPage \/ EndBatch

-----------------------------------------------------------------------------
(* The provider.                                                           *)

Serving == Fine /\ UNCHANGED <<world, runs, batches, lost>>

Begin(r) ==
  /\ req.pc = "idle" /\ r \in (IF turns = 0 THEN Requests ELSE Later)
  /\ turns < MaxTurns /\ runs + r.queries <= MaxRuns
  /\ turns' = turns + 1
  /\ accepted' = {}
  /\ req' = [Fresh(r) EXCEPT !.pc = IF r.kind = "use" THEN "use" ELSE "call"]
  /\ UNCHANGED <<archive, run, chat>> /\ Serving

\* The request ends with the web sources it shows. A stream says nothing of what
\* could not be archived, nor does /web when the model has failed.
EndWith(web, answered) ==
  /\ req' = Fresh(NoRequest)
  /\ chat' = [web |-> web, runs |-> req.runs, turn |-> turns, answered |-> answered,
              streamed |-> req.asks.stream,
              told |-> answered /\ req.errors /\ ~req.asks.stream]

\* No web source: a fixed text, or an answer from the documents alone.
EndWithout ==
  /\ req' = Fresh(NoRequest)
  /\ chat' = NoAnswer
  /\ UNCHANGED <<archive, run, accepted, turns>> /\ Serving

\* _web_search: the next query.
Call ==
  /\ req.pc = "call" /\ req.left > 0
  /\ run' = [NoRun EXCEPT !.pc = IF settings.web THEN "search" ELSE "back"]
  /\ req' = [req EXCEPT !.pc = "wait", !.left = @ - 1]
  /\ UNCHANGED <<archive, chat, accepted, turns>> /\ Serving

\* The entries of a reply whose pages no reply before has had, in their order.
FirstSeen(old, new) ==
  LET unseen == {e \in ToSet(new) : \A f \in ToSet(old) : f.source.page # e.source.page}
  IN  {more \in Orders(unseen) :
         /\ ToSet(more) = unseen
         /\ \A i, j \in DOMAIN more : i < j =>
              \E m, n \in DOMAIN new : m < n /\ new[m] = more[i] /\ new[n] = more[j]}

\* _web_search_many: the sources of several queries, a page only once.
Merged(old, new) ==
  IF req.asks.queries = 1 THEN {new} ELSE {old \o more : more \in FirstSeen(old, new)}

\* mistake: only the reply to the last query tells whether the archive is complete
ReturnedLast ==
  /\ req.pc = "wait" /\ run.pc = "back"
  /\ \E sources \in Merged(req.sources, Reply) :
       req' = [req EXCEPT !.pc = "call", !.answering = TRUE, !.errors = run.errors,
                          !.sources = sources,
                          !.runs = IF run.id = 0 THEN @ ELSE Append(@, run.id)]
  /\ run' = NoRun
  /\ UNCHANGED <<archive, chat, accepted, turns>> /\ Serving

Returned ==
  /\ req.pc = "wait" /\ run.pc = "back"
  /\ \E sources \in Merged(req.sources, Reply) :
       req' = [req EXCEPT !.pc = "call", !.answering = TRUE, !.errors = @ \/ run.errors,
                          !.sources = sources,
                          !.runs = IF run.id = 0 THEN @ ELSE Append(@, run.id)]
  /\ run' = NoRun
  /\ UNCHANGED <<archive, chat, accepted, turns>> /\ Serving

\* A query that fails costs its own sources only.
QueryFailed ==
  /\ req.pc = "wait" /\ run.pc = "failed"
  /\ run' = NoRun
  /\ req' = [req EXCEPT !.pc = "call", !.errors = TRUE]
  /\ UNCHANGED <<archive, chat, accepted, turns>> /\ Serving

NoSources ==
  /\ req.pc = "call" /\ req.left = 0 /\ (~req.answering \/ req.sources = <<>>)
  /\ EndWithout

\* _build_web_context: from the front as much as fits, numbered anew.
BuildContext ==
  /\ req.pc = "call" /\ req.left = 0 /\ req.answering
  /\ \E k \in DOMAIN req.sources :
       req' = [req EXCEPT !.pc = "answer", !.context = SubSeq(req.sources, 1, k)]
  /\ UNCHANGED <<archive, run, chat, accepted, turns>> /\ Serving

\* The model answers; a stream may break off, and is filed as far as it came.
AnswerFromWeb ==
  /\ req.pc = "answer"
  /\ \E whole \in BOOLEAN :
       /\ ~whole => req.asks.stream
       /\ req' = [req EXCEPT !.pc = "file", !.whole = whole]
  /\ UNCHANGED <<archive, run, chat, accepted, turns>> /\ Serving

\* The model fails: /web shows the sources all the same, and files nothing.
ModelDown ==
  /\ req.pc = "answer" /\ ~req.asks.stream
  /\ IF req.asks.kind = "web"
     THEN EndWith(req.context, FALSE) /\ UNCHANGED <<archive, run, accepted, turns>> /\ Serving
     ELSE EndWithout

\* finalize_run: the record is read, completed and written back.
FileAnswer ==
  /\ req.pc = "file" /\ req.filed < Len(req.runs)
  /\ LET r == req.runs[req.filed + 1] IN
       \/ /\ settings.archive /\ r \in DOMAIN archive.answer
          /\ archive' = [archive EXCEPT !.answer[r] = turns]
          /\ req' = [req EXCEPT !.filed = @ + 1]
          /\ Fine
       \/ /\ ~settings.archive \/ r \notin DOMAIN archive.answer
          /\ req' = [req EXCEPT !.filed = @ + 1, !.errors = TRUE]
          /\ Fine /\ UNCHANGED archive
       \/ /\ Event
          /\ archive' \in {archive} \cup (IF settings.archive /\ r \in DOMAIN archive.answer
                                         THEN {[archive EXCEPT !.answer[r] = turns]} ELSE {})
          /\ req' = [req EXCEPT !.filed = @ + 1, !.errors = TRUE]
  /\ UNCHANGED <<world, run, runs, batches, chat, accepted, lost, turns>>

\* _web_source_suffix
Show ==
  /\ req.pc = "file" /\ req.filed = Len(req.runs)
  /\ EndWith(req.context, req.whole)
  /\ UNCHANGED <<archive, run, accepted, turns>> /\ Serving

\* /use:Wn reads the snapshot the answer before names under the number, or ends
\* when there is none: the page itself is never fetched again.
UseSnapshot ==
  /\ req.pc = "use"
  /\ \E n \in req.asks.numbers \ DOMAIN req.used :
       IF n \in DOMAIN chat.web /\ settings.archive /\ chat.web[n].path \in DOMAIN archive.text
       THEN /\ req' = [req EXCEPT !.used = Put(@, n, archive.text[chat.web[n].path])]
            /\ UNCHANGED <<archive, run, chat, accepted, turns>> /\ Serving
       ELSE EndWithout

AnswerFromSnapshots ==
  /\ req.pc = "use" /\ DOMAIN req.used = req.asks.numbers
  /\ EndWithout

ProviderStep ==
  \/ Call \/ Returned \/ QueryFailed \/ NoSources \/ BuildContext
  \/ AnswerFromWeb \/ ModelDown \/ FileAnswer \/ Show
  \/ UseSnapshot \/ AnswerFromSnapshots

Next ==
  \/ \E p \in Pages : Edit(p)
  \/ Withdraw \/ Restart
  \/ \E p \in Path : DeleteSnapshot(p)
  \/ ResearchStep \/ PrintStep
  \/ \E r \in Requests \cup Later : Begin(r)
  \/ ProviderStep

Spec == Init /\ [][Next]_vars

\* Calls of other services have time limits, so the middleware's tasks go on.
FairSpec == Spec /\ WF_vars(ResearchStep) /\ WF_vars(PrintStep)

-----------------------------------------------------------------------------
(* Properties.                                                             *)

\* The answer is made from pages that were fetched for this very request and that
\* the gate has let through, each under one number only.
WebEvidenceHonest ==
  /\ TypeOK
  /\ {e.source : e \in ToSet(req.context)} \subseteq accepted
  /\ req.asks.queries > 1 =>
       \A m, n \in DOMAIN req.context : req.context[m].source.page = req.context[n].source.page => m = n

\* The snapshot an answer names beside a source is what the model has read of
\* this source, whichever step of archiving failed and however the page has
\* changed since; /use:Wn reads that, or nothing.
SnapshotIsEvidence ==
  /\ \A e \in ToSet(chat.web) :
       e.path \in DOMAIN archive.text => archive.text[e.path] = e.source
  /\ \A n \in DOMAIN req.used : req.used[n] = chat.web[n].source

\* An answer sent in one piece that does not tell of steps of the archive that
\* failed has all of them: the snapshots it names exist, until the user deletes
\* them, and the record of each of its runs holds this answer.  Excepted are the
\* two answers that never tell: a streamed one, of which failures of the archive are
\* logged only, and that to /web without a model, which is the list of its sources.
LossesTold ==
  req.pc = "idle" /\ chat.answered /\ ~chat.streamed /\ ~chat.told =>
    /\ \A e \in ToSet(chat.web) : e.path \in DOMAIN archive.text \cup removed \cup {NoPath}
    /\ \A r \in ToSet(chat.runs) : archive.answer[r] = chat.turn

\* Pages that wait to be printed do not pile up: again and again each of them has
\* been printed or noted as failed, unless its task was cut off, its outcome could
\* not be written, or the page was never handed over because storing its metadata
\* was taken to have failed when it had not.
PrintsSettle == []<>(Waiting \subseteq lost)

=============================================================================

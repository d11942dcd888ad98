------------------------- MODULE WebResearchProofs -------------------------
(***************************************************************************)
(* Proofs about WebResearch, for any number of pages, queries, requests    *)
(* and events: what the answer is made of, what the snapshots it names     *)
(* hold, and what it may be silent about.                                  *)
(***************************************************************************)
EXTENDS WebResearch, TLAPS

-----------------------------------------------------------------------------
(* The inductive invariant.                                                *)

(* The provider waits exactly while a call is under way, and has room for  *)
(* the directories of the queries that are left.                           *)
Handshake ==
  /\ req.pc = "wait" <=> run.pc # "idle"
  /\ req.pc \in {"call", "wait"} =>
       runs + req.left + (IF run.pc \in {"search", "fetch", "archive"} THEN 1 ELSE 0) <= MaxRuns

(* What a call has chosen: pages it has fetched, each once, which the gate *)
(* has let through; nothing before the gate.                               *)
Choosing ==
  /\ \A p \in DOMAIN run.got : run.got[p].page = p
  /\ ToSet(run.selected) \subseteq accepted /\ Len(run.selected) <= MaxSources
  /\ \A i, j \in DOMAIN run.selected : run.selected[i].page = run.selected[j].page => i = j
  /\ run.pc \in {"idle", "search", "fetch", "failed"} => run.selected = <<>>

(* The records of a run are those of the first sources chosen, in their    *)
(* order; only their texts have been written to its directory.             *)
Recording ==
  /\ run.id <= runs /\ Len(run.records) <= Len(run.selected)
  /\ run.pc \notin {"sources", "back"} => run.id = 0
  /\ run.pc = "sources" => run.id = runs /\ run.id # 0
  /\ run.id = 0 => run.records = <<>>
  /\ \A i \in DOMAIN run.records : run.records[i] = <<run.id, i>>
  /\ \A p \in DOMAIN archive.text :
       p[1] <= runs /\ (run.pc = "sources" /\ p[1] = run.id => p[2] <= Len(run.records))

(* A path holds the source it is named with.                               *)
Holds(path, source) == path \in DOMAIN archive.text => archive.text[path] = source
\* it is there, unless there never was one or the user has deleted it
Kept(path) == path \in DOMAIN archive.text \cup removed \cup {NoPath}

ReplyHolds ==
  /\ \A i \in DOMAIN run.records :
       /\ Holds(run.records[i], run.selected[i])
       /\ ~run.errors => Kept(run.records[i])
  /\ run.pc = "back" /\ run.id # 0 /\ ~run.errors => run.id \in DOMAIN archive.answer

(* What the provider has of its replies: pages the gate has let through,   *)
(* each once, with paths that hold them and that no call writes any more.  *)
Known(e) ==
  /\ Holds(e.path, e.source)
  /\ e.path[1] <= runs /\ (run.pc = "sources" => e.path[1] # run.id)

PagesOnce(s) == \A i, j \in DOMAIN s : s[i].source.page = s[j].source.page => i = j

Gathered(s) ==
  /\ \A e \in ToSet(s) : Known(e) /\ e.source \in accepted
  /\ \A e \in ToSet(s) : ~req.errors => Kept(e.path)
  /\ PagesOnce(s)

Gathering ==
  /\ Gathered(req.sources) /\ Gathered(req.context)
  /\ req.pc = "idle" => req.sources = <<>> /\ req.context = <<>> /\ req.runs = <<>>
  /\ req.pc # "file" => req.filed = 0
  /\ req.filed <= Len(req.runs)
  /\ \A r \in ToSet(req.runs) :
       /\ r <= runs
       /\ ~req.errors => r \in DOMAIN archive.answer
  /\ ~req.errors => \A i \in 1 .. req.filed : archive.answer[req.runs[i]] = turns
  /\ \A n \in DOMAIN req.used : req.used[n] = chat.web[n].source

(* The answer before: its snapshots, and the records of its runs, which no *)
(* later request touches.                                                  *)
Answered ==
  /\ \A e \in ToSet(chat.web) : Known(e)
  /\ \A r \in ToSet(chat.runs) :
       /\ r <= runs /\ r \notin ToSet(req.runs)
       /\ run.pc \in {"sources", "back"} => r # run.id
  /\ chat.answered /\ ~chat.streamed /\ ~chat.told =>
       /\ \A e \in ToSet(chat.web) : Kept(e.path)
       /\ \A r \in ToSet(chat.runs) : r \in DOMAIN archive.answer /\ archive.answer[r] = chat.turn

WebInv ==
  /\ TypeOK /\ Handshake /\ Choosing /\ Recording /\ ReplyHolds /\ Gathering /\ Answered

-----------------------------------------------------------------------------
(* The operators of the model.                                             *)

LEMMA Numbers == MaxTurns \in Nat /\ MaxRuns \in Nat /\ MaxEvents \in Nat /\ MaxSources \in Nat
BY WebAssumption

LEMMA PartialFields ==
  ASSUME NEW S, NEW T, NEW f \in Partial(S, T)
  PROVE  DOMAIN f \subseteq S /\ (\A x \in DOMAIN f : f[x] \in T) /\ f = [x \in DOMAIN f |-> f[x]]
BY DEF Partial

LEMMA MakePartial ==
  ASSUME NEW S, NEW T, NEW D \in SUBSET S, NEW f \in [D -> T]
  PROVE  f \in Partial(S, T)
BY DEF Partial

LEMMA EmptyType ==
  ASSUME NEW S, NEW T
  PROVE  Empty \in Partial(S, T) /\ DOMAIN Empty = {}
<1>1. Empty \in [{} -> T] /\ DOMAIN Empty = {}
  BY DEF Empty
<1>. QED BY <1>1, MakePartial

LEMMA PutFields ==
  ASSUME NEW f, NEW k, NEW v
  PROVE  /\ DOMAIN Put(f, k, v) = DOMAIN f \cup {k}
         /\ Put(f, k, v)[k] = v
         /\ \A x \in DOMAIN f : x # k => Put(f, k, v)[x] = f[x]
BY DEF Put

LEMMA PutType ==
  ASSUME NEW S, NEW T, NEW f \in Partial(S, T), NEW k \in S, NEW v \in T
  PROVE  Put(f, k, v) \in Partial(S, T)
<1>1. DOMAIN f \cup {k} \in SUBSET S /\ \A x \in DOMAIN f : f[x] \in T
  BY PartialFields
<1>2. Put(f, k, v) \in [DOMAIN f \cup {k} -> T]
  BY <1>1 DEF Put
<1>. QED BY <1>1, <1>2, MakePartial

LEMMA ChangedType ==
  ASSUME NEW S, NEW T, NEW f \in Partial(S, T), NEW k, NEW v \in T
  PROVE  [f EXCEPT ![k] = v] \in Partial(S, T) /\ DOMAIN [f EXCEPT ![k] = v] = DOMAIN f
<1>1. DOMAIN f \in SUBSET S /\ f \in [DOMAIN f -> T]
  BY PartialFields
<1>2. [f EXCEPT ![k] = v] \in [DOMAIN f -> T]
  BY <1>1
<1>. QED BY <1>1, <1>2, MakePartial

LEMMA RestrictFields ==
  ASSUME NEW S, NEW T, NEW f \in Partial(S, T), NEW D, D \subseteq DOMAIN f
  PROVE  /\ Restrict(f, D) \in Partial(S, T)
         /\ DOMAIN Restrict(f, D) = D /\ \A x \in D : Restrict(f, D)[x] = f[x]
<1>1. D \in SUBSET S /\ \A x \in D : f[x] \in T
  BY PartialFields
<1>2. Restrict(f, D) \in [D -> T] /\ DOMAIN Restrict(f, D) = D /\ \A x \in D : Restrict(f, D)[x] = f[x]
  BY <1>1 DEF Restrict
<1>. QED BY <1>1, <1>2, MakePartial

(* An order of a set is a sequence of members of it, each once.            *)
LEMMA OrdersFields ==
  ASSUME NEW S, NEW s \in Orders(S)
  PROVE  /\ s \in Seq(S) /\ ToSet(s) \subseteq S
         /\ \A i, j \in DOMAIN s : s[i] = s[j] => i = j
<1>1. /\ s \in UNION {[1 .. m -> S] : m \in 0 .. Cardinality(S)}
      /\ \A i, j \in DOMAIN s : s[i] = s[j] => i = j
  BY DEF Orders, SeqOf, IsInjective
<1>2. PICK m \in 0 .. Cardinality(S) : s \in [1 .. m -> S]
  BY <1>1
<1>3. m \in Nat
  BY <1>2
<1>4. s \in Seq(S)
  BY <1>2, <1>3
<1>. QED BY <1>1, <1>2, <1>4 DEF ToSet

LEMMA SeqElements ==
  ASSUME NEW S, NEW s \in Seq(S)
  PROVE  /\ DOMAIN s = 1 .. Len(s) /\ Len(s) \in Nat
         /\ ToSet(s) \subseteq S /\ \A i \in 1 .. Len(s) : s[i] \in S /\ s[i] \in ToSet(s)
BY DEF ToSet

LEMMA AppendElements ==
  ASSUME NEW S, NEW s \in Seq(S), NEW x \in S
  PROVE  /\ Append(s, x) \in Seq(S) /\ Len(Append(s, x)) = Len(s) + 1
         /\ ToSet(Append(s, x)) = ToSet(s) \cup {x}
         /\ Append(s, x)[Len(s) + 1] = x
         /\ \A i \in 1 .. Len(s) : Append(s, x)[i] = s[i]
<1>1. /\ Append(s, x) \in Seq(S) /\ Len(Append(s, x)) = Len(s) + 1
      /\ Append(s, x)[Len(s) + 1] = x
      /\ \A i \in 1 .. Len(s) : Append(s, x)[i] = s[i]
  OBVIOUS
<1>2. DOMAIN s = 1 .. Len(s) /\ DOMAIN Append(s, x) = 1 .. (Len(s) + 1) /\ Len(s) \in Nat
  BY <1>1
<1>3. ToSet(Append(s, x)) \subseteq ToSet(s) \cup {x}
  BY <1>1, <1>2 DEF ToSet
<1>4. ToSet(s) \cup {x} \subseteq ToSet(Append(s, x))
  BY <1>1, <1>2 DEF ToSet
<1>. QED BY <1>1, <1>3, <1>4

LEMMA NothingIn ==
  ASSUME NEW S, NEW s \in Seq(S), Len(s) = 0
  PROVE  ToSet(s) = {} /\ s = <<>>
<1>1. DOMAIN s = {}
  OBVIOUS
<1>2. ToSet(s) = {}
  BY <1>1 DEF ToSet
<1>. QED BY <1>2

LEMMA NoElements == ToSet(<<>>) = {}
<1>1. <<>> \in Seq({}) /\ Len(<<>>) = 0
  OBVIOUS
<1>2. \A S : \A s \in Seq(S) : Len(s) = 0 => ToSet(s) = {}
  BY NothingIn
<1>. QED BY <1>1, <1>2, Zenon


(* The fields of the variables, by their types.                            *)
LEMMA Fields ==
  ASSUME TypeOK
  PROVE  /\ archive \in Archive
         /\ archive.text \in Partial(Path, Source) /\ archive.answer \in Partial(1 .. MaxRuns, 0 .. MaxTurns)
         /\ archive.meta \in Partial(Path, {"plain", "pending", "complete", "failed"})
         /\ run \in Run /\ run.id \in Nat /\ runs \in Nat
         /\ run.got \in Partial(Pages, Source) /\ run.selected \in Seq(Source)
         /\ run.records \in Seq(Path) /\ run.jobs \in Seq(Path) /\ run.errors \in BOOLEAN
         /\ req \in Serve /\ req.asks \in Request /\ req.left \in Nat /\ req.filed \in Nat
         /\ req.sources \in Seq(Evidence) /\ req.context \in Seq(Evidence)
         /\ req.runs \in Seq(1 .. MaxRuns) /\ req.errors \in BOOLEAN
         /\ req.used \in Partial(DOMAIN chat.web, Source)
         /\ chat \in Answer /\ chat.web \in Seq(Evidence) /\ chat.runs \in Seq(1 .. MaxRuns)
<1>1. archive \in Archive /\ run \in Run /\ runs \in 0 .. MaxRuns /\ req \in Serve /\ chat \in Answer
  BY DEF TypeOK
<1>2. run.id \in Nat /\ runs \in Nat
  BY <1>1, Numbers DEF Run
<1>3. /\ archive.text \in Partial(Path, Source) /\ archive.answer \in Partial(1 .. MaxRuns, 0 .. MaxTurns)
      /\ archive.meta \in Partial(Path, {"plain", "pending", "complete", "failed"})
  BY <1>1 DEF Archive
<1>4. /\ run.got \in Partial(Pages, Source) /\ run.selected \in Seq(Source)
      /\ run.records \in Seq(Path) /\ run.jobs \in Seq(Path) /\ run.errors \in BOOLEAN
  BY <1>1 DEF Run
<1>5. /\ req.asks \in Request /\ req.left \in Nat /\ req.filed \in Nat
      /\ req.sources \in Seq(Evidence) /\ req.context \in Seq(Evidence)
      /\ req.runs \in Seq(1 .. MaxRuns) /\ req.errors \in BOOLEAN
      /\ req.used \in Partial(DOMAIN chat.web, Source)
  BY <1>1 DEF Serve
<1>6. chat.web \in Seq(Evidence) /\ chat.runs \in Seq(1 .. MaxRuns)
  BY <1>1 DEF Answer
<1>. QED BY <1>1, <1>2, <1>3, <1>4, <1>5, <1>6

LEMMA NoRunType ==
  /\ NoRun \in Run /\ NoRun.pc = "idle" /\ NoRun.id = 0 /\ NoRun.selected = <<>>
  /\ NoRun.records = <<>> /\ DOMAIN NoRun.got = {} /\ NoRun.jobs = <<>>
<1>1. Empty \in Partial(Pages, Source) /\ DOMAIN Empty = {}
  BY EmptyType
<1>2. 0 \in 0 .. MaxRuns
  BY Numbers
<1>. QED BY <1>1, <1>2 DEF NoRun, Run

(* A request that begins: nothing gathered, nothing used.                  *)
ServeOver(D) ==
  [asks : Request, pc : {"idle", "call", "wait", "answer", "file", "use"}, left : Nat,
   answering : BOOLEAN, sources : Seq(Evidence), runs : Seq(1 .. MaxRuns), filed : Nat,
   errors : BOOLEAN, context : Seq(Evidence), whole : BOOLEAN, used : Partial(D, Source)]

LEMMA ServeIs == Serve = ServeOver(DOMAIN chat.web)
BY DEF Serve, ServeOver

LEMMA FreshType ==
  ASSUME NEW r \in Request, NEW D
  PROVE  /\ Fresh(r) \in ServeOver(D)
         /\ Fresh(r).pc = "idle" /\ Fresh(r).left = r.queries /\ Fresh(r).filed = 0
         /\ Fresh(r).asks = r
         /\ Fresh(r).sources = <<>> /\ Fresh(r).context = <<>> /\ Fresh(r).runs = <<>>
         /\ DOMAIN Fresh(r).used = {}
<1>1. Empty \in Partial(D, Source) /\ DOMAIN Empty = {}
  BY EmptyType
<1>2. r.queries \in Nat
  BY DEF Request
<1>. QED BY <1>1, <1>2 DEF Fresh, ServeOver

LEMMA NoRequestType == NoRequest \in Request
BY DEF NoRequest, Request

LEMMA NoAnswerType == NoAnswer \in Answer /\ NoAnswer.web = <<>> /\ NoAnswer.runs = <<>> /\ NoAnswer.answered = FALSE
BY Numbers DEF NoAnswer, Answer


LEMMA PathFields ==
  /\ \A p \in Path : p = <<p[1], p[2]>> /\ p[1] \in 1 .. MaxRuns /\ p[2] \in 1 .. MaxSources
  /\ \A m \in 1 .. MaxRuns, n \in 1 .. MaxSources :
       <<m, n>> \in Path /\ <<m, n>>[1] = m /\ <<m, n>>[2] = n
  /\ \A e \in Evidence : e.source \in Source /\ e.path \in Path \cup {NoPath} /\ e.path[1] \in Nat
  /\ NoPath \notin Path
<1>1. \A p \in Path : p = <<p[1], p[2]>> /\ p[1] \in 1 .. MaxRuns /\ p[2] \in 1 .. MaxSources
  BY DEF Path
<1>2. \A m \in 1 .. MaxRuns, n \in 1 .. MaxSources :
        <<m, n>> \in Path /\ <<m, n>>[1] = m /\ <<m, n>>[2] = n
  BY DEF Path
<1>3. NoPath[1] = 0
  BY DEF NoPath
<1>4. NoPath \notin Path
  BY <1>1, <1>3, Numbers
<1>5. \A e \in Evidence : e.source \in Source /\ e.path \in Path \cup {NoPath}
  BY DEF Evidence
<1>6. \A e \in Evidence : e.path[1] \in Nat
  BY <1>1, <1>3, <1>5, Numbers
<1>. QED BY <1>1, <1>2, <1>4, <1>5, <1>6

-----------------------------------------------------------------------------
(* What no step does to the snapshots: nothing is written but in the       *)
(* directory of the run under way, nothing goes but what the user deletes. *)
Steady ==
  /\ runs <= runs' /\ removed \subseteq removed'
  /\ \A p \in DOMAIN archive.text \cap DOMAIN archive'.text : archive'.text[p] = archive.text[p]
  /\ \A p \in DOMAIN archive'.text : p \in DOMAIN archive.text \/ (run.pc = "sources" /\ p[1] = run.id)
  /\ DOMAIN archive.text \subseteq DOMAIN archive'.text \cup removed'
  /\ run'.pc = "sources" => (run.pc = "sources" /\ run'.id = run.id) \/ run'.id > runs

LEMMA KnownStays ==
  ASSUME TypeOK, TypeOK', Steady
  PROVE  \A e \in Evidence : /\ Known(e) => Known(e)'
                             /\ Kept(e.path) => Kept(e.path)'
<1> SUFFICES ASSUME NEW e \in Evidence
             PROVE  /\ Known(e) => Known(e)'
                    /\ Kept(e.path) => Kept(e.path)'
  OBVIOUS
<1>1. e.path[1] \in Nat /\ runs \in Nat /\ runs' \in Nat /\ run.id \in Nat /\ run'.id \in Nat
  BY PathFields, Numbers DEF TypeOK, Run
<1>2. Kept(e.path) => Kept(e.path)'
  BY DEF Steady, Kept
<1>3. ASSUME Known(e) PROVE Known(e)'
  <2>1. Holds(e.path, e.source)'
    BY <1>3 DEF Steady, Known, Holds
  <2>2. e.path[1] <= runs' /\ (run'.pc = "sources" => e.path[1] # run'.id)
    BY <1>1, <1>3 DEF Steady, Known
  <2>. QED BY <2>1, <2>2 DEF Known
<1>. QED BY <1>2, <1>3

(* A step that leaves the request and the answer before it alone.          *)
Aside ==
  /\ Steady
  /\ accepted \subseteq accepted' /\ UNCHANGED <<req, chat, turns>>
  /\ DOMAIN archive.answer \subseteq DOMAIN archive'.answer
  /\ \A r \in DOMAIN archive.answer :
       archive'.answer[r] = archive.answer[r] \/ (run.pc = "sources" /\ r = run.id)
  /\ run'.pc = "back" => run'.id = 0 \/ (run.pc \in {"sources", "back"} /\ run'.id = run.id)

LEMMA AsideInv ==
  ASSUME TypeOK, TypeOK', Handshake, Gathering, Answered, Aside
  PROVE  Gathering' /\ Answered'
<1>1. \A e \in Evidence : (Known(e) => Known(e)') /\ (Kept(e.path) => Kept(e.path)')
  BY KnownStays DEF Aside
<1>2. req' = req /\ chat' = chat /\ turns' = turns /\ accepted \subseteq accepted'
  BY DEF Aside
<1>3. /\ ToSet(req.sources) \subseteq Evidence /\ ToSet(req.context) \subseteq Evidence
      /\ ToSet(chat.web) \subseteq Evidence
      /\ ToSet(req.runs) \subseteq 1 .. MaxRuns /\ ToSet(chat.runs) \subseteq 1 .. MaxRuns
      /\ \A i \in 1 .. Len(req.runs) : req.runs[i] \in ToSet(req.runs)
  BY Fields, SeqElements
<1>4. runs \in Nat /\ runs' \in Nat /\ runs <= runs'
  BY Fields, Numbers DEF TypeOK, Aside, Steady
<1>5. Gathered(req.sources)' /\ Gathered(req.context)'
  BY <1>1, <1>2, <1>3 DEF Gathering, Gathered, PagesOnce
<1>6. \A r \in ToSet(req.runs) :
        r <= runs' /\ (~req.errors => r \in DOMAIN archive'.answer)
  BY <1>3, <1>4 DEF Gathering, Aside
<1>7. ~req.errors => \A i \in 1 .. req.filed : archive'.answer[req.runs[i]] = turns
  <2> SUFFICES ASSUME ~req.errors, NEW i \in 1 .. req.filed
               PROVE  archive'.answer[req.runs[i]] = turns
    OBVIOUS
  <2>1. req.pc = "file" /\ i \in 1 .. Len(req.runs)
    BY Fields DEF Gathering
  <2>2. run.pc = "idle"
    BY <2>1 DEF Handshake
  <2>3. req.runs[i] \in DOMAIN archive.answer /\ archive.answer[req.runs[i]] = turns
    BY <1>3, <2>1 DEF Gathering
  <2>. QED BY <2>2, <2>3 DEF Aside
<1>8. Gathering'
  BY <1>2, <1>5, <1>6, <1>7 DEF Gathering
<1>9. \A e \in ToSet(chat.web) : Known(e)'
  BY <1>1, <1>3 DEF Answered
<1>10. \A r \in ToSet(chat.runs) :
         /\ r <= runs' /\ r \notin ToSet(req.runs)
         /\ run'.pc \in {"sources", "back"} => r # run'.id
  <2> SUFFICES ASSUME NEW r \in ToSet(chat.runs)
               PROVE  /\ r <= runs' /\ r \notin ToSet(req.runs)
                      /\ run'.pc \in {"sources", "back"} => r # run'.id
    OBVIOUS
  <2>1. r \in Nat /\ r # 0 /\ run.id \in Nat /\ run'.id \in Nat
    BY SMTT(30), <1>3, Numbers DEF TypeOK, Run
  <2>2. r <= runs /\ r \notin ToSet(req.runs) /\ (run.pc \in {"sources", "back"} => r # run.id)
    BY DEF Answered
  <2>. QED BY <1>4, <2>1, <2>2 DEF Aside, Steady
<1>11. ASSUME chat.answered /\ ~chat.streamed /\ ~chat.told
       PROVE  /\ \A e \in ToSet(chat.web) : Kept(e.path)'
              /\ \A r \in ToSet(chat.runs) :
                   r \in DOMAIN archive'.answer /\ archive'.answer[r] = chat.turn
  <2>1. \A e \in ToSet(chat.web) : Kept(e.path)'
    BY <1>1, <1>3, <1>11 DEF Answered
  <2>2. \A r \in ToSet(chat.runs) :
          r \in DOMAIN archive'.answer /\ archive'.answer[r] = chat.turn
    BY <1>11 DEF Answered, Aside
  <2>. QED BY <2>1, <2>2
<1>12. Answered'
  BY <1>2, <1>9, <1>10, <1>11 DEF Answered
<1>. QED BY <1>8, <1>12


(* Steps that change nothing the invariant speaks of.                      *)
LEMMA Unmoved ==
  ASSUME WebInv, TypeOK', archive'.text = archive.text, archive'.answer = archive.answer,
         UNCHANGED <<run, runs, removed, accepted, req, chat, turns>>
  PROVE  WebInv'
<1>1. TypeOK /\ Handshake /\ Choosing /\ Recording /\ ReplyHolds /\ Gathering /\ Answered
  BY DEF WebInv
<1>2. runs \in Nat
  BY <1>1, Fields
<1>3. Handshake' /\ Choosing'
  BY <1>1 DEF Handshake, Choosing
<1>4. Recording'
  BY <1>1 DEF Recording
<1>5. ReplyHolds'
  BY <1>1 DEF ReplyHolds, Holds, Kept
<1>6. Aside
  BY <1>2 DEF Aside, Steady
<1>7. Gathering' /\ Answered'
  BY <1>1, <1>6, AsideInv
<1>. QED BY <1>1, <1>3, <1>4, <1>5, <1>7 DEF WebInv

LEMMA EventTypes ==
  ASSUME TypeOK, Event \/ Fine
  PROVE  events' \in 0 .. MaxEvents
<1>1. events \in 0 .. MaxEvents /\ MaxEvents \in Nat
  BY Numbers DEF TypeOK
<1>. QED BY <1>1 DEF Event, Fine

-----------------------------------------------------------------------------
(* Around the program.                                                     *)

LEMMA EditInv == ASSUME WebInv, NEW p \in Pages, Edit(p) PROVE WebInv'
<1>1. TypeOK
  BY DEF WebInv
<1>2. events' \in 0 .. MaxEvents
  BY <1>1, EventTypes DEF Edit
<1>3. served' \in [Pages -> 0 .. MaxEvents]
  BY <1>1, <1>2 DEF Edit, TypeOK
<1>4. UNCHANGED <<settings, removed, archive, run, runs, batches, req, chat, accepted, lost, turns>>
  BY DEF Edit
<1>5. TypeOK'
  BY <1>1, <1>2, <1>3, <1>4 DEF TypeOK, Serve
<1>. QED BY <1>4, <1>5, Unmoved

LEMMA WithdrawInv == ASSUME WebInv, Withdraw PROVE WebInv'
<1>1. TypeOK
  BY DEF WebInv
<1>2. events' \in 0 .. MaxEvents
  BY <1>1, EventTypes DEF Withdraw
<1>3. settings' \in [web : BOOLEAN, archive : BOOLEAN]
  BY <1>1 DEF Withdraw, TypeOK
<1>4. UNCHANGED <<served, removed, archive, run, runs, batches, req, chat, accepted, lost, turns>>
  BY DEF Withdraw
<1>5. TypeOK'
  BY <1>1, <1>2, <1>3, <1>4 DEF TypeOK, Serve
<1>. QED BY <1>4, <1>5, Unmoved

LEMMA DeleteInv == ASSUME WebInv, NEW p \in Path, DeleteSnapshot(p) PROVE WebInv'
<1>1. TypeOK /\ Handshake /\ Choosing /\ Recording /\ ReplyHolds /\ Gathering /\ Answered
  BY DEF WebInv
<1>2. events' \in 0 .. MaxEvents
  BY <1>1, EventTypes DEF DeleteSnapshot
<1>3. UNCHANGED <<served, settings, run, runs, batches, req, chat, accepted, lost, turns>>
  BY DEF DeleteSnapshot
<1>4. removed' = removed \cup {p} /\ p \in DOMAIN archive.text
  BY DEF DeleteSnapshot
<1>5. /\ archive'.text = Restrict(archive.text, DOMAIN archive.text \ {p})
      /\ archive'.answer = archive.answer /\ archive'.meta = archive.meta
      /\ archive' = [archive EXCEPT !.text = archive'.text]
  BY <1>1, Fields DEF DeleteSnapshot, Archive
<1>6. /\ archive'.text \in Partial(Path, Source) /\ DOMAIN archive'.text = DOMAIN archive.text \ {p}
      /\ \A q \in DOMAIN archive'.text : archive'.text[q] = archive.text[q]
  <2>1. archive.text \in Partial(Path, Source) /\ DOMAIN archive.text \ {p} \subseteq DOMAIN archive.text
    BY <1>1, Fields
  <2> DEFINE D == DOMAIN archive.text \ {p}
  <2>2. /\ Restrict(archive.text, D) \in Partial(Path, Source)
        /\ DOMAIN Restrict(archive.text, D) = D
        /\ \A q \in D : Restrict(archive.text, D)[q] = archive.text[q]
    BY <2>1, RestrictFields
  <2>. QED BY <1>5, <2>2
<1>7. archive' \in Archive
  BY <1>1, <1>5, <1>6, Fields DEF Archive
<1>8. TypeOK'
  BY <1>1, <1>2, <1>3, <1>4, <1>7 DEF TypeOK, Serve
<1>9. Handshake' /\ Choosing'
  BY <1>1, <1>3 DEF Handshake, Choosing
<1>10. Recording'
  BY <1>1, <1>3, <1>6 DEF Recording
<1>11. ReplyHolds'
  BY <1>1, <1>3, <1>4, <1>5, <1>6 DEF ReplyHolds, Holds, Kept
<1>12. runs \in Nat
  BY <1>1, Fields
<1>13. Aside
  BY <1>3, <1>4, <1>5, <1>6, <1>12 DEF Aside, Steady
<1>14. Gathering' /\ Answered'
  BY <1>1, <1>8, <1>13, AsideInv
<1>. QED BY <1>8, <1>9, <1>10, <1>11, <1>14 DEF WebInv

(* The call in flight is cut off: it is as if it had chosen nothing.       *)
LEMMA CutOff ==
  ASSUME WebInv, TypeOK', run' = [NoRun EXCEPT !.pc = "failed"], run.pc # "idle",
         UNCHANGED <<archive, runs, removed, req, chat, accepted, turns>>
  PROVE  WebInv'
<1>1. TypeOK /\ Handshake /\ Choosing /\ Recording /\ ReplyHolds /\ Gathering /\ Answered
  BY DEF WebInv
<1>2. /\ run'.pc = "failed" /\ run'.id = 0 /\ run'.selected = <<>> /\ run'.records = <<>>
      /\ DOMAIN run'.got = {}
  BY NoRunType DEF Run
<1>3. /\ runs \in Nat /\ req.left \in Nat /\ MaxRuns \in Nat /\ MaxSources \in Nat
      /\ archive.text \in Partial(Path, Source)
  BY <1>1, Fields, Numbers
<1>4. Handshake'
  <2>1. req.pc = "wait"
    BY <1>1 DEF Handshake
  <2>2. runs + req.left <= MaxRuns
    BY <1>1, <1>3, <2>1 DEF Handshake
  <2>. QED BY <1>2, <1>3, <2>1, <2>2 DEF Handshake
<1>5. Choosing'
  BY <1>2, <1>3, NoElements DEF Choosing
<1>6. Recording'
  BY <1>1, <1>2, <1>3 DEF Recording
<1>7. ReplyHolds'
  BY <1>2 DEF ReplyHolds
<1>8. Aside
  BY <1>2, <1>3 DEF Aside, Steady
<1>9. Gathering' /\ Answered'
  BY <1>1, <1>8, AsideInv
<1>. QED BY <1>4, <1>5, <1>6, <1>7, <1>9 DEF WebInv

LEMMA RestartInv == ASSUME WebInv, Restart PROVE WebInv'
<1>1. TypeOK
  BY DEF WebInv
<1>2. events' \in 0 .. MaxEvents
  BY <1>1, EventTypes DEF Restart
<1>3. UNCHANGED <<served, settings, removed, archive, runs, req, chat, accepted, turns>>
  BY DEF Restart, world
<1>4. batches' = <<>> /\ batches' \in Seq(Batch)
  BY DEF Restart
<1>5. lost' \subseteq Path
  <2>1. DOMAIN archive.meta \subseteq Path
    BY <1>1, Fields, PartialFields
  <2>2. lost \subseteq Path
    BY <1>1 DEF TypeOK
  <2>. QED BY <2>1, <2>2 DEF Restart, Waiting
<1>6. run' \in Run
  BY <1>1, Fields, NoRunType DEF Restart, Run
<1>7. TypeOK'
  BY <1>1, <1>2, <1>3, <1>4, <1>5, <1>6 DEF TypeOK, Serve
<1>8. CASE run.pc = "idle"
  <2>1. run' = run
    BY <1>8 DEF Restart
  <2>. QED BY <1>3, <1>7, <2>1, Unmoved
<1>9. CASE run.pc # "idle"
  <2>1. run' = [NoRun EXCEPT !.pc = "failed"]
    BY <1>9 DEF Restart
  <2>. QED BY <1>3, <1>7, <1>9, <2>1, CutOff
<1>. QED BY <1>8, <1>9


-----------------------------------------------------------------------------
(* One call of the research arm.                                           *)

(* Before there is a directory nothing can be written.                     *)
LEMMA NotYetArchived ==
  ASSUME WebInv, TypeOK', run.pc \in {"search", "fetch", "archive"},
         run'.pc \in {"fetch", "archive", "back"}, run'.id = run.id, run'.records = run.records,
         accepted \subseteq accepted', Choosing',
         UNCHANGED <<archive, runs, removed, req, chat, turns>>
  PROVE  WebInv'
<1>1. TypeOK /\ Handshake /\ Choosing /\ Recording /\ ReplyHolds /\ Gathering /\ Answered
  BY DEF WebInv
<1>2. run'.id = 0 /\ run'.records = <<>>
  BY <1>1 DEF Recording
<1>3. /\ runs \in Nat /\ req.left \in Nat /\ MaxRuns \in Nat
      /\ archive.text \in Partial(Path, Source) /\ run'.selected \in Seq(Source)
  BY <1>1, Fields, Numbers DEF TypeOK, Run
<1>4. Handshake'
  <2>1. req.pc = "wait"
    BY <1>1 DEF Handshake
  <2>2. runs + req.left + 1 <= MaxRuns
    BY <1>1, <1>3, <2>1 DEF Handshake
  <2>. QED BY <1>2, <1>3, <2>1, <2>2 DEF Handshake
<1>5. Recording'
  BY <1>1, <1>2, <1>3 DEF Recording
<1>6. ReplyHolds'
  BY <1>2 DEF ReplyHolds
<1>7. Aside
  BY <1>2, <1>3 DEF Aside, Steady
<1>8. Gathering' /\ Answered'
  BY <1>1, <1>7, AsideInv
<1>. QED BY <1>4, <1>5, <1>6, <1>8 DEF WebInv

LEMMA SearchWebInv == ASSUME WebInv, SearchWeb PROVE WebInv'
<1>1. TypeOK /\ Choosing
  BY DEF WebInv
<1>2. events' \in 0 .. MaxEvents
  BY <1>1, EventTypes DEF SearchWeb
<1>3. UNCHANGED <<served, settings, removed, archive, runs, batches, req, chat, accepted, lost, turns>>
  BY DEF SearchWeb, Researching, world
<1>4. run.pc = "search"
  BY DEF SearchWeb
<1>5. ASSUME NEW hits \in SUBSET Pages,
             run' = [run EXCEPT !.pc = "fetch", !.hits = hits, !.missing = hits]
      PROVE  WebInv'
  <2>1. run' \in Run
    BY <1>1, <1>5, Fields DEF Run
  <2>2. TypeOK'
    BY <1>1, <1>2, <1>3, <2>1 DEF TypeOK, Serve
  <2>3. /\ run'.pc = "fetch" /\ run'.id = run.id /\ run'.records = run.records
        /\ run'.got = run.got /\ run'.selected = run.selected
    BY <1>1, <1>5, Fields DEF Run
  <2>4. Choosing'
    BY <1>1, <1>3, <1>4, <2>3 DEF Choosing
  <2>. QED BY <1>3, <1>4, <2>2, <2>3, <2>4, NotYetArchived
<1>6. ASSUME run' = [NoRun EXCEPT !.pc = "failed"]
      PROVE  WebInv'
  <2>1. run' \in Run
    BY <1>6, NoRunType DEF Run
  <2>2. TypeOK'
    BY <1>1, <1>2, <1>3, <2>1 DEF TypeOK, Serve
  <2>. QED BY <1>3, <1>4, <1>6, <2>2, CutOff
<1>. QED BY <1>5, <1>6 DEF SearchWeb

LEMMA FetchInv == ASSUME WebInv, NEW p \in Pages, Fetch(p) PROVE WebInv'
<1>1. TypeOK /\ Choosing
  BY DEF WebInv
<1>2. events' \in 0 .. MaxEvents
  BY <1>1, EventTypes DEF Fetch
<1>3. UNCHANGED <<served, settings, removed, archive, runs, batches, req, chat, accepted, lost, turns>>
  BY DEF Fetch, Researching, world
<1>4. run.pc = "fetch"
  BY DEF Fetch
<1> DEFINE s == [page |-> p, version |-> served[p]]
<1>5. s \in Source /\ s.page = p
  BY <1>1 DEF TypeOK, Source
<1>6. /\ Put(run.got, p, s) \in Partial(Pages, Source)
      /\ \A q \in DOMAIN Put(run.got, p, s) : Put(run.got, p, s)[q].page = q
  <2>1. run.got \in Partial(Pages, Source)
    BY <1>1, Fields
  <2> HIDE DEF s
  <2>2. Put(run.got, p, s) \in Partial(Pages, Source)
    BY <1>5, <2>1, PutType
  <2>3. /\ DOMAIN Put(run.got, p, s) = DOMAIN run.got \cup {p} /\ Put(run.got, p, s)[p] = s
        /\ \A q \in DOMAIN run.got : q # p => Put(run.got, p, s)[q] = run.got[q]
    BY DEF Put
  <2>4. \A q \in DOMAIN run.got : run.got[q].page = q
    BY <1>1 DEF Choosing
  <2>5. \A q \in DOMAIN Put(run.got, p, s) : Put(run.got, p, s)[q].page = q
    BY <1>5, <2>3, <2>4
  <2>. QED BY <2>2, <2>5
<1>7. /\ run' \in Run /\ run'.pc = "fetch" /\ run'.id = run.id /\ run'.records = run.records
      /\ run'.got \in {run.got, Put(run.got, p, s)} /\ run'.selected = run.selected
  <2> HIDE DEF s
  <2>1. \/ run' = [run EXCEPT !.missing = run.missing \ {p}, !.got = Put(run.got, p, s)]
        \/ run' = [run EXCEPT !.missing = run.missing \ {p}]
    BY DEF Fetch, s
  <2>2. run \in Run /\ run.missing \ {p} \subseteq Pages
    BY <1>1, Fields DEF Run
  <2>. QED BY <1>4, <1>6, <2>1, <2>2 DEF Run
<1>8. TypeOK'
  BY <1>1, <1>2, <1>3, <1>7 DEF TypeOK, Serve
<1>9. Choosing'
  <2> HIDE DEF s
  <2>1. \A q \in DOMAIN run'.got : run'.got[q].page = q
    BY <1>1, <1>6, <1>7 DEF Choosing
  <2>. QED BY <1>1, <1>3, <1>4, <1>7, <2>1 DEF Choosing
<1>. QED BY <1>3, <1>4, <1>7, <1>8, <1>9, NotYetArchived

(* Whatever order the gate lets sources through in, they are fetched       *)
(* pages, each once.                                                       *)
LEMMA ChosenOnce ==
  ASSUME TypeOK, Choosing, NEW chosen \in Orders(Range(run.got))
  PROVE  /\ chosen \in Seq(Source) /\ ToSet(chosen) \subseteq Source
         /\ \A i, j \in DOMAIN chosen : chosen[i].page = chosen[j].page => i = j
<1>1. run.got \in Partial(Pages, Source)
  BY Fields
<1>2. Range(run.got) \subseteq Source
  BY <1>1, PartialFields DEF Range
<1>3. /\ chosen \in Seq(Range(run.got)) /\ ToSet(chosen) \subseteq Range(run.got)
      /\ \A i, j \in DOMAIN chosen : chosen[i] = chosen[j] => i = j
  BY OrdersFields
<1>4. chosen \in Seq(Source)
  BY <1>2, <1>3
<1>5. \A i \in DOMAIN chosen : \E p \in DOMAIN run.got : chosen[i] = run.got[p]
  BY <1>3 DEF Range, ToSet
<1>6. \A i, j \in DOMAIN chosen : chosen[i].page = chosen[j].page => chosen[i] = chosen[j]
  BY <1>5 DEF Choosing
<1>. QED BY <1>2, <1>3, <1>4, <1>6

LEMMA GateInv == ASSUME WebInv, Gate PROVE WebInv'
<1>1. TypeOK /\ Choosing
  BY DEF WebInv
<1>2. events' \in 0 .. MaxEvents
  BY <1>1, EventTypes DEF Gate
<1>3. UNCHANGED <<served, settings, removed, archive, runs, batches, req, chat, lost, turns>>
  BY DEF Gate, world
<1>4. run.pc = "fetch"
  BY DEF Gate
<1>5. ASSUME NEW chosen \in Orders(Range(run.got)), Len(chosen) <= MaxSources,
             run' = Chosen(chosen), accepted' = accepted \cup ToSet(chosen)
      PROVE  WebInv'
  <2>1. /\ chosen \in Seq(Source) /\ ToSet(chosen) \subseteq Source
        /\ \A i, j \in DOMAIN chosen : chosen[i].page = chosen[j].page => i = j
    BY <1>1, ChosenOnce
  <2>2. Empty \in Partial(Pages, Source) /\ DOMAIN Empty = {}
    BY EmptyType
  <2>3. run' \in Run
    BY <1>1, <1>5, <2>1, <2>2, Fields DEF Run, Chosen
  <2>4. /\ run'.pc \in {"archive", "back"} /\ run'.id = run.id /\ run'.records = run.records
        /\ run'.got = Empty /\ run'.selected = chosen
    BY <1>1, <1>5, Fields DEF Run, Chosen
  <2>5. accepted' \subseteq Source
    BY <1>1, <1>5, <2>1 DEF TypeOK
  <2>6. TypeOK'
    BY <1>1, <1>2, <1>3, <2>3, <2>5 DEF TypeOK, Serve
  <2>7. Choosing'
    BY <1>5, <2>1, <2>2, <2>4 DEF Choosing
  <2>. QED BY <1>3, <1>4, <1>5, <2>4, <2>6, <2>7, NotYetArchived
<1>6. ASSUME run' = [NoRun EXCEPT !.pc = "failed"], accepted' = accepted
      PROVE  WebInv'
  <2>1. run' \in Run
    BY <1>6, NoRunType DEF Run
  <2>2. TypeOK'
    BY <1>1, <1>2, <1>3, <1>6, <2>1 DEF TypeOK, Serve
  <2>. QED BY <1>3, <1>4, <1>6, <2>2, CutOff
<1>. QED BY <1>5, <1>6 DEF Gate


LEMMA OpenRunInv == ASSUME WebInv, OpenRun PROVE WebInv'
<1>1. TypeOK /\ Handshake /\ Choosing /\ Recording /\ ReplyHolds /\ Gathering /\ Answered
  BY DEF WebInv
<1>2. UNCHANGED <<served, settings, removed, archive, batches, req, chat, accepted, lost, turns>>
  BY DEF OpenRun, world
<1>3. run.pc = "archive" /\ run.id = 0 /\ run.records = <<>>
  BY <1>1 DEF OpenRun, Recording
<1>4. events' \in 0 .. MaxEvents
  BY <1>1, EventTypes DEF OpenRun
<1>5. CASE runs' = runs /\ run' \in {[run EXCEPT !.pc = "back"], [run EXCEPT !.pc = "back", !.errors = TRUE]}
  <2>1. /\ run' \in Run /\ run'.pc = "back" /\ run'.id = run.id /\ run'.records = run.records
        /\ run'.selected = run.selected /\ run'.got = run.got
    BY <1>1, <1>5, Fields DEF Run
  <2>2. TypeOK'
    BY <1>1, <1>2, <1>4, <1>5, <2>1 DEF TypeOK, Serve
  <2>3. Choosing'
    BY <1>1, <1>2, <2>1 DEF Choosing
  <2>. QED BY <1>2, <1>3, <1>5, <2>1, <2>2, <2>3, NotYetArchived
<1>6. CASE /\ runs' = runs + 1
           /\ run' \in {[run EXCEPT !.pc = "sources", !.id = runs'],
                        [run EXCEPT !.pc = "sources", !.id = runs', !.errors = TRUE]}
  <2>1. /\ runs \in Nat /\ req.left \in Nat /\ MaxRuns \in Nat
        /\ archive.text \in Partial(Path, Source)
    BY <1>1, Fields, Numbers
  <2>2. req.pc = "wait" /\ runs + req.left + 1 <= MaxRuns
    BY <1>1, <1>3, <2>1 DEF Handshake
  <2>3. runs' \in 0 .. MaxRuns
    BY <1>6, <2>1, <2>2
  <2>4. /\ run' \in Run /\ run'.pc = "sources" /\ run'.id = runs' /\ run'.records = <<>>
        /\ run'.selected = run.selected /\ run'.got = run.got
    BY <1>1, <1>3, <1>6, <2>3, Fields DEF Run
  <2>5. TypeOK'
    BY <1>1, <1>2, <1>4, <2>3, <2>4 DEF TypeOK, Serve
  <2>6. Choosing'
    BY <1>1, <1>2, <2>4 DEF Choosing
  <2>7. Handshake'
    BY <1>2, <1>6, <2>1, <2>2, <2>4 DEF Handshake
  <2>8. \A p \in DOMAIN archive.text : p[1] \in Nat /\ p[1] <= runs
    BY <1>1, <2>1, PartialFields, PathFields, Numbers DEF Recording
  <2>9. Recording'
    <3>1. run'.selected \in Seq(Source)
      BY <2>4 DEF Run
    <3>. QED BY <1>2, <1>6, <2>1, <2>4, <2>8, <3>1 DEF Recording
  <2>10. ReplyHolds'
    BY <2>4 DEF ReplyHolds
  <2>11. Aside
    BY <1>2, <1>6, <2>1, <2>4 DEF Aside, Steady
  <2>12. Gathering' /\ Answered'
    BY <1>1, <2>5, <2>11, AsideInv
  <2>. QED BY <2>5, <2>6, <2>7, <2>9, <2>10, <2>12 DEF WebInv
<1>. QED BY <1>5, <1>6 DEF OpenRun

(* The next source of a run has a place no text has been written to.       *)
LEMMA HereIsFree ==
  ASSUME TypeOK, Choosing, Recording, run.pc = "sources", Len(run.records) < Len(run.selected)
  PROVE  /\ Here \in Path /\ Here[1] = run.id /\ Here[2] = Len(run.records) + 1
         /\ Current \in Source
         /\ Here \notin DOMAIN archive.text
<1>1. /\ run.records \in Seq(Path) /\ run.selected \in Seq(Source)
      /\ run.id \in 0 .. MaxRuns /\ run.id # 0 /\ MaxRuns \in Nat /\ MaxSources \in Nat
      /\ Len(run.selected) <= MaxSources
  BY Fields, Numbers DEF TypeOK, Run, Recording, Choosing
<1>2. Len(run.records) + 1 \in 1 .. MaxSources /\ run.id \in 1 .. MaxRuns
  BY <1>1
<1>3. Here \in Path /\ Here[1] = run.id /\ Here[2] = Len(run.records) + 1
  BY <1>2, PathFields DEF Here
<1>4. Current \in Source
  BY <1>1 DEF Current
<1>5. Here \notin DOMAIN archive.text
  BY <1>1, <1>3 DEF Recording
<1>. QED BY <1>3, <1>4, <1>5

LEMMA ArchiveSourceTypes ==
  ASSUME TypeOK, Choosing, Recording, ArchiveSource
  PROVE  /\ TypeOK'
         /\ run.pc = "sources" /\ Len(run.records) < Len(run.selected)
         /\ UNCHANGED <<runs, removed, req, chat, accepted, turns>>
         /\ archive'.answer = archive.answer
         /\ archive'.text \in {archive.text, Put(archive.text, Here, Current)}
         /\ run'.pc = run.pc /\ run'.id = run.id /\ run'.got = run.got /\ run'.selected = run.selected
         /\ run'.records = Append(run.records, Here)
         /\ ~run'.errors => ~run.errors /\ archive'.text = Put(archive.text, Here, Current)
<1>1. run.pc = "sources" /\ Len(run.records) < Len(run.selected)
  BY DEF ArchiveSource
<1>2. /\ UNCHANGED <<served, settings, removed, runs, batches, req, chat, accepted, turns>>
      /\ events' \in 0 .. MaxEvents
  BY EventTypes DEF ArchiveSource, world
<1>3. Here \in Path /\ Current \in Source
  BY <1>1, HereIsFree
<1>3a. lost' \subseteq Path
  <2>1. lost \subseteq Path
    BY DEF TypeOK
  <2> HIDE DEF Here
  <2>2. lost' \subseteq lost \cup {Here}
    BY DEF ArchiveSource
  <2>. QED BY <1>3, <2>1, <2>2
<1> DEFINE texts == Put(archive.text, Here, Current)
           metas(s) == Put(archive.meta, Here, s)
<1>4. texts \in Partial(Path, Source)
  BY <1>3, Fields, PutType
<1>5. \A s \in {"plain", "pending", "complete"} :
        metas(s) \in Partial(Path, {"plain", "pending", "complete", "failed"})
  BY <1>3, Fields, PutType
<1>6. Append(run.records, Here) \in Seq(Path) /\ Append(run.jobs, Here) \in Seq(Path)
  BY <1>3, Fields, AppendElements
<1> DEFINE text == [archive EXCEPT !.text = texts]
           full(s) == [text EXCEPT !.meta = metas(s)]
           noted == [run EXCEPT !.records = Append(run.records, Here)]
           scheduled == [noted EXCEPT !.jobs = Append(run.jobs, Here)]
           failed == [noted EXCEPT !.errors = TRUE]
<1>7. /\ text \in Archive /\ text.text = texts /\ text.answer = archive.answer
      /\ text.meta = archive.meta
  <2> HIDE DEF texts
  <2>. QED BY <1>4, Fields DEF Archive
<1>8. \A s \in {"plain", "pending", "complete"} :
        full(s) \in Archive /\ full(s).text = texts /\ full(s).answer = archive.answer
  <2> HIDE DEF texts, text, metas
  <2>. QED BY <1>5, <1>7 DEF Archive
<1>9. /\ noted \in Run /\ noted.pc = run.pc /\ noted.id = run.id /\ noted.got = run.got
      /\ noted.selected = run.selected /\ noted.records = Append(run.records, Here)
      /\ noted.errors = run.errors /\ noted.jobs = run.jobs
  BY <1>6, Fields DEF Run
<1>10. /\ \A r \in {scheduled, failed} :
            /\ r \in Run /\ r.pc = run.pc /\ r.id = run.id /\ r.got = run.got
            /\ r.selected = run.selected /\ r.records = Append(run.records, Here)
       /\ scheduled.errors = run.errors /\ failed.errors = TRUE
  <2> HIDE DEF noted
  <2>. QED BY ZenonT(60), <1>6, <1>9 DEF Run
<1> DEFINE status == IF Current.page \notin Html THEN "plain"
                     ELSE IF Background THEN "pending" ELSE "complete"
<1>11a. status \in {"plain", "pending", "complete"}
  OBVIOUS
<1> HIDE DEF status
<1>11. \/ archive' = full(status) /\ run' \in {noted, scheduled}
       \/ archive' \in {archive, text, full("plain"), full(status)} /\ run' = failed
  <2>1. \A s : [text EXCEPT !.meta = Put(@, Here, s)] = full(s)
    BY <1>7
  <2>2. [noted EXCEPT !.jobs = Append(@, Here)] = scheduled
    BY <1>9
  <2> HIDE DEF full, scheduled
  <2>. QED BY <2>1, <2>2 DEF ArchiveSource, status
<1> HIDE DEF texts, text, full, noted, scheduled, failed
<1>12. /\ archive' \in Archive /\ archive'.answer = archive.answer
       /\ archive'.text \in {archive.text, texts}
  BY <1>7, <1>8, <1>11, <1>11a, Fields
<1>13. /\ run' \in Run
       /\ run'.pc = run.pc /\ run'.id = run.id /\ run'.got = run.got /\ run'.selected = run.selected
       /\ run'.records = Append(run.records, Here)
  BY <1>9, <1>10, <1>11
<1>14. ~run'.errors => ~run.errors /\ archive'.text = texts
  BY <1>8, <1>9, <1>10, <1>11, <1>11a
<1>15. TypeOK'
  BY <1>2, <1>3a, <1>12, <1>13 DEF TypeOK, Serve
<1>. QED BY <1>1, <1>2, <1>12, <1>13, <1>14, <1>15 DEF texts


LEMMA ArchiveSourceInv == ASSUME WebInv, ArchiveSource PROVE WebInv'
<1>1. TypeOK /\ Handshake /\ Choosing /\ Recording /\ ReplyHolds /\ Gathering /\ Answered
  BY DEF WebInv
<1>2. /\ TypeOK'
      /\ run.pc = "sources" /\ Len(run.records) < Len(run.selected)
      /\ UNCHANGED <<runs, removed, req, chat, accepted, turns>>
      /\ archive'.answer = archive.answer
      /\ archive'.text \in {archive.text, Put(archive.text, Here, Current)}
      /\ run'.pc = run.pc /\ run'.id = run.id /\ run'.got = run.got /\ run'.selected = run.selected
      /\ run'.records = Append(run.records, Here)
      /\ ~run'.errors => ~run.errors /\ archive'.text = Put(archive.text, Here, Current)
  BY <1>1, ArchiveSourceTypes
<1> DEFINE n == Len(run.records) + 1
<1>3. /\ Here \in Path /\ Here[1] = run.id /\ Here[2] = n
      /\ Current \in Source /\ Here \notin DOMAIN archive.text
  BY <1>1, <1>2, HereIsFree
<1>4. Here = <<run.id, n>> /\ Current = run.selected[n]
  BY DEF Here, Current
<1>5. /\ DOMAIN archive.text \subseteq DOMAIN archive'.text
      /\ DOMAIN archive'.text \subseteq DOMAIN archive.text \cup {Here}
      /\ \A p \in DOMAIN archive.text : archive'.text[p] = archive.text[p]
      /\ Here \in DOMAIN archive'.text => archive'.text[Here] = Current
      /\ archive'.text = Put(archive.text, Here, Current) => Here \in DOMAIN archive'.text
  <2>1. /\ DOMAIN Put(archive.text, Here, Current) = DOMAIN archive.text \cup {Here}
        /\ Put(archive.text, Here, Current)[Here] = Current
        /\ \A p \in DOMAIN archive.text : p # Here => Put(archive.text, Here, Current)[p] = archive.text[p]
    BY DEF Put
  <2>. QED BY <1>2, <1>3, <2>1
<1>6. /\ run.records \in Seq(Path) /\ run.selected \in Seq(Source)
      /\ Len(run.records) \in Nat /\ Len(run.selected) \in Nat /\ n \in Nat
      /\ DOMAIN run.records = 1 .. Len(run.records) /\ DOMAIN run'.records = 1 .. n
      /\ Len(run'.records) = n
      /\ run'.records[n] = Here
      /\ \A i \in 1 .. Len(run.records) : run'.records[i] = run.records[i]
  <2>1. run.records \in Seq(Path) /\ run.selected \in Seq(Source)
    BY <1>1, Fields
  <2>2. /\ run'.records \in Seq(Path) /\ Len(run'.records) = Len(run.records) + 1
        /\ run'.records[Len(run.records) + 1] = Here
        /\ \A i \in 1 .. Len(run.records) : run'.records[i] = run.records[i]
    <3> HIDE DEF Here
    <3>. QED BY <1>2, <1>3, <2>1, AppendElements
  <2>. QED BY <2>1, <2>2
<1>7. runs \in Nat /\ run.id \in Nat /\ run.id # 0 /\ run.id <= runs
  BY <1>1, <1>2, Fields DEF Recording
<1>8. Handshake' /\ Choosing'
  BY <1>1, <1>2 DEF Handshake, Choosing
<1>9. \A i \in 1 .. n : run'.records[i] = <<run.id, i>>
  <2>1. \A i \in 1 .. Len(run.records) : run.records[i] = <<run.id, i>>
    BY <1>1, <1>6 DEF Recording
  <2> HIDE DEF Here
  <2>2. \A i \in 1 .. n : i = n \/ i \in 1 .. Len(run.records)
    BY <1>6
  <2>. QED BY <1>4, <1>6, <2>1, <2>2
<1>10. Recording'
  <2>1. \A p \in DOMAIN archive'.text :
          p[1] <= runs /\ (p[1] = run.id => p[2] <= n)
    <3> SUFFICES ASSUME NEW p \in DOMAIN archive'.text
                 PROVE  p[1] <= runs /\ (p[1] = run.id => p[2] <= n)
      OBVIOUS
    <3>1. CASE p = Here
      BY <1>3, <1>6, <1>7, <3>1
    <3>2. CASE p \in DOMAIN archive.text
      <4>1. p[2] \in Nat
        <5>1. archive.text \in Partial(Path, Source)
          BY <1>1, Fields
        <5>2. p \in Path
          BY <3>2, <5>1, PartialFields
        <5>. QED BY <5>2, PathFields, Numbers
      <4>2. p[1] <= runs /\ (p[1] = run.id => p[2] <= Len(run.records))
        BY <1>1, <1>2, <3>2 DEF Recording
      <4>. QED BY <1>6, <4>1, <4>2
    <3>. QED BY <1>5, <3>1, <3>2
  <2>. QED BY <1>1, <1>2, <1>6, <1>7, <1>9, <2>1 DEF Recording
<1>11. ReplyHolds'
  <2>1. \A i \in 1 .. n :
          /\ run'.records[i] \in DOMAIN archive'.text =>
               archive'.text[run'.records[i]] = run.selected[i]
          /\ ~run'.errors =>
               run'.records[i] \in DOMAIN archive'.text \cup removed' \cup {NoPath}
    <3> SUFFICES ASSUME NEW i \in 1 .. n
                 PROVE  /\ run'.records[i] \in DOMAIN archive'.text =>
                             archive'.text[run'.records[i]] = run.selected[i]
                        /\ ~run'.errors =>
                             run'.records[i] \in DOMAIN archive'.text \cup removed' \cup {NoPath}
      OBVIOUS
    <3>1. CASE i = n
      BY <1>2, <1>4, <1>5, <1>6, <3>1
    <3>2. CASE i # n
      <4>1. i \in 1 .. Len(run.records) /\ i \in DOMAIN run.records
        BY <1>6, <3>2
      <4>2. /\ run.records[i] \in DOMAIN archive.text =>
                 archive.text[run.records[i]] = run.selected[i]
            /\ ~run.errors => run.records[i] \in DOMAIN archive.text \cup removed \cup {NoPath}
        BY <1>1, <4>1 DEF ReplyHolds, Holds, Kept
      <4>3. run'.records[i] = run.records[i] /\ run.records[i] # Here
        <5>1. run.records[i] = <<run.id, i>>
          BY <1>1, <4>1 DEF Recording
        <5>. QED BY <1>4, <1>6, <3>2, <4>1, <5>1
      <4>. QED BY <1>2, <1>5, <4>2, <4>3
    <3>. QED BY <3>1, <3>2
  <2>2. run'.pc # "back" /\ run'.selected = run.selected /\ DOMAIN run'.records = 1 .. n
    BY <1>2, <1>6
  <2>. QED BY <2>1, <2>2 DEF ReplyHolds, Holds, Kept
<1>12. Aside
  BY <1>2, <1>3, <1>5, <1>7 DEF Aside, Steady
<1>13. Gathering' /\ Answered'
  BY <1>1, <1>2, <1>12, AsideInv
<1>. QED BY <1>2, <1>8, <1>10, <1>11, <1>13 DEF WebInv

LEMMA ScheduledType ==
  ASSUME TypeOK
  PROVE  Scheduled \in Seq(Batch)
<1>1. batches \in Seq(Batch) /\ run.jobs \in Seq(Path)
  BY Fields DEF TypeOK
<1>2. [jobs |-> run.jobs, started |-> FALSE] \in Batch
  BY <1>1 DEF Batch
<1>. QED BY <1>1, <1>2 DEF Scheduled

LEMMA FileRunInv == ASSUME WebInv, FileRun PROVE WebInv'
<1>1. TypeOK /\ Handshake /\ Choosing /\ Recording /\ ReplyHolds /\ Gathering /\ Answered
  BY DEF WebInv
<1>2. /\ UNCHANGED <<served, settings, removed, runs, req, chat, accepted, lost, turns>>
      /\ events' \in 0 .. MaxEvents
      /\ run.pc = "sources"
  BY <1>1, EventTypes DEF FileRun, world
<1>3. /\ run.id \in 1 .. MaxRuns /\ runs \in Nat /\ req.left \in Nat /\ MaxRuns \in Nat
      /\ MaxTurns \in Nat /\ 0 \in 0 .. MaxTurns
  BY <1>1, <1>2, Fields, Numbers DEF Recording, TypeOK, Run
<1>4. batches' \in Seq(Batch)
  BY <1>1, ScheduledType DEF FileRun
<1>5. /\ run' \in Run /\ run'.pc = "back" /\ run'.id = run.id /\ run'.got = run.got
      /\ run'.selected = run.selected /\ run'.records = run.records
      /\ ~run'.errors => ~run.errors /\ archive' = [archive EXCEPT !.answer = Put(@, run.id, 0)]
  BY <1>1, Fields DEF FileRun, Run
<1>6. /\ Put(archive.answer, run.id, 0) \in Partial(1 .. MaxRuns, 0 .. MaxTurns)
      /\ DOMAIN Put(archive.answer, run.id, 0) = DOMAIN archive.answer \cup {run.id}
      /\ \A r \in DOMAIN archive.answer : r # run.id => Put(archive.answer, run.id, 0)[r] = archive.answer[r]
  <2>1. archive.answer \in Partial(1 .. MaxRuns, 0 .. MaxTurns)
    BY <1>1, Fields
  <2>2. Put(archive.answer, run.id, 0) \in Partial(1 .. MaxRuns, 0 .. MaxTurns)
    BY <1>3, <2>1, PutType
  <2>. QED BY <2>2 DEF Put
<1>7. /\ archive' \in Archive /\ archive'.text = archive.text
      /\ archive'.answer \in {archive.answer, Put(archive.answer, run.id, 0)}
      /\ ~run'.errors => archive'.answer = Put(archive.answer, run.id, 0)
  BY <1>1, <1>5, <1>6, Fields DEF FileRun, Archive
<1>8. TypeOK'
  BY <1>1, <1>2, <1>4, <1>5, <1>7 DEF TypeOK, Serve
<1>9. Handshake'
  BY <1>1, <1>2, <1>3, <1>5 DEF Handshake
<1>10. Choosing'
  BY <1>1, <1>2, <1>5 DEF Choosing
<1>11. Recording'
  BY <1>1, <1>2, <1>3, <1>5, <1>7 DEF Recording
<1>12. ReplyHolds'
  BY <1>1, <1>2, <1>5, <1>6, <1>7 DEF ReplyHolds, Holds, Kept
<1>13. Aside
  BY <1>2, <1>3, <1>5, <1>6, <1>7 DEF Aside, Steady
<1>14. Gathering' /\ Answered'
  BY <1>1, <1>8, <1>13, AsideInv
<1>. QED BY <1>8, <1>9, <1>10, <1>11, <1>12, <1>14 DEF WebInv


LEMMA ResearchInv == ASSUME WebInv, ResearchStep PROVE WebInv'
BY SearchWebInv, FetchInv, GateInv, OpenRunInv, ArchiveSourceInv, FileRunInv DEF ResearchStep

-----------------------------------------------------------------------------
(* Printing touches the metadata only.                                     *)

LEMMA PrintFrame ==
  ASSUME WebInv, PrintStep, batches' \in Seq(Batch), lost' \subseteq Path,
         archive' \in Archive, archive'.text = archive.text, archive'.answer = archive.answer
  PROVE  WebInv'
<1>1. TypeOK
  BY DEF WebInv
<1>2. UNCHANGED <<served, settings, removed, run, runs, req, chat, accepted, turns>>
  BY DEF PrintStep, StartBatch, PrintPage, EndBatch, Printing, world
<1>3. events' \in 0 .. MaxEvents
  BY <1>1, EventTypes DEF PrintStep, StartBatch, PrintPage, EndBatch
<1>4. TypeOK'
  BY <1>1, <1>2, <1>3 DEF TypeOK, Serve
<1>. QED BY <1>2, <1>4, Unmoved

LEMMA PrintInv == ASSUME WebInv, PrintStep PROVE WebInv'
<1>1. TypeOK
  BY DEF WebInv
<1>2. batches \in Seq(Batch) /\ lost \subseteq Path /\ archive \in Archive
  BY <1>1 DEF TypeOK
<1>3. ASSUME batches # <<>>
      PROVE  /\ batches[1] \in Batch /\ Head(batches) = batches[1]
             /\ batches[1].jobs \in Seq(Path) /\ ToSet(batches[1].jobs) \subseteq Path
             /\ Tail(batches) \in Seq(Batch) /\ 1 \in 1 .. Len(batches)
  <2>1. /\ batches[1] \in Batch /\ Head(batches) = batches[1]
        /\ Tail(batches) \in Seq(Batch) /\ 1 \in 1 .. Len(batches)
    BY <1>2, <1>3
  <2>2. batches[1].jobs \in Seq(Path)
    BY <2>1 DEF Batch
  <2>. QED BY <2>1, <2>2, SeqElements
<1>4. \A b \in Batch : batches # <<>> => [batches EXCEPT ![1] = b] \in Seq(Batch)
  BY <1>2, <1>3
<1>5. CASE StartBatch
  <2>1. [batches[1] EXCEPT !.started = TRUE] \in Batch
    BY <1>3, <1>5 DEF StartBatch, Batch
  <2>2. batches' \in Seq(Batch)
    BY <1>3, <1>4, <1>5, <2>1 DEF StartBatch
  <2>3. lost' \subseteq Path /\ archive' = archive
    BY <1>2, <1>3, <1>5 DEF StartBatch
  <2>. QED BY <1>2, <2>2, <2>3, PrintFrame
<1>6. CASE PrintPage
  <2>1. batches # <<>> /\ batches[1].jobs # <<>>
    BY <1>3, <1>6 DEF PrintPage
  <2> DEFINE p == Head(batches[1].jobs)
  <2>2. p \in Path /\ Tail(batches[1].jobs) \in Seq(Path)
    BY <1>3, <2>1
  <2>3. [batches[1] EXCEPT !.jobs = Tail(@)] \in Batch
    BY <1>3, <2>1, <2>2 DEF Batch
  <2>4. batches' = [batches EXCEPT ![1] = [batches[1] EXCEPT !.jobs = Tail(@)]]
    BY <1>2, <1>6, <2>1 DEF PrintPage
  <2>5. batches' \in Seq(Batch)
    BY <1>4, <2>1, <2>3, <2>4
  <2>6. \/ \E s \in {"complete", "failed"} : archive' = [archive EXCEPT !.meta[p] = s]
        \/ archive' = archive
    BY <1>3, <1>6, <2>1 DEF PrintPage
  <2>7. lost' \subseteq Path
    BY <1>2, <1>3, <1>6, <2>1, <2>2 DEF PrintPage
  <2>8. \A s \in {"complete", "failed"} :
          [archive.meta EXCEPT ![p] = s] \in Partial(Path, {"plain", "pending", "complete", "failed"})
    BY <1>1, Fields, ChangedType
  <2>9. archive' \in Archive /\ archive'.text = archive.text /\ archive'.answer = archive.answer
    <3> HIDE DEF p
    <3>1. CASE archive' = archive
      BY <1>2, <3>1
    <3>2. ASSUME NEW s \in {"complete", "failed"}, archive' = [archive EXCEPT !.meta[p] = s]
          PROVE  /\ archive' \in Archive /\ archive'.text = archive.text
                 /\ archive'.answer = archive.answer
      <4>1. archive' = [archive EXCEPT !.meta = [archive.meta EXCEPT ![p] = s]]
        BY <1>2, <3>2 DEF Archive
      <4>2. [archive.meta EXCEPT ![p] = s] \in Partial(Path, {"plain", "pending", "complete", "failed"})
        BY <2>8
      <4>. QED BY <1>2, <4>1, <4>2 DEF Archive
    <3>. QED BY <2>6, <3>1, <3>2
  <2>. QED BY <2>5, <2>7, <2>9, PrintFrame
<1>7. CASE EndBatch
  BY <1>2, <1>3, <1>7, PrintFrame DEF EndBatch
<1>. QED BY <1>5, <1>6, <1>7 DEF PrintStep


-----------------------------------------------------------------------------
(* The provider: its steps between two calls.                              *)

LEMMA ServingFrame ==
  ASSUME TypeOK, Serving
  PROVE  /\ UNCHANGED <<served, settings, removed, runs, batches, lost>>
         /\ events' \in 0 .. MaxEvents
BY EventTypes DEF Serving, world

(* While no call is under way the request may go on; room for the queries  *)
(* that are left was there when it began.                                  *)
LEMMA BetweenCalls ==
  ASSUME WebInv, TypeOK', Gathering', Answered',
         req.pc # "wait", req'.pc # "wait", req'.left = req.left \/ req'.pc # "call",
         req'.pc = "call" => req.pc = "call",
         UNCHANGED <<archive, run, runs, removed, accepted>>
  PROVE  WebInv'
<1>1. TypeOK /\ Handshake /\ Choosing /\ Recording /\ ReplyHolds
  BY DEF WebInv
<1>2. run.pc = "idle" /\ run' = run
  BY <1>1 DEF Handshake
<1>3. Handshake'
  BY <1>1, <1>2 DEF Handshake
<1>4. Choosing' /\ Recording'
  BY <1>1, <1>2 DEF Choosing, Recording
<1>5. ReplyHolds'
  BY <1>1, <1>2 DEF ReplyHolds, Holds, Kept
<1>. QED BY <1>3, <1>4, <1>5 DEF WebInv

(* Nothing gathered is well gathered.                                      *)
LEMMA NothingGathered == Gathered(<<>>)
<1>1. ToSet(<<>>) = {} /\ DOMAIN <<>> = {}
  BY NoElements
<1>. QED BY <1>1 DEF Gathered, PagesOnce

NothingYet ==
  /\ req.sources = <<>> /\ req.context = <<>> /\ req.runs = <<>> /\ req.filed = 0
  /\ DOMAIN req.used = {}

LEMMA FreshGathering == NothingYet => Gathering
<1>. SUFFICES ASSUME NothingYet PROVE Gathering
  OBVIOUS
<1>1. Gathered(req.sources) /\ Gathered(req.context)
  BY NothingGathered DEF NothingYet
<1>2. ToSet(req.runs) = {} /\ Len(req.runs) = 0
  BY NoElements DEF NothingYet
<1>. QED BY <1>1, <1>2 DEF Gathering, NothingYet

LEMMA EndWithoutInv ==
  ASSUME WebInv, EndWithout, req.pc # "wait"
  PROVE  WebInv'
<1>1. TypeOK
  BY DEF WebInv
<1>2. /\ UNCHANGED <<served, settings, removed, runs, batches, lost, archive, run, accepted, turns>>
      /\ events' \in 0 .. MaxEvents
  BY <1>1, ServingFrame DEF EndWithout
<1>3. req' = Fresh(NoRequest) /\ chat' = NoAnswer
  BY DEF EndWithout
<1>4. /\ req' \in ServeOver(DOMAIN chat'.web) /\ req'.pc = "idle" /\ req'.filed = 0
      /\ req'.sources = <<>> /\ req'.context = <<>> /\ req'.runs = <<>> /\ DOMAIN req'.used = {}
  BY <1>3, FreshType, NoRequestType
<1>5. TypeOK'
  BY <1>1, <1>2, <1>3, <1>4, NoAnswerType DEF TypeOK, Serve, ServeOver
<1>6. NothingYet'
  BY <1>4 DEF NothingYet
<1>7. Gathering'
  BY <1>6, FreshGathering, PTL
<1>8. Answered'
  BY <1>3, NoAnswerType, NoElements DEF Answered
<1>. QED BY <1>2, <1>4, <1>5, <1>7, <1>8, BetweenCalls


(* A step of the request that gathers nothing new.                         *)
LEMMA Onward ==
  ASSUME TypeOK, TypeOK', Gathering, Answered,
         UNCHANGED <<archive, runs, removed, chat, turns, accepted>>,
         run'.pc # "sources", run'.pc = "back" => run'.id = 0,
         req'.pc # "idle", req'.sources = req.sources, req'.runs = req.runs,
         req'.filed = req.filed, req.filed = 0, req.errors => req'.errors,
         ToSet(req'.context) \subseteq ToSet(req.sources) \cup ToSet(req.context),
         PagesOnce(req'.context),
         \A n \in DOMAIN req'.used : req'.used[n] = chat.web[n].source
  PROVE  Gathering' /\ Answered'
<1>1. /\ ToSet(req.sources) \subseteq Evidence /\ ToSet(req.context) \subseteq Evidence
      /\ ToSet(chat.web) \subseteq Evidence
      /\ ToSet(req.runs) \subseteq 1 .. MaxRuns /\ ToSet(chat.runs) \subseteq 1 .. MaxRuns
      /\ runs \in Nat
  BY Fields, SeqElements
<1>2. Steady
  BY <1>1 DEF Steady
<1>3. \A e \in Evidence : (Known(e) => Known(e)') /\ (Kept(e.path) => Kept(e.path)')
  BY <1>2, KnownStays
<1>4. \A e \in ToSet(req.sources) \cup ToSet(req.context) :
        /\ Known(e)' /\ e.source \in accepted
        /\ ~req'.errors => Kept(e.path)'
  BY <1>1, <1>3 DEF Gathering, Gathered
<1>5. Gathered(req.sources)' /\ Gathered(req.context)'
  BY <1>4 DEF Gathering, Gathered, PagesOnce
<1>6. /\ Len(req'.runs) \in Nat /\ req'.filed <= Len(req'.runs)
      /\ ~req'.errors => \A i \in 1 .. req'.filed : archive'.answer[req'.runs[i]] = turns'
  BY Fields, SeqElements DEF Gathering
<1>7. Gathering'
  BY <1>1, <1>5, <1>6 DEF Gathering
<1>8. Answered'
  BY <1>1, <1>3, Numbers DEF Answered
<1>. QED BY <1>7, <1>8


LEMMA BeginInv == ASSUME WebInv, NEW r \in Requests \cup Later, Begin(r) PROVE WebInv'
<1>1. TypeOK /\ Handshake /\ Choosing /\ Recording /\ ReplyHolds /\ Answered
  BY DEF WebInv
<1>2. /\ UNCHANGED <<served, settings, removed, runs, batches, lost, archive, run, chat>>
      /\ events' \in 0 .. MaxEvents
  BY <1>1, ServingFrame DEF Begin
<1>3. /\ r \in Request /\ r.queries \in Nat /\ runs \in Nat /\ MaxRuns \in Nat
      /\ turns' \in 0 .. MaxTurns
  <2>1. r \in Request
    BY WebAssumption
  <2>2. r.queries \in Nat
    BY <2>1 DEF Request
  <2>3. turns' \in 0 .. MaxTurns
    BY <1>1, Numbers DEF Begin, TypeOK
  <2>. QED BY <1>1, <2>1, <2>2, <2>3, Fields, Numbers
<1>4. Fresh(r) \in ServeOver(DOMAIN chat.web) /\ Fresh(r).left = r.queries
  BY <1>3, FreshType
<1>5. /\ req' \in ServeOver(DOMAIN chat.web) /\ req'.pc \in {"call", "use"} /\ req'.filed = 0
      /\ req'.sources = <<>> /\ req'.context = <<>> /\ req'.runs = <<>>
      /\ DOMAIN req'.used = {} /\ req'.left = r.queries
  <2>1. /\ Fresh(r).sources = <<>> /\ Fresh(r).context = <<>> /\ Fresh(r).runs = <<>>
        /\ DOMAIN Fresh(r).used = {} /\ Fresh(r).filed = 0
    BY <1>3, FreshType
  <2>2. req' = [Fresh(r) EXCEPT !.pc = IF r.kind = "use" THEN "use" ELSE "call"]
    BY DEF Begin
  <2> DEFINE new == Fresh(r)
  <2> HIDE DEF new
  <2>. QED BY <1>4, <2>1, <2>2 DEF ServeOver, new
<1>6. TypeOK'
  BY <1>1, <1>2, <1>3, <1>5 DEF TypeOK, Serve, ServeOver, Begin
<1>7. run.pc = "idle"
  BY <1>1 DEF Begin, Handshake
<1>8. Handshake'
  BY <1>2, <1>3, <1>5, <1>7 DEF Handshake, Begin
<1>9. accepted' = {} /\ run.selected = <<>> /\ ToSet(run.selected) = {}
  BY <1>1, <1>7, NoElements DEF Choosing, Begin
<1>10. Choosing'
  BY <1>1, <1>2, <1>9 DEF Choosing
<1>11. Recording'
  BY <1>1, <1>2 DEF Recording
<1>12. ReplyHolds'
  BY <1>1, <1>2 DEF ReplyHolds, Holds, Kept
<1>13. NothingYet'
  BY <1>5 DEF NothingYet
<1>14. Gathering'
  BY <1>13, FreshGathering, PTL
<1>15. Answered'
  <2>1. ToSet(chat.web) \subseteq Evidence
    BY <1>1, Fields, SeqElements
  <2>2. \A e \in Evidence : (Known(e) => Known(e)') /\ (Kept(e.path) => Kept(e.path)')
    BY <1>2 DEF Known, Kept, Holds
  <2>. QED BY <1>1, <1>2, <1>5, <1>7, <2>1, <2>2, NoElements DEF Answered
<1>. QED BY <1>6, <1>8, <1>10, <1>11, <1>12, <1>14, <1>15 DEF WebInv

LEMMA CallInv == ASSUME WebInv, Call PROVE WebInv'
<1>1. TypeOK /\ Handshake /\ Choosing /\ Recording /\ ReplyHolds /\ Gathering /\ Answered
  BY DEF WebInv
<1>2. /\ UNCHANGED <<served, settings, removed, runs, batches, lost, archive, chat, accepted, turns>>
      /\ events' \in 0 .. MaxEvents
      /\ req.pc = "call" /\ req.left > 0
  BY <1>1, ServingFrame DEF Call
<1>3. /\ runs \in Nat /\ req.left \in Nat /\ MaxRuns \in Nat /\ MaxSources \in Nat
      /\ archive.text \in Partial(Path, Source)
  BY <1>1, Fields, Numbers
<1>4. /\ run' \in Run /\ run'.pc \in {"search", "back"} /\ run'.id = 0 /\ run'.selected = <<>>
      /\ run'.records = <<>> /\ DOMAIN run'.got = {}
  BY NoRunType DEF Call, Run
<1>5. /\ req' \in ServeOver(DOMAIN chat.web) /\ req'.pc = "wait" /\ req'.left = req.left - 1
      /\ req'.sources = req.sources /\ req'.runs = req.runs /\ req'.filed = req.filed
      /\ req'.errors = req.errors /\ req'.context = req.context /\ req'.used = req.used
  <2>1. req \in ServeOver(DOMAIN chat.web)
    BY <1>1, Fields, ServeIs
  <2>2. req.left - 1 \in Nat
    BY <1>2, <1>3
  <2>. QED BY <2>1, <2>2 DEF Call, ServeOver
<1>6. TypeOK'
  BY <1>1, <1>2, <1>4, <1>5 DEF TypeOK, Serve, ServeOver
<1>7. Handshake'
  <2>1. runs + req.left <= MaxRuns
    BY <1>1, <1>2, <1>3 DEF Handshake
  <2>. QED BY <1>2, <1>3, <1>4, <1>5, <2>1 DEF Handshake
<1>8. Choosing'
  BY <1>3, <1>4, NoElements DEF Choosing
<1>9. Recording'
  BY <1>1, <1>2, <1>3, <1>4 DEF Recording
<1>10. ReplyHolds'
  BY <1>4 DEF ReplyHolds
<1>11. Gathering' /\ Answered'
  <2>1. PagesOnce(req'.context) /\ \A n \in DOMAIN req'.used : req'.used[n] = chat.web[n].source
    BY <1>1, <1>5 DEF Gathering, Gathered
  <2>2. req.filed = 0
    BY <1>1, <1>2 DEF Gathering
  <2>. QED BY <1>1, <1>2, <1>4, <1>5, <1>6, <2>1, <2>2, Onward
<1>. QED BY <1>6, <1>7, <1>8, <1>9, <1>10, <1>11 DEF WebInv

LEMMA QueryFailedInv == ASSUME WebInv, QueryFailed PROVE WebInv'
<1>1. TypeOK /\ Handshake /\ Choosing /\ Recording /\ ReplyHolds /\ Gathering /\ Answered
  BY DEF WebInv
<1>2. /\ UNCHANGED <<served, settings, removed, runs, batches, lost, archive, chat, accepted, turns>>
      /\ events' \in 0 .. MaxEvents
      /\ req.pc = "wait" /\ run.pc = "failed" /\ run' = NoRun
  BY <1>1, ServingFrame DEF QueryFailed
<1>3. /\ runs \in Nat /\ req.left \in Nat /\ MaxRuns \in Nat /\ MaxSources \in Nat
      /\ archive.text \in Partial(Path, Source)
  BY <1>1, Fields, Numbers
<1>4. /\ run' \in Run /\ run'.pc = "idle" /\ run'.id = 0 /\ run'.selected = <<>>
      /\ run'.records = <<>> /\ DOMAIN run'.got = {}
  BY <1>2, NoRunType
<1>5. /\ req' \in ServeOver(DOMAIN chat.web) /\ req'.pc = "call" /\ req'.left = req.left
      /\ req'.sources = req.sources /\ req'.runs = req.runs /\ req'.filed = req.filed
      /\ req'.errors = TRUE /\ req'.context = req.context /\ req'.used = req.used
  <2>1. req \in ServeOver(DOMAIN chat.web)
    BY <1>1, Fields, ServeIs
  <2>. QED BY <2>1 DEF QueryFailed, ServeOver
<1>6. TypeOK'
  BY <1>1, <1>2, <1>4, <1>5 DEF TypeOK, Serve, ServeOver
<1>7. Handshake'
  BY <1>1, <1>2, <1>3, <1>4, <1>5 DEF Handshake
<1>8. Choosing'
  BY <1>3, <1>4, NoElements DEF Choosing
<1>9. Recording'
  BY <1>1, <1>2, <1>3, <1>4 DEF Recording
<1>10. ReplyHolds'
  BY <1>4 DEF ReplyHolds
<1>11. Gathering' /\ Answered'
  <2>1. PagesOnce(req'.context) /\ \A n \in DOMAIN req'.used : req'.used[n] = chat.web[n].source
    BY <1>1, <1>5 DEF Gathering, Gathered
  <2>2. req.filed = 0
    BY <1>1, <1>2 DEF Gathering
  <2>. QED BY <1>1, <1>2, <1>4, <1>5, <1>6, <2>1, <2>2, Onward
<1>. QED BY <1>6, <1>7, <1>8, <1>9, <1>10, <1>11 DEF WebInv

LEMMA NoSourcesInv == ASSUME WebInv, NoSources PROVE WebInv'
BY EndWithoutInv DEF NoSources

LEMMA AnswerFromSnapshotsInv == ASSUME WebInv, AnswerFromSnapshots PROVE WebInv'
BY EndWithoutInv DEF AnswerFromSnapshots

(* The front of a list of sources is a list of sources.                    *)
LEMMA FrontKeeps ==
  ASSUME NEW s, NEW front, DOMAIN front \subseteq DOMAIN s, \A i \in DOMAIN front : front[i] = s[i]
  PROVE  /\ ToSet(front) \subseteq ToSet(s)
         /\ PagesOnce(s) => PagesOnce(front)
<1>1. ToSet(front) \subseteq ToSet(s)
  BY DEF ToSet
<1>2. ASSUME PagesOnce(s) PROVE PagesOnce(front)
  <2> SUFFICES ASSUME NEW i \in DOMAIN front, NEW j \in DOMAIN front,
                      front[i].source.page = front[j].source.page
               PROVE  i = j
    BY DEF PagesOnce
  <2>1. i \in DOMAIN s /\ j \in DOMAIN s /\ s[i].source.page = s[j].source.page
    OBVIOUS
  <2>. QED BY <1>2, <2>1 DEF PagesOnce
<1>. QED BY <1>1, <1>2

LEMMA BuildContextInv == ASSUME WebInv, BuildContext PROVE WebInv'
<1>1. TypeOK /\ Gathering /\ Answered
  BY DEF WebInv
<1>2. /\ UNCHANGED <<served, settings, removed, runs, batches, lost, archive, run, chat, accepted, turns>>
      /\ events' \in 0 .. MaxEvents
      /\ req.pc = "call"
  BY <1>1, ServingFrame DEF BuildContext
<1>3. PICK k \in DOMAIN req.sources :
        req' = [req EXCEPT !.pc = "answer", !.context = SubSeq(req.sources, 1, k)]
  BY DEF BuildContext
<1> DEFINE front == SubSeq(req.sources, 1, k)
<1>4. front \in Seq(Evidence) /\ ToSet(front) \subseteq ToSet(req.sources) /\ PagesOnce(front)
  <2>1. req.sources \in Seq(Evidence) /\ PagesOnce(req.sources)
    BY <1>1, Fields DEF Gathering, Gathered
  <2>2. /\ front \in Seq(Evidence) /\ DOMAIN front \subseteq DOMAIN req.sources
        /\ \A i \in DOMAIN front : front[i] = req.sources[i]
    BY <2>1
  <2> HIDE DEF front
  <2>3. /\ ToSet(front) \subseteq ToSet(req.sources)
        /\ PagesOnce(req.sources) => PagesOnce(front)
    BY <2>2, FrontKeeps
  <2>. QED BY <2>1, <2>2, <2>3
<1>5. /\ req' \in ServeOver(DOMAIN chat.web) /\ req'.pc = "answer"
      /\ req'.sources = req.sources /\ req'.runs = req.runs /\ req'.filed = req.filed
      /\ req'.errors = req.errors /\ req'.used = req.used
      /\ req'.context = front
  <2>1. req \in ServeOver(DOMAIN chat.web)
    BY <1>1, Fields, ServeIs
  <2>2. req' = [req EXCEPT !.pc = "answer", !.context = front]
    BY <1>3
  <2> HIDE DEF front
  <2>. QED BY <1>4, <2>1, <2>2 DEF ServeOver
<1> HIDE DEF front
<1>6. TypeOK'
  BY <1>1, <1>2, <1>5 DEF TypeOK, Serve, ServeOver
<1>7. run.pc = "idle"
  BY <1>2 DEF WebInv, Handshake
<1>8. Gathering' /\ Answered'
  <2>1. \A n \in DOMAIN req'.used : req'.used[n] = chat.web[n].source
    BY <1>1, <1>5 DEF Gathering
  <2>2. req.filed = 0
    BY <1>1, <1>2 DEF Gathering
  <2>. QED BY <1>1, <1>2, <1>4, <1>5, <1>6, <1>7, <2>1, <2>2, Onward
<1>. QED BY <1>2, <1>5, <1>6, <1>8, BetweenCalls

LEMMA AnswerFromWebInv == ASSUME WebInv, AnswerFromWeb PROVE WebInv'
<1>1. TypeOK /\ Gathering /\ Answered
  BY DEF WebInv
<1>2. /\ UNCHANGED <<served, settings, removed, runs, batches, lost, archive, run, chat, accepted, turns>>
      /\ events' \in 0 .. MaxEvents
      /\ req.pc = "answer"
  BY <1>1, ServingFrame DEF AnswerFromWeb
<1>3. /\ req' \in ServeOver(DOMAIN chat.web) /\ req'.pc = "file"
      /\ req'.sources = req.sources /\ req'.runs = req.runs /\ req'.filed = req.filed
      /\ req'.errors = req.errors /\ req'.context = req.context /\ req'.used = req.used
  <2>1. req \in ServeOver(DOMAIN chat.web)
    BY <1>1, Fields, ServeIs
  <2>. QED BY <2>1 DEF AnswerFromWeb, ServeOver
<1>4. TypeOK'
  BY <1>1, <1>2, <1>3 DEF TypeOK, Serve, ServeOver
<1>5. run.pc = "idle"
  BY <1>2 DEF WebInv, Handshake
<1>6. Gathering' /\ Answered'
  <2>1. PagesOnce(req'.context) /\ \A n \in DOMAIN req'.used : req'.used[n] = chat.web[n].source
    BY <1>1, <1>3 DEF Gathering, Gathered
  <2>2. req.filed = 0
    BY <1>1, <1>2 DEF Gathering
  <2>. QED BY <1>1, <1>2, <1>3, <1>4, <1>5, <2>1, <2>2, Onward
<1>. QED BY <1>2, <1>3, <1>4, <1>6, BetweenCalls

(* /use reads what the answer before names, under a path that holds it.    *)
LEMMA UseSnapshotInv == ASSUME WebInv, UseSnapshot PROVE WebInv'
<1>1. TypeOK /\ Gathering /\ Answered
  BY DEF WebInv
<1>2. req.pc = "use"
  BY DEF UseSnapshot
<1>3. CASE EndWithout
  BY <1>2, <1>3, EndWithoutInv
<1>4. ASSUME NEW n \in DOMAIN chat.web, chat.web[n].path \in DOMAIN archive.text,
             req' = [req EXCEPT !.used = Put(@, n, archive.text[chat.web[n].path])],
             UNCHANGED <<archive, run, chat, accepted, turns>>, Serving
      PROVE  WebInv'
  <2>1. UNCHANGED <<served, settings, removed, runs, batches, lost>> /\ events' \in 0 .. MaxEvents
    BY <1>1, <1>4, ServingFrame
  <2> DEFINE s == archive.text[chat.web[n].path]
  <2>2. s \in Source /\ s = chat.web[n].source
    <3>1. archive.text \in Partial(Path, Source)
      BY <1>1, Fields
    <3>2. s \in Source
      BY <1>4, <3>1, PartialFields
    <3>3. chat.web[n] \in ToSet(chat.web)
      BY DEF ToSet
    <3>. QED BY <1>1, <1>4, <3>2, <3>3 DEF Answered, Known, Holds
  <2> HIDE DEF s
  <2>3. Put(req.used, n, s) \in Partial(DOMAIN chat.web, Source)
    BY <1>1, <2>2, Fields, PutType
  <2>4. \A m \in DOMAIN Put(req.used, n, s) : Put(req.used, n, s)[m] = chat.web[m].source
    BY <1>1, <2>2 DEF Put, Gathering
  <2>5. /\ req' \in ServeOver(DOMAIN chat.web) /\ req'.pc = "use"
        /\ req'.sources = req.sources /\ req'.runs = req.runs /\ req'.filed = req.filed
        /\ req'.errors = req.errors /\ req'.context = req.context
        /\ req'.used = Put(req.used, n, s)
    <3>1. req \in ServeOver(DOMAIN chat.web)
      BY <1>1, Fields, ServeIs
    <3>. QED BY <1>2, <1>4, <2>3, <3>1 DEF ServeOver, s
  <2>6. TypeOK'
    BY <1>1, <1>4, <2>1, <2>5 DEF TypeOK, Serve, ServeOver
  <2>7. run.pc = "idle"
    BY <1>2 DEF WebInv, Handshake
  <2>8. Gathering' /\ Answered'
    <3>1. PagesOnce(req'.context)
      BY <1>1, <2>5 DEF Gathering, Gathered
    <3>2. req.filed = 0
      BY <1>1, <1>2 DEF Gathering
    <3>. QED BY <1>1, <1>4, <2>1, <2>4, <2>5, <2>6, <2>7, <3>1, <3>2, Onward
  <2>. QED BY <1>2, <1>4, <2>1, <2>5, <2>6, <2>8, BetweenCalls
<1>. QED BY <1>3, <1>4 DEF UseSnapshot


-----------------------------------------------------------------------------
(* The answer is shown: what it is silent about has been archived.         *)

LEMMA EndWithInv ==
  ASSUME WebInv, NEW answered \in BOOLEAN, EndWith(req.context, answered),
         UNCHANGED <<archive, run, accepted, turns>>, Serving,
         req.pc \in {"answer", "file"},
         answered => req.filed = Len(req.runs)
  PROVE  WebInv'
<1>1. TypeOK /\ Gathering /\ Answered
  BY DEF WebInv
<1>2. /\ UNCHANGED <<served, settings, removed, runs, batches, lost>>
      /\ events' \in 0 .. MaxEvents
  BY <1>1, ServingFrame
<1>3. req' = Fresh(NoRequest)
  BY DEF EndWith
<1>4. /\ chat'.web = req.context /\ chat'.runs = req.runs /\ chat'.turn = turns
      /\ chat'.answered = answered /\ chat'.streamed = req.asks.stream
      /\ chat'.told = (answered /\ req.errors /\ ~req.asks.stream)
      /\ chat' = [web |-> chat'.web, runs |-> chat'.runs, turn |-> chat'.turn,
                  answered |-> chat'.answered, streamed |-> chat'.streamed, told |-> chat'.told]
  BY DEF EndWith
<1>5. chat' \in Answer
  <2>1. req.asks.stream \in BOOLEAN /\ req.errors \in BOOLEAN
    BY <1>1, Fields DEF Request
  <2>2. turns \in 0 .. MaxTurns
    BY <1>1 DEF TypeOK
  <2>3. req.context \in Seq(Evidence) /\ req.runs \in Seq(1 .. MaxRuns)
    BY <1>1, Fields
  <2>. QED BY <1>4, <2>1, <2>2, <2>3 DEF Answer
<1>6. /\ req' \in ServeOver(DOMAIN chat'.web) /\ req'.pc = "idle" /\ req'.filed = 0
      /\ req'.sources = <<>> /\ req'.context = <<>> /\ req'.runs = <<>> /\ DOMAIN req'.used = {}
  BY <1>3, FreshType, NoRequestType
<1>7. TypeOK'
  BY <1>1, <1>2, <1>5, <1>6 DEF TypeOK, Serve, ServeOver
<1>8. NothingYet'
  BY <1>6 DEF NothingYet
<1>9. Gathering'
  BY <1>8, FreshGathering, PTL
<1>10. run.pc = "idle" /\ run' = run
  BY DEF WebInv, Handshake
<1>11. /\ ToSet(req.context) \subseteq Evidence /\ ToSet(req.runs) \subseteq 1 .. MaxRuns
       /\ Len(req.runs) \in Nat /\ DOMAIN req.runs = 1 .. Len(req.runs)
  BY ZenonT(60), <1>1, Fields, SeqElements
<1>12. \A e \in Evidence : (Known(e) => Known(e)') /\ (Kept(e.path) => Kept(e.path)')
  BY <1>2, <1>10 DEF Known, Kept, Holds
<1>13. \A e \in ToSet(chat'.web) : Known(e)' /\ (~req.errors => Kept(e.path)')
  BY <1>1, <1>4, <1>11, <1>12 DEF Gathering, Gathered
<1>14. \A r \in ToSet(chat'.runs) :
         r <= runs' /\ r \notin ToSet(req'.runs) /\ run'.pc \notin {"sources", "back"}
  BY <1>1, <1>2, <1>4, <1>6, <1>10, NoElements DEF Gathering
<1>15. ASSUME chat'.answered, ~chat'.streamed, ~chat'.told
       PROVE  \A r \in ToSet(chat'.runs) : r \in DOMAIN archive'.answer /\ archive'.answer[r] = chat'.turn
  <2>1. answered /\ ~req.errors /\ req.filed = Len(req.runs)
    BY <1>4, <1>15
  <2>2. \A i \in 1 .. Len(req.runs) : archive.answer[req.runs[i]] = turns
    BY <1>1, <2>1 DEF Gathering
  <2>3. \A r \in ToSet(req.runs) : r \in DOMAIN archive.answer /\ archive.answer[r] = turns
    BY <1>1, <1>11, <2>1, <2>2 DEF Gathering, ToSet
  <2>. QED BY <1>4, <2>3
<1>16. Answered'
  BY <1>4, <1>13, <1>14, <1>15 DEF Answered
<1>. QED BY <1>2, <1>6, <1>7, <1>9, <1>16, BetweenCalls

LEMMA ModelDownInv == ASSUME WebInv, ModelDown PROVE WebInv'
<1>1. CASE EndWithout
  BY <1>1, EndWithoutInv DEF ModelDown
<1>2. CASE EndWith(req.context, FALSE) /\ UNCHANGED <<archive, run, accepted, turns>> /\ Serving
  BY <1>2, EndWithInv DEF ModelDown
<1>. QED BY <1>1, <1>2 DEF ModelDown

LEMMA ShowInv == ASSUME WebInv, Show PROVE WebInv'
<1>1. req.whole \in BOOLEAN
  BY Fields DEF WebInv, Serve
<1>. QED BY <1>1, EndWithInv DEF Show

LEMMA FileAnswerInv == ASSUME WebInv, FileAnswer PROVE WebInv'
<1>1. TypeOK /\ Handshake /\ Choosing /\ Recording /\ ReplyHolds /\ Gathering /\ Answered
  BY DEF WebInv
<1>2. /\ UNCHANGED <<served, settings, removed, run, runs, batches, chat, accepted, lost, turns>>
      /\ events' \in 0 .. MaxEvents
      /\ req.pc = "file" /\ req.filed < Len(req.runs)
  BY <1>1, EventTypes DEF FileAnswer, world
<1> DEFINE r == req.runs[req.filed + 1]
<1>3. /\ req.filed \in Nat /\ Len(req.runs) \in Nat /\ DOMAIN req.runs = 1 .. Len(req.runs)
      /\ r \in ToSet(req.runs) /\ ToSet(req.runs) \subseteq 1 .. MaxRuns
      /\ \A i \in 1 .. Len(req.runs) : req.runs[i] \in ToSet(req.runs)
      /\ ToSet(req.sources) \subseteq Evidence /\ ToSet(req.context) \subseteq Evidence
      /\ ToSet(chat.web) \subseteq Evidence
  <2>1. /\ req.filed \in Nat /\ req.runs \in Seq(1 .. MaxRuns)
        /\ req.sources \in Seq(Evidence) /\ req.context \in Seq(Evidence)
        /\ chat.web \in Seq(Evidence)
    BY <1>1, Fields
  <2>2. /\ Len(req.runs) \in Nat /\ DOMAIN req.runs = 1 .. Len(req.runs)
        /\ ToSet(req.runs) \subseteq 1 .. MaxRuns
        /\ \A i \in 1 .. Len(req.runs) : req.runs[i] \in ToSet(req.runs)
    BY <2>1, SeqElements
  <2>3. /\ ToSet(req.sources) \subseteq Evidence /\ ToSet(req.context) \subseteq Evidence
        /\ ToSet(chat.web) \subseteq Evidence
    BY <2>1, SeqElements
  <2>4. req.filed + 1 \in 1 .. Len(req.runs)
    BY <1>2, <2>1, <2>2
  <2>. QED BY <2>1, <2>2, <2>3, <2>4
<1> HIDE DEF r
<1>4. /\ req' \in ServeOver(DOMAIN chat.web) /\ req'.pc = "file" /\ req'.filed = req.filed + 1
      /\ req'.sources = req.sources /\ req'.runs = req.runs /\ req'.left = req.left
      /\ req'.context = req.context /\ req'.used = req.used
      /\ req.errors => req'.errors
      /\ ~req'.errors => archive' = [archive EXCEPT !.answer[r] = turns]
  <2>1. req \in ServeOver(DOMAIN chat.web)
    BY <1>1, Fields, ServeIs
  <2>2. \/ req' = [req EXCEPT !.filed = req.filed + 1] /\ archive' = [archive EXCEPT !.answer[r] = turns]
        \/ req' = [req EXCEPT !.filed = req.filed + 1, !.errors = TRUE]
    BY DEF FileAnswer, r
  <2>3. req.filed + 1 \in Nat /\ req.pc = "file"
    BY <1>2, <1>3
  <2>4. CASE /\ req' = [req EXCEPT !.filed = req.filed + 1]
             /\ archive' = [archive EXCEPT !.answer[r] = turns]
    <3>1. req'.errors = req.errors
      BY <2>1, <2>4 DEF ServeOver
    <3>. QED BY <2>1, <2>3, <2>4, <3>1 DEF ServeOver
  <2>5. CASE req' = [req EXCEPT !.filed = req.filed + 1, !.errors = TRUE]
    <3>1. req'.errors = TRUE
      BY <2>1, <2>5 DEF ServeOver
    <3>. QED BY <2>1, <2>3, <2>5, <3>1 DEF ServeOver
  <2>. QED BY <2>2, <2>4, <2>5
<1> DEFINE new == [archive.answer EXCEPT ![r] = turns]
<1>5. /\ new \in Partial(1 .. MaxRuns, 0 .. MaxTurns) /\ DOMAIN new = DOMAIN archive.answer
      /\ r \in DOMAIN archive.answer => new[r] = turns
      /\ \A q \in DOMAIN archive.answer : q # r => new[q] = archive.answer[q]
  <2>1. archive.answer \in Partial(1 .. MaxRuns, 0 .. MaxTurns) /\ turns \in 0 .. MaxTurns
    BY <1>1, Fields DEF TypeOK
  <2>2. new \in Partial(1 .. MaxRuns, 0 .. MaxTurns) /\ DOMAIN new = DOMAIN archive.answer
    BY <2>1, ChangedType
  <2>3. archive.answer = [q \in DOMAIN archive.answer |-> archive.answer[q]]
    BY <2>1, PartialFields
  <2>. QED BY <2>2, <2>3
<1>6. archive' = archive \/ archive' = [archive EXCEPT !.answer = new]
  <2>1. archive' = archive \/ archive' = [archive EXCEPT !.answer[r] = turns]
    BY DEF FileAnswer, r
  <2>2. archive \in Archive
    BY <1>1, Fields
  <2>. QED BY <2>1, <2>2 DEF Archive
<1>7. ~req'.errors => archive' = [archive EXCEPT !.answer = new]
  BY <1>1, <1>4, Fields DEF Archive
<1> HIDE DEF new
<1>8. /\ archive' \in Archive /\ archive'.text = archive.text
      /\ archive'.answer \in {archive.answer, new}
      /\ ~req'.errors => archive'.answer = new
  BY <1>1, <1>5, <1>6, <1>7, Fields DEF Archive
<1>9. TypeOK'
  BY <1>1, <1>2, <1>4, <1>8 DEF TypeOK, Serve, ServeOver
<1>10. run.pc = "idle" /\ run' = run
  BY <1>1, <1>2 DEF Handshake
<1>11. Handshake' /\ Choosing' /\ Recording'
  BY <1>1, <1>2, <1>4, <1>8, <1>10 DEF Handshake, Choosing, Recording
<1>12. ReplyHolds'
  BY <1>1, <1>2, <1>8, <1>10 DEF ReplyHolds, Holds, Kept
<1>13. \A e \in Evidence : (Known(e) => Known(e)') /\ (Kept(e.path) => Kept(e.path)')
  BY <1>2, <1>8, <1>10 DEF Known, Kept, Holds
<1>14. Gathering'
  <2>1. Gathered(req.sources)' /\ Gathered(req.context)'
    BY <1>1, <1>2, <1>3, <1>4, <1>13 DEF Gathering, Gathered, PagesOnce
  <2>2. \A q \in ToSet(req.runs) : q <= runs /\ (~req'.errors => q \in DOMAIN archive'.answer)
    BY <1>1, <1>4, <1>5, <1>8 DEF Gathering
  <2>3. ASSUME ~req'.errors, NEW i \in 1 .. req.filed + 1
        PROVE  archive'.answer[req.runs[i]] = turns
    <3>1. i \in 1 .. Len(req.runs) /\ (i = req.filed + 1 \/ i \in 1 .. req.filed)
      BY <1>2, <1>3
    <3>2. ~req.errors /\ archive'.answer = new
      BY <1>4, <1>8, <2>3
    <3>3. req.runs[i] \in DOMAIN archive.answer
      BY <1>1, <1>3, <3>1, <3>2 DEF Gathering
    <3>4. i \in 1 .. req.filed => archive.answer[req.runs[i]] = turns
      BY <1>1, <3>2 DEF Gathering
    <3>5. i = req.filed + 1 => req.runs[i] = r
      BY DEF r
    <3>. QED BY <1>5, <3>1, <3>2, <3>3, <3>4, <3>5
  <2>4. \A n \in DOMAIN req'.used : req'.used[n] = chat'.web[n].source
    BY <1>1, <1>2, <1>4 DEF Gathering
  <2>5. req'.filed <= Len(req'.runs)
    BY <1>2, <1>3, <1>4
  <2>. QED BY <1>2, <1>4, <2>1, <2>2, <2>3, <2>4, <2>5 DEF Gathering
<1>15. Answered'
  <2>1. \A e \in ToSet(chat.web) : Known(e)' /\ (Kept(e.path) => Kept(e.path)')
    BY <1>1, <1>3, <1>13 DEF Answered
  <2>2. \A q \in ToSet(chat.runs) : q # r
    BY <1>1, <1>3 DEF Answered
  <2>3. chat.answered /\ ~chat.streamed /\ ~chat.told =>
          \A q \in ToSet(chat.runs) : q \in DOMAIN archive'.answer /\ archive'.answer[q] = chat.turn
    BY <1>1, <1>5, <1>8, <2>2 DEF Answered
  <2>. QED BY <1>1, <1>2, <1>4, <1>10, <2>1, <2>3 DEF Answered
<1>. QED BY <1>9, <1>11, <1>12, <1>14, <1>15 DEF WebInv


-----------------------------------------------------------------------------
(* A reply is gathered.                                                    *)

(* What a list of sources must be to be gathered.                          *)
Good(e) == Known(e) /\ e.source \in accepted

(* The reply names every source it has chosen once, with the place the     *)
(* record of its archiving gives, if there is one.                         *)
LEMMA ReplyGood ==
  ASSUME TypeOK, Choosing, Recording, ReplyHolds, run.pc = "back"
  PROVE  /\ Reply \in Seq(Evidence) /\ PagesOnce(Reply)
         /\ \A e \in ToSet(Reply) : Good(e) /\ (~run.errors => Kept(e.path))
<1>1. /\ run.selected \in Seq(Source) /\ run.records \in Seq(Path) /\ run.id \in Nat /\ runs \in Nat
      /\ DOMAIN run.selected = 1 .. Len(run.selected) /\ Len(run.selected) \in Nat
      /\ archive.text \in Partial(Path, Source)
  BY Fields, SeqElements
<1>2. \A i \in DOMAIN run.records : run.records[i] \in Path
  BY <1>1
<1>3. /\ DOMAIN Reply = DOMAIN run.selected
      /\ \A i \in DOMAIN Reply :
           /\ Reply[i].source = run.selected[i]
           /\ Reply[i].path = IF i \in DOMAIN run.records THEN run.records[i] ELSE NoPath
           /\ Reply[i] \in Evidence
  BY <1>1, <1>2 DEF Reply, Evidence
<1>4. Reply \in Seq(Evidence)
  <2>1. Reply \in [1 .. Len(run.selected) -> Evidence]
    BY <1>1, <1>3 DEF Reply
  <2>. QED BY <1>1, <2>1
<1>5. PagesOnce(Reply)
  BY <1>3 DEF PagesOnce, Choosing
<1>6. NoPath \notin DOMAIN archive.text /\ NoPath[1] = 0
  BY <1>1, PartialFields, PathFields DEF NoPath
<1>7. \A i \in DOMAIN Reply : Good(Reply[i]) /\ (~run.errors => Kept(Reply[i].path))
  <2> SUFFICES ASSUME NEW i \in DOMAIN Reply
               PROVE  Good(Reply[i]) /\ (~run.errors => Kept(Reply[i].path))
    OBVIOUS
  <2>1. Reply[i].source \in accepted
    BY <1>1, <1>3, SeqElements DEF Choosing
  <2>2. CASE i \in DOMAIN run.records
    <3>1. Reply[i].path = run.records[i] /\ Reply[i].source = run.selected[i]
      BY <1>3, <2>2
    <3>2. run.records[i] = <<run.id, i>> /\ run.records[i][1] = run.id /\ run.id <= runs
      BY <2>2 DEF Recording
    <3>. QED BY <2>1, <2>2, <3>1, <3>2 DEF ReplyHolds, Good, Known
  <2>3. CASE i \notin DOMAIN run.records
    <3>1. Reply[i].path = NoPath
      BY <1>3, <2>3
    <3>. QED BY <1>1, <1>6, <2>1, <3>1 DEF Good, Known, Holds, Kept
  <2>. QED BY <2>2, <2>3
<1>8. \A e \in ToSet(Reply) : \E i \in DOMAIN Reply : e = Reply[i]
  BY DEF ToSet
<1>. QED BY <1>4, <1>5, <1>7, <1>8

(* Merging adds pages that were not there before, each once.               *)
LEMMA MergedGood ==
  ASSUME NEW old \in Seq(Evidence), NEW reply \in Seq(Evidence),
         PagesOnce(old), PagesOnce(reply), NEW sources \in Merged(old, reply)
  PROVE  /\ sources \in Seq(Evidence) /\ PagesOnce(sources)
         /\ ToSet(sources) \subseteq ToSet(old) \cup ToSet(reply)
<1>1. CASE sources = reply
  BY <1>1
<1>2. ASSUME NEW more \in FirstSeen(old, reply), sources = old \o more
      PROVE  /\ sources \in Seq(Evidence) /\ PagesOnce(sources)
             /\ ToSet(sources) \subseteq ToSet(old) \cup ToSet(reply)
  <2> DEFINE unseen == {e \in ToSet(reply) : \A f \in ToSet(old) : f.source.page # e.source.page}
  <2>1. more \in Orders(unseen)
    BY DEF FirstSeen
  <2> HIDE DEF unseen
  <2>2. /\ more \in Seq(unseen) /\ ToSet(more) \subseteq unseen
        /\ \A i, j \in DOMAIN more : more[i] = more[j] => i = j
    BY <2>1, OrdersFields
  <2>3. ToSet(reply) \subseteq Evidence /\ ToSet(old) \subseteq Evidence
    BY SeqElements
  <2>4. unseen \subseteq ToSet(reply) /\ unseen \subseteq Evidence
    BY <2>3 DEF unseen
  <2>5. more \in Seq(Evidence)
    BY <2>2, <2>4
  <2>6. /\ sources \in Seq(Evidence) /\ Len(old) \in Nat /\ Len(more) \in Nat
        /\ Len(sources) = Len(old) + Len(more)
        /\ DOMAIN sources = 1 .. Len(sources)
        /\ DOMAIN old = 1 .. Len(old) /\ DOMAIN more = 1 .. Len(more)
        /\ \A i \in 1 .. Len(sources) :
             sources[i] = IF i <= Len(old) THEN old[i] ELSE more[i - Len(old)]
    BY <1>2, <2>5
  <2>7. \A i \in DOMAIN sources :
          \/ i \in DOMAIN old /\ sources[i] = old[i]
          \/ i \notin DOMAIN old /\ i - Len(old) \in DOMAIN more /\ sources[i] = more[i - Len(old)]
    BY <2>6
  <2>8. /\ \A i \in DOMAIN old : old[i] \in ToSet(old)
        /\ \A i \in DOMAIN more : more[i] \in unseen
    BY <2>2 DEF ToSet
  <2>9. ToSet(sources) \subseteq ToSet(old) \cup ToSet(reply)
    <3>1. \A i \in DOMAIN sources : sources[i] \in ToSet(old) \cup ToSet(reply)
      BY <2>4, <2>7, <2>8
    <3>2. \A e \in ToSet(sources) : \E i \in DOMAIN sources : e = sources[i]
      BY DEF ToSet
    <3>. QED BY <3>1, <3>2
  <2>10. \A d, e \in ToSet(reply) : d.source.page = e.source.page => d = e
    <3>1. \A e \in ToSet(reply) : \E i \in DOMAIN reply : e = reply[i]
      BY DEF ToSet
    <3>. QED BY <3>1 DEF PagesOnce
  <2>11. \A f \in ToSet(old), e \in unseen : f.source.page # e.source.page
    BY DEF unseen
  <2>12. PagesOnce(sources)
    <3> SUFFICES ASSUME NEW i \in DOMAIN sources, NEW j \in DOMAIN sources,
                        sources[i].source.page = sources[j].source.page
                 PROVE  i = j
      BY DEF PagesOnce
    <3>1. CASE i \in DOMAIN old /\ j \in DOMAIN old
      BY <2>7, <3>1 DEF PagesOnce
    <3>2. CASE i \in DOMAIN old /\ j \notin DOMAIN old
      BY <2>7, <2>8, <2>11, <3>2
    <3>3. CASE i \notin DOMAIN old /\ j \in DOMAIN old
      BY <2>7, <2>8, <2>11, <3>3
    <3>4. CASE i \notin DOMAIN old /\ j \notin DOMAIN old
      <4>1. /\ i - Len(old) \in DOMAIN more /\ sources[i] = more[i - Len(old)]
            /\ j - Len(old) \in DOMAIN more /\ sources[j] = more[j - Len(old)]
        BY <2>7, <3>4
      <4>2. more[i - Len(old)] = more[j - Len(old)]
        BY <2>4, <2>8, <2>10, <4>1
      <4>3. i - Len(old) = j - Len(old)
        BY <2>2, <4>1, <4>2
      <4>. QED BY <2>6, <4>3
    <3>. QED BY <3>1, <3>2, <3>3, <3>4
  <2>. QED BY <2>6, <2>9, <2>12
<1>. QED BY <1>1, <1>2 DEF Merged


LEMMA ReturnedInv == ASSUME WebInv, Returned PROVE WebInv'
<1>1. TypeOK /\ Handshake /\ Choosing /\ Recording /\ ReplyHolds /\ Gathering /\ Answered
  BY DEF WebInv
<1>2. /\ UNCHANGED <<served, settings, removed, runs, batches, lost, archive, chat, accepted, turns>>
      /\ events' \in 0 .. MaxEvents
      /\ req.pc = "wait" /\ run.pc = "back" /\ run' = NoRun
  BY <1>1, ServingFrame DEF Returned
<1>3. /\ runs \in Nat /\ req.left \in Nat /\ MaxRuns \in Nat /\ MaxSources \in Nat
      /\ archive.text \in Partial(Path, Source)
      /\ req.sources \in Seq(Evidence) /\ req.context \in Seq(Evidence) /\ chat.web \in Seq(Evidence)
      /\ req.runs \in Seq(1 .. MaxRuns) /\ chat.runs \in Seq(1 .. MaxRuns)
      /\ req.errors \in BOOLEAN /\ run.errors \in BOOLEAN
  BY <1>1, Fields, Numbers
<1>4. /\ run' \in Run /\ run'.pc = "idle" /\ run'.id = 0 /\ run'.selected = <<>>
      /\ run'.records = <<>> /\ DOMAIN run'.got = {}
  BY <1>2, NoRunType
<1>5. PICK sources \in Merged(req.sources, Reply) :
        req' = [req EXCEPT !.pc = "call", !.answering = TRUE, !.errors = req.errors \/ run.errors,
                           !.sources = sources,
                           !.runs = IF run.id = 0 THEN req.runs ELSE Append(req.runs, run.id)]
  BY DEF Returned
<1>6. /\ Reply \in Seq(Evidence) /\ PagesOnce(Reply)
      /\ \A e \in ToSet(Reply) : Good(e) /\ (~run.errors => Kept(e.path))
  BY <1>1, <1>2, ReplyGood
<1>7. /\ PagesOnce(req.sources)
      /\ \A e \in ToSet(req.sources) : Good(e) /\ (~req.errors => Kept(e.path))
  BY <1>1 DEF Gathering, Gathered, Good
<1>8. /\ sources \in Seq(Evidence) /\ PagesOnce(sources)
      /\ ToSet(sources) \subseteq ToSet(req.sources) \cup ToSet(Reply)
  BY <1>3, <1>6, <1>7, MergedGood
<1> DEFINE more == IF run.id = 0 THEN req.runs ELSE Append(req.runs, run.id)
<1>9. /\ more \in Seq(1 .. MaxRuns) /\ ToSet(more) \subseteq ToSet(req.runs) \cup ({run.id} \ {0})
      /\ Len(more) \in Nat
  <2>1. run.id \in 0 .. MaxRuns
    BY <1>1 DEF TypeOK, Run
  <2>2. CASE run.id = 0
    BY <1>3, <2>2
  <2>3. CASE run.id # 0
    <3>1. run.id \in 1 .. MaxRuns
      BY <1>3, <2>1, <2>3
    <3>. QED BY SMTT(30), <1>3, <2>3, <3>1, AppendElements
  <2>. QED BY <2>2, <2>3
<1>10. /\ req' \in ServeOver(DOMAIN chat.web) /\ req'.pc = "call" /\ req'.left = req.left
       /\ req'.sources = sources /\ req'.runs = more /\ req'.filed = req.filed
       /\ req'.context = req.context /\ req'.used = req.used
       /\ req'.errors = (req.errors \/ run.errors)
  <2>1. req \in ServeOver(DOMAIN chat.web)
    BY <1>1, Fields, ServeIs
  <2> DEFINE both == req.errors \/ run.errors
  <2>2. both \in BOOLEAN
    OBVIOUS
  <2>3. req' = [req EXCEPT !.pc = "call", !.answering = TRUE, !.errors = both,
                           !.sources = sources, !.runs = more]
    BY <1>5
  <2> HIDE DEF both, more
  <2>4. req' \in ServeOver(DOMAIN chat.web) /\ req'.errors = both
    BY <1>8, <1>9, <2>1, <2>2, <2>3 DEF ServeOver
  <2>5. /\ req'.pc = "call" /\ req'.left = req.left /\ req'.sources = sources /\ req'.runs = more
        /\ req'.filed = req.filed /\ req'.context = req.context /\ req'.used = req.used
    BY <2>1, <2>3 DEF ServeOver
  <2>. QED BY <2>4, <2>5 DEF both
<1> HIDE DEF more
<1>11. ~req'.errors => ~req.errors /\ ~run.errors
  BY <1>10
<1>12. TypeOK'
  BY <1>1, <1>2, <1>4, <1>10 DEF TypeOK, Serve, ServeOver
<1>13. Handshake'
  BY <1>1, <1>2, <1>3, <1>4, <1>10 DEF Handshake
<1>14. Choosing'
  BY <1>3, <1>4, NoElements DEF Choosing
<1>15. Recording'
  BY <1>1, <1>2, <1>3, <1>4 DEF Recording
<1>16. ReplyHolds'
  BY <1>4 DEF ReplyHolds
<1>17. \A e \in Evidence : (Known(e) => Known(e)') /\ (Kept(e.path) => Kept(e.path)')
  BY <1>2, <1>4 DEF Known, Kept, Holds
<1>18. Gathering'
  <2>1. /\ ToSet(sources) \subseteq Evidence /\ ToSet(req.context) \subseteq Evidence
        /\ ToSet(req.runs) \subseteq 1 .. MaxRuns
    BY <1>3, <1>8, SeqElements
  <2>2. \A e \in ToSet(sources) :
          Known(e)' /\ e.source \in accepted' /\ (~req'.errors => Kept(e.path)')
    BY <1>2, <1>6, <1>7, <1>8, <1>11, <1>17, <2>1 DEF Good
  <2>3. Gathered(req.sources)'
    BY <1>8, <1>10, <2>2 DEF Gathered, PagesOnce
  <2>4. Gathered(req.context)'
    BY <1>1, <1>2, <1>10, <1>11, <1>17, <2>1 DEF Gathering, Gathered, PagesOnce
  <2>5. \A r \in ToSet(more) : r <= runs /\ (~req'.errors => r \in DOMAIN archive.answer)
    <3>1. run.id <= runs /\ (run.id # 0 /\ ~run.errors => run.id \in DOMAIN archive.answer)
      BY <1>1, <1>2 DEF Recording, ReplyHolds
    <3>2. \A r \in ToSet(req.runs) : r <= runs /\ (~req.errors => r \in DOMAIN archive.answer)
      BY <1>1 DEF Gathering
    <3>. QED BY <1>9, <1>11, <3>1, <3>2
  <2>6. req.filed = 0
    BY <1>1, <1>2 DEF Gathering
  <2>7. \A n \in DOMAIN req'.used : req'.used[n] = chat'.web[n].source
    BY <1>1, <1>2, <1>10 DEF Gathering
  <2>. QED BY <1>2, <1>9, <1>10, <2>3, <2>4, <2>5, <2>6, <2>7 DEF Gathering
<1>19. Answered'
  <2>1. ToSet(chat.web) \subseteq Evidence
    BY <1>3, SeqElements
  <2>2. \A r \in ToSet(chat.runs) : r <= runs /\ r \notin ToSet(more)
    BY <1>1, <1>2, <1>9 DEF Answered
  <2>. QED BY <1>1, <1>2, <1>4, <1>10, <1>17, <2>1, <2>2 DEF Answered
<1>. QED BY <1>12, <1>13, <1>14, <1>15, <1>16, <1>18, <1>19 DEF WebInv

-----------------------------------------------------------------------------
LEMMA InitInv == Init => WebInv
<1>. SUFFICES ASSUME Init PROVE WebInv
  OBVIOUS
<1>1. /\ run = NoRun /\ runs = 0 /\ batches = <<>> /\ req = Fresh(NoRequest) /\ chat = NoAnswer
      /\ accepted = {} /\ lost = {} /\ removed = {} /\ turns = 0 /\ events = 0
      /\ served = [p \in Pages |-> 0] /\ settings = [web |-> TRUE, archive |-> TRUE]
      /\ archive = [text |-> Empty, meta |-> Empty, answer |-> Empty]
  BY DEF Init
<1>2. /\ req \in ServeOver(DOMAIN chat.web) /\ req.pc = "idle" /\ req.filed = 0
      /\ req.sources = <<>> /\ req.context = <<>> /\ req.runs = <<>> /\ DOMAIN req.used = {}
  BY <1>1, FreshType, NoRequestType
<1>3. archive \in Archive /\ DOMAIN archive.text = {}
  <2>1. /\ Empty \in Partial(Path, Source) /\ Empty \in Partial(1 .. MaxRuns, 0 .. MaxTurns)
        /\ Empty \in Partial(Path, {"plain", "pending", "complete", "failed"}) /\ DOMAIN Empty = {}
    BY EmptyType
  <2>. QED BY <1>1, <2>1 DEF Archive
<1>4. served \in [Pages -> 0 .. MaxEvents] /\ 0 \in 0 .. MaxRuns /\ 0 \in 0 .. MaxTurns /\ 0 \in 0 .. MaxEvents
  BY <1>1, Numbers
<1>5. TypeOK
  BY <1>1, <1>2, <1>3, <1>4, NoRunType, NoAnswerType DEF TypeOK, Serve, ServeOver
<1>6. Handshake
  BY <1>1, <1>2, NoRunType DEF Handshake
<1>7. Choosing
  BY <1>1, NoRunType, NoElements, Numbers DEF Choosing
<1>8. Recording /\ ReplyHolds
  BY <1>1, <1>3, NoRunType DEF Recording, ReplyHolds
<1>9. Gathering
  BY <1>2, FreshGathering DEF NothingYet
<1>10. Answered
  BY <1>1, NoAnswerType, NoElements DEF Answered
<1>. QED BY <1>5, <1>6, <1>7, <1>8, <1>9, <1>10 DEF WebInv

LEMMA NextInv == WebInv /\ [Next]_vars => WebInv'
<1>. SUFFICES ASSUME WebInv, [Next]_vars PROVE WebInv'
  OBVIOUS
<1>1. CASE UNCHANGED vars
  <2>1. /\ UNCHANGED <<served, settings, removed, events, archive, run, runs, batches>>
        /\ UNCHANGED <<req, chat, accepted, lost, turns>>
    BY <1>1 DEF vars, world
  <2>2. TypeOK'
    BY <2>1 DEF WebInv, TypeOK, Serve
  <2>. QED BY <2>1, <2>2, Unmoved
<1>2. ASSUME NEW p \in Pages, Edit(p) PROVE WebInv'
  BY <1>2, EditInv
<1>3. ASSUME NEW p \in Path, DeleteSnapshot(p) PROVE WebInv'
  BY <1>3, DeleteInv
<1>4. ASSUME NEW r \in Requests \cup Later, Begin(r) PROVE WebInv'
  BY <1>4, BeginInv
<1>5. CASE ProviderStep
  BY <1>5, CallInv, ReturnedInv, QueryFailedInv, NoSourcesInv, BuildContextInv, AnswerFromWebInv,
     ModelDownInv, FileAnswerInv, ShowInv, UseSnapshotInv, AnswerFromSnapshotsInv DEF ProviderStep
<1>6. CASE Withdraw \/ Restart \/ ResearchStep \/ PrintStep
  BY <1>6, WithdrawInv, RestartInv, ResearchInv, PrintInv
<1>. QED BY <1>1, <1>2, <1>3, <1>4, <1>5, <1>6 DEF Next

(* The reply to a call, what the provider gathers from it, the answer it   *)
(* shows and the archive in Nextcloud fit together in every reachable      *)
(* state, for any pages, queries, failures and restarts.                   *)
THEOREM WebInvariant == Spec => []WebInv
BY InitInv, NextInv, PTL DEF Spec

LEMMA InvEvidence == WebInv => WebEvidenceHonest
<1>. SUFFICES ASSUME WebInv PROVE WebEvidenceHonest
  OBVIOUS
<1>1. TypeOK /\ Gathered(req.context)
  BY DEF WebInv, Gathering
<1>. QED BY <1>1 DEF WebEvidenceHonest, Gathered, PagesOnce

(* WebResearchArm.research and _web_search_many: the sources an answer is  *)
(* made from were fetched for this request, have passed the gate, and each *)
(* page stands under one number.                                           *)
THEOREM EvidenceIsHonest == Spec => []WebEvidenceHonest
BY WebInvariant, InvEvidence, PTL

LEMMA InvSnapshot == WebInv => SnapshotIsEvidence
BY DEF WebInv, Gathering, Answered, Known, Holds, SnapshotIsEvidence

(* The snapshot shown beside a source is what the model has read, whatever *)
(* failed while it was archived, and /use:Wn reads that.                   *)
THEOREM SnapshotsHold == Spec => []SnapshotIsEvidence
BY WebInvariant, InvSnapshot, PTL

LEMMA InvLosses == WebInv => LossesTold
BY DEF WebInv, Answered, Kept, LossesTold

(* An answer that tells of no loss has lost nothing: its snapshots exist   *)
(* until the user deletes them, and the records of its runs hold it, even  *)
(* while the next request is served.                                       *)
THEOREM NoSilentLoss == Spec => []LossesTold
BY WebInvariant, InvLosses, PTL

=============================================================================

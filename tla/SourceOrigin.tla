---------------------------- MODULE SourceOrigin ----------------------------
(***************************************************************************)
(* Which documents are archive material: rag/source_registry.py,           *)
(* rag/source_origin.py and the scope clauses of rag/search.py.            *)
(*                                                                         *)
(* Mail and chat archives lie among the ordinary documents of Nextcloud.   *)
(* Their documents are known by id (the registry) and, as a fallback, by   *)
(* the folders that were ever configured.  The search index holds a copy   *)
(* of the origin (the mirror) that Nextcloud drops whenever it indexes the *)
(* document again.  The vector store holds a second copy, folder and       *)
(* origin, of the time the chunks were last embedded: a file that is moved *)
(* keeps it until its text changes.  Importers, an administrator, users    *)
(* that move files, Nextcloud's indexer, the traversals of sync and        *)
(* reconcile, and both arms of a search work on this at the same time.     *)
(* (The graph arm judges what it finds as the vector arm does, by the path *)
(* its node was given; it is not modelled.)                                *)
(*                                                                         *)
(* Database stamps (time and size of file and WAL) are taken to differ     *)
(* after every commit; the model keeps only whether a stamp is current.    *)
(***************************************************************************)
EXTENDS Naturals, FiniteSets, NoValue

CONSTANTS
  Docs,
  Roots,       \* folders an archive is ever configured to
  Elsewhere,   \* every other folder
  ChatRoots,   \* those a chat archive is ever configured to
  Scopes,      \* what searches ask for: None is the ordinary search
  MaxChanges,  \* bound: settings saved
  MaxMoves,    \* bound: files moved, documents indexed again
  MaxScans,    \* bound: traversals by sync and reconcile
  MaxFaults    \* bound: crashes, lost registrations, failed mirror updates and queries

ASSUME OriginAssumption ==
  /\ Elsewhere \notin Roots /\ None \notin Roots \cup {Elsewhere} \cup Docs
  /\ None \notin {"mail", "chat"} /\ ChatRoots \subseteq Roots /\ Scopes \subseteq {"mail", "chat", None}
  /\ MaxChanges \in Nat /\ MaxMoves \in Nat /\ MaxScans \in Nat /\ MaxFaults \in Nat

Kinds == {"mail", "chat"}
Origins == Kinds \cup {None}
Places == Roots \cup {Elsewhere}

VARIABLES
  settings,    \* target paths in mail_accounts and user_chat_settings
  history,     \* mail_archive_roots and chat_archive_roots
  saving,      \* root of a mail account saved but not yet in the history
  place,       \* Nextcloud: the folder of each document
  importing,   \* the importer of one archive document
  registry,    \* source_documents
  index,       \* Elasticsearch: folder and mirrored origin of each document
  points,      \* Qdrant: the folders and origins the chunks of each document carry
  scan,        \* a traversal by sync or reconcile
  mirror,      \* _AUTO_MIRROR_STAMP and _AUTO_MIRROR_MISSING of the API process
  search,      \* one search
  spoiled,     \* history: copies rewritten since the registry last changed
  changes, moves, scans, faults

originVars == <<settings, history, saving, place, importing, registry, index, points, scan,
                mirror, search, spoiled, changes, moves, scans, faults>>

Absent == [root |-> None, origin |-> None]
Payloads == [root : Places, origin : Origins]
Copies == {Absent} \cup Payloads
NoImport == [pc |-> "idle", kind |-> None, root |-> None, doc |-> None]
NoScan == [by |-> None, known |-> [d \in Docs |-> None], copy |-> [d \in Docs |-> Absent],
           todo |-> {}, pending |-> {}, doc |-> None, root |-> None, payload |-> Absent]
NoSearch == [pc |-> "idle", scope |-> None, vouched |-> {}, vectorVouched |-> {}, current |-> FALSE,
             rows |-> [d \in Docs |-> None], copy |-> [d \in Docs |-> Absent], answer |-> {},
             chunks |-> [d \in Docs |-> {}], vectorAnswer |-> {}]

OriginTypeOK ==
  /\ settings \in [Kinds -> Roots \cup {None}]
  /\ history \in [Kinds -> SUBSET Roots]
  /\ saving \in Roots \cup {None}
  /\ place \in [Docs -> Places \cup {None}]
  /\ importing \in [pc : {"idle", "put", "register"}, kind : Origins,
                    root : Roots \cup {None}, doc : Docs \cup {None}]
  /\ registry \in [Docs -> Origins]
  /\ index \in [Docs -> Copies] /\ points \in [Docs -> SUBSET Payloads]
  /\ scan.by \in {None, "sync", "reconcile"} /\ scan.known \in [Docs -> Origins]
  /\ scan.copy \in [Docs -> Copies] /\ scan.todo \subseteq Docs
  /\ scan.pending \subseteq Docs \X Kinds
  /\ scan.doc \in Docs \cup {None} /\ scan.root \in Places \cup {None} /\ scan.payload \in Copies
  /\ mirror \in [current : BOOLEAN, missing : BOOLEAN]
  /\ search.pc \in {"idle", "update", "query", "filter", "vectors", "judge"}
  /\ search.scope \in Origins /\ search.vouched \subseteq Docs /\ search.vectorVouched \subseteq Docs
  /\ search.current \in BOOLEAN /\ search.rows \in [Docs -> Origins]
  /\ search.copy \in [Docs -> Copies] /\ search.answer \subseteq Docs
  /\ search.chunks \in [Docs -> SUBSET Payloads] /\ search.vectorAnswer \subseteq Docs
  /\ spoiled \subseteq Docs
  /\ changes \in 0 .. MaxChanges /\ moves \in 0 .. MaxMoves /\ scans \in 0 .. MaxScans /\ faults \in 0 .. MaxFaults
  /\ \A d \in Docs : index[d] # Absent => place[d] # None
  /\ settings["chat"] \in history["chat"] \cup {None}

OriginInit ==
  /\ settings = [k \in Kinds |-> None]
  /\ history = [k \in Kinds |-> {}]
  /\ saving = None
  /\ place = [d \in Docs |-> None]
  /\ importing = NoImport
  /\ registry = [d \in Docs |-> None]
  /\ index = [d \in Docs |-> Absent]
  /\ points = [d \in Docs |-> {}]
  /\ scan = NoScan
  /\ mirror = [current |-> FALSE, missing |-> FALSE]
  /\ search = NoSearch
  /\ spoiled = {}
  /\ changes = 0 /\ moves = 0 /\ scans = 0 /\ faults = 0

Change == changes < MaxChanges /\ changes' = changes + 1
MoveOrIndex == moves < MaxMoves /\ moves' = moves + 1
Fault == faults < MaxFaults /\ faults' = faults + 1

\* mail_archive_roots, chat_archive_roots: every root ever used, and those in use.
RootsOf(k) == history[k] \cup ({settings[k]} \ {None})

\* classify_source_origin by path; a chat root wins over a mail root.
OriginOfPath(root) ==
  IF root \in RootsOf("chat") THEN "chat" ELSE IF root \in RootsOf("mail") THEN "mail" ELSE None

\* classify_source_origin: what is registered wins over the path.
Classify(d, root) == IF registry[d] # None THEN registry[d] ELSE OriginOfPath(root)

\* SourceRegistry.set for a set of documents: every stamp taken before is old now.
Commit(rows) ==
  /\ registry' = rows
  /\ mirror' = [mirror EXCEPT !.current = FALSE]
  /\ spoiled' = {}

-----------------------------------------------------------------------------
(* The administrator.                                                      *)

\* set_chat_settings and set_web_settings: settings and history in one transaction.
SetChatSettings(r) ==
  /\ Change
  /\ settings' = [settings EXCEPT !["chat"] = r]
  /\ history' = [history EXCEPT !["chat"] = @ \cup {r}]
  /\ UNCHANGED <<saving, place, importing, registry, index, points, scan, mirror, search,
                 spoiled, moves, scans, faults>>

\* save_mail_account: the account first, its roots in a second transaction.
SaveMailAccount(r) ==
  /\ Change /\ saving = None
  /\ settings' = [settings EXCEPT !["mail"] = r]
  /\ saving' = r
  /\ UNCHANGED <<history, place, importing, registry, index, points, scan, mirror, search,
                 spoiled, moves, scans, faults>>

SaveMailRoots ==
  /\ saving # None
  /\ history' = [history EXCEPT !["mail"] = @ \cup {saving}]
  /\ saving' = None
  /\ UNCHANGED <<settings, place, importing, registry, index, points, scan, mirror, search,
                 spoiled, changes, moves, scans, faults>>

DieBetweenSaves ==
  /\ Fault /\ saving # None
  /\ saving' = None
  /\ UNCHANGED <<settings, history, place, importing, registry, index, points, scan, mirror, search,
                 spoiled, changes, moves, scans>>

\* delete_mail_account: the roots stay in the history.
DeleteMailAccount ==
  /\ Change /\ saving = None /\ settings["mail"] # None
  /\ settings' = [settings EXCEPT !["mail"] = None]
  /\ UNCHANGED <<history, saving, place, importing, registry, index, points, scan, mirror, search,
                 spoiled, moves, scans, faults>>

-----------------------------------------------------------------------------
(* Importers and users.                                                    *)

\* A mail pass or a chat client takes the configured folder.
StartImport(k) ==
  /\ importing.pc = "idle" /\ settings[k] # None
  /\ \E d \in Docs : place[d] = None
  /\ importing' = [pc |-> "put", kind |-> k, root |-> settings[k], doc |-> None]
  /\ UNCHANGED <<settings, history, saving, place, registry, index, points, scan, mirror, search,
                 spoiled, changes, moves, scans, faults>>

PutArchived(d) ==
  /\ importing.pc = "put" /\ place[d] = None
  /\ place' = [place EXCEPT ![d] = importing.root]
  /\ importing' = [importing EXCEPT !.pc = "register", !.doc = d]
  /\ UNCHANGED <<settings, history, saving, registry, index, points, scan, mirror, search,
                 spoiled, changes, moves, scans, faults>>

\* register_document; for a chat only while the file is where the client says it is,
\* under a configured root.
RegisterImport ==
  LET d == importing.doc
      accepted == importing.kind = "chat" =>
                    place[d] = importing.root /\ place[d] \in RootsOf("chat")
  IN
  /\ importing.pc = "register"
  /\ importing' = NoImport
  /\ IF accepted THEN Commit([registry EXCEPT ![d] = importing.kind])
                 ELSE UNCHANGED <<registry, mirror, spoiled>>
  /\ search' = IF accepted THEN [search EXCEPT !.current = FALSE] ELSE search
  /\ UNCHANGED <<settings, history, saving, place, index, points, scan, changes, moves, scans, faults>>

\* The server returned no file id, or the importer died.
LoseRegistration ==
  /\ Fault /\ importing.pc = "register"
  /\ importing' = NoImport
  /\ UNCHANGED <<settings, history, saving, place, registry, index, points, scan, mirror, search,
                 spoiled, changes, moves, scans>>

CreateOrdinary(d) ==
  /\ place[d] = None
  /\ place' = [place EXCEPT ![d] = Elsewhere]
  /\ UNCHANGED <<settings, history, saving, importing, registry, index, points, scan, mirror, search,
                 spoiled, changes, moves, scans, faults>>

Move(d, to) ==
  /\ MoveOrIndex /\ place[d] \notin {None, to}
  /\ place' = [place EXCEPT ![d] = to]
  /\ UNCHANGED <<settings, history, saving, importing, registry, index, points, scan, mirror, search,
                 spoiled, changes, scans, faults>>

\* Every folder ever used as an archive, whether or not an account still uses it.
Archives == history["mail"] \cup history["chat"]

\* Nextcloud FullTextSearch writes the document anew, without source_origin.  Of a
\* document that nobody registered and that now lies elsewhere, nothing then tells a
\* search in progress that it was archive material.
Reindex(d) ==
  /\ place[d] # None
  /\ index' = [index EXCEPT ![d] = [root |-> place[d], origin |-> None]]
  /\ IF index[d] = Absent
     THEN UNCHANGED <<spoiled, moves>>
     ELSE MoveOrIndex /\ spoiled' = spoiled \cup {d}
  /\ search' = [search EXCEPT !.vouched =
                   {e \in @ : e # d \/ registry[d] # None \/ place[d] \in Archives}]
  /\ UNCHANGED <<settings, history, saving, place, importing, registry, points, scan, mirror,
                 changes, scans, faults>>

-----------------------------------------------------------------------------
(* Traversals: the vector synchronisation, and reconcile.                  *)

Indexed == {d \in Docs : index[d] # Absent}

\* reconcile reads the registry once; both scroll over a snapshot of the index.
StartScan(by) ==
  /\ scan.by = None /\ Indexed # {} /\ scans < MaxScans /\ scans' = scans + 1
  /\ scan' = [by |-> by, known |-> IF by = "reconcile" THEN registry ELSE NoScan.known,
              copy |-> index, todo |-> Indexed, pending |-> {},
              doc |-> None, root |-> None, payload |-> Absent]
  /\ UNCHANGED <<settings, history, saving, place, importing, registry, index, points, mirror, search,
                 spoiled, changes, moves, faults>>

\* sync registers whatever it classifies as special, again and again; reconcile only
\* what its copy of the registry does not know.  A document whose text or index
\* signature changed is embedded anew before sync goes on to the next one.
ClassifyScanned(d) ==
  LET was == scan.copy[d]
      origin == IF scan.by = "sync" THEN Classify(d, was.root)
                ELSE IF scan.known[d] # None THEN scan.known[d] ELSE OriginOfPath(was.root)
      writes == origin # None /\ (scan.by = "sync" \/ scan.known[d] = None)
  IN
  /\ d \in scan.todo /\ scan.doc = None
  /\ IF writes THEN Commit([registry EXCEPT ![d] = origin]) ELSE UNCHANGED <<registry, mirror, spoiled>>
  /\ search' = IF writes THEN [search EXCEPT !.current = FALSE] ELSE search
  /\ \E changed \in IF scan.by = "sync" THEN BOOLEAN ELSE {FALSE} :
       scan' = [scan EXCEPT !.todo = @ \ {d}, !.known[d] = None, !.copy[d] = Absent,
                  !.pending = IF origin \notin {None, was.origin} THEN @ \cup {<<d, origin>>} ELSE @,
                  !.doc = IF changed THEN d ELSE None, !.root = IF changed THEN was.root ELSE None]
  /\ UNCHANGED <<settings, history, saving, place, importing, index, points, changes, moves, scans, faults>>

\* nextcloud_meta classifies and registers once more: what the chunks will carry.
DescribeChunks ==
  LET origin == Classify(scan.doc, scan.root) IN
  /\ scan.doc # None /\ scan.payload = Absent
  /\ IF origin # None THEN Commit([registry EXCEPT ![scan.doc] = origin])
                      ELSE UNCHANGED <<registry, mirror, spoiled>>
  /\ search' = IF origin # None THEN [search EXCEPT !.current = FALSE] ELSE search
  /\ scan' = [scan EXCEPT !.payload = [root |-> scan.root, origin |-> origin]]
  /\ UNCHANGED <<settings, history, saving, place, importing, index, points, changes, moves, scans, faults>>

\* The chunks are stored batch by batch over those that were there, then what is left
\* of the old ones is deleted.  Of a document that nobody registered and whose new
\* chunks lie elsewhere, nothing tells a search in progress that it was archive material.
UpsertChunks(rest) ==
  LET d == scan.doc IN
  /\ scan.payload # Absent
  /\ points' = [points EXCEPT ![d] = (IF rest THEN {} ELSE @) \cup {scan.payload}]
  /\ search' = [search EXCEPT !.vectorVouched =
                   {e \in @ : e # d \/ registry[d] # None \/ scan.root \in Archives}]
  /\ scan' = IF rest THEN [scan EXCEPT !.doc = None, !.root = None, !.payload = Absent] ELSE scan
  /\ UNCHANGED <<settings, history, saving, place, importing, registry, index, mirror,
                 spoiled, changes, moves, scans, faults>>

\* Embedding was refused, or the text is empty.
KeepChunks ==
  /\ scan.doc # None
  /\ scan' = [scan EXCEPT !.doc = None, !.root = None, !.payload = Absent]
  /\ UNCHANGED <<settings, history, saving, place, importing, registry, index, points, mirror, search,
                 spoiled, changes, moves, scans, faults>>

\* _bulk_update with the origins a traversal or the mirror has found.
Updated(updates) ==
  [d \in Docs |-> IF \E k \in Kinds : <<d, k>> \in updates
                  THEN [index[d] EXCEPT !.origin = CHOOSE k \in Kinds : <<d, k>> \in updates]
                  ELSE index[d]]

EndScan ==
  /\ scan.by # None /\ scan.todo = {} /\ scan.doc = None
  /\ index' = Updated(scan.pending)
  /\ spoiled' = spoiled \cup {d \in Docs : \E k \in Kinds : <<d, k>> \in scan.pending /\ registry[d] # k}
  /\ scan' = NoScan
  /\ UNCHANGED <<settings, history, saving, place, importing, registry, points, mirror, search,
                 changes, moves, scans, faults>>

\* A traversal is killed: it has stored what it has stored.
ScanKilled ==
  /\ Fault /\ scan.by # None
  /\ scan' = NoScan
  /\ UNCHANGED <<settings, history, saving, place, importing, registry, index, points, mirror, search,
                 spoiled, changes, moves, scans>>

-----------------------------------------------------------------------------
(* A search: the mirror first, then the query of Elasticsearch and the     *)
(* check of its hits, then the same with the vector store.                 *)

\* What is known to be archive material when the search begins: by id, or by every
\* copy that the arm can come upon.
Vouched == {d \in Docs : registry[d] # None \/ index[d].root \in Archives}
VectorVouched == {d \in Docs : registry[d] # None \/ \A p \in points[d] : p.root \in Archives}

Asked(scope, pc) == [NoSearch EXCEPT !.pc = pc, !.scope = scope,
                       !.vouched = IF scope = None THEN Vouched ELSE {},
                       !.vectorVouched = IF scope = None THEN VectorVouched ELSE {}]

\* auto_mirror_registry_to_elasticsearch returns at once while the stamp is current and
\* nothing was missing, or the last attempt is less than retry_seconds old.
SearchAsIs(scope) ==
  /\ search.pc = "idle" /\ mirror.current
  /\ search' = Asked(scope, "query")
  /\ UNCHANGED <<settings, history, saving, place, importing, registry, index, points, scan, mirror,
                 spoiled, changes, moves, scans, faults>>

\* mistake: documents the index did not hold are not looked for again
MirrorOnce(scope) ==
  /\ search.pc = "idle" /\ ~mirror.current
  /\ search' = [Asked(scope, "update") EXCEPT !.rows = registry, !.current = TRUE]
  /\ UNCHANGED <<settings, history, saving, place, importing, registry, index, points, scan, mirror,
                 spoiled, changes, moves, scans, faults>>

\* The stamp of the registry is read, then its rows.
MirrorFirst(scope) ==
  /\ search.pc = "idle" /\ (~mirror.current \/ mirror.missing)
  /\ search' = [Asked(scope, "update") EXCEPT !.rows = registry, !.current = TRUE]
  /\ UNCHANGED <<settings, history, saving, place, importing, registry, index, points, scan, mirror,
                 spoiled, changes, moves, scans, faults>>

ToQuery == [search EXCEPT !.pc = "query", !.current = FALSE, !.rows = NoSearch.rows]

\* The documents that are there get their origin; if others are missing, that is noted
\* beside the stamp.
UpdateMirror ==
  LET expected == {d \in Docs : search.rows[d] # None} IN
  /\ search.pc = "update"
  /\ index' = Updated({<<d, search.rows[d]>> : d \in {e \in expected \cap Indexed :
                                                     index[e].origin # search.rows[e]}})
  /\ mirror' = [current |-> search.current, missing |-> expected \cap Indexed # expected]
  /\ search' = ToQuery
  /\ UNCHANGED <<settings, history, saving, place, importing, registry, points, scan,
                 spoiled, changes, moves, scans, faults>>

\* The mirror is best effort: the search goes on, and the stamp is not noted.
MirrorFails ==
  /\ Fault /\ search.pc = "update"
  /\ search' = ToQuery
  /\ UNCHANGED <<settings, history, saving, place, importing, registry, index, points, scan, mirror,
                 spoiled, changes, moves, scans>>

\* _apply_source_scope_to_es: by mirrored origin, and by folder as a fallback.
Clause(k, copy) == copy.origin = k \/ copy.root \in RootsOf(k)

Query ==
  /\ search.pc = "query"
  /\ search' = [search EXCEPT !.pc = "filter", !.copy =
       [d \in Docs |->
          IF /\ index[d] # Absent
             /\ IF search.scope = None THEN \A k \in Kinds : ~Clause(k, index[d])
                                       ELSE Clause(search.scope, index[d])
          THEN index[d] ELSE Absent]]
  /\ UNCHANGED <<settings, history, saving, place, importing, registry, index, points, scan, mirror,
                 spoiled, changes, moves, scans, faults>>

Hits == {d \in Docs : search.copy[d] # Absent}

\* source_scope_allows_record: the mirrored origin, or what id and path say now.
\* mistake: the registry is not asked, the folder alone decides
OriginByFolder(d) ==
  IF search.copy[d].origin # None THEN search.copy[d].origin ELSE OriginOfPath(search.copy[d].root)

HitOrigin(d) ==
  IF search.copy[d].origin # None THEN search.copy[d].origin
                                  ELSE Classify(d, search.copy[d].root)

\* The arm is best effort: the search goes on without it.
QueryFails ==
  /\ Fault /\ search.pc = "query"
  /\ search' = IF search.scope = None THEN [search EXCEPT !.pc = "vectors"] ELSE NoSearch
  /\ UNCHANGED <<settings, history, saving, place, importing, registry, index, points, scan, mirror,
                 spoiled, changes, moves, scans>>

\* What an ordinary search returns is kept; what a scoped one returns is its caller's,
\* and is not followed into the vector arm, which writes nothing.
\* _heal_source_origin_from_hit registers what only its folder gave away.
Filter ==
  LET healed == {d \in Hits : search.copy[d].origin = None /\ HitOrigin(d) # None} IN
  /\ search.pc = "filter"
  /\ IF healed # {}
     THEN Commit([d \in Docs |-> IF d \in healed THEN HitOrigin(d) ELSE registry[d]])
     ELSE UNCHANGED <<registry, mirror, spoiled>>
  /\ search' = IF search.scope # None THEN NoSearch
               ELSE [search EXCEPT !.pc = "vectors", !.current = FALSE, !.copy = NoSearch.copy,
                       !.answer = {d \in Hits : HitOrigin(d) = None}]
  /\ UNCHANGED <<settings, history, saving, place, importing, index, points, scan, changes, moves, scans, faults>>

\* Qdrant has no clause for folders: it leaves out the chunks that carry an origin.
QueryVectors ==
  /\ search.pc = "vectors" /\ search.scope = None
  /\ search' = [search EXCEPT !.pc = "judge",
                  !.chunks = [d \in Docs |-> {p \in points[d] : p.origin = None}]]
  /\ UNCHANGED <<settings, history, saving, place, importing, registry, index, points, scan, mirror,
                 spoiled, changes, moves, scans, faults>>

\* source_scope_allows_record of a chunk: what is registered, or what its folder says now.
FilterVectors ==
  /\ search.pc = "judge"
  /\ search' = [search EXCEPT !.pc = "idle", !.chunks = NoSearch.chunks,
                  !.vectorAnswer = {d \in Docs : \E p \in search.chunks[d] : Classify(d, p.root) = None}]
  /\ UNCHANGED <<settings, history, saving, place, importing, registry, index, points, scan, mirror,
                 spoiled, changes, moves, scans, faults>>

\* The API process is restarted: what it noted of the mirror is gone.
RestartApi ==
  /\ Fault
  /\ search' = NoSearch
  /\ mirror' = [current |-> FALSE, missing |-> FALSE]
  /\ UNCHANGED <<settings, history, saving, place, importing, registry, index, points, scan,
                 spoiled, changes, moves, scans>>

-----------------------------------------------------------------------------
Settings ==
  \/ (\E r \in ChatRoots : SetChatSettings(r)) \/ (\E r \in Roots : SaveMailAccount(r))
  \/ SaveMailRoots \/ DieBetweenSaves \/ DeleteMailAccount

Files ==
  \/ \E k \in Kinds : StartImport(k)
  \/ \E d \in Docs : PutArchived(d) \/ CreateOrdinary(d) \/ Reindex(d)
  \/ RegisterImport \/ LoseRegistration
  \/ \E d \in Docs, to \in Places : Move(d, to)

ScanGoesOn == (\E d \in Docs : ClassifyScanned(d)) \/ DescribeChunks \/ UpsertChunks(TRUE) \/ EndScan

Traversal ==
  \/ \E by \in {"sync", "reconcile"} : StartScan(by)
  \/ \E d \in Docs : ClassifyScanned(d)
  \/ DescribeChunks \/ (\E rest \in BOOLEAN : UpsertChunks(rest)) \/ KeepChunks
  \/ EndScan \/ ScanKilled

Retry == \E scope \in Scopes : MirrorFirst(scope)
SearchStep == Retry \/ (\E scope \in Scopes : SearchAsIs(scope)) \/ UpdateMirror \/ Query \/ Filter
              \/ QueryVectors \/ FilterVectors

OriginNext == Settings \/ Files \/ Traversal \/ SearchStep \/ MirrorFails \/ QueryFails \/ RestartApi

OriginSpec == OriginInit /\ [][OriginNext]_originVars

\* Searches keep coming, a traversal that was started ends, and between searches
\* retry_seconds pass again and again.  Nobody need import, move, traverse or save.
OriginFairness ==
  /\ WF_originVars(SearchStep) /\ SF_originVars(Retry)
  /\ WF_originVars(ScanGoesOn)

OriginFairSpec == OriginSpec /\ OriginFairness

-----------------------------------------------------------------------------
(* No arm of an ordinary search returns what was known to be archive       *)
(* material when the search began: a document that was registered, or one  *)
(* that by the arm's own copy lay in a folder ever used as an archive (its *)
(* entry in Elasticsearch; each of its chunks in Qdrant).  However files   *)
(* were moved, folders renamed, accounts deleted, copies rewritten and     *)
(* origins lost from the mirror since (the implicit default of             *)
(* source_scope_allows_record, "ordinary documents only").                 *)
(* Three cases are not promised.  A document nobody registered whose copy  *)
(* is rewritten during the search with a folder that never was an archive  *)
(* is ordinary from then on.  One nobody registered that was moved into an *)
(* archive folder is returned until the arm's copy follows: for the vector *)
(* arm that is when its text changes.  And so is one of whose chunks only  *)
(* a part was replaced after the move.                                     *)
(* (And every variable keeps its type.)                                    *)
ArchivedStaysOut ==
  /\ OriginTypeOK
  /\ search.pc = "idle" => /\ search.answer \cap search.vouched = {}
                           /\ search.vectorAnswer \cap search.vectorVouched = {}

(* A registered document that the index holds comes to carry its origin    *)
(* there, although it may be indexed after it was registered, registered   *)
(* while the mirror runs, or missed by an update that failed.  Excepted is *)
(* a document indexed again after the registry last changed, or given an   *)
(* older origin by a traversal that was overtaken: the stamp tells the     *)
(* mirror nothing of either (auto_mirror_registry_to_elasticsearch).       *)
MirrorCatchesUp ==
  \A d \in Docs :
    registry[d] # None /\ index[d] # Absent
      ~> index[d].origin = registry[d] \/ d \in spoiled

(* A document once registered stays archive material, and what an importer *)
(* declared about it is never replaced by what a traversal or a search     *)
(* infers from its folder.  With overlapping steps it is: reconcile writes *)
(* by the copy of the registry it began with.                              *)
DeclaredOriginKept ==
  [][\A d \in Docs : registry[d] # None => registry'[d] = registry[d]]_originVars

=============================================================================

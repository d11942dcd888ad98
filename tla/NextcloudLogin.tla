--------------------------- MODULE NextcloudLogin ---------------------------
(***************************************************************************)
(* Nextcloud Login Flow v2 for the frontends, in rag/api.py and            *)
(* rag/credential_store.py.  A frontend that asks for a user it does not   *)
(* know yet is given a link; when the user has confirmed it at Nextcloud,  *)
(* the next poll is handed an app password, once.  It is stored for the    *)
(* frontend identity, and the identity is bound to the canonical Nextcloud *)
(* user.  Every step is a transaction or a call to Nextcloud, and the API  *)
(* may be killed between any two of them.                                  *)
(*                                                                         *)
(* An app password is named by the flow that issued it.                    *)
(***************************************************************************)
EXTENDS Naturals, FiniteSets, NoValue

CONSTANTS
  Frontends,   \* frontend-scoped identities, "client::user"
  Logins,      \* Nextcloud accounts
  Known,       \* those with a canonical user at first
  Flows,
  Requests,    \* requests the API serves at the same time
  MaxFaults    \* bound: crashes, lost answers, administration, late users,
               \* requests of one identity that overlap

ASSUME LoginAssumption ==
  /\ Known \subseteq Logins /\ None \notin Logins \cup Flows \cup Frontends
  /\ IsFiniteSet(Flows) /\ MaxFaults \in Nat

VARIABLES
  flow,        \* nextcloud_login_flows
  password,    \* Nextcloud: has the app password of a flow been issued, for whom
  credential,  \* credentials(service = nextcloud): the app password stored
  known,       \* canonical_users
  binding,     \* identity_bindings
  request,     \* what each request is about to do
  faults,
  torn         \* history: identities whose last login was ended between its two
               \* transactions, or overlapped with a login to another account

loginVars == <<flow, password, credential, known, binding, request, faults, torn>>
nextcloud == <<flow, password>>
accounts == <<credential, known, binding>>

NoRow == [owner |-> None, stale |-> FALSE, rank |-> 0]
NoPassword == [state |-> "none", login |-> None]
NoRequest == [pc |-> "idle", flow |-> None, who |-> None, clean |-> FALSE]
Pcs == {"drop", "start", "poll", "store", "user", "insert", "bind", "clean"}
Polled == {"store", "user", "insert", "bind"}

LoginTypeOK ==
  /\ flow \in [Flows -> {NoRow} \cup [owner : Frontends, stale : BOOLEAN,
                                      rank : 1 .. Cardinality(Flows)]]
  /\ password \in [Flows -> {NoPassword} \cup [state : {"granted", "live"}, login : Logins]]
  /\ credential \in [Frontends -> Flows \cup {None}]
  /\ known \subseteq Logins
  /\ binding \in [Frontends -> Logins \cup {None}]
  /\ request \in [Requests -> {NoRequest} \cup [pc : Pcs, flow : Flows \cup {None},
                                                who : Frontends, clean : BOOLEAN]]
  /\ \A q \in Requests : request[q].pc \in Polled =>
                           password[request[q].flow].state = "live"
  /\ faults \in 0 .. MaxFaults /\ torn \subseteq Frontends

LoginInit ==
  /\ flow = [f \in Flows |-> NoRow]
  /\ password = [f \in Flows |-> NoPassword]
  /\ credential = [i \in Frontends |-> None]
  /\ known = Known
  /\ binding = [i \in Frontends |-> None]
  /\ request = [q \in Requests |-> NoRequest]
  /\ faults = 0 /\ torn = {}

Fault == faults < MaxFaults /\ faults' = faults + 1
At(q, pc) == request[q].pc = pc
Goto(q, pc) == request' = [request EXCEPT ![q].pc = pc]
Return(q) == request' = [request EXCEPT ![q] = NoRequest]
Enter(q, pc, f, i, clean) ==
  request' = [request EXCEPT ![q] = [pc |-> pc, flow |-> f, who |-> i, clean |-> clean]]
LoginOf(f) == password[f].login

\* between set_credential and bind_identity
Binding(q) == request[q].pc \in {"user", "insert", "bind"}
Rivals(i, l) == {q \in Requests : request[q].who = i /\ Binding(q)
                                   /\ LoginOf(request[q].flow) # l}

Rows(i) == {f \in Flows : flow[f].owner = i}
Held(f) == \/ \E q \in Requests : request[q].flow = f
           \/ \E i \in Frontends : credential[i] = f
Newest(fs) == CHOOSE f \in fs : \A g \in fs : flow[g].rank <= flow[f].rank

\* mistake: a flow is reused however old it is
RecentOfAnyAge(i) == IF Rows(i) = {} THEN None ELSE Newest(Rows(i))

\* get_recent_nextcloud_flow
Recent(i) ==
  LET fresh == {f \in Rows(i) : ~flow[f].stale}
  IN  IF fresh = {} THEN None ELSE Newest(fresh)

-----------------------------------------------------------------------------
(* The user at Nextcloud, and time.                                        *)

\* external: the user opens a link and confirms, with any of his accounts
Confirm(f, l) ==
  /\ flow[f].owner # None /\ ~flow[f].stale /\ password[f].state = "none"
  /\ password' = [password EXCEPT ![f] = [state |-> "granted", login |-> l]]
  /\ UNCHANGED <<flow, accounts, request, faults, torn>>

\* auth.login_flow_ttl_seconds have passed; a link confirmed and not polled
\* in time is a fault
FlowAges(f) ==
  /\ flow[f].owner # None /\ ~flow[f].stale
  /\ IF password[f].state = "granted" THEN Fault ELSE faults' = faults
  /\ flow' = [flow EXCEPT ![f].stale = TRUE]
  /\ UNCHANGED <<password, accounts, request, torn>>

-----------------------------------------------------------------------------
(* A frontend's request for an identity.                                   *)

\* nextcloud_auth_ensure with a credential and no binding: bound now; with
\* both nothing changes, and a disabled user is refused
Backfill(q, i) ==
  /\ At(q, "idle") /\ credential[i] # None /\ binding[i] = None
  /\ Enter(q, "user", credential[i], i, FALSE)
  /\ torn' = IF Rivals(i, LoginOf(credential[i])) = {} THEN torn ELSE torn \cup {i}
  /\ UNCHANGED <<nextcloud, accounts, faults>>

\* ... without a credential: the newest flow is polled, or a new one begun; a
\* frontend rarely asks again before it is answered
Look(q, i) ==
  /\ At(q, "idle") /\ credential[i] = None
  /\ IF \E r \in Requests : request[r].who = i THEN Fault ELSE faults' = faults
  /\ IF Recent(i) = None THEN Enter(q, "drop", None, i, FALSE)
                         ELSE Enter(q, "poll", Recent(i), i, TRUE)
  /\ UNCHANGED <<nextcloud, accounts, torn>>

\* nextcloud_auth_start
StartAnew(q, i) ==
  /\ At(q, "idle") /\ Fault
  /\ Enter(q, "drop", None, i, FALSE)
  /\ UNCHANGED <<nextcloud, accounts, torn>>

\* nextcloud_auth_status, for any flow that has a row
Status(q, f) ==
  /\ At(q, "idle") /\ flow[f].owner \in Frontends /\ Fault
  /\ Enter(q, "poll", f, flow[f].owner, TRUE)
  /\ UNCHANGED <<nextcloud, accounts, torn>>

NoFlowsOf(i) == [f \in Flows |-> IF flow[f].owner = i THEN NoRow ELSE flow[f]]

DropFlows(q) ==
  /\ At(q, "drop")
  /\ flow' = NoFlowsOf(request[q].who)
  /\ Goto(q, "start")
  /\ UNCHANGED <<password, accounts, faults, torn>>

\* a new flow at Nextcloud, and its row
NewFlow(q, f) ==
  /\ At(q, "start") /\ flow[f].owner = None /\ ~Held(f)
  /\ flow' = [flow EXCEPT ![f] = [owner |-> request[q].who, stale |-> FALSE,
                                  rank |-> Cardinality(Rows(request[q].who)) + 1]]
  /\ password' = [password EXCEPT ![f] = NoPassword]
  /\ Return(q)
  /\ UNCHANGED <<accounts, faults, torn>>

\* _poll_nextcloud_flow: 404 or 425 until the user has confirmed, and again
\* when the password has been handed out; the answer may be lost
Poll(q) ==
  LET f == request[q].flow
  IN  /\ At(q, "poll")
      /\ IF password[f].state = "granted"
         THEN /\ password' = [password EXCEPT ![f].state = "live"]
              /\ \/ Goto(q, "store") /\ faults' = faults
                 \/ Return(q) /\ Fault
         ELSE password' = password /\ Return(q) /\ faults' = faults
      /\ UNCHANGED <<flow, accounts, torn>>

\* set_credential
Store(q) ==
  LET i == request[q].who
      f == request[q].flow
  IN  /\ At(q, "store")
      /\ credential' = [credential EXCEPT ![i] = f]
      /\ Goto(q, "user")
      /\ torn' = IF Rivals(i, LoginOf(f)) = {} THEN torn \ {i} ELSE torn \cup {i}
      /\ UNCHANGED <<nextcloud, known, binding, faults>>

\* ensure_canonical_user: select ...
FindUser(q) ==
  /\ At(q, "user")
  /\ Goto(q, IF LoginOf(request[q].flow) \in known THEN "bind" ELSE "insert")
  /\ UNCHANGED <<nextcloud, accounts, faults, torn>>

\* ... then insert, which fails when another request was first
InsertUser(q) ==
  LET l == LoginOf(request[q].flow)
  IN  /\ At(q, "insert")
      /\ IF l \in known
         THEN /\ Return(q) /\ known' = known
              /\ torn' = torn \cup {request[q].who}
         ELSE /\ Goto(q, "bind") /\ torn' = torn
              /\ known' = known \cup {l}
      /\ UNCHANGED <<nextcloud, credential, binding, faults>>

\* mistake: an identity that is bound already keeps its binding
BindOnce(q) ==
  LET i == request[q].who
  IN  /\ At(q, "bind")
      /\ binding' = IF binding[i] = None
                    THEN [binding EXCEPT ![i] = LoginOf(request[q].flow)] ELSE binding
      /\ IF request[q].clean THEN Goto(q, "clean") ELSE Return(q)
      /\ UNCHANGED <<nextcloud, credential, known, faults, torn>>

\* bind_identity
Bind(q) ==
  LET i == request[q].who
  IN  /\ At(q, "bind")
      /\ binding' = [binding EXCEPT ![i] = LoginOf(request[q].flow)]
      /\ IF request[q].clean THEN Goto(q, "clean") ELSE Return(q)
      /\ UNCHANGED <<nextcloud, credential, known, faults, torn>>

\* delete_nextcloud_flows_for_user
CleanFlows(q) ==
  /\ At(q, "clean")
  /\ flow' = NoFlowsOf(request[q].who)
  /\ Return(q)
  /\ UNCHANGED <<password, accounts, faults, torn>>

-----------------------------------------------------------------------------
(* The administrator.                                                      *)

\* nextcloud_auth_disconnect
Disconnect(i) ==
  /\ Fault /\ credential' = [credential EXCEPT ![i] = None]
  /\ UNCHANGED <<nextcloud, known, binding, request, torn>>

\* clear_nextcloud_credentials_for_canonical_user
ClearUser(l) ==
  /\ Fault /\ l \in known
  /\ credential' = [i \in Frontends |-> IF binding[i] = l THEN None ELSE credential[i]]
  /\ flow' = [f \in Flows |-> IF \E i \in Frontends : flow[f].owner = i /\ binding[i] = l
                              THEN NoRow ELSE flow[f]]
  /\ UNCHANGED <<password, known, binding, request, torn>>

\* delete_client: every trace of its identities (here: of one), the users stay
DeleteClient(i) ==
  /\ Fault
  /\ flow' = NoFlowsOf(i)
  /\ credential' = [credential EXCEPT ![i] = None]
  /\ binding' = [binding EXCEPT ![i] = None]
  /\ UNCHANGED <<password, known, request, torn>>

\* the API is killed between two transactions, and started again
Crash ==
  /\ Fault
  /\ request' = [q \in Requests |-> NoRequest]
  /\ torn' = torn \cup {request[q].who : q \in {x \in Requests : Binding(x)}}
  /\ UNCHANGED <<nextcloud, accounts>>

-----------------------------------------------------------------------------
Ask(q) ==
  \/ \E i \in Frontends : Backfill(q, i) \/ Look(q, i) \/ StartAnew(q, i)
  \/ \E f \in Flows : Status(q, f)

Step(q) ==
  \/ DropFlows(q) \/ Poll(q) \/ Store(q) \/ FindUser(q) \/ InsertUser(q) \/ Bind(q)
  \/ CleanFlows(q) \/ \E f \in Flows : NewFlow(q, f)

Administration ==
  \/ \E i \in Frontends : Disconnect(i) \/ DeleteClient(i)
  \/ \E l \in Logins : ClearUser(l)

LoginNext ==
  \/ \E q \in Requests : Ask(q) \/ Step(q)
  \/ \E f \in Flows : FlowAges(f) \/ \E l \in Logins : Confirm(f, l)
  \/ Administration \/ Crash

LoginSpec == LoginInit /\ [][LoginNext]_loginVars

\* requests proceed, the frontend asks again and again, the user confirms the
\* link it shows him in time now and then, and links expire
LoginFairSpec ==
  /\ LoginSpec
  /\ \A q \in Requests : WF_loginVars(Step(q))
  /\ \A i \in Frontends :
       /\ SF_loginVars(\E q \in Requests : Look(q, i) \/ Backfill(q, i))
       /\ SF_loginVars(Recent(i) # None /\ \E l \in Logins : Confirm(Recent(i), l))
  /\ \A f \in Flows : WF_loginVars(faults' = faults /\ FlowAges(f))

-----------------------------------------------------------------------------
(* Properties.                                                             *)

\* When no login of an identity is under way and the last one was not torn, the
\* user it is bound to is the one whose app password is stored for it. (And every
\* variable keeps its type.)
BindingFollowsLogin ==
  /\ LoginTypeOK
  /\ \A i \in Frontends :
       /\ credential[i] # None /\ binding[i] # None /\ i \notin torn
       /\ \A q \in Requests : request[q].who = i => ~Binding(q)
       => binding[i] = LoginOf(credential[i])

\* A frontend whose user confirms the links he is shown is connected in the
\* end, also when an app password was handed out and lost.
LoginCompletes ==
  \A i \in Frontends : <>[](credential[i] # None /\ binding[i] # None)

\* nextcloud_auth_ensure: "an unfinished Login Flow is polled/reused;
\* otherwise one new Nextcloud Login Flow is created".
OneOpenFlow ==
  \A i \in Frontends : Cardinality({f \in Rows(i) : ~flow[f].stale}) <= 1

=============================================================================

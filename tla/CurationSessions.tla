-------------------------- MODULE CurationSessions --------------------------
(***************************************************************************)
(* Sessions of the self-service curation pages, rag/curation_ui.py and     *)
(* rag/credential_store.py.  A login hands out a temporary Nextcloud app   *)
(* password, once; a session stands on it until it is closed, and then the *)
(* password must be revoked at Nextcloud.  The API may crash between any   *)
(* two transactions; its start-up cleans up the sessions it finds.         *)
(*                                                                         *)
(* A session and its app password are named by the flow they came from.    *)
(***************************************************************************)
EXTENDS Naturals, NoValue

CONSTANTS
  Logins,      \* canonical users that may curate at first
  Strangers,   \* Nextcloud accounts without a canonical user
  Flows,
  Requests,    \* requests the API serves at the same time
  MaxFaults    \* bound: crashes, unanswered calls, changed permissions, wrong keys

ASSUME CurationAssumption ==
  None \notin Logins \cup Strangers \cup Flows /\ MaxFaults \in Nat

VARIABLES
  flow,        \* nextcloud_login_flows with an owner "curation-flow:..."
  password,    \* Nextcloud: has the app password of a flow been issued, for whom
  user,        \* canonical_users: the flags of those that may curate
  session,     \* curation_sessions
  request,     \* what each request is about to do
  boot,        \* the API process, its start-up cleanup and the master key it has
  faults

sessionVars == <<flow, password, user, session, request, boot, faults>>

Accounts == Logins \cup Strangers
NoPassword == [state |-> "none", login |-> None]
NoSession == [state |-> "none", login |-> None, expired |-> FALSE, own |-> FALSE]
NoRequest == [pc |-> "idle", flow |-> None]
Pcs == {"poll", "check", "create", "forget", "turn_away", "revoke", "delete"}

SessionTypeOK ==
  /\ flow \in [Flows -> {"none", "open", "stale"}]
  /\ password \in [Flows -> {NoPassword} \cup
                            [state : {"granted", "live", "revoked"}, login : Accounts]]
  /\ user \in [Logins -> [enabled : BOOLEAN, curates : BOOLEAN]]
  /\ session \in [Flows -> {NoSession} \cup
                           [state : {"active", "revocation_pending"}, login : Logins,
                            expired : BOOLEAN, own : BOOLEAN]]
  /\ request \in [Requests -> {NoRequest} \cup [pc : Pcs, flow : Flows]]
  /\ \A q \in Requests : request[q].pc \in Pcs \ {"poll"} =>
                           password[request[q].flow].state \in {"live", "revoked"}
  /\ boot \in [pc : {"down", "clean", "revoke", "delete", "up", "stop"}, todo : SUBSET Flows,
               at : Flows \cup {None}, key : BOOLEAN]
  /\ faults \in 0 .. MaxFaults

SessionInit ==
  /\ flow = [f \in Flows |-> "none"]
  /\ password = [f \in Flows |-> NoPassword]
  /\ user = [l \in Logins |-> [enabled |-> TRUE, curates |-> TRUE]]
  /\ session = [f \in Flows |-> NoSession]
  /\ request = [q \in Requests |-> NoRequest]
  /\ boot = [pc |-> "up", todo |-> {}, at |-> None, key |-> TRUE]
  /\ faults = 0

Fault == faults < MaxFaults /\ faults' = faults + 1
Up == boot.pc = "up" /\ boot.key
Arrives(q) == Up /\ request[q].pc = "idle"
At(q, pc) == boot.pc \in {"up", "stop"} /\ request[q].pc = pc
Goto(q, pc) == request' = [request EXCEPT ![q].pc = pc]
Return(q) == request' = [request EXCEPT ![q] = NoRequest]
Enter(q, pc, f) == request' = [request EXCEPT ![q] = [pc |-> pc, flow |-> f]]
LoginOf(f) == password[f].login

-----------------------------------------------------------------------------
(* Nextcloud, the user and time.                                           *)

\* external: the user opens the link and confirms
Confirm(f, l) ==
  /\ flow[f] = "open" /\ password[f].state = "none"
  /\ password' = [password EXCEPT ![f] = [state |-> "granted", login |-> l]]
  /\ UNCHANGED <<flow, user, session, request, boot, faults>>

\* auth.login_flow_ttl_seconds, session_max_seconds have passed
FlowAges(f) ==
  /\ flow[f] = "open"
  /\ flow' = [flow EXCEPT ![f] = "stale"]
  /\ UNCHANGED <<password, user, session, request, boot, faults>>

SessionAges(f) ==
  /\ session[f].state # "none" /\ ~session[f].expired
  /\ session' = [session EXCEPT ![f].expired = TRUE]
  /\ UNCHANGED <<flow, password, user, request, boot, faults>>

\* external: DELETE ocs/v2.php/core/apppassword; a password that is revoked
\* already is refused, another one only when the call fails
Revokes(f) == /\ password[f].state = "live"
              /\ password' = [password EXCEPT ![f].state = "revoked"]
Refuses(f) == /\ IF password[f].state = "live" THEN Fault ELSE faults' = faults
              /\ password' = password

-----------------------------------------------------------------------------
(* Requests to the pages.  Under a wrong master key nobody is served: a    *)
(* bound, an administrator notices it before anyone logs in.               *)

MayCurate(l) == l \in Logins /\ user[l].enabled /\ user[l].curates

\* session_from_request lets a request pass
Accepts(f) ==
  /\ Up /\ session[f].state = "active" /\ ~session[f].expired
  /\ MayCurate(session[f].login)

Unused(f) == /\ flow[f] = "none" /\ session[f].state = "none"
             /\ \A q \in Requests : request[q].flow # f

\* POST /curation/login
Login(f) ==
  /\ Up /\ Unused(f)
  /\ flow' = [flow EXCEPT ![f] = "open"]
  /\ password' = [password EXCEPT ![f] = NoPassword]
  /\ UNCHANGED <<user, session, request, boot, faults>>

\* POST /curation/login/{flow_id}
Look(q, f) ==
  /\ Arrives(q) /\ flow[f] # "none"
  /\ IF flow[f] = "stale"
     THEN flow' = [flow EXCEPT ![f] = "none"] /\ request' = request
     ELSE flow' = flow /\ Enter(q, "poll", f)
  /\ UNCHANGED <<password, user, session, boot, faults>>

\* 404 or 425 until the user has confirmed, and again when the password has
\* been handed out; the answer may be lost
Poll(q) ==
  LET f == request[q].flow
  IN  /\ At(q, "poll")
      /\ IF password[f].state = "granted"
         THEN /\ password' = [password EXCEPT ![f].state = "live"]
              /\ \/ Goto(q, "check") /\ faults' = faults
                 \/ Return(q) /\ Fault
         ELSE password' = password /\ Return(q) /\ faults' = faults
      /\ UNCHANGED <<flow, user, session, boot>>

Check(q) ==
  /\ At(q, "check")
  /\ Goto(q, IF MayCurate(LoginOf(request[q].flow)) THEN "create" ELSE "turn_away")
  /\ UNCHANGED <<flow, password, user, session, boot, faults>>

\* the password of a user who may not curate: revoked, whatever comes of it
TurnAway(q) ==
  /\ At(q, "turn_away")
  /\ \/ Revokes(request[q].flow) /\ faults' = faults
     \/ Refuses(request[q].flow)
  /\ Goto(q, "forget")
  /\ UNCHANGED <<flow, user, session, boot>>

\* create_curation_session looks at the user again, and raises
CreateSession(q) ==
  LET f == request[q].flow
  IN  /\ At(q, "create")
      /\ IF MayCurate(LoginOf(f))
         THEN /\ session' = [session EXCEPT ![f] =
                   [state |-> "active", login |-> LoginOf(f), expired |-> FALSE,
                    own |-> TRUE]]
              /\ Goto(q, "forget")
         ELSE session' = session /\ Return(q)
      /\ UNCHANGED <<flow, password, user, boot, faults>>

\* delete_nextcloud_flow
ForgetFlow(q) ==
  /\ At(q, "forget")
  /\ flow' = [flow EXCEPT ![request[q].flow] = "none"]
  /\ Return(q)
  /\ UNCHANGED <<password, user, session, boot, faults>>

\* mark_curation_session_revocation_pending
MarkPending(fs) ==
  session' = [f \in Flows |-> IF f \in fs /\ session[f].state # "none"
                              THEN [session[f] EXCEPT !.state = "revocation_pending"]
                              ELSE session[f]]

\* invalidate_curation_session: for a request with a session that is not
\* usable any more or whose user may not curate any more, and at logout
Invalidate(q, f) ==
  /\ Arrives(q) /\ session[f].state # "none"
  /\ MarkPending({f})
  /\ Enter(q, "revoke", f)
  /\ UNCHANGED <<flow, password, user, boot, faults>>

\* mistake: the session is deleted although its password may still be valid
RevokeOrNot(q) ==
  LET f == request[q].flow
  IN  /\ At(q, "revoke")
      /\ \/ Revokes(f) /\ faults' = faults
         \/ Refuses(f)
      /\ Goto(q, "delete")
      /\ UNCHANGED <<flow, user, session, boot>>

\* _revoke_app_password; a session it fails for stays
Revoke(q) ==
  LET f == request[q].flow
  IN  /\ At(q, "revoke")
      /\ \/ Revokes(f) /\ faults' = faults /\ Goto(q, "delete")
         \/ Refuses(f) /\ Return(q)
      /\ UNCHANGED <<flow, user, session, boot>>

\* delete_curation_session_by_hash
DeleteSession(q) ==
  /\ At(q, "delete")
  /\ session' = [session EXCEPT ![request[q].flow] = NoSession]
  /\ Return(q)
  /\ UNCHANGED <<flow, password, user, boot, faults>>

\* set_canonical_user_enabled, set_findings_curation_enabled
Administer(l) ==
  /\ Fault
  /\ \/ user' = [user EXCEPT ![l].enabled = ~@]
     \/ user' = [user EXCEPT ![l].curates = ~@]
  /\ UNCHANGED <<flow, password, session, request, boot>>

-----------------------------------------------------------------------------
(* The API process.                                                        *)

Foreign == [f \in Flows |-> [session[f] EXCEPT !.own = FALSE]]

\* killed between two transactions
Crash ==
  /\ boot.pc # "down" /\ Fault
  /\ boot' = [boot EXCEPT !.pc = "down", !.todo = {}, !.at = None]
  /\ request' = [q \in Requests |-> NoRequest]
  /\ session' = Foreign
  /\ UNCHANGED <<flow, password, user>>

\* an orderly stop lets the requests finish
Stop ==
  /\ boot.pc = "up"
  /\ boot' = [boot EXCEPT !.pc = "stop"]
  /\ UNCHANGED <<flow, password, user, session, request, faults>>

Halt ==
  /\ boot.pc = "stop" /\ \A q \in Requests : request[q] = NoRequest
  /\ boot' = [boot EXCEPT !.pc = "down"]
  /\ session' = Foreign
  /\ UNCHANGED <<flow, password, user, request, faults>>

Stored == {f \in Flows : session[f].state # "none"}

\* cleanup_stale_curation_sessions: under a wrong master key the rows cannot
\* be decrypted, and are only marked
Start ==
  /\ boot.pc = "down"
  /\ \E key \in BOOLEAN :
       /\ IF key THEN faults' = faults ELSE Fault
       /\ boot' = [pc |-> "clean", todo |-> IF key THEN Stored ELSE {},
                   at |-> None, key |-> key]
       /\ MarkPending(IF key THEN {} ELSE Stored)
  /\ UNCHANGED <<flow, password, user, request>>

\* mistake: the session is marked only when its password cannot be revoked
CleanNextUnmarked(f) ==
  /\ boot.pc = "clean" /\ f \in boot.todo
  /\ boot' = [boot EXCEPT !.pc = "revoke", !.todo = @ \ {f}, !.at = f]
  /\ UNCHANGED <<flow, password, user, session, request, faults>>

CleanNext(f) ==
  /\ boot.pc = "clean" /\ f \in boot.todo
  /\ boot' = [boot EXCEPT !.pc = "revoke", !.todo = @ \ {f}, !.at = f]
  /\ MarkPending({f})
  /\ UNCHANGED <<flow, password, user, request, faults>>

CleanRevoke ==
  /\ boot.pc = "revoke"
  /\ \/ /\ Revokes(boot.at) /\ faults' = faults
        /\ boot' = [boot EXCEPT !.pc = "delete"]
     \/ /\ Refuses(boot.at)
        /\ boot' = [boot EXCEPT !.pc = "clean", !.at = None]
  /\ UNCHANGED <<flow, user, session, request>>

CleanDelete ==
  /\ boot.pc = "delete"
  /\ session' = [session EXCEPT ![boot.at] = NoSession]
  /\ boot' = [boot EXCEPT !.pc = "clean", !.at = None]
  /\ UNCHANGED <<flow, password, user, request, faults>>

\* the lifespan handler yields: requests are served from now on
Serve ==
  /\ boot.pc = "clean" /\ boot.todo = {}
  /\ boot' = [boot EXCEPT !.pc = "up"]
  /\ UNCHANGED <<flow, password, user, session, request, faults>>

-----------------------------------------------------------------------------
Step(q) ==
  \/ Poll(q) \/ Check(q) \/ TurnAway(q) \/ CreateSession(q) \/ ForgetFlow(q)
  \/ Revoke(q) \/ DeleteSession(q)

Startup == Start \/ CleanRevoke \/ CleanDelete \/ Serve \/ \E f \in Flows : CleanNext(f)

SessionNext ==
  \/ \E f \in Flows : \/ Login(f) \/ FlowAges(f) \/ SessionAges(f)
                      \/ \E l \in Accounts : Confirm(f, l)
                      \/ \E q \in Requests : Look(q, f) \/ Invalidate(q, f)
  \/ \E q \in Requests : Step(q)
  \/ \E l \in Logins : Administer(l)
  \/ Startup \/ Crash \/ Stop \/ Halt

SessionSpec == SessionInit /\ [][SessionNext]_sessionVars

\* requests and start-ups proceed, and the API is restarted now and then
SessionFairSpec ==
  /\ SessionSpec
  /\ WF_sessionVars(Startup) /\ WF_sessionVars(Stop) /\ WF_sessionVars(Halt)
  /\ \A q \in Requests : WF_sessionVars(Step(q))

-----------------------------------------------------------------------------
(* Properties.                                                             *)

\* A request passes only with a session this API process has created, not one of
\* an earlier process, whatever failed in the cleanup and whichever key it ran
\* under. (And every variable keeps its type.)
OnlyOwnSessions == SessionTypeOK /\ \A f \in Flows : Accepts(f) => session[f].own

\* The app password of every session that was ever stored is revoked, by some
\* start of the API at the latest.
PasswordsRevoked ==
  \A f \in Flows : session[f].state # "none" ~> password[f].state = "revoked"

=============================================================================

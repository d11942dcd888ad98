--------------------------- MODULE DocumentQueue ---------------------------
(***************************************************************************)
(* What the evidence queue promises per document, with rows, priorities,   *)
(* attempts, crashes and clocks forgotten: a submitted document waits      *)
(* until a worker begins it, at most one worker has it at a time, and it   *)
(* becomes idle again only through the worker that has it.  Specification  *)
(* GraphQueue implements this one (GraphQueue!ImplementsDocumentQueue).    *)
(***************************************************************************)
CONSTANTS Docs, Workers

VARIABLES
  stage,   \* per document: idle, queued (submitted) or working (begun)
  owners   \* per document: the workers that have it

Stages == {"idle", "queued", "working"}

Init ==
  /\ stage = [d \in Docs |-> "idle"]
  /\ owners = [d \in Docs |-> {}]

(* An evidence event names documents; those already under way are absorbed. *)
Submit(D) ==
  /\ stage' = [d \in Docs |-> IF d \in D /\ stage[d] = "idle" THEN "queued" ELSE stage[d]]
  /\ UNCHANGED owners

Begin(d, w) ==
  /\ stage[d] = "queued"
  /\ \A c \in Docs : w \notin owners[c]
  /\ stage' = [stage EXCEPT ![d] = "working"]
  /\ owners' = [owners EXCEPT ![d] = {w}]

(* The owner is through with the document, or puts it back for a retry.    *)
Settle(d, w, next) ==
  /\ stage[d] = "working" /\ owners[d] = {w}
  /\ stage' = [stage EXCEPT ![d] = next]
  /\ owners' = [owners EXCEPT ![d] = {}]

(* The owner died.                                                         *)
Abandon(d, w) ==
  /\ stage[d] = "working" /\ owners[d] = {w}
  /\ owners' = [owners EXCEPT ![d] = {}]
  /\ UNCHANGED stage

(* Documents nobody has any more are queued again.                         *)
Reclaim(D) ==
  /\ \A d \in D : stage[d] = "working" /\ owners[d] = {}
  /\ stage' = [d \in Docs |-> IF d \in D THEN "queued" ELSE stage[d]]
  /\ UNCHANGED owners

Next ==
  \/ \E D \in SUBSET Docs : Submit(D) \/ Reclaim(D)
  \/ \E d \in Docs, w \in Workers :
       Begin(d, w) \/ Abandon(d, w) \/ Settle(d, w, "idle") \/ Settle(d, w, "queued")

Spec == Init /\ [][Next]_<<stage, owners>>

=============================================================================

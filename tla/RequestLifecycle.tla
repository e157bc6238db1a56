-------------------------- MODULE RequestLifecycle --------------------------
(***************************************************************************)
(* What the request table promises its callers, without saying how: each   *)
(* GDPR request walks a fixed graph of statuses, and a request is handed   *)
(* to a worker only while no other worker holds a lease on it.  A lease    *)
(* is not stored anywhere; it is the right a claim confers until the row   *)
(* goes stale.                                                             *)
(***************************************************************************)
CONSTANTS
  Request, Worker,
  NoWorker   \* not a worker

VARIABLES
  status,   \* status[r]: the status column; "NONE" before the row exists
  lease     \* lease[r]: the worker entitled to work on r, or NoWorker

lifecycleVars == <<status, lease>>

Status == {"NONE", "PENDING", "PROCESSING", "COMPLETED", "FAILED",
           "CANCELLED", "EXPIRED"}

Open == {"PENDING", "PROCESSING"}

(* Every request has a status and at most one lease.                       *)
TypeOK ==
  /\ status \in [Request -> Status]
  /\ lease \in [Request -> Worker \cup {NoWorker}]

Init ==
  /\ status = [r \in Request |-> "NONE"]
  /\ lease = [r \in Request |-> NoWorker]

-----------------------------------------------------------------------------
(* One request moves along one edge of the graph.                          *)
Edge(r, from, to) ==
  /\ status[r] \in from
  /\ status' = [status EXCEPT ![r] = to]

Submit(r) == Edge(r, {"NONE"}, "PENDING") /\ UNCHANGED lease

Cancel(r) == Edge(r, Open, "CANCELLED") /\ UNCHANGED lease

Expire(r) == Edge(r, {"COMPLETED"}, "EXPIRED") /\ UNCHANGED lease

(* A claim takes a whole batch at once, and only rows nobody holds.        *)
Grant(w, S) ==
  /\ \A r \in S : status[r] \in Open /\ lease[r] = NoWorker
  /\ status' = [r \in Request |-> IF r \in S THEN "PROCESSING" ELSE status[r]]
  /\ lease' = [r \in Request |-> IF r \in S THEN w ELSE lease[r]]

(* A verdict ends the processing; the worker that gives it may have        *)
(* lost its lease, and keeps no lease of its own on r.                     *)
Decide(r) ==
  /\ \E verdict \in {"COMPLETED", "FAILED"} : Edge(r, {"PROCESSING"}, verdict)
  /\ \/ UNCHANGED lease
     \/ lease' = [lease EXCEPT ![r] = NoWorker]

(* Leases end by time, by a crash of the holder, or by its giving up.      *)
Lapse(S) ==
  /\ lease' = [r \in Request |-> IF r \in S THEN NoWorker ELSE lease[r]]
  /\ UNCHANGED status

Next ==
  \/ \E r \in Request : Submit(r) \/ Cancel(r) \/ Expire(r) \/ Decide(r)
  \/ \E w \in Worker, S \in SUBSET Request : Grant(w, S)
  \/ \E S \in SUBSET Request : Lapse(S)

Spec == Init /\ [][Next]_lifecycleVars
=============================================================================

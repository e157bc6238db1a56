------------------------ MODULE GdprRequests_proofs ------------------------
(***************************************************************************)
(* Proofs about GdprRequests for any number of requests, workers, clients, *)
(* faults and any StaleAfter and BatchSize.                                *)
(*                                                                         *)
(* The lease a claim confers is not a variable.  The inductive invariant   *)
(* says how it can be read off the table: the row of a claimed request is  *)
(* never older than the claim, so that a row old enough to be claimed      *)
(* again has no claim left on it that anybody counts on.                   *)
(***************************************************************************)
EXTENDS GdprRequests, FiniteSetTheorems, TLAPS

-----------------------------------------------------------------------------
(* A worker is idle exactly when its batch is empty.                       *)
IdleIffEmpty == \A w \in Worker : pc[w] = "idle" <=> batch[w] = {}

(* A claimed row never becomes PENDING again.                              *)
ClaimedNotPending ==
  \A w \in Worker : \A r \in batch[w] : status[r] \notin {"NONE", "PENDING"}

(* A row being processed is no older than any claim on it.                 *)
RowNoOlderThanClaim ==
  \A w \in Worker : \A r \in batch[w] :
    status[r] = "PROCESSING" => age[r] <= held[w]

IInv ==
  /\ TypeOK
  /\ IdleIffEmpty
  /\ ClaimedNotPending
  /\ RowNoOlderThanClaim
  /\ ExclusiveLease

-----------------------------------------------------------------------------
(* What the shared pieces of the actions do to the table and the batches.  *)

(* Ages are numbers, and a fresh row has one.                              *)
LEMMA AgeIsNat == Age \subseteq Nat /\ 0 \in Age
BY StaleAssumption DEF Age

(* A row a claim may take is open, and stale if it is being processed.     *)
LEMMA CandidatesAreClaimable ==
  ASSUME NEW rows, NEW limit, NEW r \in Candidates(rows, limit)
  PROVE  /\ r \in rows
         /\ status[r] = "PENDING" \/ (status[r] = "PROCESSING" /\ age[r] > StaleAfter)
BY DEF Candidates, Claimable, Stale

(* A guarded update writes the row it names, or nothing.                   *)
LEMMA GuardedUpdateEffect ==
  ASSUME TableTypeOK, NEW r \in Request, NEW from, NEW to \in Status,
         GuardedUpdate(r, from, to)
  PROVE  /\ TableTypeOK'
         /\ \A q \in Request :
              \/ status'[q] = status[q] /\ age'[q] = age[q]
              \/ q = r /\ status[r] \in from /\ status'[q] = to /\ age'[q] = 0
BY AgeIsNat DEF TableTypeOK, GuardedUpdate, SetStatus, tableVars

(* A worker that proceeds only gives up its current request.               *)
LEMMA ProceedEffect ==
  ASSUME TypeOK, IdleIffEmpty, NEW w \in Worker, NEW r \in batch[w],
         pc[w] # "idle", Proceed(w, r)
  PROVE  /\ pc' \in [Worker -> {"idle", "working", "done", "thrown"}]
         /\ batch' \in [Worker -> SUBSET Request]
         /\ held' \in [Worker -> Age]
         /\ IdleIffEmpty'
         /\ \A v \in Worker : batch'[v] \subseteq batch[v]
         /\ \A v \in Worker : batch'[v] # {} => held'[v] = held[v]
         /\ r \notin batch'[w]
         /\ \A v \in Worker \ {w} : batch'[v] = batch[v]
         /\ \A q \in batch[w] \ {r} : q \in batch'[w]
BY AgeIsNat DEF TypeOK, IdleIffEmpty, Proceed

-----------------------------------------------------------------------------
(* The types, and that a worker is idle exactly when its batch is empty.   *)
LEMMA InitTypes == Init => TypeOK /\ IdleIffEmpty
BY AgeIsNat, FaultsAssumption
   DEF Init, TableInit, TypeOK, TableTypeOK, IdleIffEmpty, Status

(* No step leaves the types; a worker is idle when its batch is empty.     *)
LEMMA StepTypes == TypeOK /\ IdleIffEmpty /\ [Next]_vars => TypeOK' /\ IdleIffEmpty'
<1> SUFFICES ASSUME TypeOK, IdleIffEmpty, [Next]_vars
             PROVE  TypeOK' /\ IdleIffEmpty'
  OBVIOUS
<1> USE AgeIsNat, StaleAssumption, FaultsAssumption
<1>1. ASSUME NEW c \in Client, NEW i \in Identity, RequestChecked(c, i)
      PROVE  TypeOK' /\ IdleIffEmpty'
  BY <1>1 DEF RequestChecked, TypeOK, TableTypeOK, IdleIffEmpty, tableVars,
              workerVars
<1>2. ASSUME NEW c \in Client, RequestCreated(c)
      PROVE  TypeOK' /\ IdleIffEmpty'
  BY <1>2 DEF RequestCreated, createRequest, SetStatus, Status, TypeOK, TableTypeOK,
              IdleIffEmpty, workerVars
<1>3. ASSUME NEW r \in Request, Cancel(r) \/ Expire(r)
      PROVE  TypeOK' /\ IdleIffEmpty'
  <2>1. TableTypeOK'
    BY <1>3, GuardedUpdateEffect
       DEF TypeOK, Cancel, Expire, markRequestCancelled, markRequestExpired, Status
  <2>2. QED
    BY <1>3, <2>1 DEF Cancel, Expire, TypeOK, IdleIffEmpty, workerVars
<1>4. ASSUME NEW w \in Worker, Claim(w)
      PROVE  TypeOK' /\ IdleIffEmpty'
  <2>1. Candidates(Request, BatchSize) \subseteq Request
    BY CandidatesAreClaimable
  <2>2. TableTypeOK'
    BY <1>4 DEF Claim, ClaimRows, TypeOK, TableTypeOK, Status
  <2>3. QED
    BY <1>4, <2>1, <2>2 DEF Claim, TypeOK, IdleIffEmpty
<1>5. ASSUME NEW w \in Worker, Work(w) \/ CompleteThrows(w)
      PROVE  TypeOK' /\ IdleIffEmpty'
  BY <1>5 DEF Work, CompleteThrows, Fault, TypeOK, TableTypeOK, IdleIffEmpty,
              tableVars
<1>6. ASSUME NEW w \in Worker, Complete(w) \/ Fail(w) \/ FailThrows(w)
      PROVE  TypeOK' /\ IdleIffEmpty'
  <2>1. PICK r \in batch[w] : Proceed(w, r) /\ (\/ markRequestCompleted(r)
                                               \/ markRequestFailed(r)
                                               \/ UNCHANGED tableVars)
    BY <1>6 DEF Complete, Fail, FailThrows
  <2>2. r \in Request /\ pc[w] # "idle"
    BY <1>6 DEF TypeOK, Complete, Fail, FailThrows
  <2>3. TableTypeOK'
    BY <2>1, <2>2, GuardedUpdateEffect
       DEF TypeOK, TableTypeOK, markRequestCompleted, markRequestFailed, Status, tableVars
  <2>4. faults' \in 0 .. MaxFaults
    BY <1>6 DEF Complete, Fail, FailThrows, Fault, TypeOK
  <2>5. QED
    BY <1>6, <2>1, <2>2, <2>3, <2>4, ProceedEffect
       DEF Complete, Fail, FailThrows, TypeOK
<1>7. ASSUME NEW w \in Worker, Crash(w)
      PROVE  TypeOK' /\ IdleIffEmpty'
  BY <1>7 DEF Crash, Fault, TypeOK, TableTypeOK, IdleIffEmpty, tableVars
<1>8. CASE Tick
  BY <1>8 DEF Tick, AgeRows, Age, TypeOK, TableTypeOK, IdleIffEmpty
<1>9. CASE UNCHANGED vars
  BY <1>9 DEF vars, TypeOK, TableTypeOK, IdleIffEmpty
<1>10. QED
  BY <1>1, <1>2, <1>3, <1>4, <1>5, <1>6, <1>7, <1>8, <1>9 DEF Next, WorkerStep

(* Every variable keeps its type: in particular the claimed requests of a  *)
(* worker are rows of the table, and no row leaves the statuses of         *)
(* RequestStatus.                                                          *)
THEOREM TypeCorrect == Spec => []TypeOK
<1>1. Spec => [](TypeOK /\ IdleIffEmpty)
  BY InitTypes, StepTypes, PTL DEF Spec
<1>2. QED
  BY <1>1, PTL

-----------------------------------------------------------------------------
(* The lease.  Four kinds of step: those that leave the batches alone and  *)
(* only touch rows; those that end one request of a batch; claims; ticks.  *)
LEMMA InitLease == Init => ClaimedNotPending /\ RowNoOlderThanClaim /\ ExclusiveLease
BY DEF Init, ClaimedNotPending, RowNoOlderThanClaim, ExclusiveLease, Leased

(* Batches only shrink, claims keep their age, and a row either keeps its  *)
(* status and age, or is new, or is closed.                                *)
LEMMA ShrinkKeepsLease ==
  ASSUME IInv, TypeOK',
         \A w \in Worker : batch'[w] \subseteq batch[w],
         \A w \in Worker : batch'[w] # {} => held'[w] = held[w],
         \A r \in Request :
           \/ status'[r] = status[r] /\ age'[r] = age[r]
           \/ /\ status'[r] # "PROCESSING"
              /\ status'[r] \in {"NONE", "PENDING"} => status[r] = "NONE"
  PROVE  ClaimedNotPending' /\ RowNoOlderThanClaim' /\ ExclusiveLease'
<1>1. ASSUME NEW w \in Worker, NEW r \in batch'[w]
      PROVE  r \in batch[w] /\ r \in Request /\ held'[w] = held[w]
  BY <1>1 DEF IInv, TypeOK
<1>2. ClaimedNotPending'
  BY <1>1 DEF IInv, TypeOK, ClaimedNotPending
<1>3. RowNoOlderThanClaim'
  BY <1>1 DEF IInv, RowNoOlderThanClaim
<1>4. ExclusiveLease'
  BY <1>1 DEF IInv, ExclusiveLease, Leased
<1>5. QED
  BY <1>2, <1>3, <1>4

(* The heart of the matter: whoever holds a row that is claimed again has  *)
(* held it for longer than StaleAfter.                                     *)
LEMMA ClaimKeepsLease ==
  ASSUME IInv, TypeOK', NEW w \in Worker, Claim(w)
  PROVE  ClaimedNotPending' /\ RowNoOlderThanClaim' /\ ExclusiveLease'
<1> DEFINE S == Candidates(Request, BatchSize)
<1>1. /\ S \subseteq Request
      /\ \A r \in S : \/ status[r] = "PENDING"
                      \/ status[r] = "PROCESSING" /\ age[r] > StaleAfter
  BY CandidatesAreClaimable
<1> HIDE DEF S
<1>2. /\ status' = [r \in Request |-> IF r \in S THEN "PROCESSING" ELSE status[r]]
      /\ age' = [r \in Request |-> IF r \in S THEN 0 ELSE age[r]]
      /\ batch' = [batch EXCEPT ![w] = S]
      /\ held' = [held EXCEPT ![w] = 0]
      /\ pc[w] = "idle"
  BY DEF Claim, ClaimRows, S
<1>3. \A v \in Worker \ {w} : batch'[v] = batch[v] /\ held'[v] = held[v]
  BY <1>2 DEF IInv, TypeOK
<1>4. batch'[w] = S /\ held'[w] = 0
  BY <1>2 DEF IInv, TypeOK
<1>5. \A v \in Worker : held[v] \in Nat /\ \A r \in batch[v] : r \in Request /\ age[r] \in Nat
  BY AgeIsNat DEF IInv, TypeOK, TableTypeOK
<1>6. ClaimedNotPending'
  BY <1>1, <1>2, <1>3, <1>4, <1>5 DEF IInv, ClaimedNotPending
<1>7. RowNoOlderThanClaim'
  BY <1>1, <1>2, <1>3, <1>4, <1>5 DEF IInv, RowNoOlderThanClaim
<1>8. ASSUME NEW v \in Worker \ {w}, NEW r \in S, r \in batch[v]
      PROVE  ~ (held[v] <= StaleAfter)
  <2>1. status[r] = "PROCESSING" /\ age[r] > StaleAfter
    BY <1>1, <1>8 DEF IInv, ClaimedNotPending
  <2>2. age[r] <= held[v]
    BY <2>1, <1>8 DEF IInv, RowNoOlderThanClaim
  <2>3. QED
    BY <2>1, <2>2, <1>5, <1>8, StaleAssumption
<1>9. ExclusiveLease'
  BY <1>2, <1>3, <1>4, <1>8 DEF IInv, ExclusiveLease, Leased
<1>10. QED
  BY <1>6, <1>7, <1>9

(* Rows being processed and claims age together.                           *)
LEMMA TickKeepsLease ==
  ASSUME IInv, Tick
  PROVE  ClaimedNotPending' /\ RowNoOlderThanClaim' /\ ExclusiveLease'
<1>1. /\ status' = status
      /\ batch' = batch
      /\ age' = [r \in Request |->
                   IF status[r] = "PROCESSING" /\ age[r] <= StaleAfter
                     THEN age[r] + 1 ELSE age[r]]
      /\ held' = [w \in Worker |->
                    IF batch[w] # {} /\ held[w] <= StaleAfter
                      THEN held[w] + 1 ELSE held[w]]
  BY DEF Tick, AgeRows
<1>2. ClaimedNotPending'
  BY <1>1 DEF IInv, ClaimedNotPending
<1>3. ASSUME NEW w \in Worker, NEW r \in batch[w], status[r] = "PROCESSING"
      PROVE  age'[r] <= held'[w]
  <2>1. r \in Request /\ age[r] \in 0 .. StaleAfter + 1 /\ held[w] \in 0 .. StaleAfter + 1
    BY DEF IInv, TypeOK, TableTypeOK, Age
  <2>2. age[r] <= held[w]
    BY <1>3 DEF IInv, RowNoOlderThanClaim
  <2>3. /\ age'[r] = IF age[r] <= StaleAfter THEN age[r] + 1 ELSE age[r]
        /\ held'[w] = IF held[w] <= StaleAfter THEN held[w] + 1 ELSE held[w]
    BY <1>1, <1>3, <2>1
  <2>4. QED
    BY <2>1, <2>2, <2>3, StaleAssumption
<1>4. RowNoOlderThanClaim'
  BY <1>1, <1>3 DEF RowNoOlderThanClaim
<1>5. \A w \in Worker : held'[w] <= StaleAfter => held[w] <= StaleAfter
  BY <1>1, StaleAssumption DEF IInv, TypeOK, Age
<1>6. ExclusiveLease'
  BY <1>1, <1>5 DEF IInv, ExclusiveLease, Leased
<1>7. QED
  BY <1>2, <1>4, <1>6

(* No step lets two workers count on one request: one case per action.     *)
LEMMA StepLease ==
  ASSUME IInv, TypeOK', [Next]_vars
  PROVE  ClaimedNotPending' /\ RowNoOlderThanClaim' /\ ExclusiveLease'
<1> DEFINE Goal == ClaimedNotPending' /\ RowNoOlderThanClaim' /\ ExclusiveLease'
<1>0. TypeOK /\ IdleIffEmpty /\ TableTypeOK
  BY DEF IInv, TypeOK
<1>1. ASSUME NEW c \in Client, NEW i \in Identity, RequestChecked(c, i)
      PROVE  Goal
  BY <1>0, <1>1, ShrinkKeepsLease DEF RequestChecked, tableVars, workerVars
<1>2. ASSUME NEW c \in Client, RequestCreated(c)
      PROVE  Goal
  <2>1. \A r \in Request :
          \/ status'[r] = status[r] /\ age'[r] = age[r]
          \/ status'[r] = "PENDING" /\ status[r] = "NONE"
    BY <1>0, <1>2 DEF RequestCreated, createRequest, SetStatus, TableTypeOK
  <2>2. QED
    BY <1>0, <1>2, <2>1, ShrinkKeepsLease DEF RequestCreated, workerVars
<1>3. ASSUME NEW r \in Request, Cancel(r) \/ Expire(r)
      PROVE  Goal
  <2>1. \A q \in Request :
          \/ status'[q] = status[q] /\ age'[q] = age[q]
          \/ status'[q] \in {"CANCELLED", "EXPIRED"}
    BY <1>0, <1>3, GuardedUpdateEffect
       DEF Cancel, Expire, markRequestCancelled, markRequestExpired, Status
  <2>2. QED
    BY <1>0, <1>3, <2>1, ShrinkKeepsLease DEF Cancel, Expire, workerVars
<1>4. ASSUME NEW w \in Worker, Claim(w)
      PROVE  Goal
  BY <1>4, ClaimKeepsLease
<1>5. ASSUME NEW w \in Worker, Work(w) \/ CompleteThrows(w)
      PROVE  Goal
  BY <1>0, <1>5, ShrinkKeepsLease DEF Work, CompleteThrows, tableVars
<1>6. ASSUME NEW w \in Worker, Complete(w) \/ Fail(w) \/ FailThrows(w)
      PROVE  Goal
  <2>1. PICK r \in batch[w] : Proceed(w, r) /\ (\/ markRequestCompleted(r)
                                               \/ markRequestFailed(r)
                                               \/ UNCHANGED tableVars)
    BY <1>6 DEF Complete, Fail, FailThrows
  <2>2. r \in Request /\ pc[w] # "idle"
    BY <1>0, <1>6 DEF TypeOK, Complete, Fail, FailThrows
  <2>3. \A q \in Request :
          \/ status'[q] = status[q] /\ age'[q] = age[q]
          \/ status'[q] \in {"COMPLETED", "FAILED"}
    BY <1>0, <2>1, <2>2, GuardedUpdateEffect
       DEF markRequestCompleted, markRequestFailed, Status, tableVars
  <2>4. /\ \A v \in Worker : batch'[v] \subseteq batch[v]
        /\ \A v \in Worker : batch'[v] # {} => held'[v] = held[v]
    BY <1>0, <2>1, <2>2, ProceedEffect
  <2>5. QED
    BY <1>0, <2>3, <2>4, ShrinkKeepsLease
<1>7. ASSUME NEW w \in Worker, Crash(w)
      PROVE  Goal
  <2>1. /\ \A v \in Worker : batch'[v] \subseteq batch[v]
        /\ \A v \in Worker : batch'[v] # {} => held'[v] = held[v]
    BY <1>0, <1>7 DEF Crash, TypeOK
  <2>2. QED
    BY <1>0, <1>7, <2>1, ShrinkKeepsLease DEF Crash, tableVars
<1>8. CASE Tick
  BY <1>8, TickKeepsLease
<1>9. CASE UNCHANGED vars
  BY <1>0, <1>9, ShrinkKeepsLease DEF vars
<1>10. QED
  BY <1>1, <1>2, <1>3, <1>4, <1>5, <1>6, <1>7, <1>8, <1>9 DEF Next, WorkerStep

(* The inductive invariant holds in every state.                           *)
LEMMA Invariance == Spec => []IInv
<1>1. Init => IInv
  BY InitTypes, InitLease DEF IInv
<1>2. IInv /\ [Next]_vars => IInv'
  BY StepTypes, StepLease DEF IInv
<1>3. QED
  BY <1>1, <1>2, PTL DEF Spec

(* Two workers never count on the same request at the same time, however   *)
(* many workers, requests, crashes and database errors there are.          *)
THEOREM LeaseIsExclusive == Spec => []ExclusiveLease
<1>1. IInv => ExclusiveLease
  BY DEF IInv
<1>2. QED
  BY <1>1, Invariance, PTL

-----------------------------------------------------------------------------
(* The refinement of RequestLifecycle.                                     *)
LEMMA LeaseOf ==
  ASSUME ExclusiveLease, NEW r \in Request
  PROVE  /\ \A w \in Worker : Leased(w, r) => lease[r] = w
         /\ (\A w \in Worker : ~ Leased(w, r)) => lease[r] = NoWorker
<1>1. ASSUME NEW w \in Worker, Leased(w, r)
      PROVE  lease[r] = w
  <2>1. \A v \in Worker : Leased(v, r) <=> v = w
    BY <1>1 DEF ExclusiveLease
  <2>2. QED
    BY <1>1, <2>1 DEF lease
<1>2. QED
  BY <1>1 DEF lease

(* The same one state later.                                               *)
LEMMA LeaseOfNext ==
  ASSUME ExclusiveLease', NEW r \in Request
  PROVE  /\ \A w \in Worker : Leased(w, r)' => lease'[r] = w
         /\ (\A w \in Worker : ~ Leased(w, r)') => lease'[r] = NoWorker
<1>1. ASSUME NEW w \in Worker, Leased(w, r)'
      PROVE  lease'[r] = w
  <2>1. \A v \in Worker : Leased(v, r)' <=> v = w
    BY <1>1 DEF ExclusiveLease
  <2>2. QED
    BY <1>1, <2>1 DEF lease
<1>2. QED
  BY <1>1 DEF lease

(* A step after which nobody has a lease it had not before is, for the     *)
(* leases, a lapse of those that ended.                                    *)
LEMMA LeasesLapse ==
  ASSUME IInv, IInv',
         \A w \in Worker, r \in Request : Leased(w, r)' => Leased(w, r)
  PROVE  lease' = [r \in Request |->
                    IF r \in {q \in Request : \A w \in Worker : ~ Leased(w, q)'}
                      THEN NoWorker ELSE lease[r]]
<1>1. \A r \in Request :
        lease'[r] = IF \A w \in Worker : ~ Leased(w, r)' THEN NoWorker ELSE lease[r]
  BY LeaseOf, LeaseOfNext DEF IInv
<1>2. lease' = [r \in Request |-> lease'[r]]
  BY DEF lease
<1>3. QED
  BY <1>1, <1>2

(* A step that leaves the batches and claims alone leaves the leases alone.*)
LEMMA LeasesStay ==
  ASSUME batch' = batch, held' = held
  PROVE  lease' = lease
<1>1. \A w \in Worker, r \in Request : Leased(w, r)' <=> Leased(w, r)
  BY DEF Leased
<1>2. \A r \in Request :
        (CHOOSE w \in Worker : Leased(w, r)') = (CHOOSE w \in Worker : Leased(w, r))
  BY <1>1
<1>3. QED
  BY <1>1, <1>2 DEF lease

(* A guarded update moves along one edge of the graph, or nowhere.         *)
LEMMA GuardedUpdateIsEdge ==
  ASSUME TableTypeOK, NEW r \in Request, NEW from, NEW to, GuardedUpdate(r, from, to)
  PROVE  Lifecycle!Edge(r, from, to) \/ status' = status
BY DEF GuardedUpdate, SetStatus, tableVars, Lifecycle!Edge

(* A claim is a grant: nobody holds a lease on what it takes.              *)
LEMMA ClaimIsGrant ==
  ASSUME IInv, IInv', NEW w \in Worker, Claim(w)
  PROVE  Lifecycle!Next
<1> DEFINE S == Candidates(Request, BatchSize)
<1>1. /\ S \subseteq Request
      /\ \A r \in S : \/ status[r] = "PENDING"
                      \/ status[r] = "PROCESSING" /\ age[r] > StaleAfter
  BY CandidatesAreClaimable
<1> HIDE DEF S
<1>2. /\ status' = [r \in Request |-> IF r \in S THEN "PROCESSING" ELSE status[r]]
      /\ batch' = [batch EXCEPT ![w] = S]
      /\ held' = [held EXCEPT ![w] = 0]
      /\ batch[w] = {}
  BY DEF Claim, ClaimRows, S, IInv, IdleIffEmpty
<1>3. /\ \A v \in Worker \ {w}, r \in Request : Leased(v, r)' <=> Leased(v, r)
      /\ \A r \in Request : Leased(w, r)' <=> r \in S
      /\ \A r \in Request : ~ Leased(w, r)
  BY <1>2, StaleAssumption DEF IInv, TypeOK, Leased
<1>4. ASSUME NEW r \in S, NEW v \in Worker
      PROVE  ~ Leased(v, r)
  <2>1. CASE v = w
    BY <2>1, <1>1, <1>3
  <2>2. CASE v # w
    <3>1. Leased(v, r)' => ~ Leased(w, r)'
      BY <1>2, <2>2, <1>1 DEF IInv, ExclusiveLease
    <3>2. QED
      BY <3>1, <2>2, <1>1, <1>3
  <2>3. QED
    BY <2>1, <2>2
<1>5. \A r \in S : Lifecycle!Open = {"PENDING", "PROCESSING"}
                  /\ status[r] \in Lifecycle!Open /\ lease[r] = NoWorker
  BY <1>1, <1>4, LeaseOf DEF IInv, Lifecycle!Open
<1>6. \A r \in Request : lease'[r] = IF r \in S THEN w ELSE lease[r]
  <2>1. ASSUME NEW r \in S
        PROVE  lease'[r] = w
    BY <1>1, <1>2, <1>3, LeaseOfNext DEF IInv
  <2>2. ASSUME NEW r \in Request \ S
        PROVE  lease'[r] = lease[r]
    <3>1. \A v \in Worker : Leased(v, r)' <=> Leased(v, r)
      BY <1>3
    <3>2. QED
      BY <3>1, <1>2, LeaseOf, LeaseOfNext DEF IInv
  <2>3. QED
    BY <2>1, <2>2
<1>7. lease' = [r \in Request |-> IF r \in S THEN w ELSE lease[r]]
  <2>1. lease' = [r \in Request |-> lease'[r]]
    BY DEF lease
  <2>2. QED
    BY <1>6, <2>1
<1>8. Lifecycle!Grant(w, S)
  BY <1>2, <1>5, <1>7 DEF Lifecycle!Grant
<1>9. QED
  BY <1>1, <1>8 DEF Lifecycle!Next

(* A worker that ends a request: with a verdict on a row still PROCESSING, *)
(* otherwise it just drops it.                                             *)
LEMMA EndIsDecideOrLapse ==
  ASSUME IInv, IInv',
         NEW w \in Worker, NEW r \in batch[w], pc[w] # "idle", Proceed(w, r),
         NEW to \in {"COMPLETED", "FAILED"},
         GuardedUpdate(r, {"PROCESSING"}, to) \/ UNCHANGED tableVars
  PROVE  Lifecycle!Next
<1>0. r \in Request /\ TypeOK /\ TableTypeOK /\ IdleIffEmpty
  BY DEF IInv, TypeOK
<1>1. /\ \A v \in Worker, q \in Request : Leased(v, q)' => Leased(v, q)
      /\ \A v \in Worker, q \in Request \ {r} : Leased(v, q) => Leased(v, q)'
      /\ \A v \in Worker \ {w} : Leased(v, r) <=> Leased(v, r)'
  <2>1. /\ \A v \in Worker : batch'[v] \subseteq batch[v]
        /\ \A v \in Worker : batch'[v] # {} => held'[v] = held[v]
        /\ \A v \in Worker \ {w} : batch'[v] = batch[v]
        /\ \A q \in batch[w] \ {r} : q \in batch'[w]
    BY <1>0, ProceedEffect
  <2>2. QED
    BY <2>1 DEF Leased
<1>2. CASE status' = status
  <2>1. Lifecycle!Lapse({q \in Request : \A v \in Worker : ~ Leased(v, q)'})
    BY <1>1, <1>2, LeasesLapse DEF Lifecycle!Lapse
  <2>2. QED
    BY <2>1 DEF Lifecycle!Next
<1>3. CASE Lifecycle!Edge(r, {"PROCESSING"}, to)
  <2>1. \A q \in Request \ {r} : lease'[q] = lease[q]
    <3>1. ASSUME NEW q \in Request \ {r}
          PROVE  \A v \in Worker : Leased(v, q)' <=> Leased(v, q)
      BY <1>1
    <3>2. QED
      BY <3>1, LeaseOf, LeaseOfNext DEF IInv
  <2>2. lease'[r] = lease[r] \/ lease'[r] = NoWorker
    BY <1>0, <1>1, LeaseOf, LeaseOfNext DEF IInv
  <2>3. lease' = [q \in Request |-> lease'[q]] /\ lease = [q \in Request |-> lease[q]]
    BY DEF lease
  <2>4. lease' = lease \/ lease' = [lease EXCEPT ![r] = NoWorker]
    BY <1>0, <2>1, <2>2, <2>3
  <2>5. Lifecycle!Decide(r)
    BY <1>3, <2>4 DEF Lifecycle!Decide
  <2>6. QED
    BY <1>0, <2>5 DEF Lifecycle!Next
<1>4. QED
  BY <1>0, <1>2, <1>3, GuardedUpdateIsEdge DEF tableVars

(* Every step is a step or a stutter of RequestLifecycle.                  *)
LEMMA StepRefines ==
  ASSUME IInv, IInv', [Next]_vars
  PROVE  [Lifecycle!Next]_(Lifecycle!lifecycleVars)
<1> DEFINE Goal == Lifecycle!Next \/ UNCHANGED <<status, lease>>
<1>0. TypeOK /\ TableTypeOK
  BY DEF IInv, TypeOK
<1>1. ASSUME NEW c \in Client, NEW i \in Identity, RequestChecked(c, i)
      PROVE  Goal
  BY <1>1, LeasesStay DEF RequestChecked, tableVars, workerVars
<1>2. ASSUME NEW c \in Client, RequestCreated(c)
      PROVE  Goal
  <2>1. PICK r \in Request : createRequest(r)
    BY <1>2 DEF RequestCreated
  <2>2. Lifecycle!Submit(r)
    BY <1>2, <2>1, LeasesStay
       DEF RequestCreated, createRequest, SetStatus, workerVars, Lifecycle!Submit,
           Lifecycle!Edge
  <2>3. QED
    BY <2>2 DEF Lifecycle!Next
<1>3. ASSUME NEW r \in Request, Cancel(r)
      PROVE  Goal
  <2>1. lease' = lease
    BY <1>3, LeasesStay DEF Cancel, workerVars
  <2>2. Lifecycle!Edge(r, {"PENDING", "PROCESSING"}, "CANCELLED") \/ status' = status
    BY <1>0, <1>3, GuardedUpdateIsEdge DEF Cancel, markRequestCancelled
  <2>3. QED
    BY <2>1, <2>2 DEF Lifecycle!Next, Lifecycle!Cancel, Lifecycle!Open
<1>4. ASSUME NEW r \in Request, Expire(r)
      PROVE  Goal
  <2>1. lease' = lease
    BY <1>4, LeasesStay DEF Expire, workerVars
  <2>2. Lifecycle!Edge(r, {"COMPLETED"}, "EXPIRED") \/ status' = status
    BY <1>0, <1>4, GuardedUpdateIsEdge DEF Expire, markRequestExpired
  <2>3. QED
    BY <2>1, <2>2 DEF Lifecycle!Next, Lifecycle!Expire
<1>5. ASSUME NEW w \in Worker, Claim(w)
      PROVE  Goal
  BY <1>0, <1>5, ClaimIsGrant
<1>6. ASSUME NEW w \in Worker, Work(w) \/ CompleteThrows(w)
      PROVE  Goal
  BY <1>6, LeasesStay DEF Work, CompleteThrows, tableVars
<1>7. ASSUME NEW w \in Worker, Complete(w) \/ Fail(w) \/ FailThrows(w)
      PROVE  Goal
  <2>1. PICK r \in batch[w] : /\ Proceed(w, r)
                              /\ \/ GuardedUpdate(r, {"PROCESSING"}, "COMPLETED")
                                 \/ GuardedUpdate(r, {"PROCESSING"}, "FAILED")
                                 \/ UNCHANGED tableVars
    BY <1>7 DEF Complete, Fail, FailThrows, markRequestCompleted, markRequestFailed
  <2>2. pc[w] # "idle"
    BY <1>7 DEF Complete, Fail, FailThrows
  <2>3. QED
    BY <1>0, <2>1, <2>2, EndIsDecideOrLapse
<1>8. ASSUME NEW w \in Worker, Crash(w)
      PROVE  Goal
  <2>1. \A v \in Worker, r \in Request : Leased(v, r)' => Leased(v, r)
    BY <1>0, <1>8 DEF Crash, TypeOK, Leased
  <2>2. status' = status
    BY <1>8 DEF Crash, tableVars
  <2>3. Lifecycle!Lapse({q \in Request : \A v \in Worker : ~ Leased(v, q)'})
    BY <1>0, <2>1, <2>2, LeasesLapse DEF Lifecycle!Lapse
  <2>4. QED
    BY <2>3 DEF Lifecycle!Next
<1>9. CASE Tick
  <2>1. \A v \in Worker, r \in Request : Leased(v, r)' => Leased(v, r)
    BY <1>0, <1>9, StaleAssumption DEF Tick, TypeOK, Leased, Age
  <2>2. status' = status
    BY <1>9 DEF Tick, AgeRows
  <2>3. Lifecycle!Lapse({q \in Request : \A v \in Worker : ~ Leased(v, q)'})
    BY <1>0, <2>1, <2>2, LeasesLapse DEF Lifecycle!Lapse
  <2>4. QED
    BY <2>3 DEF Lifecycle!Next
<1>10. CASE UNCHANGED vars
  BY <1>10, LeasesStay DEF vars, Lifecycle!lifecycleVars
<1>11. QED
  BY <1>1, <1>2, <1>3, <1>4, <1>5, <1>6, <1>7, <1>8, <1>9, <1>10
     DEF Next, WorkerStep, Lifecycle!lifecycleVars

(* The table with its workers implements RequestLifecycle: every change of *)
(* a status is an edge of the graph, and a claim takes no request from a   *)
(* worker that holds a lease on it.                                        *)
THEOREM RefinesLifecycle == Spec => ImplementsLifecycle
<1>1. Init => Lifecycle!Init
  <2>1. Init => lease = [r \in Request |-> NoWorker]
    BY DEF Init, lease, Leased
  <2>2. QED
    BY <2>1 DEF Init, TableInit, Lifecycle!Init
<1>2. IInv /\ IInv' /\ [Next]_vars => [Lifecycle!Next]_(Lifecycle!lifecycleVars)
  BY StepRefines
<1>3. QED
  BY <1>1, <1>2, Invariance, PTL DEF Spec, ImplementsLifecycle, Lifecycle!Spec

-----------------------------------------------------------------------------
(* One open request per identity, when the endpoint is called by one       *)
(* client at a time.                                                       *)
CheckStillGood ==
  \A c \in Client : calling[c] # NoIdentity =>
    \A r \in Request : Open(r) => owner[r] # calling[c]

(* No step but RequestCreated opens a request.                             *)
LEMMA NothingOpens ==
  ASSUME OneOpenRequest, CheckStillGood, owner' = owner, calling' = calling,
         \A r \in Request : Open(r)' => Open(r)
  PROVE  OneOpenRequest' /\ CheckStillGood'
BY DEF OneOpenRequest, CheckStillGood

(* With one client, an insert still finds what its check found.            *)
LEMMA StepOneOpen ==
  ASSUME IInv, OneOpenRequest, CheckStillGood,
         \A c, d \in Client : c = d, [Next]_vars
  PROVE  OneOpenRequest' /\ CheckStillGood'
<1> DEFINE Goal == OneOpenRequest' /\ CheckStillGood'
<1>0. TypeOK /\ TableTypeOK
  BY DEF IInv, TypeOK
<1>1. ASSUME NEW c \in Client, NEW i \in Identity, RequestChecked(c, i)
      PROVE  Goal
  BY <1>0, <1>1 DEF RequestChecked, hasPendingRequest, tableVars, TypeOK, Open,
                    OneOpenRequest, CheckStillGood
<1>2. ASSUME NEW c \in Client, RequestCreated(c)
      PROVE  Goal
  <2>1. PICK r \in Request : createRequest(r) /\ owner' = [owner EXCEPT ![r] = calling[c]]
    BY <1>2 DEF RequestCreated
  <2>2. calling[c] # NoIdentity /\ calling' = [calling EXCEPT ![c] = NoIdentity]
    BY <1>2 DEF RequestCreated
  <2>3. \A d \in Client : calling'[d] = NoIdentity
    BY <1>0, <2>2 DEF TypeOK
  <2>4. \A q \in Request \ {r} : (Open(q)' <=> Open(q)) /\ owner'[q] = owner[q]
    BY <1>0, <2>1 DEF createRequest, SetStatus, Open, TypeOK, TableTypeOK
  <2>5. owner'[r] = calling[c]
    BY <1>0, <2>1 DEF TypeOK
  <2>6. \A q \in Request : Open(q) => owner[q] # calling[c]
    BY <2>2 DEF CheckStillGood
  <2>7. OneOpenRequest'
    BY <2>4, <2>5, <2>6 DEF OneOpenRequest
  <2>8. QED
    BY <2>3, <2>7 DEF CheckStillGood
<1>3. ASSUME NEW r \in Request, Cancel(r) \/ Expire(r)
      PROVE  Goal
  <2>1. \A q \in Request : status'[q] = status[q] \/ status'[q] \in {"CANCELLED", "EXPIRED"}
    BY <1>0, <1>3, GuardedUpdateEffect
       DEF Cancel, Expire, markRequestCancelled, markRequestExpired, Status
  <2>2. QED
    BY <1>3, <2>1, NothingOpens DEF Cancel, Expire, Open
<1>4. ASSUME NEW w \in Worker, Claim(w)
      PROVE  Goal
  <2>1. \A r \in Request : Open(r)' => Open(r)
    BY <1>4, CandidatesAreClaimable DEF Claim, ClaimRows, Open
  <2>2. QED
    BY <1>4, <2>1, NothingOpens DEF Claim
<1>5. ASSUME NEW w \in Worker,
             Work(w) \/ CompleteThrows(w) \/ FailThrows(w) \/ Crash(w)
      PROVE  Goal
  BY <1>5, NothingOpens DEF Work, CompleteThrows, FailThrows, Crash, tableVars, Open
<1>6. ASSUME NEW w \in Worker, Complete(w) \/ Fail(w)
      PROVE  Goal
  <2>1. PICK r \in batch[w] : markRequestCompleted(r) \/ markRequestFailed(r)
    BY <1>6 DEF Complete, Fail
  <2>2. \A q \in Request : status'[q] = status[q] \/ status'[q] \in {"COMPLETED", "FAILED"}
    BY <1>0, <2>1, GuardedUpdateEffect
       DEF markRequestCompleted, markRequestFailed, Status, TypeOK
  <2>3. QED
    BY <1>6, <2>2, NothingOpens DEF Complete, Fail, Open
<1>7. CASE Tick
  BY <1>7, NothingOpens DEF Tick, AgeRows, Open
<1>8. CASE UNCHANGED vars
  BY <1>8, NothingOpens DEF vars, Open
<1>9. QED
  BY <1>1, <1>2, <1>3, <1>4, <1>5, <1>6, <1>7, <1>8 DEF Next, WorkerStep

(* As long as the endpoint handles one call at a time, whatever workers,   *)
(* cancellations and crashes do between its check and its insert, an       *)
(* identity never has two open requests of one type.                       *)
THEOREM OneOpenRequestPerIdentity ==
  ASSUME \A c, d \in Client : c = d
  PROVE  Spec => []OneOpenRequest
<1>1. Init => OneOpenRequest /\ CheckStillGood
  BY DEF Init, TableInit, OneOpenRequest, CheckStillGood, Open
<1>2. IInv /\ OneOpenRequest /\ CheckStillGood /\ [Next]_vars
        => OneOpenRequest' /\ CheckStillGood'
  BY StepOneOpen
<1>3. QED
  BY <1>1, <1>2, Invariance, PTL DEF Spec

-----------------------------------------------------------------------------
(* What the claim statement takes: ORDER BY and LIMIT.                     *)
Existing == {r \in Request : status[r] # "NONE"}
Claimables(rows) == {r \in rows : Claimable(r)}
Ahead(rows, r) == {q \in Claimables(rows) : ClaimedBefore(q, r)}

(* The order of the statement is a total one on the rows it may take.      *)
LEMMA ClaimOrder ==
  ASSUME NEW rows \in SUBSET Request, NEW x \in Claimables(rows),
         NEW q \in Claimables(rows), NEW r \in Claimables(rows)
  PROVE  /\ ~ ClaimedBefore(r, r)
         /\ ClaimedBefore(x, q) /\ ClaimedBefore(q, r) => ClaimedBefore(x, r)
         /\ q # r => ClaimedBefore(q, r) \/ ClaimedBefore(r, q)
<1>1. /\ status[x] \in {"PENDING", "PROCESSING"} /\ status[q] \in {"PENDING", "PROCESSING"}
      /\ status[r] \in {"PENDING", "PROCESSING"}
  BY DEF Claimables, Claimable, Stale
<1>2. x \in Nat /\ q \in Nat /\ r \in Nat
  BY RequestAssumption DEF Claimables
<1>3. QED
  BY <1>1, <1>2 DEF ClaimedBefore

(* Rows that come earlier have fewer rows ahead of them.                   *)
LEMMA AheadGrows ==
  ASSUME NEW rows \in SUBSET Request, IsFiniteSet(Claimables(rows)),
         NEW q \in Claimables(rows), NEW r \in Claimables(rows), ClaimedBefore(q, r)
  PROVE  /\ Cardinality(Ahead(rows, q)) \in Nat /\ Cardinality(Ahead(rows, r)) \in Nat
         /\ Cardinality(Ahead(rows, q)) < Cardinality(Ahead(rows, r))
<1>1. Ahead(rows, r) \in SUBSET Claimables(rows)
  BY DEF Ahead
<1>2. IsFiniteSet(Ahead(rows, r))
  BY <1>1, FS_Subset
<1>3. Ahead(rows, q) \in SUBSET Ahead(rows, r)
  BY ClaimOrder DEF Ahead
<1>4. IsFiniteSet(Ahead(rows, q))
  BY <1>2, <1>3, FS_Subset
<1>5. q \in Ahead(rows, r) /\ q \notin Ahead(rows, q)
  BY ClaimOrder DEF Ahead
<1>6. /\ Cardinality(Ahead(rows, q)) <= Cardinality(Ahead(rows, r))
      /\ Cardinality(Ahead(rows, r)) = Cardinality(Ahead(rows, q))
           => Ahead(rows, r) = Ahead(rows, q)
  BY <1>2, <1>3, FS_Subset
<1>7. Cardinality(Ahead(rows, q)) \in Nat /\ Cardinality(Ahead(rows, r)) \in Nat
  BY <1>2, <1>4, FS_CardinalityType
<1>8. QED
  BY <1>5, <1>6, <1>7

(* LIMIT: no claim takes more than it may.                                 *)
LEMMA CandidatesAreFew ==
  ASSUME NEW rows \in SUBSET Request, NEW limit \in Nat, IsFiniteSet(Claimables(rows))
  PROVE  /\ IsFiniteSet(Candidates(rows, limit))
         /\ Cardinality(Candidates(rows, limit)) <= limit
<1> DEFINE S == Candidates(rows, limit)
           T == 0 .. limit - 1
           f == [r \in S |-> Cardinality(Ahead(rows, r))]
<1>1. S = {r \in Claimables(rows) : Cardinality(Ahead(rows, r)) < limit}
  BY DEF Candidates, Claimables, Ahead
<1>2. \A r \in S : Cardinality(Ahead(rows, r)) \in T
  <2>1. SUFFICES ASSUME NEW r \in S
                 PROVE  Cardinality(Ahead(rows, r)) \in T
    OBVIOUS
  <2>2. Cardinality(Ahead(rows, r)) < limit
    BY <1>1
  <2>3. Ahead(rows, r) \in SUBSET Claimables(rows)
    BY DEF Ahead
  <2>4. Cardinality(Ahead(rows, r)) \in Nat
    BY <2>3, FS_Subset, FS_CardinalityType
  <2>5. QED
    BY <2>2, <2>4
<1>3. \A q, r \in S : f[q] = f[r] => q = r
  <2>1. SUFFICES ASSUME NEW q \in S, NEW r \in S, q # r
                 PROVE  Cardinality(Ahead(rows, q)) # Cardinality(Ahead(rows, r))
    OBVIOUS
  <2>2. q \in Claimables(rows) /\ r \in Claimables(rows)
    BY <1>1
  <2>3. ClaimedBefore(q, r) \/ ClaimedBefore(r, q)
    BY <2>1, <2>2, ClaimOrder
  <2>4. QED
    BY <2>2, <2>3, AheadGrows
<1>4. f \in Injection(S, T)
  <2>1. f \in [S -> T]
    BY <1>2
  <2>2. IsInjective(f)
    BY <1>3 DEF IsInjective
  <2>3. QED
    BY <2>1, <2>2 DEF Injection
<1>5. IsFiniteSet(T) /\ Cardinality(T) = limit
  <2>1. 0 \in Int /\ limit - 1 \in Int
    OBVIOUS
  <2>2. IsFiniteSet(T) /\ Cardinality(T) = IF 0 > limit - 1 THEN 0 ELSE limit - 1 - 0 + 1
    BY <2>1, FS_Interval
  <2>3. QED
    BY <2>2
<1>6. IsFiniteSet(S) /\ Cardinality(S) <= Cardinality(T)
  BY <1>4, <1>5, FS_Injection
<1>7. QED
  BY <1>5, <1>6

(* ORDER BY: what comes before a row that is taken is taken too.           *)
LEMMA CandidatesComeFirst ==
  ASSUME NEW rows \in SUBSET Request, NEW limit \in Nat, IsFiniteSet(Claimables(rows)),
         NEW r \in Candidates(rows, limit), NEW q \in rows, Claimable(q),
         ClaimedBefore(q, r)
  PROVE  q \in Candidates(rows, limit)
<1>1. /\ r \in Claimables(rows) /\ q \in Claimables(rows)
      /\ Cardinality(Ahead(rows, r)) < limit
  BY DEF Candidates, Claimables, Ahead
<1>2. /\ Cardinality(Ahead(rows, q)) \in Nat /\ Cardinality(Ahead(rows, r)) \in Nat
      /\ Cardinality(Ahead(rows, q)) < Cardinality(Ahead(rows, r))
  BY <1>1, AheadGrows
<1>3. Cardinality(Ahead(rows, q)) < limit
  BY <1>1, <1>2
<1>4. QED
  BY <1>1, <1>3 DEF Candidates, Claimables, Ahead

(* Only finitely many rows exist at any time.                              *)
LEMMA ExistingStaysFinite ==
  ASSUME TypeOK, IsFiniteSet(Existing), [Next]_vars
  PROVE  IsFiniteSet(Existing')
<1>0. TableTypeOK
  BY DEF TypeOK
<1>1. ASSUME NEW r \in Request, createRequest(r)
      PROVE  IsFiniteSet(Existing')
  <2>1. Existing' \in SUBSET (Existing \cup {r})
    BY <1>0, <1>1 DEF createRequest, SetStatus, Existing, TableTypeOK
  <2>2. QED
    BY <2>1, FS_AddElement, FS_Subset
<1>2. ASSUME Existing' \subseteq Existing
      PROVE  IsFiniteSet(Existing')
  BY <1>2, FS_Subset
<1>3. ASSUME NEW r \in Request, NEW from, NEW to \in Status, "NONE" \notin from,
             GuardedUpdate(r, from, to)
      PROVE  Existing' \subseteq Existing
  BY <1>0, <1>3, GuardedUpdateEffect DEF Existing
<1>4. ASSUME NEW w \in Worker, Claim(w)
      PROVE  Existing' \subseteq Existing
  BY <1>4, CandidatesAreClaimable DEF Claim, ClaimRows, Existing
<1>5. ASSUME UNCHANGED status
      PROVE  Existing' \subseteq Existing
  BY <1>5 DEF Existing
<1>6. ASSUME NEW r \in Request, Cancel(r) \/ Expire(r)
      PROVE  Existing' \subseteq Existing
  BY <1>3, <1>6 DEF Cancel, Expire, markRequestCancelled, markRequestExpired, Status
<1>7. ASSUME NEW w \in Worker, Complete(w) \/ Fail(w)
      PROVE  Existing' \subseteq Existing
  <2>1. batch[w] \subseteq Request
    BY DEF TypeOK
  <2>2. PICK r \in Request : markRequestCompleted(r) \/ markRequestFailed(r)
    BY <1>7, <2>1 DEF Complete, Fail
  <2>3. QED
    BY <1>3, <2>2 DEF markRequestCompleted, markRequestFailed, Status
<1>8. QED
  BY <1>1, <1>2, <1>4, <1>5, <1>6, <1>7
     DEF Next, WorkerStep, vars, tableVars, RequestCreated, RequestChecked, Work,
         CompleteThrows, FailThrows, Crash, Tick, AgeRows

(* A worker has never more than BatchSize requests in hand: a batch only   *)
(* shrinks until the next claim.                                           *)
BatchesAreBounded ==
  \A w \in Worker : IsFiniteSet(batch[w]) /\ Cardinality(batch[w]) <= BatchSize

(* PENDING rows first and then the stale ones, each by age: a claim leaves *)
(* no row behind that comes before one it takes.                           *)
QueueIsRespected ==
  [][\A w \in Worker : \A r \in batch'[w] \ batch[w], q \in Request :
       Claimable(q) /\ ClaimedBefore(q, r) => q \in batch'[w]]_vars

LEMMA ClaimablesAreFinite ==
  ASSUME IsFiniteSet(Existing)
  PROVE  IsFiniteSet(Claimables(Request))
<1>1. Claimables(Request) \in SUBSET Existing
  BY DEF Claimables, Claimable, Stale, Existing
<1>2. QED
  BY <1>1, FS_Subset

LEMMA BatchesStayBounded ==
  ASSUME TypeOK, IsFiniteSet(Existing), BatchesAreBounded, [Next]_vars
  PROVE  BatchesAreBounded'
<1> SUFFICES ASSUME NEW w \in Worker
             PROVE  IsFiniteSet(batch'[w]) /\ Cardinality(batch'[w]) <= BatchSize
  BY DEF BatchesAreBounded
<1>0. batch \in [Worker -> SUBSET Request] /\ BatchSize \in Nat
  BY BatchAssumption DEF TypeOK
<1>1. ASSUME batch'[w] \in SUBSET batch[w]
      PROVE  IsFiniteSet(batch'[w]) /\ Cardinality(batch'[w]) <= BatchSize
  <2>1. IsFiniteSet(batch[w]) /\ Cardinality(batch[w]) <= BatchSize
    BY DEF BatchesAreBounded
  <2>2. IsFiniteSet(batch'[w]) /\ Cardinality(batch'[w]) <= Cardinality(batch[w])
    BY <1>1, <2>1, FS_Subset
  <2>3. Cardinality(batch'[w]) \in Nat /\ Cardinality(batch[w]) \in Nat
    BY <2>1, <2>2, FS_CardinalityType
  <2>4. QED
    BY <1>0, <2>1, <2>2, <2>3
<1>2. ASSUME NEW v \in Worker, Claim(v)
      PROVE  IsFiniteSet(batch'[w]) /\ Cardinality(batch'[w]) <= BatchSize
  <2>1. CASE v = w
    BY <1>0, <1>2, <2>1, ClaimablesAreFinite, CandidatesAreFew DEF Claim
  <2>2. CASE v # w
    BY <1>0, <1>1, <1>2, <2>2 DEF Claim
  <2>3. QED
    BY <2>1, <2>2
<1>3. ASSUME NEW v \in Worker, Complete(v) \/ Fail(v) \/ FailThrows(v)
      PROVE  batch'[w] \in SUBSET batch[w]
  BY <1>0, <1>3 DEF Complete, Fail, FailThrows, Proceed
<1>4. ASSUME NEW v \in Worker, Crash(v)
      PROVE  batch'[w] \in SUBSET batch[w]
  BY <1>0, <1>4 DEF Crash
<1>5. ASSUME UNCHANGED batch
      PROVE  batch'[w] \in SUBSET batch[w]
  BY <1>5
<1>6. QED
  BY <1>1, <1>2, <1>3, <1>4, <1>5
     DEF Next, WorkerStep, vars, workerVars, RequestCreated, RequestChecked, Cancel, Expire,
         Work, CompleteThrows, Tick

LEMMA ClaimsRespectQueue ==
  ASSUME TypeOK, IsFiniteSet(Existing), [Next]_vars, NEW w \in Worker,
         NEW r \in batch'[w] \ batch[w], NEW q \in Request, Claimable(q), ClaimedBefore(q, r)
  PROVE  q \in batch'[w]
<1>0. batch \in [Worker -> SUBSET Request] /\ BatchSize \in Nat
  BY BatchAssumption DEF TypeOK
<1>1. CASE Claim(w)
  <2>1. batch'[w] = Candidates(Request, BatchSize)
    BY <1>0, <1>1 DEF Claim
  <2>2. QED
    BY <1>0, <2>1, ClaimablesAreFinite, CandidatesComeFirst
<1>2. ASSUME NEW v \in Worker, v # w, Claim(v)
      PROVE  FALSE
  BY <1>0, <1>2 DEF Claim
<1>3. ASSUME NEW v \in Worker, Complete(v) \/ Fail(v) \/ FailThrows(v)
      PROVE  FALSE
  BY <1>0, <1>3 DEF Complete, Fail, FailThrows, Proceed
<1>4. ASSUME NEW v \in Worker, Crash(v)
      PROVE  FALSE
  BY <1>0, <1>4 DEF Crash
<1>5. QED
  BY <1>1, <1>2, <1>3, <1>4
     DEF Next, WorkerStep, vars, workerVars, RequestCreated, RequestChecked, Cancel, Expire,
         Work, CompleteThrows, Tick

LEMMA SpecFinite == Spec => [](TypeOK /\ IsFiniteSet(Existing))
<1>1. Init => IsFiniteSet(Existing)
  <2>1. Init => Existing = {}
    BY DEF Init, TableInit, Existing
  <2>2. QED
    BY <2>1, FS_EmptySet
<1>2. TypeOK /\ IsFiniteSet(Existing) /\ [Next]_vars => IsFiniteSet(Existing)'
  BY ExistingStaysFinite
<1>3. QED
  BY <1>1, <1>2, TypeCorrect, PTL DEF Spec

(* For any number of workers and any BatchSize, also when the claims of    *)
(* several workers, crashes and cancellations are mixed.                   *)
THEOREM BatchesStaySmall == Spec => []BatchesAreBounded
<1>1. Init => BatchesAreBounded
  BY FS_EmptySet, BatchAssumption DEF Init, BatchesAreBounded
<1>2. TypeOK /\ IsFiniteSet(Existing) /\ BatchesAreBounded /\ [Next]_vars
        => BatchesAreBounded'
  BY BatchesStayBounded
<1>3. QED
  BY <1>1, <1>2, SpecFinite, PTL DEF Spec

(* No claim overtakes: a request waits only for those before it.           *)
THEOREM ClaimsKeepTheOrder == Spec => QueueIsRespected
<1>1. TypeOK /\ IsFiniteSet(Existing) /\ [Next]_vars =>
        [\A w \in Worker : \A r \in batch'[w] \ batch[w], q \in Request :
           Claimable(q) /\ ClaimedBefore(q, r) => q \in batch'[w]]_vars
  BY ClaimsRespectQueue
<1>2. QED
  BY <1>1, SpecFinite, PTL DEF Spec, QueueIsRespected
=============================================================================

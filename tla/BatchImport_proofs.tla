-------------------------- MODULE BatchImport_proofs --------------------------
(***************************************************************************)
(* Proofs about BatchImport, for any number of runs, posts, targets,       *)
(* workers and requests, and any faults: a post whose claim is not given   *)
(* back by hand is published once, and what may be published holds it; and *)
(* for requests that do not overlap, a completed run accounts for what it  *)
(* fetched.                                                                *)
(***************************************************************************)
EXTENDS BatchImport, FiniteSetTheorems, TLAPS

-----------------------------------------------------------------------------
(* The inductive invariant *)

\* A worker has created target t and not sent its task yet.
InHand(w, t) == wpc[w] \in {"row", "send"} /\ wtarget[w] = t

\* What is in hand is new, of the worker's post, and of no other worker.
HandOK(w) ==
  wpc[w] \in {"row", "send"} =>
    /\ status[wtarget[w]] = "pending" /\ task[wtarget[w]] = "none" /\ wtarget[w] \notin sent
    /\ origin[wtarget[w]] = wpost[w]
    /\ \A v \in Workers : InHand(v, wtarget[w]) => v = w

Hands == \A w \in Workers : HandOK(w)

\* A target has a message, a task, or neither, and its status says so.
TaskOK(t) ==
  /\ t \in sent => status[t] = "pending" /\ task[t] = "none"
  /\ task[t] = "publishing" => status[t] = "publishing"
  /\ task[t] \in {"retrying", "aborting"} => status[t] = "failed"

Tasks == \A t \in Targets : TaskOK(t)

\* The row of a post has a target of that post.
Rows ==
  \A r \in Runs, p \in Posts : rows[r][p] \in Targets =>
    origin[rows[r][p]] = p /\ status[rows[r][p]] # "absent"

\* A target that was or may still be published.
Busy(t) ==
  \/ t \in sent \/ task[t] # "none" \/ status[t] \in {"publishing", "published"}
  \/ \E w \in Workers : InHand(w, t)

\* A busy target holds the claim of its post, and a post has one of them.
OneClaim ==
  /\ \A t \in Targets : Busy(t) => origin[t] \in ledger
  /\ \A t, u \in Targets : Busy(t) /\ Busy(u) /\ origin[t] = origin[u] => t = u

\* This holds until an operator asks for a retry.
Claims == "retry" \notin happened => OneClaim

IInv == TypeOK /\ Hands /\ Tasks /\ Rows /\ Claims

-----------------------------------------------------------------------------
(* The kinds of actions *)

OperatorActs(o) ==
  \/ DeleteRows(o) \/ Reopen(o) \/ EnqueueRetry(o) \/ Pause(o) \/ OperatorCrash(o)
  \/ \E r \in Runs : RequestRetry(o, r) \/ RequestPause(o, r)

BeatActs(r) ==
  \/ CreateRun(r) \/ Cancel(r) \/ LoseJob(r)
  \/ RecoverRun(r) \/ ReconcileRead(r) \/ ReconcileWrite(r) \/ ReconcileCrash(r)

\* A worker outside the loop over the posts, or leaving it.
RunActs(w) ==
  \/ Fetch(w) \/ Store(w) \/ List(w) \/ MarkDispatched(w) \/ Complete(w) \/ WorkerCrash(w)
  \/ \E r \in Runs : Acquire(w, r)

PostActs(w) ==
  \/ InsertRow(w) \/ SendTarget(w)
  \/ \E p \in Posts : SkipPost(w, p) \/ CreateRefused(w, p) \/ \E t \in Targets : CreateTarget(w, p, t)

TaskActs(t) ==
  TakeTarget(t) \/ PublishTarget(t) \/ RetryTarget(t) \/ ReleaseClaim(t) \/ LoseTarget(t) \/ RecoverTarget(t)

LEMMA NextCases ==
  ASSUME Next
  PROVE  \/ \E o \in Operators : OperatorActs(o)
         \/ \E r \in Runs : BeatActs(r)
         \/ \E w \in Workers : RunActs(w) \/ PostActs(w)
         \/ \E t \in Targets : TaskActs(t)
  BY DEF Next, Request, Work, TargetTask, OperatorActs, BeatActs, RunActs, PostActs, TaskActs

-----------------------------------------------------------------------------
(* Types *)

RunTypes ==
  /\ run \in [Runs -> RunStatuses]
  /\ retryable \in [Runs -> BOOLEAN] /\ dispatched \in [Runs -> BOOLEAN]

CountTypes ==
  /\ processed \in [Runs -> Nat]
  /\ verdict \in [Runs -> {"none", "completed", "failed"}] /\ counted \in [Runs -> Nat]

JobTypes == jobs \in [Runs -> Nat]

PostTypes ==
  /\ fetched \in [Runs -> SUBSET Posts]
  /\ rows \in [Runs -> [Posts -> Targets \cup {NoRow, Skip}]]
  /\ ledger \in SUBSET Posts

TargetTypes ==
  /\ status \in [Targets -> Target!Statuses] /\ retries \in [Targets -> 0..MaxRetries]
  /\ origin \in [Targets -> Posts \cup {NoPost}]
  /\ sent \in SUBSET Targets /\ task \in [Targets -> TaskSteps]

WorkerTypes ==
  /\ wpc \in [Workers -> WorkerSteps] /\ wrun \in [Workers -> Runs \cup {NoRun}]
  /\ wtodo \in [Workers -> SUBSET Posts] /\ wpost \in [Workers -> Posts \cup {NoPost}]
  /\ wtarget \in [Workers -> Targets \cup {NoTarget}]
  /\ \A w \in Workers : wpc[w] # "idle" => wrun[w] \in Runs
  /\ \A w \in Workers :
       wpc[w] \in {"row", "send"} => wpost[w] \in Posts /\ wtarget[w] \in Targets

OperatorTypes ==
  /\ opc \in [Operators -> OperatorSteps] /\ orun \in [Operators -> Runs \cup {NoRun}]
  /\ \A o \in Operators : opc[o] # "idle" => orun[o] \in Runs

FaultTypes == faults \in 0..MaxFaults /\ happened \in SUBSET Faults

AllTypes ==
  /\ RunTypes /\ CountTypes /\ JobTypes /\ PostTypes /\ TargetTypes /\ WorkerTypes /\ OperatorTypes
  /\ FaultTypes

LEMMA TypeParts == TypeOK <=> AllTypes
  BY DEF TypeOK, AllTypes, RunTypes, CountTypes, JobTypes, PostTypes, TargetTypes, WorkerTypes,
         OperatorTypes, FaultTypes

LEMMA TypePartsNext == TypeOK' <=> AllTypes'
  BY DEF TypeOK, AllTypes, RunTypes, CountTypes, JobTypes, PostTypes, TargetTypes, WorkerTypes,
         OperatorTypes, FaultTypes

LEMMA MaxRetriesIsNat == MaxRetries \in Nat /\ 0 \in 0..MaxRetries /\ MaxFaults \in Nat
  BY MaxRetriesAssumption, FaultsAssumption

LEMMA CountsAreNat ==
  ASSUME TypeOK, NEW r \in Runs
  PROVE  /\ IsFiniteSet(SkipsOf(r)) /\ Cardinality(SkipsOf(r)) \in Nat
         /\ IsFiniteSet(TargetsOf(r))
         /\ \A S \in SUBSET TargetsOf(r) : IsFiniteSet(S) /\ Cardinality(S) \in Nat
<1>1. IsFiniteSet(SkipsOf(r))
  BY PostsAssumption, FS_Subset DEF SkipsOf
<1> DEFINE found == {rows[r][p] : p \in Posts}
<1>2. rows[r] \in Surjection(Posts, found)
  BY DEF TypeOK, Surjection
<1>3. IsFiniteSet(found)
  BY <1>2, PostsAssumption, FS_Surjection
<1>4. TargetsOf(r) \subseteq found
  BY DEF TargetsOf
<1>5. IsFiniteSet(TargetsOf(r))
  BY <1>3, <1>4, FS_Subset
<1>6. \A S \in SUBSET TargetsOf(r) : IsFiniteSet(S)
  BY <1>5, FS_Subset
<1> QED
  BY <1>1, <1>5, <1>6, FS_CardinalityType

LEMMA FaultKeepsTypes ==
  ASSUME FaultTypes, NEW kind, Fault(kind) \/ UNCHANGED faultVars
  PROVE  FaultTypes'
<1>1. CASE UNCHANGED faultVars
  BY <1>1 DEF FaultTypes, faultVars
<1>2. CASE Fault(kind)
  <2>1. faults \in 0..MaxFaults /\ faults < MaxFaults /\ faults' = faults + 1
    BY <1>2 DEF FaultTypes, Fault
  <2>2. faults' \in 0..MaxFaults
    BY <2>1, MaxRetriesIsNat
  <2> QED
    BY <1>2, <2>2 DEF FaultTypes, Fault
<1> QED
  BY <1>1, <1>2

LEMMA InitTypeOK == Init => TypeOK
<1> SUFFICES ASSUME Init PROVE AllTypes
  BY TypeParts
<1>1. RunTypes /\ JobTypes /\ PostTypes
  BY DEF Init, RunTypes, JobTypes, PostTypes, RunStatuses
<1>2. CountTypes
  BY DEF Init, CountTypes
<1>3. TargetTypes
  BY MaxRetriesIsNat DEF Init, TargetTypes, Target!Init, Target!Statuses, TaskSteps
<1>4. WorkerTypes /\ OperatorTypes
  BY DEF Init, WorkerTypes, OperatorTypes, WorkerSteps, OperatorSteps
<1>5. FaultTypes
  <2>1. 0 \in 0..MaxFaults
    BY MaxRetriesIsNat
  <2> QED
    BY <2>1 DEF Init, FaultTypes
<1> QED
  BY <1>1, <1>2, <1>3, <1>4, <1>5 DEF AllTypes

LEMMA OperatorActsTypes ==
  ASSUME TypeOK, NEW o \in Operators, OperatorActs(o)
  PROVE  TypeOK'
<1>0. AllTypes
  BY TypeParts
<1> USE DEF OperatorActs
<1>1. CountTypes' /\ TargetTypes' /\ WorkerTypes'
  <2>1. UNCHANGED <<processed, reconcileVars, targetVars, workerVars>>
    BY DEF DeleteRows, Reopen, EnqueueRetry, Pause, OperatorCrash, RequestRetry, RequestPause, runVars
  <2> QED
    BY <1>0, <2>1 DEF AllTypes, CountTypes, TargetTypes, WorkerTypes, reconcileVars, targetVars, workerVars
<1>2. FaultTypes'
  <2>1. UNCHANGED faultVars \/ \E kind \in FaultKinds : Fault(kind)
    BY DEF DeleteRows, Reopen, EnqueueRetry, Pause, OperatorCrash, RequestRetry, RequestPause, FaultKinds
  <2> QED
    BY <1>0, <2>1, FaultKeepsTypes DEF AllTypes
<1>3. opc[o] # "idle" => orun[o] \in Runs
  BY DEF TypeOK
<1>4. RunTypes'
  BY <1>0, <1>3 DEF AllTypes, RunTypes, RunStatuses, SetRun, DeleteRows, Reopen, EnqueueRetry, Pause,
                    OperatorCrash, RequestRetry, RequestPause, runVars
<1>5. JobTypes'
  <2>1. jobs' = jobs \/ \E r \in Runs : jobs' = [jobs EXCEPT ![r] = @ + 1]
    BY <1>3 DEF DeleteRows, Reopen, EnqueueRetry, Pause, OperatorCrash, RequestRetry, RequestPause
  <2> QED
    BY <1>0, <2>1 DEF AllTypes, JobTypes
<1>6. PostTypes'
  BY <1>0, <1>3 DEF AllTypes, PostTypes, DeleteRows, Reopen, EnqueueRetry, Pause, OperatorCrash,
                    RequestRetry, RequestPause, postVars
<1>7. OperatorTypes'
  BY <1>0, <1>3 DEF AllTypes, OperatorTypes, OperatorSteps, DeleteRows, Reopen, EnqueueRetry, Pause,
                    OperatorCrash, RequestRetry, RequestPause
<1> QED
  BY <1>1, <1>2, <1>4, <1>5, <1>6, <1>7, TypePartsNext DEF AllTypes

LEMMA BeatActsTypes ==
  ASSUME TypeOK, NEW r \in Runs, BeatActs(r)
  PROVE  TypeOK'
<1>0. AllTypes
  BY TypeParts
<1> USE DEF BeatActs
<1>1. PostTypes' /\ TargetTypes' /\ WorkerTypes' /\ OperatorTypes'
  <2>1. UNCHANGED <<postVars, targetVars, workerVars, operatorVars>>
    BY DEF CreateRun, Cancel, LoseJob, RecoverRun, ReconcileRead, ReconcileWrite, ReconcileCrash
  <2> QED
    BY <1>0, <2>1 DEF AllTypes, PostTypes, TargetTypes, WorkerTypes, OperatorTypes, postVars, targetVars,
                      workerVars, operatorVars
<1>2. FaultTypes'
  <2>1. UNCHANGED faultVars \/ \E kind \in FaultKinds : Fault(kind)
    BY DEF CreateRun, Cancel, LoseJob, RecoverRun, ReconcileRead, ReconcileWrite, ReconcileCrash, FaultKinds
  <2> QED
    BY <1>0, <2>1, FaultKeepsTypes DEF AllTypes
<1>3. RunTypes'
  BY <1>0 DEF AllTypes, RunTypes, RunStatuses, SetRun, FailRun, CompleteRun, CreateRun, Cancel, LoseJob, RecoverRun,
              ReconcileRead, ReconcileWrite, ReconcileCrash, runVars
<1>4. JobTypes'
  <2>1. \/ jobs' = jobs \/ jobs' = [jobs EXCEPT ![r] = @ + 1]
        \/ jobs[r] > 0 /\ jobs' = [jobs EXCEPT ![r] = @ - 1]
    BY DEF CreateRun, Cancel, LoseJob, RecoverRun, ReconcileRead, ReconcileWrite, ReconcileCrash
  <2> QED
    BY <1>0, <2>1 DEF AllTypes, JobTypes
<1>5. CountTypes'
  <2>1. CASE CreateRun(r) \/ Cancel(r) \/ LoseJob(r) \/ RecoverRun(r)
    BY <1>0, <2>1 DEF AllTypes, CountTypes, CreateRun, Cancel, LoseJob, RecoverRun, FailRun, reconcileVars,
                      runVars
  <2>2. CASE ReconcileRead(r)
    <3>1. Cardinality({t \in TargetsOf(r) : status[t] = "published"}) \in Nat
      BY CountsAreNat
    <3> QED
      BY <1>0, <2>2, <3>1 DEF AllTypes, CountTypes, ReconcileRead, reconcileVars
  <2>3. CASE ReconcileWrite(r)
    <3>1. counted[r] + Cardinality(SkipsOf(r)) \in Nat
      <4>1. counted[r] \in Nat
        BY <1>0 DEF AllTypes, CountTypes
      <4> QED
        BY <4>1, CountsAreNat
    <3> QED
      BY <1>0, <2>3, <3>1 DEF AllTypes, CountTypes, ReconcileWrite, FailRun, CompleteRun
  <2>4. CASE ReconcileCrash(r)
    BY <1>0, <2>4 DEF AllTypes, CountTypes, ReconcileCrash, runVars
  <2> QED
    BY <2>1, <2>2, <2>3, <2>4
<1> QED
  BY <1>1, <1>2, <1>3, <1>4, <1>5, TypePartsNext DEF AllTypes

LEMMA LeaveTypes ==
  ASSUME WorkerTypes, NEW w \in Workers, Leave(w)
  PROVE  WorkerTypes'
  BY DEF WorkerTypes, WorkerSteps, Leave

LEMMA GotoTypes ==
  ASSUME WorkerTypes, NEW w \in Workers, NEW step \in WorkerSteps, wrun[w] \in Runs,
         step \notin {"row", "send"} \/ wpc[w] \in {"row", "send"}, Goto(w, step)
  PROVE  WorkerTypes'
  BY DEF WorkerTypes, Goto

LEMMA RunActsTypes ==
  ASSUME TypeOK, NEW w \in Workers, RunActs(w)
  PROVE  TypeOK'
<1>0. AllTypes
  BY TypeParts
<1> USE DEF RunActs
<1>r. wpc[w] # "idle" => wrun[w] \in Runs
  BY DEF TypeOK
<1>1. TargetTypes' /\ OperatorTypes'
  <2>1. UNCHANGED <<targetVars, operatorVars>>
    BY DEF Acquire, Fetch, Store, List, MarkDispatched, Complete, WorkerCrash
  <2> QED
    BY <1>0, <2>1 DEF AllTypes, TargetTypes, OperatorTypes, targetVars, operatorVars
<1>2. FaultTypes'
  <2>1. UNCHANGED faultVars \/ Fault("crash")
    BY DEF Acquire, Fetch, Store, List, MarkDispatched, Complete, WorkerCrash
  <2> QED
    BY <1>0, <2>1, FaultKeepsTypes DEF AllTypes
<1>3. RunTypes'
  BY <1>0, <1>r DEF AllTypes, RunTypes, RunStatuses, SetRun, FailRun, CompleteRun, Acquire, Fetch, Store, List,
                    MarkDispatched, Complete, WorkerCrash, runVars
<1>4. JobTypes'
  <2>1. jobs' = jobs \/ \E r \in Runs : jobs[r] > 0 /\ jobs' = [jobs EXCEPT ![r] = @ - 1]
    BY DEF Acquire, Fetch, Store, List, MarkDispatched, Complete, WorkerCrash
  <2> QED
    BY <1>0, <2>1 DEF AllTypes, JobTypes
<1>5. CountTypes'
  <2>1. CASE Complete(w)
    <3>1. Cardinality(SkipsOf(wrun[w])) \in Nat
      BY <1>r, <2>1, CountsAreNat DEF Complete
    <3> QED
      BY <1>0, <2>1, <3>1 DEF AllTypes, CountTypes, Complete, CompleteRun, reconcileVars
  <2>2. CASE ~Complete(w)
    <3>1. UNCHANGED <<processed, reconcileVars>>
      BY <2>2 DEF Acquire, Fetch, Store, List, MarkDispatched, WorkerCrash, FailRun, runVars
    <3> QED
      BY <1>0, <3>1 DEF AllTypes, CountTypes, reconcileVars
  <2> QED
    BY <2>1, <2>2
<1>6. PostTypes'
  <2>1. CASE Store(w)
    BY <1>0, <2>1 DEF AllTypes, PostTypes, WorkerTypes, Store
  <2>2. CASE ~Store(w)
    BY <1>0, <2>2 DEF AllTypes, PostTypes, Acquire, Fetch, List, MarkDispatched, Complete, WorkerCrash, postVars
  <2> QED
    BY <2>1, <2>2
<1>7. WorkerTypes'
  <2>0. WorkerTypes
    BY <1>0 DEF AllTypes
  <2>1. CASE Leave(w)
    BY <2>0, <2>1, LeaveTypes
  <2>2. ASSUME NEW r \in Runs, Acquire(w, r) PROVE WorkerTypes'
    BY <2>0, <2>2 DEF WorkerTypes, WorkerSteps, Acquire, workerVars
  <2>3. CASE Fetch(w) /\ ~Leave(w)
    <3>1. CASE Goto(w, "list")
      BY <1>r, <2>0, <2>3, <3>1, GotoTypes DEF Fetch, WorkerSteps
    <3>2. CASE ~Goto(w, "list")
      BY <1>r, <2>0, <2>3, <3>2 DEF Fetch, WorkerTypes, WorkerSteps
    <3> QED
      BY <3>1, <3>2
  <2>4. CASE Store(w)
    BY <1>r, <2>0, <2>4, GotoTypes DEF Store, WorkerSteps
  <2>5. CASE List(w)
    <3>1. fetched[wrun[w]] \ Handled(wrun[w]) \in SUBSET Posts
      BY <1>r, <2>5 DEF List, TypeOK
    <3> QED
      BY <1>r, <2>0, <2>5, <3>1 DEF List, WorkerTypes, WorkerSteps
  <2>6. CASE MarkDispatched(w) /\ ~Leave(w)
    BY <1>r, <2>0, <2>6, GotoTypes DEF MarkDispatched, WorkerSteps
  <2> QED
    BY <2>1, <2>2, <2>3, <2>4, <2>5, <2>6 DEF Complete, WorkerCrash
<1> QED
  BY <1>1, <1>2, <1>3, <1>4, <1>5, <1>6, <1>7, TypePartsNext DEF AllTypes

LEMMA PostActsTypes ==
  ASSUME TypeOK, NEW w \in Workers, PostActs(w)
  PROVE  TypeOK'
<1>0. AllTypes
  BY TypeParts
<1> USE DEF PostActs
<1>r. wpc[w] # "idle" => wrun[w] \in Runs
  BY DEF TypeOK
<1>s. wpc[w] \in {"row", "send"} => wpost[w] \in Posts /\ wtarget[w] \in Targets
  BY DEF TypeOK
<1>1. CountTypes' /\ JobTypes' /\ OperatorTypes'
  <2>1. UNCHANGED <<processed, reconcileVars, jobs, operatorVars>>
    BY DEF InsertRow, SendTarget, SkipPost, CreateRefused, CreateTarget, FailRun, runVars
  <2> QED
    BY <1>0, <2>1 DEF AllTypes, CountTypes, JobTypes, OperatorTypes, reconcileVars, operatorVars
<1>2. FaultTypes'
  <2>1. UNCHANGED faultVars \/ Fault("brokerdown")
    BY DEF InsertRow, SendTarget, SkipPost, CreateRefused, CreateTarget
  <2> QED
    BY <1>0, <2>1, FaultKeepsTypes DEF AllTypes
<1>3. RunTypes'
  BY <1>0, <1>r DEF AllTypes, RunTypes, RunStatuses, SetRun, FailRun, InsertRow, SendTarget, SkipPost,
                    CreateRefused, CreateTarget, runVars
<1>4. PostTypes'
  <2>0. PostTypes
    BY <1>0 DEF AllTypes
  <2>1. CASE InsertRow(w)
    <3>1. /\ UNCHANGED <<fetched, ledger>> /\ wrun[w] \in Runs
          /\ wpost[w] \in Posts /\ wtarget[w] \in Targets
          /\ rows' = rows \/ rows' = [rows EXCEPT ![wrun[w]][wpost[w]] = wtarget[w]]
      BY <1>r, <1>s, <2>1 DEF InsertRow
    <3>2. [rows[wrun[w]] EXCEPT ![wpost[w]] = wtarget[w]] \in [Posts -> Targets \cup {NoRow, Skip}]
      BY <2>0, <3>1 DEF PostTypes
    <3>3. \/ rows' = rows
          \/ \E f \in [Posts -> Targets \cup {NoRow, Skip}] : rows' = [rows EXCEPT ![wrun[w]] = f]
      BY <3>1, <3>2
    <3> QED
      BY <2>0, <3>1, <3>3 DEF PostTypes
  <2>2. CASE SendTarget(w)
    BY <2>0, <2>2 DEF SendTarget, PostTypes
  <2>3. ASSUME NEW p \in Posts, SkipPost(w, p) PROVE PostTypes'
    BY <1>r, <2>0, <2>3 DEF SkipPost, PostTypes
  <2>4. ASSUME NEW p \in Posts, CreateRefused(w, p) \/ \E t \in Targets : CreateTarget(w, p, t)
        PROVE  PostTypes'
    BY <2>0, <2>4 DEF CreateRefused, CreateTarget, PostTypes, postVars
  <2> QED
    BY <2>1, <2>2, <2>3, <2>4
<1>5. TargetTypes'
  <2>0. TargetTypes
    BY <1>0 DEF AllTypes
  <2>1. CASE UNCHANGED targetVars
    BY <2>0, <2>1 DEF TargetTypes, targetVars
  <2>2. CASE SendTarget(w)
    BY <1>s, <2>0, <2>2 DEF SendTarget, TargetTypes
  <2>3. ASSUME NEW p \in Posts, NEW t \in Targets, CreateTarget(w, p, t) PROVE TargetTypes'
    BY <2>0, <2>3 DEF CreateTarget, TargetTypes, Target!Create, Target!Move, Target!Statuses
  <2> QED
    BY <2>1, <2>2, <2>3 DEF InsertRow, SkipPost, CreateRefused
<1>6. WorkerTypes'
  <2>0. WorkerTypes
    BY <1>0 DEF AllTypes
  <2>1. CASE Leave(w)
    BY <2>0, <2>1, LeaveTypes
  <2>2. CASE InsertRow(w) /\ ~Leave(w)
    BY <1>r, <2>0, <2>2, GotoTypes DEF InsertRow, WorkerSteps
  <2>3. CASE SendTarget(w) /\ ~Leave(w)
    BY <1>r, <2>0, <2>3, GotoTypes DEF SendTarget, WorkerSteps
  <2>4. ASSUME NEW p \in Posts, SkipPost(w, p), ~Leave(w) PROVE WorkerTypes'
    BY <2>0, <2>4 DEF SkipPost, WorkerTypes
  <2>5. ASSUME NEW p \in Posts, NEW t \in Targets, CreateTarget(w, p, t) PROVE WorkerTypes'
    BY <1>r, <2>0, <2>5 DEF CreateTarget, WorkerTypes, WorkerSteps
  <2> QED
    BY <2>1, <2>2, <2>3, <2>4, <2>5 DEF CreateRefused
<1> QED
  BY <1>1, <1>2, <1>3, <1>4, <1>5, <1>6, TypePartsNext DEF AllTypes

LEMMA TaskActsTypes ==
  ASSUME TypeOK, NEW t \in Targets, TaskActs(t)
  PROVE  TypeOK'
<1>0. AllTypes
  BY TypeParts
<1> USE DEF TaskActs
<1>1. RunTypes' /\ CountTypes' /\ JobTypes' /\ WorkerTypes' /\ OperatorTypes'
  <2>1. UNCHANGED <<runVars, reconcileVars, jobs, workerVars, operatorVars>>
    BY DEF TakeTarget, PublishTarget, RetryTarget, ReleaseClaim, LoseTarget, RecoverTarget, taskFrame
  <2> QED
    BY <1>0, <2>1 DEF AllTypes, RunTypes, CountTypes, JobTypes, WorkerTypes, OperatorTypes, runVars,
                      reconcileVars, workerVars, operatorVars
<1>2. FaultTypes'
  <2>1. UNCHANGED faultVars \/ Fault("crash") \/ Fault("brokerdown")
    BY DEF TakeTarget, PublishTarget, RetryTarget, ReleaseClaim, LoseTarget, RecoverTarget, SendAgain
  <2> QED
    BY <1>0, <2>1, FaultKeepsTypes DEF AllTypes
<1>3. PostTypes'
  BY <1>0 DEF AllTypes, PostTypes, TakeTarget, PublishTarget, RetryTarget, ReleaseClaim, LoseTarget,
              RecoverTarget, taskFrame, postVars
<1>4. TargetTypes'
  <2>1. retries' \in [Targets -> 0..MaxRetries]
    <3>1. retries' = retries \/ (retries[t] < MaxRetries /\ retries' = [retries EXCEPT ![t] = @ + 1])
      BY DEF TakeTarget, PublishTarget, RetryTarget, ReleaseClaim, LoseTarget, RecoverTarget, Target!Claim,
             Target!Succeed, Target!Fail, Target!Retry, Target!Recover
    <3>2. retries \in [Targets -> 0..MaxRetries]
      BY DEF TypeOK
    <3>3. retries[t] < MaxRetries => retries[t] + 1 \in 0..MaxRetries
      BY <3>2, MaxRetriesIsNat
    <3> QED
      BY <3>1, <3>2, <3>3
  <2>2. status' \in [Targets -> Target!Statuses]
    BY <1>0 DEF AllTypes, TargetTypes, TakeTarget, PublishTarget, RetryTarget, ReleaseClaim, LoseTarget,
                RecoverTarget, Target!Claim, Target!Succeed, Target!Fail, Target!Retry, Target!Recover,
                Target!Move, Target!Statuses
  <2>3. origin' \in [Targets -> Posts \cup {NoPost}] /\ sent' \in SUBSET Targets
        /\ task' \in [Targets -> TaskSteps]
    BY <1>0 DEF AllTypes, TargetTypes, TaskSteps, TakeTarget, PublishTarget, RetryTarget, ReleaseClaim,
                LoseTarget, RecoverTarget, SendAgain
  <2> QED
    BY <2>1, <2>2, <2>3 DEF TargetTypes
<1> QED
  BY <1>1, <1>2, <1>3, <1>4, TypePartsNext DEF AllTypes

LEMMA NextTypeOK == TypeOK /\ [Next]_vars => TypeOK'
<1> SUFFICES ASSUME TypeOK, [Next]_vars PROVE TypeOK'
  OBVIOUS
<1>1. CASE UNCHANGED vars
  BY <1>1 DEF TypeOK, vars, runVars, postVars, targetVars, workerVars, operatorVars, reconcileVars,
              faultVars
<1> QED
  BY <1>1, NextCases, OperatorActsTypes, BeatActsTypes, RunActsTypes, PostActsTypes, TaskActsTypes

-----------------------------------------------------------------------------
(* What an action leaves alone *)

hands == <<wpc, wpost, wtarget>>

LEMMA OthersFrame ==
  ASSUME (\E o \in Operators : OperatorActs(o)) \/ (\E r \in Runs : BeatActs(r)) \/ UNCHANGED vars
  PROVE  UNCHANGED <<status, origin, sent, task, hands>>
  BY DEF OperatorActs, BeatActs, DeleteRows, Reopen, EnqueueRetry, Pause, OperatorCrash, RequestRetry,
         RequestPause, CreateRun, Cancel, LoseJob, RecoverRun, ReconcileRead, ReconcileWrite, ReconcileCrash,
         targetVars, workerVars, hands, vars

\* A worker that does no more than to leave or to go on has nothing in hand.
LEMMA RunFrame ==
  ASSUME TypeOK, NEW w \in Workers, RunActs(w)
  PROVE  /\ UNCHANGED <<status, origin, sent, task, rows, ledger>>
         /\ \A v \in Workers : \A t : InHand(v, t)' => InHand(v, t) /\ wpost'[v] = wpost[v]
<1>1. UNCHANGED <<status, origin, sent, task, rows, ledger>>
  BY DEF RunActs, Acquire, Fetch, Store, List, MarkDispatched, Complete, WorkerCrash, targetVars, postVars
<1>2. \A v \in Workers \ {w} : wpc'[v] = wpc[v] /\ wtarget'[v] = wtarget[v] /\ wpost'[v] = wpost[v]
  BY DEF TypeOK, RunActs, Acquire, Fetch, Store, List, MarkDispatched, Complete, WorkerCrash, Goto, Leave,
         workerVars
<1>3. wpc'[w] \notin {"row", "send"} \/ UNCHANGED hands
  BY DEF TypeOK, RunActs, Acquire, Fetch, Store, List, MarkDispatched, Complete, WorkerCrash, Goto, Leave,
         workerVars, hands
<1> QED
  BY <1>1, <1>2, <1>3 DEF InHand, hands

\* A worker at a post.
LEMMA PostFrame ==
  ASSUME TypeOK, NEW w \in Workers, PostActs(w), NEW v \in Workers, v # w
  PROVE  wpc'[v] = wpc[v] /\ wtarget'[v] = wtarget[v] /\ wpost'[v] = wpost[v]
  BY DEF TypeOK, PostActs, InsertRow, SendTarget, SkipPost, CreateRefused, CreateTarget, Goto, Leave

\* A task changes its target only.
LEMMA TaskFrame ==
  ASSUME TypeOK, NEW t \in Targets, TaskActs(t)
  PROVE  /\ UNCHANGED <<origin, rows, hands>>
         /\ \A u \in Targets \ {t} :
              status'[u] = status[u] /\ task'[u] = task[u] /\ (u \in sent' <=> u \in sent)
         /\ status[t] # "absent" => status'[t] # "absent"
<1>1. UNCHANGED <<origin, rows, hands>>
  BY DEF TaskActs, TakeTarget, PublishTarget, RetryTarget, ReleaseClaim, LoseTarget, RecoverTarget,
         taskFrame, postVars, workerVars, hands
<1>2. \A u \in Targets \ {t} :
        status'[u] = status[u] /\ task'[u] = task[u] /\ (u \in sent' <=> u \in sent)
  BY DEF TypeOK, TaskActs, TakeTarget, PublishTarget, RetryTarget, ReleaseClaim, LoseTarget, RecoverTarget,
         SendAgain,
         Target!Claim, Target!Succeed, Target!Fail, Target!Retry, Target!Recover, Target!Move
<1>3. status[t] # "absent" => status'[t] # "absent"
  BY DEF TypeOK, TaskActs, TakeTarget, PublishTarget, RetryTarget, ReleaseClaim, LoseTarget, RecoverTarget,
         Target!Claim, Target!Succeed, Target!Fail, Target!Retry, Target!Recover, Target!Move
<1> QED
  BY <1>1, <1>2, <1>3

-----------------------------------------------------------------------------
(* What workers have in hand *)

LEMMA HandsKept ==
  ASSUME Hands, UNCHANGED <<status, origin, sent, task>>,
         \A v \in Workers : \A t : InHand(v, t)' => InHand(v, t) /\ wpost'[v] = wpost[v]
  PROVE  Hands'
<1> SUFFICES ASSUME NEW w \in Workers, wpc'[w] \in {"row", "send"}
             PROVE  HandOK(w)'
  BY DEF Hands, HandOK
<1>1. PICK t : t = wtarget'[w]
  OBVIOUS
<1>2. InHand(w, t) /\ wpost'[w] = wpost[w]
  <2>1. InHand(w, t)'
    BY <1>1 DEF InHand
  <2> QED
    BY <2>1
<1>4. wpc[w] \in {"row", "send"} /\ wtarget'[w] = wtarget[w] /\ wpost'[w] = wpost[w]
  BY <1>1, <1>2 DEF InHand
<1>3. HandOK(w)
  BY DEF Hands
<1>5. \A v \in Workers : InHand(v, wtarget[w])' => InHand(v, wtarget'[w])
  <2>1. PICK u : u = wtarget[w]
    OBVIOUS
  <2>2. \A v \in Workers : InHand(v, u)' => InHand(v, u)
    OBVIOUS
  <2> QED
    BY <1>4, <2>1, <2>2 DEF InHand
<1> QED
  BY <1>3, <1>4, <1>5 DEF HandOK, InHand

LEMMA NextHands == TypeOK /\ Hands /\ Tasks /\ [Next]_vars => Hands'
<1> SUFFICES ASSUME TypeOK, Hands, Tasks, [Next]_vars PROVE Hands'
  OBVIOUS
<1>1. CASE (\E o \in Operators : OperatorActs(o)) \/ (\E r \in Runs : BeatActs(r)) \/ UNCHANGED vars
  BY <1>1, OthersFrame, HandsKept DEF InHand, hands
<1>2. ASSUME NEW w \in Workers, RunActs(w) PROVE Hands'
  BY <1>2, RunFrame, HandsKept
<1>3. ASSUME NEW w \in Workers, PostActs(w) PROVE Hands'
  <2>0. \A v \in Workers \ {w} : wpc'[v] = wpc[v] /\ wtarget'[v] = wtarget[v] /\ wpost'[v] = wpost[v]
    BY <1>3, PostFrame
  <2>1. CASE InsertRow(w)
    <3>1. \A t : InHand(w, t)' => InHand(w, t) /\ wpost'[w] = wpost[w]
      BY <2>1 DEF InHand, InsertRow, Goto, Leave, TypeOK
    <3> QED
      BY <2>0, <2>1, <3>1, HandsKept DEF InHand, InsertRow, targetVars
  <2>2. CASE SendTarget(w)
    <3>1. wpc[w] = "send" /\ wpc'[w] \notin {"row", "send"} /\ sent' \subseteq sent \cup {wtarget[w]}
          /\ UNCHANGED <<status, origin, task>>
      BY <2>2 DEF SendTarget, Goto, Leave, TypeOK
    <3>2. ASSUME NEW v \in Workers, wpc'[v] \in {"row", "send"} PROVE HandOK(v)'
      <4>1. v # w /\ HandOK(v) /\ wpc'[v] = wpc[v] /\ wtarget'[v] = wtarget[v] /\ wpost'[v] = wpost[v]
        BY <2>0, <3>1, <3>2 DEF Hands
      <4>2. wtarget[v] # wtarget[w]
        BY <3>1, <3>2, <4>1 DEF HandOK, InHand
      <4>3. \A x \in Workers : \A t : InHand(x, t)' => InHand(x, t)
        BY <2>0, <3>1 DEF InHand
      <4> QED
        BY <3>1, <3>2, <4>1, <4>2, <4>3 DEF HandOK
    <3> QED
      BY <3>2 DEF Hands, HandOK
  <2>3. ASSUME NEW p \in Posts, SkipPost(w, p) \/ CreateRefused(w, p) PROVE Hands'
    <3>1. wpc'[w] \notin {"row", "send"} /\ UNCHANGED <<status, origin, sent, task>>
      BY <2>3 DEF SkipPost, CreateRefused, Leave, targetVars, TypeOK
    <3> QED
      BY <2>0, <3>1, HandsKept DEF InHand
  <2>4. ASSUME NEW p \in Posts, NEW t \in Targets, CreateTarget(w, p, t) PROVE Hands'
    <3>1. /\ wpc'[w] = "row" /\ wtarget'[w] = t /\ wpost'[w] = p /\ status[t] = "absent"
          /\ status' = [status EXCEPT ![t] = "pending"] /\ origin' = [origin EXCEPT ![t] = p]
          /\ UNCHANGED <<sent, task>>
      BY <2>4 DEF CreateTarget, Target!Create, Target!Move, TypeOK
    <3>2. task[t] = "none" /\ t \notin sent
      BY <3>1 DEF Tasks, TaskOK, TypeOK, TaskSteps
    <3>3. ASSUME NEW v \in Workers \ {w}, wpc'[v] \in {"row", "send"} PROVE HandOK(v)' /\ wtarget'[v] # t
      <4>1. HandOK(v) /\ wpc'[v] = wpc[v] /\ wtarget'[v] = wtarget[v] /\ wpost'[v] = wpost[v]
        BY <2>0, <3>3 DEF Hands
      <4>2. wtarget[v] # t /\ wtarget[v] \in Targets
        BY <3>1, <3>3, <4>1 DEF HandOK, TypeOK
      <4> QED
        BY <2>0, <3>1, <3>3, <4>1, <4>2 DEF HandOK, InHand, TypeOK
    <3>4. HandOK(w)'
      BY <3>1, <3>2, <3>3 DEF HandOK, InHand, TypeOK
    <3> QED
      BY <3>3, <3>4 DEF Hands, HandOK
  <2> QED
    BY <1>3, <2>1, <2>2, <2>3, <2>4 DEF PostActs
<1>4. ASSUME NEW t \in Targets, TaskActs(t) PROVE Hands'
  <2>1. \A w \in Workers : ~InHand(w, t)
    <3> SUFFICES ASSUME NEW w \in Workers, InHand(w, t) PROVE FALSE
      OBVIOUS
    <3>1. status[t] = "pending" /\ task[t] = "none" /\ t \notin sent
      BY DEF Hands, HandOK, InHand
    <3> QED
      BY <1>4, <3>1 DEF TaskActs, TakeTarget, PublishTarget, RetryTarget, ReleaseClaim, LoseTarget,
                        RecoverTarget
  <2>2. ASSUME NEW w \in Workers, wpc[w] \in {"row", "send"} PROVE HandOK(w)'
    <3>1. wtarget[w] \in Targets \ {t} /\ HandOK(w)
      BY <2>1, <2>2 DEF InHand, Hands, TypeOK
    <3> QED
      BY <1>4, <2>2, <3>1, TaskFrame DEF HandOK, InHand, hands
  <2>3. wpc' = wpc
    BY <1>4, TaskFrame DEF hands
  <2> QED
    BY <2>2, <2>3 DEF Hands, HandOK
<1> QED
  BY <1>1, <1>2, <1>3, <1>4, NextCases

-----------------------------------------------------------------------------
(* Tasks and rows *)

LEMMA NextTasks == TypeOK /\ Hands /\ Tasks /\ [Next]_vars => Tasks'
<1> SUFFICES ASSUME TypeOK, Hands, Tasks, [Next]_vars, NEW u \in Targets PROVE TaskOK(u)'
  BY DEF Tasks
<1>0. TaskOK(u)
  BY DEF Tasks
<1>1. CASE UNCHANGED <<status, sent, task>>
  BY <1>0, <1>1 DEF TaskOK
<1>2. ASSUME NEW w \in Workers, PostActs(w) PROVE TaskOK(u)'
  <2>1. CASE SendTarget(w)
    <3>1. wpc[w] = "send" /\ sent' \subseteq sent \cup {wtarget[w]} /\ UNCHANGED <<status, task>>
      BY <2>1 DEF SendTarget
    <3>2. status[wtarget[w]] = "pending" /\ task[wtarget[w]] = "none"
      BY <3>1 DEF Hands, HandOK
    <3> QED
      BY <1>0, <3>1, <3>2 DEF TaskOK
  <2>2. ASSUME NEW p \in Posts, NEW t \in Targets, CreateTarget(w, p, t) PROVE TaskOK(u)'
    <3>1. status[t] = "absent" /\ status' = [status EXCEPT ![t] = "pending"] /\ UNCHANGED <<sent, task>>
      BY <2>2 DEF CreateTarget, Target!Create, Target!Move
    <3> QED
      BY <1>0, <3>1 DEF TaskOK, TypeOK
  <2> QED
    BY <1>1, <1>2, <2>1, <2>2 DEF PostActs, InsertRow, SkipPost, CreateRefused, targetVars
<1>3. ASSUME NEW t \in Targets, TaskActs(t) PROVE TaskOK(u)'
  <2>1. CASE u # t
    BY <1>0, <1>3, <2>1, TaskFrame DEF TaskOK
  <2>2. CASE u = t
    BY <1>0, <1>3, <2>2 DEF TaskOK, TypeOK, TaskSteps, TaskActs, TakeTarget, PublishTarget, RetryTarget,
         ReleaseClaim, LoseTarget, RecoverTarget, Target!Claim, Target!Succeed, Target!Fail,
         Target!Retry, Target!Recover, Target!Move
  <2> QED
    BY <2>1, <2>2
<1> QED
  BY <1>1, <1>2, <1>3, NextCases, OthersFrame, RunFrame

SetsRow(q, x, y) == rows' = [rows EXCEPT ![q][x] = y]

LEMMA RowSet ==
  ASSUME TypeOK, NEW q \in Runs, NEW x \in Posts, NEW y, SetsRow(q, x, y),
         NEW r \in Runs, NEW p \in Posts
  PROVE  rows'[r][p] = rows[r][p] \/ (p = x /\ rows'[r][p] = y)
<1>1. rows \in [Runs -> [Posts -> Targets \cup {NoRow, Skip}]]
  BY DEF TypeOK
<1>2. rows'[r] = IF r = q THEN [rows[q] EXCEPT ![x] = y] ELSE rows[r]
  BY <1>1 DEF SetsRow
<1>3. rows[q] \in [Posts -> Targets \cup {NoRow, Skip}]
  BY <1>1
<1> QED
  BY <1>2, <1>3

LEMMA NextRows == TypeOK /\ Hands /\ Rows /\ [Next]_vars => Rows'
<1> SUFFICES ASSUME TypeOK, Hands, Rows, [Next]_vars, NEW r \in Runs, NEW p \in Posts,
                    rows'[r][p] \in Targets
             PROVE  origin'[rows'[r][p]] = p /\ status'[rows'[r][p]] # "absent"
  BY DEF Rows
<1>0. rows[r] \in [Posts -> Targets \cup {NoRow, Skip}] /\ NoRow \notin Targets /\ Skip \notin Targets
  BY DistinctAssumption DEF TypeOK
<1>1. ASSUME rows'[r][p] = rows[r][p], UNCHANGED <<origin, status>>
      PROVE  origin'[rows'[r][p]] = p /\ status'[rows'[r][p]] # "absent"
  BY <1>1 DEF Rows
<1>2. ASSUME NEW o \in Operators, OperatorActs(o), rows'[r][p] # rows[r][p] PROVE FALSE
  <2>1. rows'[r] = rows[r] \/ rows'[r] = [q \in Posts |-> NoRow]
    BY <1>2 DEF OperatorActs, DeleteRows, Reopen, EnqueueRetry, Pause, OperatorCrash, RequestRetry,
                RequestPause, postVars, TypeOK
  <2> QED
    BY <1>0, <1>2, <2>1
<1>3. ASSUME NEW w \in Workers, PostActs(w)
      PROVE  origin'[rows'[r][p]] = p /\ status'[rows'[r][p]] # "absent"
  <2>1. CASE InsertRow(w)
    <3>1. /\ UNCHANGED <<origin, status>>
          /\ \/ rows' = rows
             \/ SetsRow(wrun[w], wpost[w], wtarget[w])
          /\ wpc[w] = "row" /\ wrun[w] \in Runs /\ wpost[w] \in Posts
      BY <2>1 DEF InsertRow, SetsRow, targetVars, TypeOK
    <3>2. rows'[r][p] = rows[r][p] \/ (wpost[w] = p /\ rows'[r][p] = wtarget[w])
      BY <3>1, RowSet
    <3>3. origin[wtarget[w]] = wpost[w] /\ status[wtarget[w]] = "pending"
      BY <3>1 DEF Hands, HandOK
    <3> QED
      BY <1>1, <3>1, <3>2, <3>3
  <2>2. ASSUME NEW q \in Posts, SkipPost(w, q)
        PROVE  origin'[rows'[r][p]] = p /\ status'[rows'[r][p]] # "absent"
    <3>1. /\ UNCHANGED <<origin, status>> /\ wrun[w] \in Runs
          /\ rows' = rows \/ SetsRow(wrun[w], q, Skip)
      BY <2>2 DEF SkipPost, SetsRow, targetVars, TypeOK
    <3>2. rows'[r][p] = rows[r][p] \/ rows'[r][p] = Skip
      BY <3>1, RowSet
    <3> QED
      BY <1>0, <1>1, <3>1, <3>2
  <2>3. ASSUME NEW q \in Posts, NEW t \in Targets, CreateTarget(w, q, t)
        PROVE  origin'[rows'[r][p]] = p /\ status'[rows'[r][p]] # "absent"
    <3>1. /\ status[t] = "absent" /\ rows' = rows
          /\ status' = [status EXCEPT ![t] = "pending"] /\ origin' = [origin EXCEPT ![t] = q]
      BY <2>3 DEF CreateTarget, Target!Create, Target!Move
    <3>2. rows[r][p] # t /\ origin[rows[r][p]] = p /\ status[rows[r][p]] # "absent"
      BY <3>1 DEF Rows
    <3> QED
      BY <3>1, <3>2 DEF TypeOK
  <2>4. CASE SendTarget(w) \/ \E q \in Posts : CreateRefused(w, q)
    BY <1>1, <2>4 DEF SendTarget, CreateRefused, postVars, targetVars
  <2> QED
    BY <1>3, <2>1, <2>2, <2>3, <2>4 DEF PostActs
<1>4. ASSUME NEW t \in Targets, TaskActs(t)
      PROVE  origin'[rows'[r][p]] = p /\ status'[rows'[r][p]] # "absent"
  <2>1. rows' = rows /\ origin' = origin
    BY <1>4, TaskFrame
  <2>2. origin[rows[r][p]] = p /\ status[rows[r][p]] # "absent"
    BY <2>1 DEF Rows
  <2> QED
    BY <1>4, <2>1, <2>2, TaskFrame
<1>5. ASSUME NEW q \in Runs, BeatActs(q) PROVE rows' = rows
  BY <1>5 DEF BeatActs, CreateRun, Cancel, LoseJob, RecoverRun, ReconcileRead, ReconcileWrite, ReconcileCrash,
              postVars
<1>6. CASE UNCHANGED vars
  BY <1>1, <1>6 DEF vars, postVars, targetVars
<1> QED
  BY <1>1, <1>2, <1>3, <1>4, <1>5, <1>6, NextCases, OthersFrame, RunFrame

-----------------------------------------------------------------------------
(* Claims *)

LEMMA HappenedGrows == [Next]_vars => happened \subseteq happened'
<1> SUFFICES ASSUME [Next]_vars PROVE happened \subseteq happened'
  OBVIOUS
<1>1. ASSUME NEW o \in Operators, OperatorActs(o) PROVE happened \subseteq happened'
  BY <1>1 DEF OperatorActs, DeleteRows, Reopen, EnqueueRetry, Pause, OperatorCrash, RequestRetry,
              RequestPause, Fault, faultVars
<1>2. ASSUME NEW r \in Runs, BeatActs(r) PROVE happened \subseteq happened'
  BY <1>2 DEF BeatActs, CreateRun, Cancel, LoseJob, RecoverRun, ReconcileRead, ReconcileWrite, ReconcileCrash, Fault,
              faultVars
<1>3. ASSUME NEW w \in Workers, RunActs(w) PROVE happened \subseteq happened'
  BY <1>3 DEF RunActs, Acquire, Fetch, Store, List, MarkDispatched, Complete, WorkerCrash, Fault, faultVars
<1>4. ASSUME NEW w \in Workers, PostActs(w) PROVE happened \subseteq happened'
  BY <1>4 DEF PostActs, InsertRow, SendTarget, SkipPost, CreateRefused, CreateTarget, Fault, faultVars
<1>5. ASSUME NEW t \in Targets, TaskActs(t) PROVE happened \subseteq happened'
  BY <1>5 DEF TaskActs, TakeTarget, PublishTarget, RetryTarget, ReleaseClaim, LoseTarget, RecoverTarget,
              SendAgain, Fault, faultVars
<1>6. CASE UNCHANGED vars
  BY <1>6 DEF vars, faultVars
<1> QED
  BY <1>1, <1>2, <1>3, <1>4, <1>5, <1>6, NextCases

\* No target becomes busy, and those that are keep what they have.
LEMMA BusyKept ==
  ASSUME OneClaim, origin' = origin,
         \A t \in Targets : Busy(t)' => Busy(t) /\ origin[t] \in ledger'
  PROVE  OneClaim'
  BY DEF OneClaim

LEMMA ClaimsFrame ==
  ASSUME OneClaim, UNCHANGED <<status, origin, sent, task, ledger>>,
         \A v \in Workers : \A t : InHand(v, t)' => InHand(v, t)
  PROVE  OneClaim'
<1>1. \A t \in Targets : Busy(t)' => Busy(t)
  BY DEF Busy
<1> QED
  BY <1>1, BusyKept DEF OneClaim

\* The task of a target moves it only while it is busy.
LEMMA TaskIsBusy ==
  ASSUME TypeOK, NEW t \in Targets, TaskActs(t)
  PROVE  Busy(t) /\ \A u \in Targets : Busy(u)' => Busy(u)
<1>1. Busy(t)
  BY DEF TaskActs, TakeTarget, PublishTarget, RetryTarget, ReleaseClaim, LoseTarget, RecoverTarget, Busy
<1>2. ASSUME NEW u \in Targets \ {t}, Busy(u)' PROVE Busy(u)
  BY <1>2, TaskFrame DEF Busy, InHand, hands
<1> QED
  BY <1>1, <1>2

LEMMA PostActsClaims ==
  ASSUME TypeOK, Hands, OneClaim, NEW w \in Workers, PostActs(w)
  PROVE  OneClaim'
<1>0. \A v \in Workers \ {w} : wpc'[v] = wpc[v] /\ wtarget'[v] = wtarget[v] /\ wpost'[v] = wpost[v]
  BY PostFrame
<1>1. CASE InsertRow(w)
  <2>1. \A t : InHand(w, t)' => InHand(w, t)
    BY <1>1 DEF InHand, InsertRow, Goto, Leave, TypeOK
  <2> QED
    BY <1>0, <1>1, <2>1, ClaimsFrame DEF InHand, InsertRow, targetVars
<1>2. CASE SendTarget(w)
  <2>1. PICK x : x = wtarget[w]
    OBVIOUS
  <2>2. wpc[w] = "send" /\ wpc'[w] \notin {"row", "send"} /\ UNCHANGED <<status, origin, task>>
    BY <1>2 DEF SendTarget, Goto, Leave, TypeOK
  <2>3. /\ x \in Targets /\ InHand(w, x) /\ status[x] = "pending" /\ task[x] = "none" /\ x \notin sent
        /\ origin[x] = wpost[w] /\ \A v \in Workers : InHand(v, x) => v = w
    BY <2>1, <2>2 DEF Hands, HandOK, InHand, TypeOK
  <2>4. \A v \in Workers : \A t : InHand(v, t)' => InHand(v, t) /\ v # w
    BY <1>0, <2>2 DEF InHand
  <2>5. CASE sent' = sent \cup {x} /\ ledger' = ledger
    <3>1. Busy(x)
      BY <2>3 DEF Busy
    <3>2. \A t \in Targets : Busy(t)' => Busy(t)
      BY <2>2, <2>4, <2>5, <3>1 DEF Busy
    <3> QED
      BY <2>2, <2>5, <3>2, BusyKept DEF OneClaim
  <2>6. CASE sent' = sent /\ ledger' = ledger \ {wpost[w]}
    <3>1. Busy(x) /\ ~Busy(x)'
      BY <2>2, <2>3, <2>4, <2>6 DEF Busy
    <3>2. \A t \in Targets : Busy(t)' => Busy(t) /\ t # x
      BY <2>2, <2>4, <2>6, <3>1 DEF Busy
    <3>3. \A t \in Targets : Busy(t)' => origin[t] \in ledger /\ origin[t] # wpost[w]
      BY <2>3, <3>1, <3>2 DEF OneClaim
    <3> QED
      BY <2>2, <2>6, <3>2, <3>3, BusyKept
  <2> QED
    BY <1>2, <2>1, <2>5, <2>6 DEF SendTarget
<1>3. ASSUME NEW p \in Posts, SkipPost(w, p) \/ CreateRefused(w, p) PROVE OneClaim'
  <2>1. wpc'[w] \notin {"row", "send"} /\ UNCHANGED <<status, origin, sent, task, ledger>>
    BY <1>3 DEF SkipPost, CreateRefused, Leave, targetVars, postVars, TypeOK
  <2> QED
    BY <1>0, <2>1, ClaimsFrame DEF InHand
<1>4. ASSUME NEW p \in Posts, NEW t \in Targets, CreateTarget(w, p, t) PROVE OneClaim'
  <2>1. /\ p \notin ledger /\ ledger' = ledger \cup {p} /\ wpc'[w] = "row" /\ wtarget'[w] = t
        /\ status' = [status EXCEPT ![t] = "pending"] /\ origin' = [origin EXCEPT ![t] = p]
        /\ UNCHANGED <<sent, task>>
    BY <1>4 DEF CreateTarget, Target!Create, Target!Move, TypeOK
  <2>2. ASSUME NEW u \in Targets \ {t}, Busy(u)' PROVE Busy(u) /\ origin'[u] = origin[u]
    BY <1>0, <2>1, <2>2 DEF Busy, InHand, TypeOK
  <2>3. origin'[t] = p
    BY <2>1 DEF TypeOK
  <2>4. \A u \in Targets \ {t} : Busy(u)' => origin'[u] \in ledger
    BY <2>2 DEF OneClaim
  <2>5. \A u, v \in Targets \ {t} : Busy(u)' /\ Busy(v)' /\ origin'[u] = origin'[v] => u = v
    BY <2>2 DEF OneClaim
  <2> QED
    BY <2>1, <2>3, <2>4, <2>5 DEF OneClaim
<1> QED
  BY <1>1, <1>2, <1>3, <1>4 DEF PostActs

LEMMA TaskActsClaims ==
  ASSUME TypeOK, Hands, Tasks, Rows, OneClaim, NEW t \in Targets, TaskActs(t)
  PROVE  OneClaim'
<1>1. Busy(t) /\ \A u \in Targets : Busy(u)' => Busy(u)
  BY TaskIsBusy
<1>2. origin' = origin
  BY TaskFrame
<1>3. CASE ReleaseClaim(t)
  <2>1. /\ task[t] = "aborting" /\ task' = [task EXCEPT ![t] = "none"] /\ UNCHANGED <<status, sent, hands>>
        /\ ledger' = ledger \ {p \in Posts : \E r \in Runs : rows[r][p] = t}
    BY <1>3 DEF ReleaseClaim, workerVars, hands
  <2>2. status[t] = "failed" /\ t \notin sent
    BY <2>1 DEF Tasks, TaskOK
  <2>3. \A w \in Workers : ~InHand(w, t)'
    BY <2>1 DEF Hands, HandOK, InHand, hands
  <2>4. ~Busy(t)'
    BY <2>1, <2>2, <2>3 DEF Busy, TypeOK
  <2>5. \A p \in Posts, r \in Runs : rows[r][p] = t => p = origin[t]
    BY DEF Rows
  <2>6. \A u \in Targets : Busy(u)' => origin[u] \in ledger /\ origin[u] # origin[t]
    BY <1>1, <2>4 DEF OneClaim
  <2> QED
    BY <1>1, <1>2, <2>1, <2>5, <2>6, BusyKept
<1>4. CASE ~ReleaseClaim(t)
  <2>1. ledger' = ledger
    BY <1>4 DEF TaskActs, TakeTarget, PublishTarget, RetryTarget, LoseTarget, RecoverTarget, taskFrame, postVars
  <2> QED
    BY <1>1, <1>2, <2>1, BusyKept DEF OneClaim
<1> QED
  BY <1>3, <1>4

LEMMA NextClaims == TypeOK /\ Hands /\ Tasks /\ Rows /\ Claims /\ [Next]_vars => Claims'
<1> SUFFICES ASSUME TypeOK, Hands, Tasks, Rows, Claims, [Next]_vars, "retry" \notin happened'
             PROVE  OneClaim'
  BY DEF Claims
<1>0. OneClaim
  BY HappenedGrows DEF Claims
<1>1. ASSUME NEW o \in Operators, OperatorActs(o) PROVE ledger' = ledger
  BY <1>1 DEF OperatorActs, DeleteRows, Reopen, EnqueueRetry, Pause, OperatorCrash, RequestRetry,
              RequestPause, Fault, postVars
<1>2. ASSUME NEW r \in Runs, BeatActs(r) PROVE ledger' = ledger
  BY <1>2 DEF BeatActs, CreateRun, Cancel, LoseJob, RecoverRun, ReconcileRead, ReconcileWrite, ReconcileCrash,
              postVars
<1>3. CASE (\E o \in Operators : OperatorActs(o)) \/ (\E r \in Runs : BeatActs(r)) \/ UNCHANGED vars
  <2>1. ledger' = ledger
    BY <1>1, <1>2, <1>3 DEF vars, postVars
  <2>2. UNCHANGED <<status, origin, sent, task, hands>>
    BY <1>3, OthersFrame
  <2> QED
    BY <1>0, <2>1, <2>2, ClaimsFrame DEF InHand, hands
<1>4. ASSUME NEW w \in Workers, RunActs(w) PROVE OneClaim'
  BY <1>0, <1>4, RunFrame, ClaimsFrame
<1> QED
  BY <1>0, <1>3, <1>4, NextCases, PostActsClaims, TaskActsClaims

-----------------------------------------------------------------------------
(* What a completed run says of its posts.  Between two requests to retry it, *)
(* a run has one worker at most and one who writes its rows.                  *)

\* No run outlived the stuck timeout with its worker, and none was cancelled.
Quiet == happened \cap {"overrun", "cancel"} = {}

Free(r) == \A w \in Workers : wrun[w] # r

\* Nothing is written for the run's posts yet, or all of it was deleted.
Blank(r) == ~dispatched[r] /\ \A p \in Posts : rows[r][p] = NoRow

\* Every post that was fetched is a skip or published.
Settled(r) == \A p \in fetched[r] : rows[r][p] \in {Skip} \cup PublishedTargets(p)

\* A run has one worker at most, rows for posts that it fetched, and once it is
\* dispatched for all of them.  What reconcile found of it still holds.
RunOK(r) ==
  /\ \A v, w \in Workers : wrun[v] = r /\ wrun[w] = r => v = w
  /\ run[r] \in {"absent", "pending"} => Blank(r) /\ Free(r)
  /\ run[r] = "failed" => Free(r) /\ verdict[r] = "none"
  /\ run[r] = "completed" =>
       dispatched[r] /\ Settled(r) /\ processed[r] = Cardinality(fetched[r])
  /\ verdict[r] # "none" => dispatched[r]
  /\ verdict[r] = "completed" => Settled(r) /\ counted[r] = Cardinality(TargetsOf(r))
  /\ verdict[r] = "failed" => fetched[r] # {} /\ run[r] # "completed"
  /\ \A p \in Posts : rows[r][p] # NoRow => p \in fetched[r]
  /\ dispatched[r] => \A p \in fetched[r] : rows[r][p] # NoRow

\* Each post of a worker's run is to do, in hand, or has its row.
WorkerOK(w) ==
  LET r == wrun[w] IN
  /\ wpc[w] = "idle" => r = NoRun
  /\ wpc[w] \in {"fetch", "store", "list"} => Blank(r)
  /\ wpc[w] \in {"store", "dispatch_nothing", "complete"} => fetched[r] = {}
  /\ wpc[w] \in {"loop", "row", "send"} =>
       /\ wtodo[w] \subseteq fetched[r]
       /\ \A p \in fetched[r] : p \in wtodo[w] \/ rows[r][p] # NoRow \/ (wpc[w] = "row" /\ p = wpost[w])
  /\ wpc[w] = "row" => wpost[w] \in fetched[r]
  /\ wpc[w] # "idle" => (dispatched[r] <=> wpc[w] = "complete")

\* A retry that is under way has the run to itself.
RetryOK(o) ==
  /\ opc[o] \in {"delete", "reopen"} => run[orun[o]] = "failed" /\ ~dispatched[orun[o]]
  /\ opc[o] = "reopen" => Blank(orun[o])

InOrder ==
  /\ \A r \in Runs : RunOK(r)
  /\ \A w \in Workers : WorkerOK(w)
  /\ \A o \in Operators : RetryOK(o)

Books == Quiet => InOrder

\* What a step does not touch.
SameRun(r) ==
  /\ run'[r] = run[r] /\ dispatched'[r] = dispatched[r] /\ processed'[r] = processed[r]
  /\ fetched'[r] = fetched[r] /\ rows'[r] = rows[r]
  /\ verdict'[r] = verdict[r] /\ counted'[r] = counted[r]

SameWorker(w) ==
  /\ wpc'[w] = wpc[w] /\ wrun'[w] = wrun[w] /\ wtodo'[w] = wtodo[w] /\ wpost'[w] = wpost[w]

SameRequest(o) == opc'[o] = opc[o] /\ orun'[o] = orun[o]

PublishedKept == \A p \in Posts : PublishedTargets(p) \subseteq PublishedTargets(p)'

LEMMA RunKept ==
  ASSUME NEW r \in Runs, RunOK(r), SameRun(r), PublishedKept,
         \A w \in Workers : wrun'[w] = r => wrun[w] = r,
         fetched[r] \subseteq Posts
  PROVE  RunOK(r)'
<1>1. Blank(r)' <=> Blank(r)
  BY DEF SameRun, Blank
<1>2. Free(r) => Free(r)'
  BY DEF Free
<1>3. Settled(r) => Settled(r)'
  BY DEF SameRun, Settled, PublishedKept
<1>4. TargetsOf(r)' = TargetsOf(r)
  BY DEF SameRun, TargetsOf
<1>5. Cardinality(TargetsOf(r)') = Cardinality(TargetsOf(r)) /\ Cardinality(fetched'[r]) = Cardinality(fetched[r])
  BY <1>4 DEF SameRun
<1> QED
  BY <1>1, <1>2, <1>3, <1>5 DEF RunOK, SameRun

LEMMA WorkerKept ==
  ASSUME NEW w \in Workers, WorkerOK(w), SameWorker(w), wpc[w] = "idle" \/ SameRun(wrun[w])
  PROVE  WorkerOK(w)'
  BY DEF WorkerOK, SameWorker, SameRun, Blank

LEMMA RetryKept ==
  ASSUME NEW o \in Operators, RetryOK(o), SameRequest(o),
         opc[o] \notin {"delete", "reopen"} \/ SameRun(orun[o])
  PROVE  RetryOK(o)'
  BY DEF RetryOK, SameRequest, SameRun, Blank

\* A step that concerns one run.
LEMMA StepOfRun ==
  ASSUME TypeOK, InOrder, PublishedKept, NEW q \in Runs, RunOK(q)',
         \A r \in Runs \ {q} : SameRun(r),
         \A w \in Workers : ~SameWorker(w) => wrun'[w] \in {q, NoRun},
         \A w \in Workers : ~SameWorker(w) \/ wrun[w] = q => WorkerOK(w)',
         \A o \in Operators : ~SameRequest(o) \/ orun[o] = q => RetryOK(o)'
  PROVE  InOrder'
<1>1. ASSUME NEW r \in Runs \ {q} PROVE RunOK(r)'
  <2>1. \A w \in Workers : wrun'[w] = r => wrun[w] = r
    BY <1>1, DistinctAssumption DEF SameWorker
  <2>2. fetched[r] \subseteq Posts
    BY DEF TypeOK
  <2> QED
    BY <1>1, <2>1, <2>2, RunKept DEF InOrder
<1>2. ASSUME NEW w \in Workers, SameWorker(w), wrun[w] # q PROVE WorkerOK(w)'
  <2>1. wpc[w] = "idle" \/ wrun[w] \in Runs \ {q}
    BY <1>2 DEF TypeOK
  <2> QED
    BY <1>2, <2>1, WorkerKept DEF InOrder
<1>3. ASSUME NEW o \in Operators, SameRequest(o), orun[o] # q PROVE RetryOK(o)'
  <2>1. opc[o] \notin {"delete", "reopen"} \/ orun[o] \in Runs \ {q}
    BY <1>3 DEF TypeOK
  <2> QED
    BY <1>3, <2>1, RetryKept DEF InOrder
<1> QED
  BY <1>1, <1>2, <1>3 DEF InOrder

\* Neither another worker nor a request has the run of a worker.
LEMMA OneWriter ==
  ASSUME TypeOK, InOrder, NEW w \in Workers, NEW q \in Runs, wrun[w] = q
  PROVE  /\ run[q] \notin {"absent", "pending", "failed"}
         /\ \A v \in Workers : wrun[v] = q => v = w
         /\ \A o \in Operators : orun[o] = q => opc[o] \notin {"delete", "reopen"}
<1>1. run[q] \notin {"absent", "pending", "failed"}
  BY DEF InOrder, RunOK, Free
<1>2. \A v \in Workers : wrun[v] = q => v = w
  BY DEF InOrder, RunOK
<1>3. \A o \in Operators : orun[o] = q => opc[o] \notin {"delete", "reopen"}
  BY <1>1 DEF InOrder, RetryOK
<1> QED
  BY <1>1, <1>2, <1>3

\* A step of a worker that has run q.
WorkerMoves(w, q) ==
  /\ UNCHANGED operatorVars
  /\ wrun'[w] \in {q, NoRun}
  /\ \A r \in Runs \ {q} : SameRun(r)
  /\ \A v \in Workers \ {w} : SameWorker(v)

LEMMA StepOfWorker ==
  ASSUME TypeOK, InOrder, PublishedKept, NEW w \in Workers, NEW q \in Runs, wrun[w] = q,
         WorkerMoves(w, q), RunOK(q)', WorkerOK(w)'
  PROVE  InOrder'
<1>1. \A v \in Workers : ~SameWorker(v) \/ wrun[v] = q => v = w
  BY OneWriter DEF WorkerMoves
<1>2. \A o \in Operators : SameRequest(o) /\ (orun[o] = q => RetryOK(o)')
  BY OneWriter DEF WorkerMoves, operatorVars, SameRequest, RetryOK
<1>3. /\ \A r \in Runs \ {q} : SameRun(r)
      /\ \A v \in Workers : ~SameWorker(v) => wrun'[v] \in {q, NoRun}
  BY <1>1 DEF WorkerMoves
<1> QED
  BY <1>1, <1>2, <1>3, StepOfRun

\* ... and that changes nothing of its run.
LEMMA QuietStepOfWorker ==
  ASSUME TypeOK, InOrder, PublishedKept, NEW w \in Workers, NEW q \in Runs, wrun[w] = q,
         WorkerMoves(w, q), SameRun(q), WorkerOK(w)'
  PROVE  InOrder'
<1>1. \A v \in Workers : wrun'[v] = q => wrun[v] = q
  BY DEF WorkerMoves, SameWorker
<1>2. fetched[q] \subseteq Posts
  BY DEF TypeOK
<1>3. RunOK(q)'
  BY <1>1, <1>2, RunKept DEF InOrder
<1> QED
  BY <1>3, StepOfWorker

LEMMA LeaveOK ==
  ASSUME TypeOK, NEW w \in Workers, Leave(w)
  PROVE  WorkerOK(w)' /\ wrun'[w] = NoRun /\ \A v \in Workers \ {w} : SameWorker(v)
  BY DEF TypeOK, Leave, WorkerOK, SameWorker

LEMMA GotoMoves ==
  ASSUME TypeOK, NEW w \in Workers, NEW step, Goto(w, step)
  PROVE  /\ wpc'[w] = step /\ wrun'[w] = wrun[w] /\ wtodo'[w] = wtodo[w] /\ wpost'[w] = wpost[w]
         /\ \A v \in Workers \ {w} : SameWorker(v)
  BY DEF TypeOK, Goto, SameWorker

SameRuns == UNCHANGED <<run, dispatched, processed, fetched, rows, verdict, counted>>

\* A worker stops, and its run fails with it or stays as it is.
LEMMA LeaveBooks ==
  ASSUME TypeOK, InOrder, PublishedKept, NEW w \in Workers, NEW q \in Runs, wrun[w] = q,
         Leave(w), UNCHANGED operatorVars, SameRuns
  PROVE  InOrder'
<1>1. WorkerMoves(w, q) /\ SameRun(q) /\ WorkerOK(w)'
  BY LeaveOK DEF WorkerMoves, SameRuns, SameRun
<1> QED
  BY <1>1, QuietStepOfWorker

LEMMA FailBooks ==
  ASSUME TypeOK, InOrder, PublishedKept, NEW w \in Workers, NEW q \in Runs, wrun[w] = q,
         wpc[w] \notin {"idle", "complete"}, Leave(w), UNCHANGED <<operatorVars, fetched, rows, reconcileVars>>,
         \E again \in BOOLEAN : FailRun(q, again)
  PROVE  InOrder'
<1>1. run' = [run EXCEPT ![q] = "failed"] /\ UNCHANGED <<dispatched, processed, fetched, rows, verdict, counted>>
  BY DEF FailRun, SetRun, reconcileVars
<1>2. run'[q] = "failed" /\ \A r \in Runs \ {q} : SameRun(r)
  BY <1>1 DEF SameRun, TypeOK
<1>3. WorkerMoves(w, q) /\ WorkerOK(w)'
  BY <1>2, LeaveOK DEF WorkerMoves
<1>4. ~dispatched[q] /\ RunOK(q)
  BY DEF InOrder, WorkerOK
<1>5. \A v \in Workers : wrun'[v] # q
  BY <1>3, LeaveOK, OneWriter, DistinctAssumption DEF SameWorker
<1>6. RunOK(q)'
  BY <1>1, <1>2, <1>4, <1>5 DEF RunOK, Free
<1> QED
  BY <1>3, <1>6, StepOfWorker

\* Only a new target gets its post, and published is final.
LEMMA NextPublishedKept == TypeOK /\ Tasks /\ [Next]_vars => PublishedKept
<1> SUFFICES ASSUME TypeOK, Tasks, [Next]_vars, NEW t \in Targets, status[t] = "published"
             PROVE  status'[t] = "published" /\ origin'[t] = origin[t]
  BY DEF PublishedKept, PublishedTargets
<1>1. ASSUME UNCHANGED <<status, origin>> PROVE status'[t] = "published" /\ origin'[t] = origin[t]
  BY <1>1
<1>2. ASSUME NEW w \in Workers, PostActs(w), ~UNCHANGED <<status, origin>>
      PROVE  status'[t] = "published" /\ origin'[t] = origin[t]
  <2>1. PICK p \in Posts, u \in Targets : CreateTarget(w, p, u)
    BY <1>2 DEF PostActs, InsertRow, SendTarget, SkipPost, CreateRefused, targetVars
  <2>2. status[u] = "absent" /\ status' = [status EXCEPT ![u] = "pending"]
        /\ origin' = [origin EXCEPT ![u] = p]
    BY <2>1 DEF CreateTarget, Target!Create, Target!Move
  <2> QED
    BY <2>2 DEF TypeOK
<1>3. ASSUME NEW u \in Targets, TaskActs(u)
      PROVE  status'[t] = "published" /\ origin'[t] = origin[t]
  <2>1. origin' = origin
    BY <1>3, TaskFrame
  <2>2. \/ status' = status
        \/ status[u] # "published" /\ \E x : status' = [status EXCEPT ![u] = x]
        \/ Target!Recover({u})
    BY <1>3 DEF TaskActs, TakeTarget, PublishTarget, RetryTarget, ReleaseClaim, LoseTarget, RecoverTarget,
                Target!Claim, Target!Succeed, Target!Fail, Target!Retry, Target!Move
  <2> QED
    BY <2>1, <2>2 DEF TypeOK, Target!Recover
<1>4. CASE UNCHANGED vars
  BY <1>1, <1>4 DEF vars, targetVars
<1> QED
  BY <1>1, <1>2, <1>3, <1>4, NextCases, OthersFrame, RunFrame

LEMMA TaskActsOrder ==
  ASSUME TypeOK, InOrder, PublishedKept, NEW t \in Targets, TaskActs(t)
  PROVE  InOrder'
<1>1. UNCHANGED <<run, dispatched, processed, fetched, rows, verdict, counted, workerVars, operatorVars>>
  BY DEF TaskActs, TakeTarget, PublishTarget, RetryTarget, ReleaseClaim, LoseTarget, RecoverTarget, taskFrame,
         runVars, postVars, reconcileVars
<1>2. /\ \A r \in Runs : SameRun(r) /\ fetched[r] \subseteq Posts
      /\ \A w \in Workers : SameWorker(w) /\ (wpc[w] = "idle" \/ wrun[w] \in Runs)
      /\ \A o \in Operators : SameRequest(o) /\ (opc[o] = "idle" \/ orun[o] \in Runs)
  BY <1>1 DEF SameRun, SameWorker, SameRequest, workerVars, operatorVars, TypeOK
<1>3. \A r \in Runs : RunOK(r)'
  BY <1>2, RunKept DEF InOrder, SameWorker
<1>4. \A w \in Workers : WorkerOK(w)'
  BY <1>2, WorkerKept DEF InOrder
<1>5. \A o \in Operators : RetryOK(o)'
  BY <1>2, RetryKept DEF InOrder
<1> QED
  BY <1>3, <1>4, <1>5 DEF InOrder

LEMMA RunActsOrder ==
  ASSUME TypeOK, InOrder, Rows, PublishedKept, NEW w \in Workers, RunActs(w)
  PROVE  InOrder'
<1>0. UNCHANGED operatorVars
  BY DEF RunActs, Acquire, Fetch, Store, List, MarkDispatched, Complete, WorkerCrash
<1>1. ASSUME NEW r \in Runs, Acquire(w, r) PROVE InOrder'
  <2>1. CASE run[r] # "pending"
    <3>1. UNCHANGED <<runVars, postVars, reconcileVars, workerVars, operatorVars>>
      BY <1>1, <2>1 DEF Acquire
    <3>2. \A q \in Runs : SameRun(q) /\ fetched[q] \subseteq Posts
      BY <3>1 DEF SameRun, runVars, postVars, reconcileVars, TypeOK
    <3>3. /\ \A v \in Workers : SameWorker(v) /\ (wpc[v] = "idle" \/ wrun[v] \in Runs)
          /\ \A o \in Operators : SameRequest(o) /\ (opc[o] = "idle" \/ orun[o] \in Runs)
      BY <3>1 DEF SameWorker, SameRequest, workerVars, operatorVars, TypeOK
    <3>4. \A q \in Runs : RunOK(q)'
      BY <3>2, <3>3, RunKept DEF InOrder, SameWorker
    <3>5. \A v \in Workers : WorkerOK(v)'
      BY <3>2, <3>3, WorkerKept DEF InOrder
    <3>6. \A o \in Operators : RetryOK(o)'
      BY <3>2, <3>3, RetryKept DEF InOrder
    <3> QED
      BY <3>4, <3>5, <3>6 DEF InOrder
  <2>2. CASE run[r] = "pending"
    <3>1. /\ wpc[w] = "idle" /\ run' = [run EXCEPT ![r] = "running"]
          /\ wpc' = [wpc EXCEPT ![w] = "fetch"] /\ wrun' = [wrun EXCEPT ![w] = r]
          /\ UNCHANGED <<dispatched, processed, wtodo, wpost, fetched, rows, verdict, counted>>
      BY <1>1, <2>2 DEF Acquire, SetRun, postVars, reconcileVars
    <3>2. /\ \A q \in Runs \ {r} : SameRun(q)
          /\ \A v \in Workers \ {w} : SameWorker(v)
          /\ \A o \in Operators : SameRequest(o)
          /\ wpc'[w] = "fetch" /\ wrun'[w] = r /\ run'[r] = "running"
      BY <1>0, <3>1 DEF SameRun, SameWorker, SameRequest, operatorVars, TypeOK
    <3>3. Blank(r) /\ Free(r) /\ RunOK(r)
      BY <2>2 DEF InOrder, RunOK
    <3>4. Blank(r)'
      BY <3>1, <3>3 DEF Blank
    <3>5. WorkerOK(w)'
      BY <3>2, <3>4 DEF WorkerOK, Blank
    <3>6. RunOK(r)'
      <4>1. \A u, v \in Workers : wrun'[u] = r /\ wrun'[v] = r => u = v
        BY <3>2, <3>3 DEF SameWorker, Free
      <4>2. verdict[r] = "none" /\ ~dispatched'[r] /\ verdict'[r] = "none"
        BY <3>1, <3>3 DEF Blank, RunOK
      <4>3. \A p \in Posts : rows'[r][p] = NoRow
        BY <3>4 DEF Blank
      <4> QED
        BY <3>2, <4>1, <4>2, <4>3 DEF RunOK
    <3>7. \A o \in Operators : orun[o] = r => RetryOK(o)'
      BY <2>2, <3>2 DEF InOrder, RetryOK, SameRequest
    <3>8. \A v \in Workers : ~SameWorker(v) \/ wrun[v] = r => v = w
      BY <3>2, <3>3 DEF Free
    <3> QED
      BY <3>2, <3>5, <3>6, <3>7, <3>8, StepOfRun
  <2> QED
    BY <2>1, <2>2
<1>2. ASSUME NEW q \in Runs, wrun[w] = q, Fetch(w) PROVE InOrder'
  <2>1. wpc[w] = "fetch" /\ Blank(q) /\ ~dispatched[q] /\ UNCHANGED <<fetched, rows, reconcileVars>>
    BY <1>2 DEF Fetch, InOrder, WorkerOK, Blank, postVars
  <2>2. CASE Leave(w) /\ UNCHANGED runVars
    BY <1>0, <1>2, <2>1, <2>2, LeaveBooks DEF SameRuns, runVars, reconcileVars
  <2>3. CASE Leave(w) /\ \E again \in BOOLEAN : FailRun(q, again)
    BY <1>0, <1>2, <2>1, <2>3, FailBooks
  <2>4. CASE Goto(w, "list") /\ UNCHANGED runVars
    <3>1. WorkerMoves(w, q) /\ SameRun(q) /\ wpc'[w] = "list" /\ wrun'[w] = q
      BY <1>0, <1>2, <2>1, <2>4, GotoMoves DEF WorkerMoves, SameRun, runVars, reconcileVars
    <3>2. WorkerOK(w)'
      BY <2>1, <3>1 DEF WorkerOK, Blank, SameRun
    <3> QED
      BY <1>2, <3>1, <3>2, QuietStepOfWorker
  <2>5. CASE /\ fetched[q] = {} /\ \E S \in SUBSET Posts : wtodo' = [wtodo EXCEPT ![w] = S]
             /\ wpc' = [wpc EXCEPT ![w] = "store"] /\ UNCHANGED <<wrun, wpost, wtarget, runVars>>
    <3>1. WorkerMoves(w, q) /\ SameRun(q) /\ wpc'[w] = "store" /\ wrun'[w] = q
      BY <1>0, <1>2, <2>1, <2>5 DEF WorkerMoves, SameRun, SameWorker, runVars, reconcileVars, TypeOK
    <3>2. WorkerOK(w)'
      BY <2>1, <2>5, <3>1 DEF WorkerOK, Blank, SameRun
    <3> QED
      BY <1>2, <3>1, <3>2, QuietStepOfWorker
  <2> QED
    BY <1>2, <2>2, <2>3, <2>4, <2>5 DEF Fetch
<1>3. ASSUME NEW q \in Runs, wrun[w] = q, Store(w) PROVE InOrder'
  <2>1. /\ wpc[w] = "store" /\ Blank(q) /\ ~dispatched[q] /\ RunOK(q) /\ fetched[q] = {}
        /\ fetched' = [fetched EXCEPT ![q] = wtodo[w]] /\ Goto(w, "list")
        /\ UNCHANGED <<run, dispatched, processed, rows, verdict, counted>>
    BY <1>3 DEF Store, InOrder, WorkerOK, Blank, runVars, reconcileVars
  <2>2. WorkerMoves(w, q) /\ wpc'[w] = "list" /\ wrun'[w] = q
    BY <1>0, <1>3, <2>1, GotoMoves DEF WorkerMoves, SameRun, TypeOK
  <2>3. Blank(q)'
    BY <2>1 DEF Blank
  <2>4. WorkerOK(w)'
    BY <2>2, <2>3 DEF WorkerOK, Blank
  <2>5. run[q] \notin {"absent", "pending", "failed", "completed"} /\ verdict[q] = "none"
    BY <1>3, <2>1, OneWriter DEF RunOK
  <2>6. \A u, v \in Workers : wrun'[u] = q /\ wrun'[v] = q => u = v
    BY <1>3, <2>2, OneWriter DEF WorkerMoves, SameWorker
  <2>7. RunOK(q)'
    BY <2>1, <2>3, <2>5, <2>6 DEF RunOK, Blank
  <2> QED
    BY <1>3, <2>2, <2>4, <2>7, StepOfWorker
<1>4. ASSUME NEW q \in Runs, wrun[w] = q, List(w) PROVE InOrder'
  <2> DEFINE todo == fetched[q] \ Handled(q)
  <2>1. /\ wpc[w] = "list" /\ Blank(q) /\ ~dispatched[q]
        /\ wtodo' = [wtodo EXCEPT ![w] = todo]
        /\ wpc' = [wpc EXCEPT ![w] = IF todo = {} THEN "dispatch_nothing" ELSE "loop"]
        /\ UNCHANGED <<wrun, wpost, run, dispatched, processed, fetched, rows, verdict, counted>>
    BY <1>4 DEF List, InOrder, WorkerOK, Blank, runVars, postVars, reconcileVars
  <2>2. todo = fetched[q]
    BY <2>1 DEF Blank, Handled, TypeOK
  <2>3. WorkerMoves(w, q) /\ SameRun(q) /\ wrun'[w] = q /\ wtodo'[w] = fetched[q]
        /\ wpc'[w] = IF fetched[q] = {} THEN "dispatch_nothing" ELSE "loop"
    BY <1>0, <1>4, <2>1, <2>2 DEF WorkerMoves, SameRun, SameWorker, TypeOK
  <2>4. WorkerOK(w)'
    BY <2>1, <2>3 DEF WorkerOK, SameRun
  <2> QED
    BY <1>4, <2>3, <2>4, QuietStepOfWorker
<1>5. ASSUME NEW q \in Runs, wrun[w] = q, MarkDispatched(w) PROVE InOrder'
  <2>1. /\ dispatched' = [dispatched EXCEPT ![q] = TRUE] /\ RunOK(q) /\ ~dispatched[q]
        /\ UNCHANGED <<run, processed, fetched, rows, verdict, counted>>
    BY <1>5 DEF MarkDispatched, InOrder, WorkerOK, postVars, reconcileVars
  <2>2. dispatched'[q]
    BY <2>1 DEF TypeOK
  <2>3. \A p \in fetched[q] : rows[q][p] # NoRow
    BY <1>5 DEF MarkDispatched, InOrder, WorkerOK
  <2>4. /\ \A v \in Workers \ {w} : SameWorker(v)
        /\ \/ Leave(w) /\ wrun'[w] = NoRun
           \/ wpc[w] = "dispatch_nothing" /\ wpc'[w] = "complete" /\ wrun'[w] = q
    BY <1>5, LeaveOK, GotoMoves DEF MarkDispatched
  <2>5. WorkerMoves(w, q)
    BY <1>0, <2>1, <2>4 DEF WorkerMoves, SameRun, TypeOK
  <2>6. WorkerOK(w)'
    <3>1. CASE Leave(w)
      BY <3>1, LeaveOK
    <3>2. CASE wpc[w] = "dispatch_nothing" /\ wpc'[w] = "complete" /\ wrun'[w] = q
      <4>1. fetched'[q] = {}
        BY <1>5, <2>1, <3>2 DEF InOrder, WorkerOK
      <4> QED
        BY <2>2, <3>2, <4>1 DEF WorkerOK
    <3> QED
      BY <2>4, <3>1, <3>2
  <2>7. run[q] \notin {"absent", "pending", "failed", "completed"} /\ verdict[q] = "none"
    BY <1>5, <2>1, OneWriter DEF RunOK
  <2>8. \A u, v \in Workers : wrun'[u] = q /\ wrun'[v] = q => u = v
    BY <1>5, <2>5, OneWriter DEF WorkerMoves, SameWorker
  <2>9. RunOK(q)'
    BY <2>1, <2>2, <2>3, <2>7, <2>8 DEF RunOK
  <2> QED
    BY <1>5, <2>5, <2>6, <2>9, StepOfWorker
<1>6. ASSUME NEW q \in Runs, wrun[w] = q, Complete(w) PROVE InOrder'
  <2>1. /\ wpc[w] = "complete" /\ fetched[q] = {} /\ dispatched[q] /\ RunOK(q)
        /\ run' = [run EXCEPT ![q] = "completed"]
        /\ processed' = [processed EXCEPT ![q] = Cardinality(SkipsOf(q))]
        /\ Leave(w) /\ UNCHANGED <<dispatched, fetched, rows, verdict, counted>>
    BY <1>6 DEF Complete, CompleteRun, SetRun, InOrder, WorkerOK, postVars, reconcileVars
  <2>2. SkipsOf(q) = {}
    BY <2>1, DistinctAssumption DEF RunOK, SkipsOf
  <2>3. run'[q] = "completed" /\ processed'[q] = Cardinality(fetched'[q])
    BY <2>1, <2>2 DEF TypeOK
  <2>4. WorkerMoves(w, q) /\ WorkerOK(w)'
    BY <1>0, <2>1, LeaveOK DEF WorkerMoves, SameRun, TypeOK
  <2>5. \A u, v \in Workers : wrun'[u] = q /\ wrun'[v] = q => u = v
    BY <1>6, <2>4, OneWriter, DistinctAssumption DEF WorkerMoves, SameWorker
  <2>6. Settled(q)'
    BY <2>1 DEF Settled
  <2>7. TargetsOf(q)' = TargetsOf(q) /\ verdict[q] # "failed"
    BY <2>1 DEF TargetsOf, RunOK
  <2>8. RunOK(q)'
    BY <2>1, <2>3, <2>5, <2>6, <2>7 DEF RunOK
  <2> QED
    BY <1>6, <2>4, <2>8, StepOfWorker
<1>7. ASSUME NEW q \in Runs, wrun[w] = q, WorkerCrash(w) PROVE InOrder'
  BY <1>0, <1>7, LeaveBooks DEF WorkerCrash, SameRuns, runVars, postVars, reconcileVars
<1>8. wpc[w] # "idle" => wrun[w] \in Runs
  BY DEF TypeOK
<1> QED
  BY <1>1, <1>2, <1>3, <1>4, <1>5, <1>6, <1>7, <1>8
     DEF RunActs, Fetch, Store, List, MarkDispatched, Complete, WorkerCrash

LEMMA PostActsOrder ==
  ASSUME TypeOK, InOrder, PublishedKept, NEW w \in Workers, PostActs(w)
  PROVE  InOrder'
<1>0. UNCHANGED operatorVars
  BY DEF PostActs, InsertRow, SendTarget, SkipPost, CreateRefused, CreateTarget
<1>q. PICK q \in Runs : wrun[w] = q /\ wpc[w] \in {"loop", "row", "send"}
  BY DEF PostActs, InsertRow, SendTarget, SkipPost, CreateRefused, CreateTarget, TypeOK
<1>r. /\ run[q] \notin {"absent", "pending", "failed", "completed"} /\ verdict[q] = "none"
      /\ ~dispatched[q] /\ RunOK(q) /\ WorkerOK(w)
  BY <1>q, OneWriter DEF InOrder, RunOK, WorkerOK
\* The post gets its row.
<1>1. ASSUME NEW p \in Posts, NEW x, SetsRow(q, p, x), x # NoRow, p \in fetched[q],
             UNCHANGED <<run, dispatched, processed, fetched, verdict, counted>>,
             wrun' = wrun, WorkerOK(w)', \A v \in Workers \ {w} : SameWorker(v)
      PROVE  InOrder'
  <2>1. WorkerMoves(w, q)
    BY <1>0, <1>1, <1>q DEF WorkerMoves, SameRun, SetsRow, TypeOK
  <2>2. \A u, v \in Workers : wrun'[u] = q /\ wrun'[v] = q => u = v
    BY <1>1, <1>q, OneWriter
  <2>3. \A y \in Posts : rows'[q][y] # NoRow => y \in fetched'[q]
    BY <1>1, <1>r, RowSet DEF RunOK
  <2>4. RunOK(q)'
    BY <1>1, <1>r, <2>2, <2>3 DEF RunOK
  <2> QED
    BY <1>1, <1>q, <2>1, <2>4, StepOfWorker
<1>2. CASE InsertRow(w)
  <2>1. wpc[w] = "row" /\ UNCHANGED <<run, dispatched, processed, fetched, verdict, counted>>
    BY <1>2 DEF InsertRow, runVars, reconcileVars
  <2>2. CASE rows' = rows /\ Leave(w)
    BY <1>0, <1>q, <2>1, <2>2, LeaveBooks DEF SameRuns
  <2>3. CASE SetsRow(q, wpost[w], wtarget[w]) /\ Goto(w, "send")
    <3>1. wpost[w] \in Posts /\ wtarget[w] \in Targets /\ wtarget[w] # NoRow /\ wpost[w] \in fetched[q]
      BY <1>q, <1>r, <2>1, DistinctAssumption DEF TypeOK, WorkerOK
    <3>2. /\ wpc'[w] = "send" /\ wrun' = wrun /\ wtodo'[w] = wtodo[w]
          /\ \A v \in Workers \ {w} : SameWorker(v)
      BY <2>3, GotoMoves DEF Goto
    <3>3. rows'[q] = [rows[q] EXCEPT ![wpost[w]] = wtarget[w]]
      BY <2>3 DEF SetsRow, TypeOK
    <3>4. \A p \in fetched[q] : p \in wtodo[w] \/ rows'[q][p] # NoRow
      BY <1>q, <1>r, <2>1, <3>1, <3>3 DEF WorkerOK, TypeOK
    <3>5. WorkerOK(w)'
      BY <1>q, <1>r, <2>1, <3>2, <3>4 DEF WorkerOK
    <3> QED
      BY <1>1, <2>1, <2>3, <3>1, <3>2, <3>5
  <2> QED
    BY <1>2, <1>q, <2>2, <2>3 DEF InsertRow, SetsRow
<1>3. ASSUME NEW p \in Posts, SkipPost(w, p) PROVE InOrder'
  <2>1. /\ wpc[w] = "loop" /\ p \in wtodo[w]
        /\ UNCHANGED <<run, dispatched, processed, fetched, verdict, counted>>
    BY <1>3 DEF SkipPost, runVars, reconcileVars
  <2>2. CASE rows' = rows /\ Leave(w)
    BY <1>0, <1>q, <2>1, <2>2, LeaveBooks DEF SameRuns
  <2>3. CASE SetsRow(q, p, Skip) /\ wtodo' = [wtodo EXCEPT ![w] = @ \ {p}] /\ UNCHANGED <<wpc, wrun, wpost>>
    <3>1. Skip # NoRow /\ p \in fetched[q]
      BY <1>q, <1>r, <2>1, DistinctAssumption DEF WorkerOK
    <3>2. /\ wtodo'[w] = wtodo[w] \ {p} /\ wpc'[w] = "loop" /\ wrun'[w] = q
          /\ \A v \in Workers \ {w} : SameWorker(v)
      BY <1>q, <2>1, <2>3 DEF SameWorker, TypeOK
    <3>3. rows'[q] = [rows[q] EXCEPT ![p] = Skip]
      BY <2>3 DEF SetsRow, TypeOK
    <3>4. \A y \in fetched[q] : y \in wtodo'[w] \/ rows'[q][y] # NoRow
      BY <1>q, <1>r, <2>1, <3>1, <3>2, <3>3 DEF WorkerOK, TypeOK
    <3>5. WorkerOK(w)'
      BY <1>q, <1>r, <2>1, <3>2, <3>4 DEF WorkerOK
    <3> QED
      BY <1>1, <2>1, <2>3, <3>1, <3>2, <3>5
  <2> QED
    BY <1>3, <1>q, <2>2, <2>3 DEF SkipPost, SetsRow
<1>4. ASSUME NEW p \in Posts, NEW t \in Targets, CreateTarget(w, p, t) PROVE InOrder'
  <2>1. /\ wpc[w] = "loop" /\ p \in wtodo[w] /\ wpc' = [wpc EXCEPT ![w] = "row"]
        /\ wtodo' = [wtodo EXCEPT ![w] = @ \ {p}] /\ wpost' = [wpost EXCEPT ![w] = p] /\ wrun' = wrun
        /\ UNCHANGED <<run, dispatched, processed, fetched, rows, verdict, counted>>
    BY <1>4 DEF CreateTarget, runVars, reconcileVars
  <2>2. /\ wpc'[w] = "row" /\ wtodo'[w] = wtodo[w] \ {p} /\ wpost'[w] = p /\ wrun'[w] = q
        /\ WorkerMoves(w, q) /\ SameRun(q)
    BY <1>0, <1>q, <2>1 DEF WorkerMoves, SameWorker, SameRun, TypeOK
  <2>3. WorkerOK(w)'
    BY <1>q, <1>r, <2>1, <2>2 DEF WorkerOK, SameRun
  <2> QED
    BY <1>q, <2>2, <2>3, QuietStepOfWorker
<1>5. ASSUME NEW p \in Posts, CreateRefused(w, p) PROVE InOrder'
  BY <1>0, <1>5, <1>q, FailBooks DEF CreateRefused, postVars
<1>6. CASE SendTarget(w)
  <2>1. UNCHANGED <<fetched, rows, reconcileVars>>
    BY <1>6 DEF SendTarget
  <2>2. CASE Leave(w) /\ \E again \in BOOLEAN : FailRun(q, again)
    BY <1>0, <1>q, <2>1, <2>2, FailBooks
  <2>3. CASE Goto(w, "loop") /\ UNCHANGED runVars
    <3>1. /\ wpc'[w] = "loop" /\ wrun'[w] = q /\ wtodo'[w] = wtodo[w]
          /\ WorkerMoves(w, q) /\ SameRun(q)
      BY <1>0, <1>q, <2>1, <2>3, GotoMoves DEF WorkerMoves, SameRun, runVars, reconcileVars
    <3>2. WorkerOK(w)'
      BY <1>6, <1>q, <1>r, <3>1 DEF SendTarget, WorkerOK, SameRun
    <3> QED
      BY <1>q, <3>1, <3>2, QuietStepOfWorker
  <2> QED
    BY <1>6, <1>q, <2>2, <2>3 DEF SendTarget
<1> QED
  BY <1>2, <1>3, <1>4, <1>5, <1>6 DEF PostActs

-----------------------------------------------------------------------------
(* The rows of a run add up *)

LEMMA RowsAddUp ==
  ASSUME TypeOK, Rows, NEW r \in Runs, \A p \in Posts : rows[r][p] # NoRow <=> p \in fetched[r]
  PROVE  Cardinality(TargetsOf(r)) + Cardinality(SkipsOf(r)) = Cardinality(fetched[r])
<1> DEFINE made == {p \in Posts : rows[r][p] \in Targets}
           at == [p \in made |-> rows[r][p]]
<1>0. rows[r] \in [Posts -> Targets \cup {NoRow, Skip}] /\ fetched[r] \subseteq Posts
      /\ NoRow \notin Targets /\ Skip \notin Targets /\ NoRow # Skip
  BY DistinctAssumption DEF TypeOK
<1>1. IsFiniteSet(made) /\ IsFiniteSet(SkipsOf(r))
  BY PostsAssumption, FS_Subset DEF SkipsOf
<1>2. fetched[r] = made \cup SkipsOf(r) /\ made \cap SkipsOf(r) = {}
  BY <1>0 DEF SkipsOf
<1>3. Cardinality(fetched[r]) = Cardinality(made) + Cardinality(SkipsOf(r))
  <2>1. Cardinality(made \cup SkipsOf(r))
          = Cardinality(made) + Cardinality(SkipsOf(r)) - Cardinality(made \cap SkipsOf(r))
    BY <1>1, FS_Union
  <2>2. Cardinality(made) \in Nat /\ Cardinality(SkipsOf(r)) \in Nat /\ Cardinality({}) = 0
    BY <1>1, FS_CardinalityType, FS_EmptySet
  <2>3. Cardinality(fetched[r]) = Cardinality(made \cup SkipsOf(r))
        /\ Cardinality(made \cap SkipsOf(r)) = 0
    BY <1>2, <2>2
  <2> QED
    BY <2>1, <2>2, <2>3
<1>4. at \in Bijection(made, TargetsOf(r))
  <2>1. at \in [made -> TargetsOf(r)]
    BY DEF TargetsOf
  <2>2. \A p, q \in made : at[p] = at[q] => p = q
    BY DEF Rows
  <2>3. \A t \in TargetsOf(r) : \E p \in made : at[p] = t
    BY DEF TargetsOf
  <2> HIDE DEF at, made
  <2>4. at \in Injection(made, TargetsOf(r))
    BY <2>1, <2>2 DEF Injection, IsInjective
  <2>5. at \in Surjection(made, TargetsOf(r))
    BY <2>1, <2>3 DEF Surjection
  <2> QED
    BY <2>4, <2>5 DEF Bijection
<1>5. Cardinality(made) = Cardinality(TargetsOf(r))
  BY <1>1, <1>4, FS_Bijection DEF ExistsBijection
<1> QED
  BY <1>3, <1>5

-----------------------------------------------------------------------------
(* Beat, the API and the requests *)

LEMMA BeatActsOrder ==
  ASSUME TypeOK, Rows, InOrder, PublishedKept, Quiet', NEW q \in Runs, BeatActs(q)
  PROVE  InOrder'
<1>0. /\ UNCHANGED <<workerVars, operatorVars, fetched, rows>> /\ RunOK(q)
      /\ \A r \in Runs \ {q} : SameRun(r)
      /\ TargetsOf(q)' = TargetsOf(q) /\ (Settled(q) => Settled(q)')
  <2>1. UNCHANGED <<workerVars, operatorVars, fetched, rows>> /\ RunOK(q)
    BY DEF BeatActs, CreateRun, Cancel, LoseJob, RecoverRun, ReconcileRead, ReconcileWrite, ReconcileCrash, InOrder,
           postVars
  <2>2. \A r \in Runs \ {q} : SameRun(r)
    BY <2>1 DEF BeatActs, CreateRun, Cancel, LoseJob, RecoverRun, ReconcileRead, ReconcileWrite, ReconcileCrash,
                SameRun, SetRun, FailRun, CompleteRun, runVars, reconcileVars, TypeOK
  <2>3. TargetsOf(q)' = TargetsOf(q) /\ (Settled(q) => Settled(q)')
    BY <2>1 DEF TargetsOf, Settled, PublishedKept, TypeOK
  <2> QED
    BY <2>1, <2>2, <2>3
\* Nobody's view of the run changes.
<1>1. ASSUME RunOK(q)', dispatched'[q] = dispatched[q], run[q] = "failed" => run'[q] = "failed"
      PROVE  InOrder'
  <2>1. \A w \in Workers : SameWorker(w) /\ WorkerOK(w)
    BY <1>0 DEF workerVars, SameWorker, InOrder
  <2>2. ASSUME NEW w \in Workers, wrun[w] = q PROVE WorkerOK(w)'
    <3>1. Blank(q)' <=> Blank(q)
      BY <1>0, <1>1 DEF Blank
    <3> QED
      BY <1>0, <1>1, <2>1, <2>2, <3>1 DEF WorkerOK, SameWorker
  <2>3. ASSUME NEW o \in Operators, orun[o] = q PROVE RetryOK(o)'
    <3>1. Blank(q)' <=> Blank(q)
      BY <1>0, <1>1 DEF Blank
    <3> QED
      BY <1>0, <1>1, <2>3, <3>1 DEF RetryOK, operatorVars, InOrder
  <2>4. \A o \in Operators : SameRequest(o)
    BY <1>0 DEF SameRequest, operatorVars
  <2> QED
    BY <1>0, <1>1, <2>1, <2>2, <2>3, <2>4, StepOfRun
<1>2. CASE CreateRun(q)
  <2>1. /\ run[q] = "absent" /\ run'[q] = "pending"
        /\ UNCHANGED <<dispatched, processed, fetched, rows, verdict, counted, wrun>>
    BY <1>0, <1>2 DEF CreateRun, SetRun, reconcileVars, workerVars, TypeOK
  <2>2. RunOK(q)'
    BY <1>0, <2>1 DEF RunOK, Blank, Free, Settled
  <2> QED
    BY <1>1, <2>1, <2>2
<1>3. CASE Cancel(q)
  BY <1>3 DEF Cancel, Fault, Quiet
<1>4. CASE RecoverRun(q)
  <2>1. \A w \in Workers : wrun[w] # q
    BY <1>4 DEF RecoverRun, Fault, Quiet
  <2>2. /\ run'[q] = "failed" /\ ~dispatched[q]
        /\ UNCHANGED <<dispatched, processed, fetched, rows, verdict, counted, wrun>>
    BY <1>0, <1>4 DEF RecoverRun, FailRun, SetRun, reconcileVars, workerVars, TypeOK
  <2>3. RunOK(q)'
    BY <1>0, <2>1, <2>2 DEF RunOK, Free
  <2> QED
    BY <1>1, <2>2, <2>3
<1>5. CASE ReconcileRead(q)
  <2>1. /\ run[q] = "running" /\ dispatched[q] /\ verdict[q] = "none"
        /\ UNCHANGED <<run, dispatched, fetched, rows, wrun>>
    BY <1>0, <1>5 DEF ReconcileRead, workerVars
  <2> DEFINE S == TargetsOf(q)
             published == {t \in S : status[t] = "published"}
             failed == {t \in S : status[t] = "failed"}
  <2>2. CASE verdict' = verdict
    BY <1>0, <1>1, <2>1, <2>2 DEF RunOK, Blank, Free
  <2>3. CASE /\ S = published \cup failed /\ failed = {}
             /\ counted'[q] = Cardinality(published) /\ verdict'[q] = "completed"
    <3>1. S = published
      BY <2>3
    <3>2. Settled(q)
      <4> SUFFICES ASSUME NEW p \in fetched[q], rows[q][p] # Skip
                   PROVE  rows[q][p] \in PublishedTargets(p)
        BY DEF Settled
      <4>1. rows[q][p] \in Targets /\ p \in Posts
        BY <1>0, <2>1 DEF RunOK, TypeOK
      <4>2. rows[q][p] \in S
        BY <4>1 DEF TargetsOf
      <4> QED
        BY <3>1, <4>1, <4>2 DEF Rows, PublishedTargets
    <3>3. counted'[q] = Cardinality(TargetsOf(q))
      BY <2>3, <3>1
    <3>4. RunOK(q)'
      BY <1>0, <2>1, <2>3, <3>2, <3>3 DEF RunOK, Free
    <3> QED
      BY <1>1, <2>1, <3>4
  <2>4. CASE failed # {} /\ verdict'[q] = "failed"
    <3>1. fetched[q] # {}
      <4>1. PICK p \in Posts : rows[q][p] \in Targets
        BY <2>4 DEF TargetsOf
      <4> QED
        BY <1>0, <4>1, DistinctAssumption DEF RunOK
    <3>2. RunOK(q)'
      BY <1>0, <2>1, <2>4, <3>1 DEF RunOK, Free
    <3> QED
      BY <1>1, <2>1, <3>2
  <2> QED
    BY <1>5, <2>2, <2>3, <2>4 DEF ReconcileRead, reconcileVars, TypeOK
<1>6. CASE ReconcileWrite(q)
  <2>1. /\ dispatched[q] /\ verdict'[q] = "none"
        /\ UNCHANGED <<dispatched, fetched, rows, wrun>>
    BY <1>0, <1>6 DEF ReconcileWrite, FailRun, CompleteRun, workerVars, RunOK, TypeOK
  <2>2. run[q] # "failed"
    BY <1>0, <1>6 DEF RunOK, ReconcileWrite
  <2>3. CASE verdict[q] = "failed"
    <3>1. run'[q] = "failed"
      BY <1>6, <2>3 DEF ReconcileWrite, FailRun, SetRun, TypeOK
    <3>2. fetched[q] # {}
      BY <1>0, <2>3 DEF RunOK
    <3>3. Free(q)
      <4> SUFFICES ASSUME NEW w \in Workers, wrun[w] = q PROVE FALSE
        BY DEF Free
      <4>1. wpc[w] # "idle" /\ WorkerOK(w)
        BY DistinctAssumption DEF InOrder, WorkerOK
      <4> QED
        BY <2>1, <3>2, <4>1 DEF WorkerOK
    <3>4. RunOK(q)'
      BY <1>0, <2>1, <3>1, <3>3 DEF RunOK, Free
    <3> QED
      BY <1>1, <2>1, <2>2, <3>4
  <2>4. CASE verdict[q] = "completed"
    <3>1. run'[q] = "completed" /\ processed'[q] = counted[q] + Cardinality(SkipsOf(q))
      BY <1>6, <2>4 DEF ReconcileWrite, CompleteRun, SetRun, TypeOK
    <3>2. Settled(q) /\ counted[q] = Cardinality(TargetsOf(q))
      BY <1>0, <2>4 DEF RunOK
    <3>3. \A p \in Posts : rows[q][p] # NoRow <=> p \in fetched[q]
      BY <1>0, <2>1 DEF RunOK
    <3>4. processed'[q] = Cardinality(fetched[q])
      BY <3>1, <3>2, <3>3, RowsAddUp
    <3>5. RunOK(q)'
      BY <1>0, <2>1, <3>1, <3>2, <3>4 DEF RunOK, Free
    <3> QED
      BY <1>1, <2>1, <2>2, <3>5
  <2> QED
    BY <1>6, <2>3, <2>4 DEF ReconcileWrite, TypeOK
<1>7. CASE ReconcileCrash(q)
  <2>1. UNCHANGED <<run, dispatched, processed, fetched, rows, wrun>> /\ verdict'[q] = "none"
    BY <1>0, <1>7 DEF ReconcileCrash, runVars, workerVars, TypeOK
  <2>2. RunOK(q)'
    BY <1>0, <2>1 DEF RunOK, Blank, Free
  <2> QED
    BY <1>1, <2>1, <2>2
<1>8. CASE LoseJob(q)
  <2>1. UNCHANGED <<run, dispatched, processed, fetched, rows, wrun, verdict, counted>>
    BY <1>0, <1>8 DEF LoseJob, runVars, workerVars, reconcileVars
  <2>2. RunOK(q)'
    BY <1>0, <2>1 DEF RunOK, Blank, Free
  <2> QED
    BY <1>1, <2>1, <2>2
<1> QED
  BY <1>2, <1>3, <1>4, <1>5, <1>6, <1>7, <1>8 DEF BeatActs

\* Requests of operators do not overlap.
OneRequest == \A o1, o2 \in Operators : o1 = o2

LEMMA OperatorActsOrder ==
  ASSUME TypeOK, InOrder, PublishedKept, OneRequest,
         NEW o \in Operators, OperatorActs(o)
  PROVE  InOrder'
<1>0. /\ UNCHANGED <<workerVars, processed, fetched, verdict, counted>>
      /\ \A w \in Workers : SameWorker(w)
  BY DEF OperatorActs, DeleteRows, Reopen, EnqueueRetry, Pause, OperatorCrash, RequestRetry, RequestPause,
         runVars, postVars, reconcileVars, workerVars, SameWorker
<1>w. ASSUME NEW q \in Runs, \A r \in Runs \ {q} : SameRun(r), RunOK(q)', RetryOK(o)',
             \A w \in Workers : wrun[w] = q => dispatched'[q] = dispatched[q] /\ rows'[q] = rows[q]
      PROVE  InOrder'
  <2>1. ASSUME NEW w \in Workers, wrun[w] = q PROVE WorkerOK(w)'
    <3>1. Blank(q)' <=> Blank(q)
      BY <1>w, <2>1 DEF Blank
    <3> QED
      BY <1>0, <1>w, <2>1, <3>1 DEF WorkerOK, SameWorker, InOrder
  <2> QED
    BY <1>0, <1>w, <2>1, StepOfRun DEF OneRequest
<1>1. ASSUME UNCHANGED <<run, dispatched, rows>>, RetryOK(o)' PROVE InOrder'
  <2>1. \A r \in Runs : SameRun(r) /\ fetched[r] \subseteq Posts
    BY <1>0, <1>1 DEF SameRun, TypeOK
  <2>2. \A r \in Runs : RunOK(r)'
    BY <1>0, <2>1, RunKept DEF SameWorker, InOrder
  <2>3. \A w \in Workers : WorkerOK(w)'
    BY <1>0, <2>1, WorkerKept DEF InOrder, TypeOK
  <2> QED
    BY <1>1, <2>2, <2>3 DEF InOrder, OneRequest
<1>2. ASSUME opc'[o] \notin {"delete", "reopen"} PROVE RetryOK(o)'
  BY <1>2 DEF RetryOK
<1>3. ASSUME NEW q \in Runs, RequestRetry(o, q) PROVE InOrder'
  <2>1. /\ UNCHANGED <<run, dispatched, rows>> /\ run[q] = "failed" /\ ~dispatched[q]
        /\ opc'[o] = "delete" /\ orun'[o] = q
    BY <1>3 DEF RequestRetry, runVars, TypeOK
  <2>2. RetryOK(o)'
    BY <2>1 DEF RetryOK
  <2> QED
    BY <1>1, <2>1, <2>2
<1>4. ASSUME NEW q \in Runs, RequestPause(o, q) PROVE InOrder'
  <2>1. UNCHANGED <<run, dispatched, rows>> /\ opc'[o] = "pause"
    BY <1>4 DEF RequestPause, runVars, postVars, TypeOK
  <2> QED
    BY <1>1, <1>2, <2>1
<1>5. CASE EnqueueRetry(o) \/ OperatorCrash(o)
  <2>1. UNCHANGED <<run, dispatched, rows>> /\ opc'[o] = "idle"
    BY <1>5 DEF EnqueueRetry, OperatorCrash, runVars, postVars, TypeOK
  <2> QED
    BY <1>1, <1>2, <2>1
\* What a retry has of its run.
<1>6. ASSUME NEW q \in Runs, orun[o] = q, opc[o] \in {"delete", "reopen"}
      PROVE  /\ run[q] = "failed" /\ ~dispatched[q] /\ RunOK(q) /\ Free(q)
             /\ verdict[q] = "none" /\ (opc[o] = "reopen" => Blank(q))
  BY <1>6 DEF InOrder, RetryOK, RunOK
<1>7. CASE DeleteRows(o)
  <2>1. PICK q \in Runs : orun[o] = q
    BY <1>7 DEF DeleteRows, TypeOK
  <2>2. /\ opc[o] = "delete" /\ opc'[o] = "reopen" /\ orun'[o] = q
        /\ rows' = [rows EXCEPT ![q] = [p \in Posts |-> NoRow]] /\ UNCHANGED <<run, dispatched>>
    BY <1>7, <2>1 DEF DeleteRows, runVars, TypeOK
  <2>3. (\A r \in Runs \ {q} : SameRun(r)) /\ (\A p \in Posts : rows'[q][p] = NoRow)
    BY <1>0, <2>2 DEF SameRun, TypeOK
  <2>4. /\ run'[q] = "failed" /\ ~dispatched'[q] /\ verdict'[q] = "none" /\ Free(q)' /\ RunOK(q) /\ Free(q)
    BY <1>0, <1>6, <2>1, <2>2 DEF Free, SameWorker
  <2>5. RunOK(q)'
    BY <2>3, <2>4 DEF RunOK, Free
  <2>6. RetryOK(o)'
    BY <2>2, <2>3, <2>4 DEF RetryOK, Blank
  <2> QED
    BY <1>w, <2>3, <2>4, <2>5, <2>6 DEF Free
<1>8. CASE Reopen(o)
  <2>1. PICK q \in Runs : orun[o] = q
    BY <1>8 DEF Reopen, TypeOK
  <2>2. /\ opc[o] = "reopen" /\ opc'[o] = "enqueue" /\ UNCHANGED rows
        /\ run' = [run EXCEPT ![q] = "pending"] /\ dispatched' = [dispatched EXCEPT ![q] = FALSE]
    BY <1>8, <2>1 DEF Reopen, SetRun, postVars, TypeOK
  <2>3. /\ \A r \in Runs \ {q} : SameRun(r)
        /\ run'[q] = "pending" /\ ~dispatched'[q]
    BY <1>0, <2>2 DEF SameRun, TypeOK
  <2>4. /\ verdict'[q] = "none" /\ Free(q)' /\ Free(q) /\ Blank(q)'
    BY <1>0, <1>6, <2>1, <2>2, <2>3 DEF Free, SameWorker, Blank
  <2>5. RunOK(q)'
    BY <2>3, <2>4 DEF RunOK, Free, Blank
  <2> QED
    BY <1>2, <1>w, <2>2, <2>3, <2>4, <2>5 DEF Free
<1>9. CASE Pause(o)
  <2>1. PICK q \in Runs : orun[o] = q
    BY <1>9 DEF Pause, TypeOK
  <2>2. /\ opc'[o] = "idle" /\ run' = [run EXCEPT ![q] = "paused"] /\ UNCHANGED <<dispatched, rows>>
    BY <1>9, <2>1 DEF Pause, postVars, TypeOK
  <2>3. /\ \A r \in Runs \ {q} : SameRun(r)
        /\ run'[q] = "paused" /\ RunOK(q)
    BY <1>0, <2>2 DEF SameRun, TypeOK, InOrder
  <2>4. /\ dispatched'[q] = dispatched[q] /\ rows'[q] = rows[q] /\ verdict'[q] = verdict[q]
        /\ fetched'[q] = fetched[q] /\ counted'[q] = counted[q]
        /\ \A w \in Workers : wrun'[w] = wrun[w]
    BY <1>0, <2>2 DEF SameWorker
  <2>5. (Settled(q) => Settled(q)') /\ TargetsOf(q)' = TargetsOf(q)
    BY <2>4 DEF Settled, PublishedKept, TargetsOf, TypeOK
  <2>6. RunOK(q)'
    BY <2>3, <2>4, <2>5 DEF RunOK
  <2> QED
    BY <1>2, <1>w, <2>2, <2>3, <2>4, <2>6
<1> QED
  BY <1>3, <1>4, <1>5, <1>7, <1>8, <1>9 DEF OperatorActs

LEMMA NextBooks ==
  ASSUME OneRequest
  PROVE  TypeOK /\ Tasks /\ Rows /\ Books /\ [Next]_vars => Books'
<1> SUFFICES ASSUME TypeOK, Tasks, Rows, Books, [Next]_vars, Quiet' PROVE InOrder'
  BY DEF Books
<1>1. PublishedKept /\ InOrder
  BY NextPublishedKept, HappenedGrows DEF Books, Quiet
<1>2. CASE UNCHANGED vars
  <2>1. /\ \A r \in Runs : SameRun(r) /\ fetched[r] \subseteq Posts
        /\ \A w \in Workers : SameWorker(w) /\ (wpc[w] = "idle" \/ wrun[w] \in Runs)
        /\ \A o \in Operators : SameRequest(o) /\ (opc[o] = "idle" \/ orun[o] \in Runs)
    BY <1>2 DEF vars, runVars, postVars, reconcileVars, workerVars, operatorVars, SameRun, SameWorker,
                SameRequest, TypeOK
  <2>2. \A r \in Runs : RunOK(r)'
    BY <1>1, <2>1, RunKept DEF InOrder, SameWorker
  <2>3. (\A w \in Workers : WorkerOK(w)') /\ (\A o \in Operators : RetryOK(o)')
    BY <1>1, <2>1, WorkerKept, RetryKept DEF InOrder
  <2> QED
    BY <2>2, <2>3 DEF InOrder
<1> QED
  BY <1>1, <1>2, NextCases, OperatorActsOrder, BeatActsOrder, RunActsOrder, PostActsOrder, TaskActsOrder

-----------------------------------------------------------------------------
(* Theorems *)

LEMMA Invariance == Spec => []IInv
<1>1. Init => IInv
  <2> SUFFICES ASSUME Init PROVE Hands /\ Tasks /\ Rows /\ Claims
    BY InitTypeOK DEF IInv
  <2>1. /\ \A w \in Workers : wpc[w] = "idle"
        /\ \A t \in Targets : status[t] = "absent" /\ task[t] = "none" /\ t \notin sent
        /\ \A r \in Runs, p \in Posts : rows[r][p] \notin Targets
    BY DistinctAssumption DEF Init, Target!Init
  <2> QED
    BY <2>1 DEF Hands, HandOK, Tasks, TaskOK, Rows, Claims, OneClaim, Busy, InHand
<1>2. IInv /\ [Next]_vars => IInv'
  BY NextTypeOK, NextHands, NextTasks, NextRows, NextClaims DEF IInv
<1> QED
  BY <1>1, <1>2, PTL DEF Spec

\* Every reachable state of the runs, the ledger, the targets, the workers and the
\* requests is well typed: a worker between two steps knows its run and its target.
THEOREM TypeCorrect == Spec => []TypeOK
<1>1. IInv => TypeOK
  BY DEF IInv
<1> QED
  BY <1>1, Invariance, PTL

\* claim_publish, the release after a failed dispatch and the release at the end of
\* the retries keep a post to one published target as long as no run is retried by hand.
THEOREM PublishedOncePerPost == Spec => []PublishedOnce
<1>1. IInv => PublishedOnce
  <2> SUFFICES ASSUME IInv, "retry" \notin happened, NEW p \in Posts
               PROVE  Cardinality(PublishedTargets(p)) <= 1
    BY DEF PublishedOnce
  <2>1. \A t, u \in PublishedTargets(p) : t = u
    BY DEF IInv, Claims, OneClaim, Busy, PublishedTargets
  <2>2. CASE PublishedTargets(p) = {}
    BY <2>2, FS_EmptySet
  <2>3. ASSUME NEW t \in PublishedTargets(p) PROVE Cardinality(PublishedTargets(p)) = 1
    <3>1. PublishedTargets(p) = {t}
      BY <2>1, <2>3
    <3> QED
      BY <3>1, FS_Singleton
  <2> QED
    BY <2>2, <2>3
<1> QED
  BY <1>1, Invariance, PTL

\* A target with a message, a task or a post holds the claim of its post until a
\* retry by hand: no other run and no live-sync can claim it.
THEOREM ClaimsAreHeld == Spec => []UnderWayIsClaimed
<1>1. IInv => UnderWayIsClaimed
  BY DEF IInv, Claims, OneClaim, Busy, UnderWayIsClaimed
<1> QED
  BY <1>1, Invariance, PTL

\* What a completed run says of its posts is what became of them: no crash, failed
\* send, pause or retry by hand gets a run completed with a post that is neither a
\* skip nor published, and the sum that reconcile or the worker writes is right -
\* while no run is cancelled, outlives its worker's time, or is retried twice at once.
THEOREM CompletedRunsAddUp == ASSUME OneRequest PROVE Spec => []CompletedAccountsForAll
<1>1. Init => Books
  <2> SUFFICES ASSUME Init PROVE InOrder
    BY DEF Books
  <2>1. /\ \A r \in Runs : /\ run[r] = "absent" /\ ~dispatched[r] /\ verdict[r] = "none" /\ fetched[r] = {}
                           /\ \A p \in Posts : rows[r][p] = NoRow
        /\ \A w \in Workers : wpc[w] = "idle" /\ wrun[w] = NoRun
        /\ \A o \in Operators : opc[o] = "idle"
    BY DEF Init
  <2> QED
    BY <2>1, DistinctAssumption DEF InOrder, RunOK, WorkerOK, RetryOK, Blank, Free
<1>2. IInv /\ Books /\ [Next]_vars => Books'
  BY NextBooks DEF IInv
<1>3. Books => CompletedAccountsForAll
  BY DEF Books, Quiet, InOrder, RunOK, Settled, CompletedAccountsForAll
<1> QED
  BY <1>1, <1>2, <1>3, Invariance, PTL DEF Spec

=============================================================================

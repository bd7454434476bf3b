----------------------------- MODULE BatchImport -----------------------------
(***************************************************************************)
(* Batch import runs: the API that creates, pauses, cancels and retries a  *)
(* run, the Celery workers in SyncService.run_job, the two beat tasks      *)
(* (recover_stuck_jobs and reconcile_batch_import_runs), the ledger of     *)
(* published posts that all runs share, and the targets the runs create.   *)
(*                                                                         *)
(* A target moves by the actions of TargetLifecycle, which                 *)
(* PublicationTargets implements; what its task still owes (a retry, the   *)
(* release of the claim) is kept beside it, because runs look at targets   *)
(* between those steps.                                                    *)
(*                                                                         *)
(* All runs here copy the same source channel to the same target channel,  *)
(* so a post is one row of the ledger.  Every run has a target channel:    *)
(* create_run demands one, which makes the retry of                        *)
(* process_batch_import_run_task unreachable.                              *)
(***************************************************************************)
EXTENDS Naturals, FiniteSets

CONSTANTS
  Runs,        \* batch_import_runs rows
  Posts,       \* posts of the source channel
  Targets,     \* publication_targets rows
  Workers,     \* Celery processes that take process_batch_import_run
  Operators,   \* requests to the retry and pause endpoints in progress
  NoRun, NoPost, NoTarget, NoRow, Skip,
  MaxRetries,  \* BATCH_IMPORT_RUN_MAX_RETRIES
  Faults,      \* which of FaultKinds can happen
  MaxFaults    \* bound: how many of them, in all

FaultKinds ==
  { "crash",       \* a process dies between two steps
    "overrun",     \* a run outlives the stuck timeout while its worker lives
    "brokerdown",  \* sending a task of a run or a target raises
    "retry", "pause", "cancel" }   \* requests of the user

ASSUME MaxRetriesAssumption == MaxRetries \in Nat
ASSUME PostsAssumption == IsFiniteSet(Posts)
ASSUME FaultsAssumption == Faults \subseteq FaultKinds /\ MaxFaults \in Nat
ASSUME DistinctAssumption ==
  /\ NoRun \notin Runs /\ NoPost \notin Posts /\ NoTarget \notin Targets
  /\ NoRow \notin Targets /\ Skip \notin Targets /\ NoRow # Skip

VARIABLES
  run,        \* batch_import_runs.status, "absent" before the insert
  retryable,  \* error_retryable
  dispatched, \* batch_import_dispatch_enqueued_at is set
  processed,  \* processed_posts
  fetched,    \* batch_import_fetched_posts of a run
  rows,       \* batch_import_enqueued_posts: per run and post a target, Skip or NoRow
  ledger,     \* published_posts: the posts that are claimed
  jobs,       \* messages of process_batch_import_run
  status, retries,  \* of the targets, as in TargetLifecycle
  origin,     \* the post a target was created for
  sent,       \* targets that have a message of process_target
  task,       \* what the live task of a target is at
  wpc, wrun, wtodo, wpost, wtarget,   \* a worker in run_job
  opc, orun,  \* an operator's request
  verdict, counted, \* what reconcile found of a run and is about to write
  faults,     \* how many faults and requests happened
  happened    \* and of which kinds

runVars == <<run, retryable, dispatched, processed>>
postVars == <<fetched, rows, ledger>>
targetVars == <<status, retries, origin, sent, task>>
workerVars == <<wpc, wrun, wtodo, wpost, wtarget>>
operatorVars == <<opc, orun>>
reconcileVars == <<verdict, counted>>
faultVars == <<faults, happened>>
vars == <<runVars, postVars, targetVars, workerVars, operatorVars, reconcileVars, jobs, faultVars>>

Target == INSTANCE TargetLifecycle

RunStatuses == {"absent", "pending", "paused", "running", "completed", "failed"}
TaskSteps == {"none", "publishing", "retrying", "aborting"}
WorkerSteps == {"idle", "fetch", "store", "list", "loop", "row", "send",
                "dispatch", "dispatch_nothing", "complete"}
OperatorSteps == {"idle", "delete", "reopen", "enqueue", "pause"}

TypeOK ==
  /\ run \in [Runs -> RunStatuses]
  /\ retryable \in [Runs -> BOOLEAN] /\ dispatched \in [Runs -> BOOLEAN]
  /\ processed \in [Runs -> Nat]
  /\ fetched \in [Runs -> SUBSET Posts]
  /\ rows \in [Runs -> [Posts -> Targets \cup {NoRow, Skip}]]
  /\ ledger \in SUBSET Posts
  /\ jobs \in [Runs -> Nat]
  /\ status \in [Targets -> Target!Statuses] /\ retries \in [Targets -> 0..MaxRetries]
  /\ origin \in [Targets -> Posts \cup {NoPost}]
  /\ sent \in SUBSET Targets /\ task \in [Targets -> TaskSteps]
  /\ wpc \in [Workers -> WorkerSteps] /\ wrun \in [Workers -> Runs \cup {NoRun}]
  /\ wtodo \in [Workers -> SUBSET Posts] /\ wpost \in [Workers -> Posts \cup {NoPost}]
  /\ wtarget \in [Workers -> Targets \cup {NoTarget}]
  /\ \A w \in Workers : wpc[w] # "idle" => wrun[w] \in Runs
  /\ \A w \in Workers :
       wpc[w] \in {"row", "send"} => wpost[w] \in Posts /\ wtarget[w] \in Targets
  /\ opc \in [Operators -> OperatorSteps] /\ orun \in [Operators -> Runs \cup {NoRun}]
  /\ \A o \in Operators : opc[o] # "idle" => orun[o] \in Runs
  /\ verdict \in [Runs -> {"none", "completed", "failed"}] /\ counted \in [Runs -> Nat]
  /\ faults \in 0..MaxFaults /\ happened \in SUBSET Faults

Init ==
  /\ run = [r \in Runs |-> "absent"]
  /\ retryable = [r \in Runs |-> FALSE] /\ dispatched = [r \in Runs |-> FALSE]
  /\ processed = [r \in Runs |-> 0]
  /\ fetched = [r \in Runs |-> {}] /\ rows = [r \in Runs |-> [p \in Posts |-> NoRow]]
  /\ ledger = {} /\ jobs = [r \in Runs |-> 0]
  /\ Target!Init /\ origin = [t \in Targets |-> NoPost] /\ sent = {}
  /\ task = [t \in Targets |-> "none"]
  /\ wpc = [w \in Workers |-> "idle"] /\ wrun = [w \in Workers |-> NoRun]
  /\ wtodo = [w \in Workers |-> {}] /\ wpost = [w \in Workers |-> NoPost]
  /\ wtarget = [w \in Workers |-> NoTarget]
  /\ opc = [o \in Operators |-> "idle"] /\ orun = [o \in Operators |-> NoRun]
  /\ verdict = [r \in Runs |-> "none"] /\ counted = [r \in Runs |-> 0]
  /\ faults = 0 /\ happened = {}

-----------------------------------------------------------------------------
(* Helpers *)

Fault(kind) ==
  /\ kind \in Faults
  /\ faults < MaxFaults
  /\ faults' = faults + 1
  /\ happened' = happened \cup {kind}

\* Everything but the creation and the claim of a run writes blindly by id.
SetRun(r, s) == run' = [run EXCEPT ![r] = s]

\* mark_failed: whatever the status has become.
FailRun(r, again) ==
  /\ SetRun(r, "failed")
  /\ retryable' = [retryable EXCEPT ![r] = again]
  /\ UNCHANGED <<dispatched, processed>>

CompleteRun(r, n) ==
  /\ SetRun(r, "completed")
  /\ processed' = [processed EXCEPT ![r] = n]
  /\ retryable' = [retryable EXCEPT ![r] = FALSE]
  /\ UNCHANGED dispatched

SkipsOf(r) == {p \in Posts : rows[r][p] = Skip}
TargetsOf(r) == {rows[r][p] : p \in Posts} \cap Targets
Handled(r) == {p \in Posts : rows[r][p] # NoRow}

Goto(w, step) ==
  /\ wpc' = [wpc EXCEPT ![w] = step]
  /\ UNCHANGED <<wrun, wtodo, wpost, wtarget>>

\* run_job returns or raises.
Leave(w) ==
  /\ wpc' = [wpc EXCEPT ![w] = "idle"]
  /\ wrun' = [wrun EXCEPT ![w] = NoRun]
  /\ wtodo' = [wtodo EXCEPT ![w] = {}]
  /\ wpost' = [wpost EXCEPT ![w] = NoPost]
  /\ wtarget' = [wtarget EXCEPT ![w] = NoTarget]

-----------------------------------------------------------------------------
(* The API *)

\* create_run commits; if the task cannot be sent the run stays pending.
CreateRun(r) ==
  /\ run[r] = "absent"
  /\ SetRun(r, "pending")
  /\ \/ jobs' = [jobs EXCEPT ![r] = @ + 1] /\ UNCHANGED faultVars
     \/ Fault("brokerdown") /\ UNCHANGED jobs
  /\ UNCHANGED <<retryable, dispatched, processed, postVars, targetVars, workerVars,
                 operatorVars, reconcileVars>>

\* retry_manual, first transaction: a failed run that was not fully dispatched
\* gives back the claims of its posts but those that are skips, published or
\* in flight.
RequestRetry(o, r) ==
  /\ Fault("retry")
  /\ opc[o] = "idle" /\ run[r] = "failed" /\ ~dispatched[r]
  /\ ledger' = ledger \ {p \in fetched[r] :
                           /\ rows[r][p] # Skip
                           /\ rows[r][p] \in Targets =>
                                status[rows[r][p]] \notin {"pending", "publishing", "published"}}
  /\ opc' = [opc EXCEPT ![o] = "delete"] /\ orun' = [orun EXCEPT ![o] = r]
  /\ UNCHANGED <<runVars, fetched, rows, targetVars, workerVars, reconcileVars, jobs>>

\* delete_enqueued_posts_for_run, a transaction of its own.
DeleteRows(o) ==
  /\ opc[o] = "delete"
  /\ rows' = [rows EXCEPT ![orun[o]] = [p \in Posts |-> NoRow]]
  /\ opc' = [opc EXCEPT ![o] = "reopen"]
  /\ UNCHANGED <<runVars, fetched, ledger, targetVars, workerVars, orun, reconcileVars, jobs,
                 faultVars>>

\* The run goes back to pending, whatever its status has become.
Reopen(o) ==
  /\ opc[o] = "reopen"
  /\ SetRun(orun[o], "pending")
  /\ dispatched' = [dispatched EXCEPT ![orun[o]] = FALSE]
  /\ retryable' = [retryable EXCEPT ![orun[o]] = FALSE]
  /\ opc' = [opc EXCEPT ![o] = "enqueue"]
  /\ UNCHANGED <<processed, postVars, targetVars, workerVars, orun, reconcileVars, jobs, faultVars>>

EnqueueRetry(o) ==
  /\ opc[o] = "enqueue"
  /\ \/ jobs' = [jobs EXCEPT ![orun[o]] = @ + 1] /\ UNCHANGED faultVars
     \/ Fault("brokerdown") /\ UNCHANGED jobs
  /\ opc' = [opc EXCEPT ![o] = "idle"] /\ orun' = [orun EXCEPT ![o] = NoRun]
  /\ UNCHANGED <<runVars, postVars, targetVars, workerVars, reconcileVars>>

\* Pause reads the status and then writes by id.
RequestPause(o, r) ==
  /\ Fault("pause")
  /\ opc[o] = "idle" /\ run[r] = "pending"
  /\ opc' = [opc EXCEPT ![o] = "pause"] /\ orun' = [orun EXCEPT ![o] = r]
  /\ UNCHANGED <<runVars, postVars, targetVars, workerVars, reconcileVars, jobs>>

Pause(o) ==
  /\ opc[o] = "pause"
  /\ run' = [run EXCEPT ![orun[o]] = "paused"]
  /\ opc' = [opc EXCEPT ![o] = "idle"] /\ orun' = [orun EXCEPT ![o] = NoRun]
  /\ UNCHANGED <<retryable, dispatched, processed, postVars, targetVars, workerVars,
                 reconcileVars, jobs, faultVars>>

OperatorCrash(o) ==
  /\ Fault("crash")
  /\ opc[o] # "idle"
  /\ opc' = [opc EXCEPT ![o] = "idle"] /\ orun' = [orun EXCEPT ![o] = NoRun]
  /\ UNCHANGED <<runVars, postVars, targetVars, workerVars, reconcileVars, jobs>>

\* Cancel looks at nothing.
Cancel(r) ==
  /\ Fault("cancel")
  /\ run[r] # "absent"
  /\ run' = [run EXCEPT ![r] = "failed"]
  /\ retryable' = [retryable EXCEPT ![r] = FALSE]
  /\ UNCHANGED <<dispatched, processed, postVars, targetVars, workerVars,
                 operatorVars, reconcileVars, jobs>>

-----------------------------------------------------------------------------
(* A worker in run_job *)

\* The message is acknowledged before the task runs; acquire_for_processing is
\* a conditional UPDATE, and a run that is not pending is none of its business.
Acquire(w, r) ==
  /\ wpc[w] = "idle" /\ jobs[r] > 0
  /\ jobs' = [jobs EXCEPT ![r] = @ - 1]
  /\ \/ /\ run[r] = "pending"
        /\ SetRun(r, "running")
        /\ wpc' = [wpc EXCEPT ![w] = "fetch"] /\ wrun' = [wrun EXCEPT ![w] = r]
        /\ UNCHANGED <<retryable, dispatched, processed, wtodo, wpost, wtarget>>
     \/ run[r] # "pending" /\ UNCHANGED <<runVars, workerVars>>
  /\ UNCHANGED <<postVars, targetVars, operatorVars, reconcileVars, faultVars>>

\* The process dies between the acknowledgement and the UPDATE.
LoseJob(r) ==
  /\ Fault("crash")
  /\ jobs[r] > 0
  /\ jobs' = [jobs EXCEPT ![r] = @ - 1]
  /\ UNCHANGED <<runVars, postVars, targetVars, workerVars, operatorVars, reconcileVars>>

\* Credentials are resolved outside the try block: that error leaves the run
\* running.  Posts fetched by an earlier attempt are used again.
Fetch(w) ==
  LET r == wrun[w] IN
  /\ wpc[w] = "fetch"
  /\ \/ /\ Leave(w) /\ UNCHANGED runVars
     \/ /\ fetched[r] # {} /\ Goto(w, "list") /\ UNCHANGED runVars
     \/ /\ fetched[r] = {}
        /\ \/ /\ \E again \in BOOLEAN : FailRun(r, again)
              /\ Leave(w)
           \/ /\ \E S \in SUBSET Posts : wtodo' = [wtodo EXCEPT ![w] = S]
              /\ wpc' = [wpc EXCEPT ![w] = "store"]
              /\ UNCHANGED <<wrun, wpost, wtarget, runVars>>
  /\ UNCHANGED <<postVars, targetVars, operatorVars, reconcileVars, jobs, faultVars>>

\* store_fetched_posts replaces what another worker may have stored.
Store(w) ==
  /\ wpc[w] = "store"
  /\ fetched' = [fetched EXCEPT ![wrun[w]] = wtodo[w]]
  /\ Goto(w, "list")
  /\ UNCHANGED <<runVars, rows, ledger, targetVars, operatorVars, reconcileVars, jobs, faultVars>>

List(w) ==
  LET todo == fetched[wrun[w]] \ Handled(wrun[w]) IN
  /\ wpc[w] = "list"
  /\ wtodo' = [wtodo EXCEPT ![w] = todo]
  /\ wpc' = [wpc EXCEPT ![w] = IF todo = {} THEN "dispatch_nothing" ELSE "loop"]
  /\ UNCHANGED <<wrun, wpost, wtarget, runVars, postVars, targetVars, operatorVars,
                 reconcileVars, jobs, faultVars>>

\* The post is claimed by another row of the ledger: a skip is recorded.  If
\* the run has a row for the post already, the unique key refuses it, the
\* session is unusable after the failed flush, and mark_failed raises as well.
SkipPost(w, p) ==
  LET r == wrun[w] IN
  /\ wpc[w] = "loop" /\ p \in wtodo[w] /\ p \in ledger
  /\ \/ /\ rows[r][p] = NoRow
        /\ rows' = [rows EXCEPT ![r][p] = Skip]
        /\ wtodo' = [wtodo EXCEPT ![w] = @ \ {p}]
        /\ UNCHANGED <<wpc, wrun, wpost, wtarget>>
     \/ rows[r][p] # NoRow /\ Leave(w) /\ UNCHANGED rows
  /\ UNCHANGED <<runVars, fetched, ledger, targetVars, operatorVars, reconcileVars, jobs, faultVars>>

\* Variant: the ledger is read, not claimed.
CreateTargetUnclaimed(w, p, t) ==
  LET r == wrun[w] IN
  /\ wpc[w] = "loop" /\ p \in wtodo[w] /\ p \notin ledger
  /\ Target!Create(t)
  /\ origin' = [origin EXCEPT ![t] = p]
  /\ wpc' = [wpc EXCEPT ![w] = "row"]
  /\ wtodo' = [wtodo EXCEPT ![w] = @ \ {p}]
  /\ wpost' = [wpost EXCEPT ![w] = p] /\ wtarget' = [wtarget EXCEPT ![w] = t]
  /\ UNCHANGED <<wrun, runVars, postVars, sent, task, operatorVars, reconcileVars, jobs, faultVars>>

\* claim_publish and the content, plan and target, in one commit.
CreateTarget(w, p, t) ==
  LET r == wrun[w] IN
  /\ wpc[w] = "loop" /\ p \in wtodo[w] /\ p \notin ledger
  /\ ledger' = ledger \cup {p}
  /\ Target!Create(t)
  /\ origin' = [origin EXCEPT ![t] = p]
  /\ wpc' = [wpc EXCEPT ![w] = "row"]
  /\ wtodo' = [wtodo EXCEPT ![w] = @ \ {p}]
  /\ wpost' = [wpost EXCEPT ![w] = p] /\ wtarget' = [wtarget EXCEPT ![w] = t]
  /\ UNCHANGED <<wrun, runVars, fetched, rows, sent, task, operatorVars, reconcileVars, jobs,
                 faultVars>>

\* The claim is deleted again in the transaction that fails the run.
CreateRefused(w, p) ==
  /\ wpc[w] = "loop" /\ p \in wtodo[w] /\ p \notin ledger
  /\ \E again \in BOOLEAN : FailRun(wrun[w], again)
  /\ Leave(w)
  /\ UNCHANGED <<postVars, targetVars, operatorVars, reconcileVars, jobs, faultVars>>

\* insert_enqueued_publication, a commit of its own; see SkipPost for a
\* second row of the same post.
InsertRow(w) ==
  LET r == wrun[w]  p == wpost[w] IN
  /\ wpc[w] = "row"
  /\ \/ /\ rows[r][p] = NoRow
        /\ rows' = [rows EXCEPT ![r][p] = wtarget[w]]
        /\ Goto(w, "send")
     \/ rows[r][p] # NoRow /\ Leave(w) /\ UNCHANGED rows
  /\ UNCHANGED <<runVars, fetched, ledger, targetVars, operatorVars, reconcileVars, jobs, faultVars>>

\* Variant: the next post is handled although the task was not sent.
SendTargetForgotten(w) ==
  /\ wpc[w] = "send"
  /\ Goto(w, "loop")
  /\ UNCHANGED <<runVars, postVars, targetVars, operatorVars, reconcileVars, jobs, faultVars>>

\* If the task cannot be sent, the claim is given back, the run fails, and the
\* target and its row stay.
SendTarget(w) ==
  /\ wpc[w] = "send"
  /\ \/ /\ sent' = sent \cup {wtarget[w]}
        /\ Goto(w, "loop")
        /\ UNCHANGED <<runVars, ledger, faultVars>>
     \/ /\ Fault("brokerdown")
        /\ ledger' = ledger \ {wpost[w]}
        /\ \E again \in BOOLEAN : FailRun(wrun[w], again)
        /\ Leave(w)
        /\ UNCHANGED sent
  /\ UNCHANGED <<fetched, rows, status, retries, origin, task, operatorVars, reconcileVars, jobs>>

\* mark_dispatch_phase_complete, whatever the run's status has become.
MarkDispatched(w) ==
  /\ \/ wpc[w] = "loop" /\ wtodo[w] = {} /\ Leave(w)
     \/ wpc[w] = "dispatch_nothing" /\ Goto(w, "complete")
  /\ dispatched' = [dispatched EXCEPT ![wrun[w]] = TRUE]
  /\ UNCHANGED <<run, retryable, processed, postVars, targetVars, operatorVars,
                 reconcileVars, jobs, faultVars>>

\* Nothing to publish: the run ends here.
Complete(w) ==
  /\ wpc[w] = "complete"
  /\ CompleteRun(wrun[w], Cardinality(SkipsOf(wrun[w])))
  /\ Leave(w)
  /\ UNCHANGED <<postVars, targetVars, operatorVars, reconcileVars, jobs, faultVars>>

WorkerCrash(w) ==
  /\ Fault("crash")
  /\ wpc[w] # "idle"
  /\ Leave(w)
  /\ UNCHANGED <<runVars, postVars, targetVars, operatorVars, reconcileVars, jobs>>

Work(w) ==
  \/ \E r \in Runs : Acquire(w, r)
  \/ Fetch(w) \/ Store(w) \/ List(w)
  \/ \E p \in Posts : SkipPost(w, p) \/ CreateRefused(w, p) \/ \E t \in Targets : CreateTarget(w, p, t)
  \/ InsertRow(w) \/ SendTarget(w) \/ MarkDispatched(w) \/ Complete(w)

-----------------------------------------------------------------------------
(* The tasks of the targets *)

taskFrame == <<runVars, postVars, workerVars, operatorVars, reconcileVars, jobs>>

\* A second message of a target that is not pending is dropped.
TakeTarget(t) ==
  /\ t \in sent
  /\ sent' = sent \ {t}
  /\ IF status[t] = "pending"
     THEN Target!Claim(t) /\ task' = [task EXCEPT ![t] = "publishing"]
     ELSE UNCHANGED <<status, retries, task>>
  /\ UNCHANGED <<taskFrame, origin, faultVars>>

\* Variant: the claim is given back at the first failure.
PublishTargetReleasing(t) ==
  /\ task[t] = "publishing"
  /\ \/ /\ Target!Succeed(t)
        /\ task' = [task EXCEPT ![t] = "none"] /\ UNCHANGED ledger
     \/ /\ Target!Fail(t)
        /\ \E step \in {"retrying", "aborting"} : task' = [task EXCEPT ![t] = step]
        /\ ledger' = ledger \ {origin[t]}
  /\ UNCHANGED <<runVars, fetched, rows, workerVars, operatorVars, reconcileVars, jobs, origin,
                 sent, faultVars>>

\* The executor's outcome; a failure is written before anything else is decided.
PublishTarget(t) ==
  /\ task[t] = "publishing"
  /\ \/ /\ Target!Succeed(t)
        /\ task' = [task EXCEPT ![t] = "none"]
     \/ /\ Target!Fail(t)
        /\ \E step \in {"retrying", "aborting"} : task' = [task EXCEPT ![t] = step]
  /\ UNCHANGED <<taskFrame, origin, sent, faultVars>>

\* The message of a target that is pending again is taken or refused; nobody
\* sends it a second time.
SendAgain(t) ==
  \/ sent' = sent \cup {t} /\ UNCHANGED faultVars
  \/ Fault("brokerdown") /\ UNCHANGED sent

\* schedule_publication_target_retry, a commit, and the message of the retry.
RetryTarget(t) ==
  /\ task[t] = "retrying"
  /\ \/ /\ Target!Retry(t)
        /\ SendAgain(t)
        /\ task' = [task EXCEPT ![t] = "none"]
     \/ /\ retries[t] >= MaxRetries
        /\ task' = [task EXCEPT ![t] = "aborting"]
        /\ UNCHANGED <<status, retries, sent, faultVars>>
  /\ UNCHANGED <<taskFrame, origin>>

\* try_release_batch_import_published_post_claim finds the post by the row.
ReleaseClaim(t) ==
  /\ task[t] = "aborting"
  /\ task' = [task EXCEPT ![t] = "none"]
  /\ ledger' = ledger \ {p \in Posts : \E r \in Runs : rows[r][p] = t}
  /\ UNCHANGED <<runVars, fetched, rows, status, retries, origin, sent, workerVars, operatorVars,
                 reconcileVars, jobs, faultVars>>

\* A message lost with the process that took it, or a process lost in the task.
LoseTarget(t) ==
  /\ Fault("crash")
  /\ \/ /\ t \in sent
        /\ sent' = sent \ {t} /\ UNCHANGED task
     \/ /\ task[t] # "none"
        /\ task' = [task EXCEPT ![t] = "none"] /\ UNCHANGED sent
  /\ UNCHANGED <<taskFrame, status, retries, origin>>

\* recover_stuck_targets on a claim whose task is dead: the commit, and the message.
RecoverTarget(t) ==
  /\ status[t] = "publishing" /\ task[t] # "publishing"
  /\ Target!Recover({t})
  /\ SendAgain(t)
  /\ UNCHANGED <<taskFrame, origin, task>>

TargetTask(t) ==
  TakeTarget(t) \/ PublishTarget(t) \/ RetryTarget(t) \/ ReleaseClaim(t) \/ RecoverTarget(t)

-----------------------------------------------------------------------------
(* Beat *)

\* recover_stuck_running_runs: a run that is old and not fully dispatched.
\* Only an overrun makes the run of a live worker that old.
RecoverRun(r) ==
  /\ run[r] = "running" /\ ~dispatched[r]
  /\ IF \E w \in Workers : wrun[w] = r THEN Fault("overrun") ELSE UNCHANGED faultVars
  /\ FailRun(r, TRUE)
  /\ UNCHANGED <<postVars, targetVars, workerVars, operatorVars, reconcileVars, jobs>>

\* _reconcile_one_run counts the targets of the run and commits the progress;
\* a run without targets has no progress to write.
ReconcileRead(r) ==
  LET S == TargetsOf(r)
      published == {t \in S : status[t] = "published"}
      failed == {t \in S : status[t] = "failed"}
  IN
  /\ run[r] = "running" /\ dispatched[r] /\ verdict[r] = "none"
  /\ processed' = IF S = {} THEN processed ELSE [processed EXCEPT ![r] = Cardinality(published)]
  /\ \/ /\ S # published \cup failed
        /\ UNCHANGED reconcileVars
     \/ /\ S = published \cup failed
        /\ counted' = [counted EXCEPT ![r] = Cardinality(published)]
        /\ verdict' = [verdict EXCEPT ![r] = IF failed = {} THEN "completed" ELSE "failed"]
  /\ UNCHANGED <<run, retryable, dispatched, postVars, targetVars, workerVars,
                 operatorVars, jobs, faultVars>>

\* Variant: posts that were skipped are not counted.
ReconcileWriteUncounted(r) ==
  /\ verdict[r] # "none"
  /\ IF verdict[r] = "failed" THEN FailRun(r, FALSE) ELSE CompleteRun(r, counted[r])
  /\ verdict' = [verdict EXCEPT ![r] = "none"]
  /\ counted' = [counted EXCEPT ![r] = 0]
  /\ UNCHANGED <<postVars, targetVars, workerVars, operatorVars, jobs, faultVars>>

\* ... and writes the outcome by id.
ReconcileWrite(r) ==
  /\ verdict[r] # "none"
  /\ IF verdict[r] = "failed" THEN FailRun(r, FALSE)
     ELSE CompleteRun(r, counted[r] + Cardinality(SkipsOf(r)))
  /\ verdict' = [verdict EXCEPT ![r] = "none"]
  /\ counted' = [counted EXCEPT ![r] = 0]
  /\ UNCHANGED <<postVars, targetVars, workerVars, operatorVars, jobs, faultVars>>

ReconcileCrash(r) ==
  /\ Fault("crash")
  /\ verdict[r] # "none"
  /\ verdict' = [verdict EXCEPT ![r] = "none"]
  /\ counted' = [counted EXCEPT ![r] = 0]
  /\ UNCHANGED <<runVars, postVars, targetVars, workerVars, operatorVars, jobs>>

-----------------------------------------------------------------------------
Request(o) == DeleteRows(o) \/ Reopen(o) \/ EnqueueRetry(o) \/ Pause(o)

Next ==
  \/ \E r \in Runs : \/ CreateRun(r) \/ Cancel(r) \/ LoseJob(r)
                     \/ RecoverRun(r) \/ ReconcileRead(r) \/ ReconcileWrite(r) \/ ReconcileCrash(r)
  \/ \E o \in Operators : \/ Request(o) \/ OperatorCrash(o)
                          \/ \E r \in Runs : RequestRetry(o, r) \/ RequestPause(o, r)
  \/ \E w \in Workers : Work(w) \/ WorkerCrash(w)
  \/ \E t \in Targets : TargetTask(t) \/ LoseTarget(t)

\* Processes go on, Celery delivers what is queued, and beat runs: a run that
\* no worker has is found stuck.
Fairness ==
  /\ \A w \in Workers : WF_vars(Work(w))
  /\ \A o \in Operators : WF_vars(Request(o))
  /\ \A t \in Targets : WF_vars(TargetTask(t))
  /\ \A r \in Runs : /\ WF_vars(RecoverRun(r) /\ \A w \in Workers : wrun[w] # r)
                     /\ WF_vars(ReconcileRead(r)) /\ WF_vars(ReconcileWrite(r))

Spec == Init /\ [][Next]_vars
FairSpec == Spec /\ Fairness

-----------------------------------------------------------------------------
(* Properties *)

PublishedTargets(p) == {t \in Targets : origin[t] = p /\ status[t] = "published"}

\* A post reaches the target channel once, whichever runs copy it and whatever
\* crashes, fails, overruns or is cancelled, as long as no run is retried by hand.
PublishedOnce ==
  "retry" \notin happened => \A p \in Posts : Cardinality(PublishedTargets(p)) <= 1

\* A target that may still be published, or is, holds the claim of its post:
\* otherwise another run or live-sync publishes the post as well.  A target
\* whose task could not be sent does not count: nobody will take it.
UnderWayIsClaimed ==
  "retry" \notin happened =>
    \A t \in Targets :
      (t \in sent \/ task[t] # "none" \/ status[t] \in {"publishing", "published"})
        => origin[t] \in ledger

\* A completed run has accounted for every post it fetched, each once, although
\* the rows it counts are written by the worker, deleted by retries and read
\* by the beat task: as long as nobody cancels a run or retries it while its
\* worker is alive, and retry requests of a run do not overlap.
CompletedAccountsForAll ==
  happened \cap {"overrun", "cancel"} = {} =>
    \A r \in Runs : run[r] = "completed" =>
      /\ \A p \in fetched[r] : rows[r][p] \in {Skip} \cup PublishedTargets(p)
      /\ processed[r] = Cardinality(fetched[r])

\* What nobody works on any more: a run that is pending or a dispatched run with a
\* target that is pending, and no message for it.
Forgotten(r) ==
  \/ run[r] = "pending" /\ jobs[r] = 0
  \/ /\ run[r] = "running" /\ dispatched[r]
     /\ \E t \in TargetsOf(r) : status[t] = "pending" /\ t \notin sent

\* A run that is queued comes to an end, whatever its targets go through and
\* whichever of its workers dies, or is paused, unless a message was lost with
\* a process or refused by the broker: then it is left pending, or running with
\* a target that is left pending.
RunSettles ==
  \A r \in Runs :
    (run[r] = "pending" /\ jobs[r] > 0) ~>
      \/ run[r] \in {"completed", "failed", "paused"}
      \/ Forgotten(r) /\ happened \cap {"crash", "brokerdown"} # {}

-----------------------------------------------------------------------------
(* What the repository says and the code does not do *)

\* "Releases the claim of the posts of the run that were not published"
\* (docstring of release_retryable_claims_for_run): a claim of a post that is
\* published is not released.
PublishedKeepsClaim ==
  [][\A p \in Posts : (p \in ledger /\ PublishedTargets(p) # {}) => p \in ledger']_vars

=============================================================================

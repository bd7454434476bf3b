------------------------------ MODULE VideoJobs ------------------------------
(***************************************************************************)
(* The production of one video: a leased job whose steps buy text, images, *)
(* speech and generated scenes from the AI gateway, each checkpointed in   *)
(* progress_json; the person who may cancel it; the beat that hands it to  *)
(* workers again; and the settlement of scenes that a job left behind.     *)
(*                                                                         *)
(* A worker's step is one commit or one call of the gateway.  A worker may *)
(* die between any two, and the job is then claimed again.                 *)
(*                                                                         *)
(* Celery kills a worker before its lease ends (2450 s of 2500, 150 s of   *)
(* 180), so a lease ends only when nobody works under it.  The gateway     *)
(* keeps a bounded call, and a scene, within the max_units it was given.   *)
(* Copying, rendering and uploading are part of Assemble; the speech cache *)
(* shared by jobs is left out: a hit is a step that is not in the plan.    *)
(***************************************************************************)
EXTENDS Naturals, Sequences, FiniteSets, Functions

CONSTANTS
  Workers,      \* Celery workers of the video queue
  NoWorker,     \* the lease_token before the first claim
  Plan,         \* the kinds of the job's paid steps, in their order
  Limit         \* billing.limit_units

\* text: an answer kept with the bill.  media: an image or speech, an artifact
\* with an identifier known beforehand.  scene: an operation of the gateway.
Kinds == {"text", "media", "scene"}
MaxAttempts == 3

ASSUME PlanAssumption == Plan \in Seq(Kinds)
ASSUME LimitAssumption == Limit \in Nat
ASSUME NoWorkerAssumption == NoWorker \notin Workers

Steps == 1..Len(Plan)
Scenes == {i \in Steps : Plan[i] = "scene"}
Calls == Steps \ Scenes

VARIABLES
  status,     \* video_production_jobs.status
  attempts,   \* its claims, less those that only waited
  owner,      \* the worker that drew lease_token
  lease,      \* lease_until is in the future
  state,      \* progress_json.steps[i].state
  units,      \* progress_json.steps[i].units
  unsettled,  \* progress_json.video_settlement_pending
  artifact,   \* the stored result of a step
  late,       \* a scene's submitted_at is more than two hours ago
  calls,      \* paid requests of a step that the gateway carried out
  charged,    \* what the gateway charged for it
  op,         \* the gateway's operation under a scene's request_key
  wpc,        \* where a worker is
  wstep,      \* the step it is at
  wunits      \* the charge it was told

jobVars == <<status, attempts, owner, lease>>
progressVars == <<state, units, unsettled, artifact, late>>
gatewayVars == <<calls, charged, op>>
workerVars == <<wpc, wstep, wunits>>
vars == <<status, attempts, owner, lease, state, units, unsettled, artifact, late,
          calls, charged, op, wpc, wstep, wunits>>

Statuses == {"queued", "running", "succeeded", "failed", "cancelled"}
Active == {"queued", "running"}
\* received: billed, its result still to be taken.  closed: a scene that was
\* received as failed, rejected or never submitted.
States == {"none", "authorizing", "started", "rejected", "unknown", "received", "done",
           "video_pending", "closed", "invalid_result"}
Operations == {"none", "running", "ready", "failed", "reconciliation"}
RenderSteps == {"next", "authorize", "call", "bill", "refused", "lost", "consume", "keep",
                "lookup", "submit", "store", "wait", "failing", "assemble"}
SettleSteps == {"settle", "settle_store", "settle_more", "settled"}

TypeOK ==
  /\ status \in Statuses
  /\ attempts \in 0..MaxAttempts
  /\ owner \in Workers \cup {NoWorker}
  /\ lease \in BOOLEAN
  /\ state \in [Steps -> States]
  /\ units \in [Steps -> Nat]
  /\ unsettled \in BOOLEAN
  /\ artifact \in [Steps -> BOOLEAN]
  /\ late \in [Steps -> BOOLEAN]
  /\ calls \in [Steps -> Nat]
  /\ charged \in [Steps -> Nat]
  /\ op \in [Steps -> Operations]
  /\ wpc \in [Workers -> {"idle"} \cup RenderSteps \cup SettleSteps]
  /\ wstep \in [Workers -> 1..Len(Plan) + 1]
  /\ wunits \in [Workers -> Nat]
  /\ \A w \in Workers : wpc[w] \notin {"idle", "next", "assemble", "failing", "settle", "settle_more", "settled"}
                          => wstep[w] \in Steps

Init ==
  /\ status = "queued" /\ attempts = 0 /\ owner = NoWorker /\ lease = FALSE
  /\ state = [i \in Steps |-> "none"]
  /\ units = [i \in Steps |-> 0]
  /\ unsettled = FALSE
  /\ artifact = [i \in Steps |-> FALSE]
  /\ late = [i \in Steps |-> FALSE]
  /\ calls = [i \in Steps |-> 0]
  /\ charged = [i \in Steps |-> 0]
  /\ op = [i \in Steps |-> "none"]
  /\ wpc = [w \in Workers |-> "idle"]
  /\ wstep = [w \in Workers |-> 1]
  /\ wunits = [w \in Workers |-> 0]

-----------------------------------------------------------------------------
(* Helpers *)

Spent == FoldFunction(+, 0, units)

Left == Limit - Spent

Goto(w, step) ==
  /\ wpc' = [wpc EXCEPT ![w] = step]
  /\ UNCHANGED <<wstep, wunits>>

NextStep(w) ==
  /\ wpc' = [wpc EXCEPT ![w] = "next"]
  /\ wstep' = [wstep EXCEPT ![w] = @ + 1]
  /\ UNCHANGED wunits

Finish(w) ==
  /\ wpc' = [wpc EXCEPT ![w] = "idle"]
  /\ wstep' = [wstep EXCEPT ![w] = 1]
  /\ wunits' = [wunits EXCEPT ![w] = 0]

\* What a save asks of the locked row; a charge may still be written to a job
\* that was cancelled or failed meanwhile.
MayWork(w) == owner = w /\ status = "running"
MayBill(w) == owner = w /\ status \in {"running", "cancelled", "failed"}

\* _pending_flag: some scene is not settled, given the states.
Pending(states) == \E i \in Scenes : states[i] \in {"video_pending", "unknown", "received"}

Progress(i, s, u) ==
  /\ state' = [state EXCEPT ![i] = s]
  /\ units' = [units EXCEPT ![i] = u]

\* A financial save of step i, the flag computed anew if it is a scene.
Record(i, s, u) ==
  /\ Progress(i, s, u)
  /\ unsettled' = IF i \in Scenes THEN Pending([state EXCEPT ![i] = s]) ELSE unsettled

Save(w, i, s, u, step) ==
  IF MayBill(w)
  THEN Record(i, s, u) /\ Goto(w, step)
  ELSE Finish(w) /\ UNCHANGED <<state, units, unsettled>>

\* The same, where the code leaves the flag as it is.
SaveUnflagged(w, i, s, step) ==
  IF MayBill(w)
  THEN Progress(i, s, units[i]) /\ Goto(w, step) /\ UNCHANGED unsettled
  ELSE Finish(w) /\ UNCHANGED <<state, units, unsettled>>

-----------------------------------------------------------------------------
(* The job: claims, the person, the end of a lease, an attempt's outcome *)

\* dispatch_video_jobs sends every job without a lease, again and again.
Claim(w) ==
  /\ wpc[w] = "idle"
  /\ status \in Active /\ ~lease
  /\ attempts < MaxAttempts
  /\ status' = "running" /\ owner' = w /\ lease' = TRUE /\ attempts' = attempts + 1
  /\ Goto(w, "next")
  /\ UNCHANGED <<progressVars, gatewayVars>>

GiveUp(w) ==
  /\ wpc[w] = "idle"
  /\ status \in Active /\ ~lease
  /\ attempts >= MaxAttempts
  /\ status' = "failed"
  /\ UNCHANGED <<attempts, owner, lease, progressVars, gatewayVars, workerVars>>

Cancel ==
  /\ status \in Active
  /\ status' = "cancelled"
  /\ UNCHANGED <<attempts, owner, lease, progressVars, gatewayVars, workerVars>>

LeaseEnds ==
  /\ lease
  /\ \A w \in Workers : wpc[w] = "idle"
  /\ lease' = FALSE
  /\ UNCHANGED <<status, attempts, owner, progressVars, gatewayVars, workerVars>>

\* WaitingForVideo: the worker is free, the attempt does not count.
Wait(w) ==
  /\ wpc[w] = "wait"
  /\ IF MayWork(w)
     THEN /\ status' = "queued" /\ lease' = TRUE
          /\ attempts' = IF attempts = 0 THEN 0 ELSE attempts - 1
     ELSE UNCHANGED <<status, lease, attempts>>
  /\ Finish(w)
  /\ UNCHANGED <<owner, progressVars, gatewayVars>>

WriteFailed(w) ==
  /\ wpc[w] = "failing"
  /\ status' = IF MayWork(w) THEN "failed" ELSE status
  /\ Finish(w)
  /\ UNCHANGED <<attempts, owner, lease, progressVars, gatewayVars>>

\* Render, upload, and commit the output if the job is still this worker's.
Assemble(w) ==
  /\ wpc[w] = "assemble"
  /\ \/ /\ status' = IF MayWork(w) THEN "succeeded" ELSE status
        /\ Finish(w)
     \/ Goto(w, "failing") /\ UNCHANGED status
  /\ UNCHANGED <<attempts, owner, lease, progressVars, gatewayVars>>

Crash(w) ==
  /\ wpc[w] # "idle"
  /\ Finish(w)
  /\ UNCHANGED <<jobVars, progressVars, gatewayVars>>

-----------------------------------------------------------------------------
(* A paid call: authorizing, started, received, done *)

\* set_stage, at every step: a job that was cancelled stops here.
Stopped(w) ==
  /\ wpc[w] = "next" /\ ~MayWork(w)
  /\ Finish(w)
  /\ UNCHANGED <<jobVars, progressVars, gatewayVars>>

AllDone(w) ==
  /\ wpc[w] = "next" /\ MayWork(w)
  /\ wstep[w] = Len(Plan) + 1
  /\ Goto(w, "assemble")
  /\ UNCHANGED <<jobVars, progressVars, gatewayVars>>

AtStep(w, S) ==
  wpc[w] = "next" /\ MayWork(w) /\ wstep[w] \in S

SkipDone(w) ==
  /\ AtStep(w, Steps)
  /\ state[wstep[w]] = "done"
  /\ NextStep(w)
  /\ UNCHANGED <<jobVars, progressVars, gatewayVars>>

\* Variant: an unfinished call is started over.
BeginCallAgain(w) ==
  LET i == wstep[w] IN
  /\ AtStep(w, Calls)
  /\ state[i] \in {"none", "authorizing", "rejected", "started", "unknown"}
  /\ Progress(i, "authorizing", 0)
  /\ Goto(w, "authorize")
  /\ UNCHANGED <<jobVars, unsettled, artifact, late, gatewayVars>>

BeginCall(w) ==
  LET i == wstep[w] IN
  /\ AtStep(w, Calls)
  /\ state[i] \in {"none", "authorizing", "rejected"}
  /\ Progress(i, "authorizing", 0)
  /\ Goto(w, "authorize")
  /\ UNCHANGED <<jobVars, unsettled, artifact, late, gatewayVars>>

\* The gateway may have been paid for nothing that we know of.
NeedsReconciliation(w) ==
  /\ AtStep(w, Calls)
  /\ state[wstep[w]] \in {"started", "unknown"}
  /\ Goto(w, "failing")
  /\ UNCHANGED <<jobVars, progressVars, gatewayVars>>

\* Billed before: the kept answer is read again, a stored artifact is found,
\* and what was lost is not bought again.
Resume(w) ==
  LET i == wstep[w] IN
  /\ AtStep(w, Calls)
  /\ state[i] = "received"
  /\ Goto(w, IF Plan[i] = "text" THEN "consume" ELSE IF artifact[i] THEN "keep" ELSE "failing")
  /\ UNCHANGED <<jobVars, progressVars, gatewayVars>>

\* The budget, the subscription service, and the mark that a call is coming.
Authorize(w) ==
  LET i == wstep[w] IN
  /\ wpc[w] = "authorize"
  /\ \/ /\ Left > 0
        /\ IF MayWork(w) THEN Progress(i, "started", 0) /\ Goto(w, "call")
           ELSE Finish(w) /\ UNCHANGED <<state, units>>
     \/ Goto(w, "failing") /\ UNCHANGED <<state, units>>
  /\ UNCHANGED <<jobVars, unsettled, artifact, late, gatewayVars>>

Charge(i, u) ==
  /\ calls' = [calls EXCEPT ![i] = @ + 1]
  /\ charged' = [charged EXCEPT ![i] = @ + u]
  /\ UNCHANGED op

\* Answered with a bill, refused for the budget, or anything else.
Call(w) ==
  LET i == wstep[w] IN
  /\ wpc[w] = "call"
  /\ \/ \E u \in 0..Left :
          /\ Charge(i, u)
          /\ wpc' = [wpc EXCEPT ![w] = "bill"]
          /\ wunits' = [wunits EXCEPT ![w] = u]
          /\ UNCHANGED wstep
     \/ Goto(w, "refused") /\ UNCHANGED gatewayVars
     \/ Goto(w, "lost") /\ (UNCHANGED gatewayVars \/ \E u \in 0..Left : Charge(i, u))
  /\ UNCHANGED <<jobVars, progressVars>>

SaveBill(w) ==
  /\ wpc[w] = "bill"
  /\ Save(w, wstep[w], "received", wunits[w], "consume")
  /\ UNCHANGED <<jobVars, artifact, late, gatewayVars>>

SaveRefused(w) ==
  /\ wpc[w] = "refused"
  /\ Save(w, wstep[w], "rejected", 0, "failing")
  /\ UNCHANGED <<jobVars, artifact, late, gatewayVars>>

\* Variant: no answer is taken for a refusal.
SaveLostAsRefused(w) ==
  /\ wpc[w] = "lost"
  /\ Save(w, wstep[w], "rejected", 0, "failing")
  /\ UNCHANGED <<jobVars, artifact, late, gatewayVars>>

SaveLost(w) ==
  /\ wpc[w] = "lost"
  /\ Save(w, wstep[w], "unknown", units[wstep[w]], "failing")
  /\ UNCHANGED <<jobVars, artifact, late, gatewayVars>>

\* Parse the text or store the artifact; either may fail.
Consume(w) ==
  LET i == wstep[w] IN
  /\ wpc[w] = "consume"
  /\ \/ Goto(w, "keep") /\ artifact' = [artifact EXCEPT ![i] = Plan[i] = "media"]
     \/ Goto(w, "failing") /\ UNCHANGED artifact
  /\ UNCHANGED <<jobVars, state, units, unsettled, late, gatewayVars>>

Keep(w) ==
  LET i == wstep[w] IN
  /\ wpc[w] = "keep"
  /\ IF MayBill(w) THEN Record(i, "done", units[i]) /\ NextStep(w)
     ELSE Finish(w) /\ UNCHANGED <<state, units, unsettled>>
  /\ UNCHANGED <<jobVars, artifact, late, gatewayVars>>

-----------------------------------------------------------------------------
(* A generated scene: an operation under a request_key saved beforehand *)

BeginScene(w) ==
  LET i == wstep[w] IN
  /\ AtStep(w, Scenes)
  /\ state[i] = "none"
  /\ \/ /\ Left > 0
        /\ Progress(i, "video_pending", 0) /\ unsettled' = TRUE
        /\ Goto(w, "lookup")
     \/ Goto(w, "failing") /\ UNCHANGED <<state, units, unsettled>>
  /\ UNCHANGED <<jobVars, artifact, late, gatewayVars>>

ResumeScene(w) ==
  LET i == wstep[w] IN
  /\ AtStep(w, Scenes)
  /\ state[i] \notin {"none", "done"}
  /\ Goto(w, CASE state[i] = "invalid_result" -> "failing"
               [] state[i] = "received" /\ artifact[i] -> "keep"
               [] OTHER -> "lookup")
  /\ UNCHANGED <<jobVars, progressVars, gatewayVars>>

TimePasses(i) ==
  /\ i \in Scenes /\ state[i] # "none"
  /\ ~late[i]
  /\ late' = [late EXCEPT ![i] = TRUE]
  /\ UNCHANGED <<jobVars, state, units, unsettled, artifact, gatewayVars, workerVars>>

\* Variant: a scene is waited for however long it takes.
YieldForever(w) ==
  Goto(w, "wait") /\ UNCHANGED <<state, units, unsettled>>

\* _wait: after two hours the outcome is unknown.
Yield(w) ==
  IF late[wstep[w]] THEN SaveUnflagged(w, wstep[w], "unknown", "failing")
  ELSE Goto(w, "wait") /\ UNCHANGED <<state, units, unsettled>>

\* Recorded as accepted, which also sets the flag, before _wait.
StillRunning(w) ==
  LET i == wstep[w] IN
  IF late[i] THEN Save(w, i, "unknown", units[i], "failing")
  ELSE Save(w, i, "video_pending", units[i], "wait")

Lookup(w) ==
  LET i == wstep[w] IN
  /\ wpc[w] = "lookup"
  /\ \/ Yield(w)                                              \* no answer
     \/ op[i] = "none" /\ Goto(w, "submit") /\ UNCHANGED <<state, units, unsettled>>
     \/ op[i] = "ready" /\ Save(w, i, "received", charged[i], "store")
     \/ op[i] = "failed" /\ Save(w, i, "closed", charged[i], "failing")
     \/ op[i] = "reconciliation" /\ SaveUnflagged(w, i, "unknown", "failing")
     \/ op[i] = "running" /\ StillRunning(w)
  /\ UNCHANGED <<jobVars, artifact, late, gatewayVars>>

\* Authorized once more, then posted: accepted, rejected, or no answer.  The
\* gateway knows the request_key and starts no second operation.
Submit(w) ==
  LET i == wstep[w]
      Accepted == op' = [op EXCEPT ![i] = "running"] IN
  /\ wpc[w] = "submit"
  /\ \/ Goto(w, "failing") /\ UNCHANGED <<state, units, unsettled, op>>  \* not authorized
     \/ Left > 0 /\ Accepted /\ StillRunning(w)
     \/ Left > 0 /\ UNCHANGED op /\ Save(w, i, "closed", 0, "failing")
     \/ Left > 0 /\ (Accepted \/ UNCHANGED op) /\ Yield(w)
  /\ UNCHANGED <<jobVars, artifact, late, calls, charged>>

Store(w) ==
  LET i == wstep[w] IN
  /\ wpc[w] = "store"
  /\ \/ Goto(w, "keep") /\ artifact' = [artifact EXCEPT ![i] = TRUE] /\ UNCHANGED <<state, units, unsettled>>
     \/ Save(w, i, "invalid_result", units[i], "failing") /\ UNCHANGED artifact
  /\ UNCHANGED <<jobVars, late, gatewayVars>>

-----------------------------------------------------------------------------
(* The gateway *)

OperationEnds(i) ==
  /\ op[i] = "running"
  /\ \E end \in {"ready", "failed", "reconciliation"}, u \in 0..Left :
       /\ end = "ready" \/ u = 0
       /\ op' = [op EXCEPT ![i] = end]
       /\ charged' = [charged EXCEPT ![i] = u]
       /\ calls' = [calls EXCEPT ![i] = @ + 1]
  /\ UNCHANGED <<jobVars, progressVars, workerVars>>

-----------------------------------------------------------------------------
(* Settlement of a cancelled or failed job: it only looks *)

\* dispatch_video_jobs sends what is unsettled and without a lease.
SettleClaim(w) ==
  /\ wpc[w] = "idle"
  /\ status \in {"cancelled", "failed"} /\ ~lease
  /\ unsettled
  /\ owner' = w /\ lease' = TRUE
  /\ Goto(w, "settle")
  /\ UNCHANGED <<status, attempts, progressVars, gatewayVars>>

\* A scene that settle_pending has to look up.
ToSettle(w) ==
  /\ wpc[w] = "settle"
  /\ wstep[w] \in Scenes
  /\ state[wstep[w]] \in {"video_pending", "unknown", "received", "closed"}

SettleNext(w) ==
  /\ wpc[w] \in {"settle", "settle_more"} /\ ~ToSettle(w)
  /\ IF wstep[w] \in Steps
     THEN /\ wpc' = [wpc EXCEPT ![w] = "settle"]
          /\ wstep' = [wstep EXCEPT ![w] = @ + 1]
          /\ UNCHANGED wunits
     ELSE Goto(w, "settled")
  /\ UNCHANGED <<jobVars, progressVars, gatewayVars>>

\* Never submitted, over, running still, or in doubt, which ends the loop.
SettleLookup(w) ==
  LET i == wstep[w] IN
  /\ ToSettle(w)
  /\ \/ op[i] = "none" /\ Save(w, i, "closed", 0, "settle_more")
     \/ op[i] = "failed" /\ Save(w, i, "closed", charged[i], "settle_more")
     \/ op[i] = "ready" /\ Save(w, i, "received", charged[i], "settle_store")
     \/ op[i] = "running" /\ Save(w, i, "video_pending", units[i], "settle_more")
     \/ op[i] = "reconciliation" /\ SaveUnflagged(w, i, "unknown", "settled")
  /\ UNCHANGED <<jobVars, artifact, late, gatewayVars>>

SettleNoAnswer(w) ==
  /\ ToSettle(w)
  /\ Goto(w, "settled")
  /\ UNCHANGED <<jobVars, progressVars, gatewayVars>>

SettleStore(w) ==
  LET i == wstep[w] IN
  /\ wpc[w] = "settle_store"
  /\ \/ artifact' = [artifact EXCEPT ![i] = TRUE] /\ Save(w, i, "done", units[i], "settle_more")
     \/ UNCHANGED artifact /\ Save(w, i, "invalid_result", units[i], "settled")
  /\ UNCHANGED <<jobVars, late, gatewayVars>>

SettleEnd(w) ==
  /\ wpc[w] = "settled"
  /\ lease' = IF owner = w THEN TRUE ELSE lease
  /\ Finish(w)
  /\ UNCHANGED <<status, attempts, owner, progressVars, gatewayVars>>

-----------------------------------------------------------------------------
Settle(w) ==
  \/ SettleNext(w) \/ SettleLookup(w) \/ SettleNoAnswer(w) \/ SettleStore(w) \/ SettleEnd(w)

Render(w) ==
  \/ Stopped(w) \/ AllDone(w) \/ SkipDone(w)
  \/ BeginCall(w) \/ NeedsReconciliation(w) \/ Resume(w)
  \/ Authorize(w) \/ Call(w) \/ SaveBill(w) \/ SaveRefused(w) \/ SaveLost(w)
  \/ Consume(w) \/ Keep(w)
  \/ BeginScene(w) \/ ResumeScene(w) \/ Lookup(w) \/ Submit(w) \/ Store(w)
  \/ Wait(w) \/ WriteFailed(w) \/ Assemble(w)

Next ==
  \/ Cancel \/ LeaseEnds
  \/ \E i \in Steps : TimePasses(i) \/ OperationEnds(i)
  \/ \E w \in Workers :
       Claim(w) \/ GiveUp(w) \/ SettleClaim(w) \/ Render(w) \/ Settle(w) \/ Crash(w)

\* Leases end, the beat sends the job again, workers run, the gateway ends its
\* operations.  A settlement that is tried again and again does not die, and does
\* not go without an answer, at the same place for ever.
Fairness ==
  /\ WF_vars(LeaseEnds)
  /\ WF_vars(\E w \in Workers : Claim(w) \/ GiveUp(w))
  /\ SF_vars(\E w \in Workers : SettleClaim(w))
  /\ \A i \in Steps : WF_vars(TimePasses(i)) /\ WF_vars(OperationEnds(i))
  /\ \A w \in Workers :
       /\ WF_vars(Render(w)) /\ WF_vars(Settle(w))
       /\ \A i \in Steps : SF_vars(wstep[w] = i /\ (SettleNext(w) \/ SettleLookup(w)))
       /\ SF_vars(SettleStore(w))

Spec == Init /\ [][Next]_vars /\ Fairness

-----------------------------------------------------------------------------
(* Properties *)

\* No step is paid for twice, whatever dies and whoever takes over.
PaidOnce == \A i \in Steps : calls[i] <= 1

\* A charge of a call is on the books, or the call is marked as uncertain.
CallsAccounted ==
  \A i \in Calls : units[i] = charged[i] \/ state[i] \in {"started", "unknown"}

\* Every job comes to an end, even if workers die all the time.
JobEnds == status \in Active ~> status \notin Active

=============================================================================

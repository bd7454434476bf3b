---------------------------- MODULE VideoSchedules ----------------------------
(***************************************************************************)
(* A schedule that produces videos (self-hosted).  The beat, or its owner, *)
(* admits an occurrence: a run with a frozen copy of the template.  Video  *)
(* workers prepare it - under a lease, within the schedule's budget for    *)
(* the month - by creating one project, of which VideoJobs has the         *)
(* production, or a batch of several videos, of which VideoBatches has it. *)
(* A run whose production is over is reported; with the owner's standing   *)
(* consent its videos are approved for publication first (VideoDelivery).  *)
(*                                                                         *)
(* One month is modelled.  A step is a transaction.  With a hosted control *)
(* plane its callbacks may refuse a run: a Refuse like the others, which   *)
(* pauses the schedule when the actor has lost the right to it.            *)
(***************************************************************************)
EXTENDS Naturals, FiniteSets, Functions

CONSTANTS
  MaxTime,      \* the cron fires at 1..MaxTime
  Keys,         \* idempotency keys of "run now"
  Videos,       \* at most so many an occurrence makes
  Consents,     \* auto_publication policies of the template
  NoConsent,
  Workers,
  NoWorker,
  MaxAttempts,  \* of preparing an occurrence: 3
  PerRun,       \* max_units_per_run
  Month,        \* max_units_per_month
  MaxEdits,     \* how often the owner pauses, resumes or edits the schedule
  MaxFaults

\* What an instance has to give.
ConstantsOK ==
  /\ {PerRun, Month, MaxEdits, MaxFaults} \subseteq Nat
  /\ {MaxTime, MaxAttempts} \subseteq Nat \ {0} /\ IsFiniteSet(Keys)
  /\ NoConsent \notin Consents /\ NoWorker \notin Workers /\ Videos # {}

Slots == 1..MaxTime
Runs == Slots \cup Keys
VARIABLES
  now,
  outputs,   \* the template's videos
  task,      \* the schedule: status, next_run_at (0: null), its consent
  run,       \* agent_runs.status by occurrence, "none" without a row
  saved,     \* the consent in the occurrence's input_snapshot
  attempts, lease, token,   \* of the execution
  linked,    \* it has its project_id or batch_id
  acked,     \* notification_acknowledged
  video,     \* the production: "none", "underway" or how it ended
  bill,      \* units it counts for when it is over: what may still come included
  approved,  \* videos whose post has an approval
  pc, at, left,   \* workers: step, occurrence, posts seen without approval
  edits, faults

taskVars == <<now, outputs, task, edits>>
execVars == <<saved, attempts, lease, token, linked>>
videoVars == <<video, bill>>
workerVars == <<pc, at, left>>
vars == <<now, outputs, task, run, saved, attempts, lease, token, linked, acked, video, bill,
          approved, pc, at, left, edits, faults>>

Ends == {"succeeded", "failed", "cancelled"}

TypeOK ==
  /\ now \in 0..MaxTime /\ outputs \subseteq Videos
  /\ task \in [status : {"active", "paused"}, next : 0..MaxTime,
               consent : Consents \cup {NoConsent}]
  /\ run \in [Runs -> {"none", "queued", "running", "awaiting_review", "completed",
                       "failed", "cancelled"}]
  /\ saved \in [Runs -> Consents \cup {NoConsent}]
  /\ attempts \in [Runs -> 0..MaxAttempts]
  /\ lease \in [Runs -> BOOLEAN] /\ token \in [Runs -> Workers \cup {NoWorker}]
  /\ linked \in [Runs -> BOOLEAN] /\ acked \in [Runs -> BOOLEAN]
  /\ video \in [Runs -> {"none", "underway"} \cup Ends]
  /\ bill \in [Runs -> 0..PerRun]
  /\ approved \in [Runs -> SUBSET Videos]
  /\ pc \in [Workers -> {"idle", "create", "link", "look", "approve", "commit", "conclude"}]
  /\ at \in [Workers -> Runs] /\ left \in [Workers -> SUBSET Videos]
  /\ edits \in 0..MaxEdits /\ faults \in 0..MaxFaults

\* Several videos are a batch.
Batched == Cardinality(outputs) > 1

\* Where an idle worker is.
Nowhere == CHOOSE r \in Runs : TRUE

NextSlot(time) == IF time < MaxTime THEN time + 1 ELSE 0

Init ==
  /\ now = 0 /\ outputs \in {{CHOOSE v \in Videos : TRUE}, Videos}
  /\ task \in [status : {"active"}, next : {NextSlot(0)}, consent : Consents \cup {NoConsent}]
  /\ run = [r \in Runs |-> "none"] /\ saved = [r \in Runs |-> NoConsent]
  /\ attempts = [r \in Runs |-> 0] /\ lease = [r \in Runs |-> FALSE]
  /\ token = [r \in Runs |-> NoWorker] /\ linked = [r \in Runs |-> FALSE]
  /\ acked = [r \in Runs |-> FALSE]
  /\ video = [r \in Runs |-> "none"] /\ bill = [r \in Runs |-> 0]
  /\ approved = [r \in Runs |-> {}]
  /\ pc = [w \in Workers |-> "idle"] /\ at = [w \in Workers |-> Nowhere]
  /\ left = [w \in Workers |-> {}]
  /\ edits = 0 /\ faults = 0

-----------------------------------------------------------------------------
(* Helpers *)

Set(f, x, value) == f' = [f EXCEPT ![x] = value]

Active(r) == run[r] \in {"queued", "running"}

Go(w, step, r, posts) == Set(pc, w, step) /\ Set(at, w, r) /\ Set(left, w, posts)

Rest(w) == Go(w, "idle", Nowhere, {})

Breaks == faults < MaxFaults /\ faults' = faults + 1

Consented(r) ==
  saved[r] # NoConsent /\ task.status = "active" /\ task.consent = saved[r]

\* Variant: the row is read without a lock.
Unlocked == FALSE

\* A worker has locked the schedule's row, which it does to approve: whoever reads
\* it for an update or writes it waits until that transaction is over.
Held == \E w \in Workers : pc[w] = "commit"

\* What an occurrence counts for in the month: in full while it is under way.
Counted(r) == IF video[r] = "underway" THEN PerRun ELSE bill[r]

\* The usage of the executions that are linked to their projects.
Usage == FoldFunction(+, 0, [r \in Runs |-> IF linked[r] THEN Counted(r) ELSE 0])

-----------------------------------------------------------------------------
(* The schedule and its owner *)

TimePasses ==
  /\ now < MaxTime
  /\ now' = now + 1
  /\ UNCHANGED <<outputs, task, run, execVars, acked, videoVars, approved, workerVars, edits, faults>>

Schedule(change) ==
  /\ edits < MaxEdits /\ ~Held
  /\ task' = change
  /\ edits' = edits + 1
  /\ UNCHANGED <<now, outputs, run, execVars, acked, videoVars, approved, workerVars, faults>>

Pause == task.status = "active" /\ Schedule([task EXCEPT !.status = "paused", !.next = 0])

Resume ==
  task.status = "paused"
  /\ Schedule([task EXCEPT !.status = "active", !.next = NextSlot(now)])

Edit(consent) ==
  /\ consent # task.consent
  /\ Schedule([task EXCEPT !.consent = consent,
                           !.next = IF task.status = "active" THEN NextSlot(now) ELSE 0])

\* Variant: a run beside an active one is let in.
AdmittedAnyway(r, next) ==
  /\ run[r] = "none" /\ ~Held
  /\ Set(run, r, "queued") /\ Set(saved, r, task.consent)
  /\ task' = [task EXCEPT !.next = next]
  /\ UNCHANGED <<now, outputs, attempts, lease, token, linked, acked, videoVars, approved,
                 workerVars, edits, faults>>

\* The new run: skipped beside an active one, failed without materials or time.
\* The schedule moves on from now, so that missed slots are not made up for.
Admitted(r, next) ==
  LET overlap == \E other \in Runs : Active(other) IN
  /\ run[r] = "none" /\ ~Held
  /\ \E status \in IF overlap THEN {"cancelled"} ELSE {"queued", "failed"} : Set(run, r, status)
  /\ Set(acked, r, overlap)
  /\ Set(saved, r, task.consent)
  /\ task' = [task EXCEPT !.next = next]
  /\ UNCHANGED <<now, outputs, attempts, lease, token, linked, videoVars, approved, workerVars, edits, faults>>

AdmitDue ==
  /\ task.status = "active" /\ task.next \in 1..now
  /\ Admitted(task.next, NextSlot(now))

RunNow(k) == Admitted(k, task.next)

-----------------------------------------------------------------------------
(* Workers prepare an occurrence *)

\* What may be taken: dispatched again and again, and twice.
Preparable(r) == Active(r) /\ ~linked[r] /\ ~lease[r]

Prepare(w, r) ==
  /\ pc[w] = "idle" /\ Preparable(r) /\ attempts[r] < MaxAttempts
  /\ video[r] = "none"
  /\ Set(attempts, r, attempts[r] + 1)
  /\ Set(lease, r, TRUE) /\ Set(token, r, w)
  /\ Set(run, r, "running")
  /\ Go(w, "create", r, {})
  /\ UNCHANGED <<taskVars, saved, linked, acked, videoVars, approved, faults>>

\* The project of a worker that died before it linked it.
Relink(r) ==
  /\ Preparable(r) /\ video[r] # "none"
  /\ Set(linked, r, TRUE)
  /\ Set(run, r, "running")
  /\ UNCHANGED <<taskVars, saved, attempts, lease, token, acked, videoVars, approved,
                 workerVars, faults>>

\* No attempt left, or the time the video was to be published at is over.
GiveUp(r) ==
  /\ Preparable(r) /\ video[r] = "none"
  /\ Set(run, r, "failed")
  /\ UNCHANGED <<taskVars, execVars, acked, videoVars, approved, workerVars, faults>>

\* The tenant's lock is held from the count of the month's usage to the commit
\* of the project.  A batch is counted as it is produced, by each of its jobs, and linked at once.
Create(w) ==
  LET r == at[w] IN
  /\ pc[w] = "create"
  /\ token[r] = w
  /\ Batched \/ Usage + PerRun <= Month
  /\ video' = [video EXCEPT ![r] = IF @ = "none" THEN "underway" ELSE @]
  /\ IF Batched THEN Set(linked, r, TRUE) /\ Set(lease, r, FALSE) /\ Rest(w)
     ELSE Go(w, "link", r, {}) /\ UNCHANGED <<linked, lease>>
  /\ UNCHANGED <<taskVars, run, saved, attempts, token, acked, bill, approved, faults>>

\* The owner lost the right to (the schedule is paused), the month's budget is
\* spent, the queue is full: the run is over.
Refuse(w) ==
  LET r == at[w] IN
  /\ pc[w] = "create" /\ token[r] = w
  /\ Set(run, r, "failed")
  /\ \/ task' = task
     \/ ~Held /\ task' = [task EXCEPT !.status = "paused", !.next = 0]
  /\ Rest(w)
  /\ UNCHANGED <<now, outputs, edits, execVars, acked, videoVars, approved, faults>>

\* Anything else that fails: it is retried in 30 seconds.
Defer(w) ==
  LET r == at[w] IN
  /\ pc[w] \in {"create", "link"} /\ token[r] = w /\ Breaks
  /\ Set(run, r, "queued")
  /\ Rest(w)
  /\ UNCHANGED <<taskVars, execVars, acked, videoVars, approved>>

Link(w) ==
  LET r == at[w] IN
  /\ pc[w] = "link"
  /\ Set(linked, r, TRUE) /\ Set(lease, r, FALSE)
  /\ Rest(w)
  /\ UNCHANGED <<taskVars, run, saved, attempts, token, acked, videoVars, approved, faults>>

\* The lease (180 s) outlives the task (150 s).
LeaseEnds(r) ==
  /\ lease[r] /\ ~\E w \in Workers : pc[w] \in {"create", "link"} /\ at[w] = r
  /\ Set(lease, r, FALSE)
  /\ UNCHANGED <<taskVars, run, saved, attempts, token, linked, acked, videoVars, approved,
                 workerVars, faults>>

-----------------------------------------------------------------------------
(* The production, and the run that follows it *)

VideoEnds(r) ==
  /\ video[r] = "underway"
  /\ \E end \in Ends : Set(video, r, end)
  /\ \E units \in IF Batched THEN {0} ELSE 0..PerRun : Set(bill, r, units)
  /\ UNCHANGED <<taskVars, run, execVars, acked, approved, workerVars, faults>>

\* Every run whose production is over, in one transaction.
Synchronize ==
  LET over == {r \in Runs : Active(r) /\ linked[r] /\ video[r] \in Ends} IN
  /\ over # {}
  /\ run' = [r \in Runs |-> IF r \notin over THEN run[r]
                            ELSE IF video[r] = "succeeded" THEN "awaiting_review"
                            ELSE video[r]]
  /\ UNCHANGED <<taskVars, execVars, acked, videoVars, approved, workerVars, faults>>

-----------------------------------------------------------------------------
(* Workers report a run; nothing keeps two from reporting the same *)

Acknowledge(r) == Set(acked, r, TRUE) /\ UNCHANGED <<taskVars, execVars, videoVars>>

\* Variant: only a success is reported.
ReportableSuccess(r) == ~acked[r] /\ run[r] = "awaiting_review"

Reportable(r) == ~acked[r] /\ run[r] \in {"awaiting_review", "failed", "cancelled"}

Report(w, r) ==
  /\ pc[w] = "idle" /\ Reportable(r)
  /\ IF run[r] = "awaiting_review" /\ saved[r] # NoConsent
     THEN Go(w, "look", r, {}) /\ UNCHANGED <<taskVars, execVars, acked, videoVars>>
     ELSE Acknowledge(r) /\ UNCHANGED workerVars
  /\ UNCHANGED <<run, approved, faults>>

\* The posts are prepared, and those without an approval are noted.
Look(w) ==
  LET r == at[w]
      pending == outputs \ approved[r] IN
  /\ pc[w] = "look"
  /\ Consented(r) /\ run[r] = "awaiting_review"
  /\ Go(w, IF pending = {} THEN "conclude" ELSE "approve", r, pending)
  /\ UNCHANGED <<taskVars, run, execVars, acked, videoVars, approved, faults>>

\* The consent is looked at again, and the schedule's row is locked for it.
Lock(w) ==
  LET r == at[w] IN
  /\ pc[w] = "approve" /\ ~Held
  /\ Consented(r) /\ run[r] = "awaiting_review"
  /\ Go(w, "commit", r, left[w])
  /\ UNCHANGED <<taskVars, run, execVars, acked, videoVars, approved, faults>>

\* The approval is committed, which lets go of the row.
Approve(w, v) ==
  LET r == at[w] IN
  /\ pc[w] = "commit" /\ v \in left[w]
  /\ Set(approved, r, approved[r] \cup {v})
  /\ Go(w, "conclude", r, left[w])
  /\ UNCHANGED <<taskVars, run, execVars, acked, videoVars, faults>>

\* No consent any more, a post, a bridge or a video that was changed, too late:
\* a person has to look at it.
NeedsReview(w) ==
  /\ pc[w] \in {"look", "approve", "commit"}
  /\ Acknowledge(at[w])
  /\ Rest(w)
  /\ UNCHANGED <<run, approved, faults>>

\* One approval per report: the others are left for the next.
Conclude(w) ==
  LET r == at[w] IN
  /\ pc[w] = "conclude"
  /\ IF Cardinality(left[w]) > 1
     THEN UNCHANGED <<taskVars, run, execVars, acked, videoVars>>
     ELSE Acknowledge(r) /\ Set(run, r, "completed")
  /\ Rest(w)
  /\ UNCHANGED <<approved, faults>>

\* A worker dies, or what it needs for a report is not there.
Crash(w) ==
  /\ pc[w] # "idle" /\ Breaks
  /\ Rest(w)
  /\ UNCHANGED <<taskVars, run, execVars, acked, videoVars, approved>>

-----------------------------------------------------------------------------
Continue(w) ==
  \/ Create(w) \/ Refuse(w) \/ Link(w)
  \/ Look(w) \/ Lock(w) \/ NeedsReview(w) \/ Conclude(w) \/ \E v \in Videos : Approve(w, v)

\* What nobody can hold up: workers, the dispatcher, productions, leases.  All of
\* it ends - runs, attempts and faults are bounded - so that it takes no fairness
\* of its parts.
Goes ==
  \/ Synchronize
  \/ \E r \in Runs : Relink(r) \/ GiveUp(r) \/ LeaseEnds(r) \/ VideoEnds(r)
  \/ \E w \in Workers : Continue(w)
  \/ \E w \in Workers, r \in Runs : Prepare(w, r) \/ Report(w, r)

Next ==
  \/ TimePasses \/ Pause \/ Resume \/ AdmitDue \/ Goes
  \/ \E consent \in Consents \cup {NoConsent} : Edit(consent)
  \/ \E k \in Keys : RunNow(k)
  \/ \E w \in Workers : Defer(w) \/ Crash(w)

Spec == Init /\ [][Next]_vars /\ WF_vars(Goes)

-----------------------------------------------------------------------------
(* Properties *)

\* The schedule's productions stay within its budget for the month, whichever of
\* them is linked, charged or uncertain, and whoever died preparing it.
WithinMonth ==
  ~Batched => FoldFunction(+, 0, [r \in Runs |-> Counted(r)]) <= Month

\* A video is approved on the owner's behalf only while the consent it was
\* produced under stands: the owner may withdraw it, pause or edit the schedule
\* between the look at it and the commit of the approval, from which the lock of
\* the schedule's row has to keep them.
ApprovedUnderConsent ==
  [][\A r \in Runs : approved'[r] # approved[r] => Consented(r)]_vars

\* Each occurrence is reported: nobody's death leaves one under way for ever.
RunIsReported == \A r \in Runs : run[r] # "none" ~> acked[r]
=============================================================================

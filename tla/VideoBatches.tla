---------------------------- MODULE VideoBatches ----------------------------
(***************************************************************************)
(* A batch of originals and the batches of voice variants that follow each *)
(* of them: video workers advance a batch one item at a time, the jobs of  *)
(* the items run elsewhere (VideoJobs), and the person may cancel any      *)
(* batch of the tree, or a job, at any time.                               *)
(*                                                                         *)
(* A worker's step is one transaction, or the request for a grant between  *)
(* two of them.  Workers may die between steps, any number of times.       *)
(*                                                                         *)
(* Batch 0 is the root; batch b is the one of the variants of item b.      *)
(* Celery kills a worker before its lease ends (150 s of 180).             *)
(***************************************************************************)
EXTENDS Naturals, FiniteSets, Functions

CONSTANTS
  Workers,    \* Celery workers of the video queue
  NoWorker,   \* the lease_token before the first lease
  Count,      \* originals of the root
  Variants,   \* voice variants of each original, 0 for none
  Budget,     \* max_units_total of the root
  PerJob,     \* video_ai_selfhost_budget_units
  MaxActive   \* jobs of a tenant that may be queued or running: 2

\* What an instance has to give.
ConstantsOK ==
  /\ {Count, Variants, Budget, PerJob, MaxActive} \subseteq Nat
  /\ NoWorker \notin Workers

Root == 0
Batches == 0..Count
Size(b) == IF b = Root THEN Count ELSE Variants
Items == {x \in Batches \X (1..Count + Variants) : x[2] <= Size(x[1])}
ItemsOf(b) == {x \in Items : x[1] = b}

VARIABLES
  batch,    \* video_batches.status
  lease,    \* its lease_until is in the future
  owner,    \* the worker that drew its lease_token
  item,     \* video_batch_items.status
  job,      \* the item's job
  hold,     \* the limit_units of that job
  charge,   \* what it was charged in the end
  others,   \* other jobs of the tenant that are queued or running
  wpc,      \* where a worker is
  wbatch,   \* its batch
  witem     \* the item it is about to admit

batchVars == <<batch, lease, owner, item>>
jobVars == <<job, hold, charge, others>>
workerVars == <<wpc, wbatch, witem>>
vars == <<batch, lease, owner, item, job, hold, charge, others, wpc, wbatch, witem>>

Active == {"queued", "running"}
Ended == {"succeeded", "failed", "cancelled"}

TypeOK ==
  /\ batch \in [Batches -> {"absent"} \cup Active \cup Ended]
  /\ lease \in [Batches -> BOOLEAN]
  /\ owner \in [Batches -> Workers \cup {NoWorker}]
  /\ item \in [Items -> {"absent"} \cup Active \cup Ended]
  /\ job \in [Items -> {"none", "active"} \cup Ended]
  /\ hold \in [Items -> 0..PerJob]
  /\ charge \in [Items -> 0..PerJob]
  /\ others \in 0..MaxActive
  /\ wpc \in [Workers -> {"idle", "look", "grant", "admit", "defer", "stop"}]
  /\ wbatch \in [Workers -> Batches]
  /\ witem \in [Workers -> Nat]
  /\ \A w \in Workers : wpc[w] = "admit" => <<wbatch[w], witem[w]>> \in Items

Init ==
  /\ batch = [b \in Batches |-> IF b = Root THEN "queued" ELSE "absent"]
  /\ lease = [b \in Batches |-> FALSE]
  /\ owner = [b \in Batches |-> NoWorker]
  /\ item = [x \in Items |-> IF x[1] = Root THEN "queued" ELSE "absent"]
  /\ job = [x \in Items |-> "none"]
  /\ hold = [x \in Items |-> 0]
  /\ charge = [x \in Items |-> 0]
  /\ others = 0
  /\ wpc = [w \in Workers |-> "idle"]
  /\ wbatch = [w \in Workers |-> Root]
  /\ witem = [w \in Workers |-> 0]

-----------------------------------------------------------------------------
(* Helpers *)

Goto(w, step) ==
  /\ wpc' = [wpc EXCEPT ![w] = step]
  /\ UNCHANGED <<wbatch, witem>>

Finish(w) ==
  /\ wpc' = [wpc EXCEPT ![w] = "idle"]
  /\ wbatch' = [wbatch EXCEPT ![w] = Root]
  /\ witem' = [witem EXCEPT ![w] = 0]

\* What a transaction asks of the row it has locked.
Mine(w, b) == batch[b] \in Active /\ owner[b] = w

ActiveJobs == Cardinality({x \in Items : job[x] = "active"}) + others

\* Charges, and limits of jobs under way, of the whole tree.
Used == FoldFunction(+, 0, [x \in Items |-> IF job[x] = "active" THEN hold[x] ELSE charge[x]])

-----------------------------------------------------------------------------
(* Refresh: what the jobs and the batches of variants mean for a batch *)

HasVariants(x) == x[1] = Root /\ Variants > 0

Nested(x) == x[2]

\* The item's status after its job and its variants, as they are now.
Refreshed(x) ==
  IF item[x] \notin Active \/ job[x] \in {"none", "active"} THEN item[x]
  ELSE IF job[x] # "succeeded" THEN job[x]
  ELSE IF ~HasVariants(x) THEN "succeeded"
  ELSE IF batch[Nested(x)] \in Ended THEN batch[Nested(x)] ELSE item[x]

\* Originals that are ready for their variants, which have no batch yet.
ToVary(b) ==
  {x \in ItemsOf(b) : /\ item[x] \in Active /\ job[x] = "succeeded"
                      /\ HasVariants(x) /\ batch[Nested(x)] = "absent"}

Failed(b) == \E x \in ItemsOf(b) : Refreshed(x) \in {"failed", "cancelled"}

BatchAfter(b) ==
  CASE Failed(b) -> "failed"
    [] \A x \in ItemsOf(b) : Refreshed(x) = "succeeded" -> "succeeded"
    [] OTHER -> batch[b]

\* The item's status when its batch has been looked at: a failure stops the rest.
ItemAfter(b, x) ==
  IF Failed(b) /\ Refreshed(x) = "queued" THEN "cancelled" ELSE Refreshed(x)

Refresh(b, status) ==
  /\ item' = [x \in Items |->
       IF x[1] = b THEN ItemAfter(b, x)
       ELSE IF x[1] # Root /\ <<Root, x[1]>> \in ToVary(b) THEN "queued" ELSE item[x]]
  /\ batch' = [c \in Batches |->
       IF c = b THEN status
       ELSE IF c # Root /\ <<Root, c>> \in ToVary(b) THEN "queued" ELSE batch[c]]

-----------------------------------------------------------------------------
(* A worker advances a batch *)

\* dispatch_video_batches sends every active batch without a lease.
Take(w, b) ==
  /\ wpc[w] = "idle"
  /\ batch[b] \in Active /\ ~lease[b]
  /\ lease' = [lease EXCEPT ![b] = TRUE]
  /\ owner' = [owner EXCEPT ![b] = w]
  /\ wpc' = [wpc EXCEPT ![w] = "look"]
  /\ wbatch' = [wbatch EXCEPT ![w] = b]
  /\ UNCHANGED <<witem, batch, item, jobVars>>

\* Cancelled, or taken over: nothing is written.
Leave(w) ==
  /\ wpc[w] \in {"look", "admit"}
  /\ ~Mine(w, wbatch[w])
  /\ Finish(w)
  /\ UNCHANGED <<batchVars, jobVars>>

QueuedAfter(b) == {x \in ItemsOf(b) : ItemAfter(b, x) = "queued"}

\* Variant: an original whose variants are not through does not count.
RunningJobsAfter(b) == {x \in ItemsOf(b) : ItemAfter(b, x) = "running" /\ job[x] = "active"}

RunningAfter(b) == {x \in ItemsOf(b) : ItemAfter(b, x) = "running"}

\* An item may be admitted now.
MayAdmit(b) ==
  /\ BatchAfter(b) \in Active
  /\ RunningAfter(b) = {}
  /\ QueuedAfter(b) # {}
  /\ ActiveJobs < MaxActive

\* The first queued item is to be admitted, or there is nothing to do for now.
Look(w) ==
  LET b == wbatch[w] IN
  /\ wpc[w] = "look"
  /\ Mine(w, b)
  /\ IF MayAdmit(b)
     THEN /\ Refresh(b, "running")
          /\ wpc' = [wpc EXCEPT ![w] = "grant"]
          /\ witem' = [witem EXCEPT ![w] =
               CHOOSE k \in 1..Size(b) : /\ <<b, k>> \in QueuedAfter(b)
                                         /\ \A x \in QueuedAfter(b) : k <= x[2]]
          /\ UNCHANGED <<wbatch, lease>>
     ELSE /\ Refresh(b, BatchAfter(b))
          /\ lease' = [lease EXCEPT ![b] = FALSE]
          /\ Finish(w)
  /\ UNCHANGED <<owner, jobVars>>

\* The project has moved on, or speech is off: no batch of variants.
LookRefused(w) ==
  /\ wpc[w] = "look"
  /\ Mine(w, wbatch[w])
  /\ ToVary(wbatch[w]) # {}
  /\ Goto(w, "stop")
  /\ UNCHANGED <<batchVars, jobVars>>

\* Granted, refused, or no answer.
Grant(w) ==
  /\ wpc[w] = "grant"
  /\ Goto(w, "admit") \/ Goto(w, "stop") \/ Goto(w, "defer")
  /\ UNCHANGED <<batchVars, jobVars>>

Admitted(b, k, units) ==
  /\ item' = [item EXCEPT ![<<b, k>>] = "running"]
  /\ job' = [job EXCEPT ![<<b, k>>] = "active"]
  /\ hold' = [hold EXCEPT ![<<b, k>>] = units]
  /\ UNCHANGED <<charge, others>>

\* Variant: only the batch's own charges are taken off.
AdmitOwnCharges(w) ==
  LET b == wbatch[w]
      left == Budget - FoldFunction(+, 0, [x \in ItemsOf(b) |-> charge[x]]) IN
  /\ wpc[w] = "admit" /\ Mine(w, b)
  /\ ActiveJobs < MaxActive
  /\ left > 0
  /\ Admitted(b, witem[w], IF PerJob < left THEN PerJob ELSE left)
  /\ lease' = [lease EXCEPT ![b] = FALSE]
  /\ Finish(w)
  /\ UNCHANGED <<batch, owner>>

\* The revision and its job, within what the tree has left, under the locks of
\* the batch and the tenant.
Admit(w) ==
  LET b == wbatch[w]
      left == Budget - Used IN
  /\ wpc[w] = "admit" /\ Mine(w, b)
  /\ ActiveJobs < MaxActive
  /\ left > 0
  /\ Admitted(b, witem[w], IF PerJob < left THEN PerJob ELSE left)
  /\ lease' = [lease EXCEPT ![b] = FALSE]
  /\ Finish(w)
  /\ UNCHANGED <<batch, owner>>

\* Full, out of budget, or the request is refused for another reason.
AdmitFails(w) ==
  /\ wpc[w] = "admit" /\ Mine(w, wbatch[w])
  /\ \/ ActiveJobs >= MaxActive /\ Goto(w, "defer")
     \/ Goto(w, "stop")
  /\ UNCHANGED <<batchVars, jobVars>>

\* The error handler, which locks the row anew.
Defer(w) ==
  LET b == wbatch[w] IN
  /\ wpc[w] = "defer"
  /\ lease' = IF Mine(w, b) THEN [lease EXCEPT ![b] = TRUE] ELSE lease
  /\ Finish(w)
  /\ UNCHANGED <<batch, owner, item, jobVars>>

Stop(w) ==
  LET b == wbatch[w] IN
  /\ wpc[w] = "stop"
  /\ IF Mine(w, b)
     THEN /\ batch' = [batch EXCEPT ![b] = "failed"]
          /\ item' = [x \in Items |-> IF x[1] = b /\ item[x] = "queued" THEN "failed" ELSE item[x]]
          /\ lease' = [lease EXCEPT ![b] = FALSE]
     ELSE UNCHANGED <<batch, item, lease>>
  /\ Finish(w)
  /\ UNCHANGED <<owner, jobVars>>

Crash(w) ==
  /\ wpc[w] # "idle"
  /\ Finish(w)
  /\ UNCHANGED <<batchVars, jobVars>>

LeaseEnds(b) ==
  /\ lease[b]
  /\ \A w \in Workers : wpc[w] = "idle" \/ wbatch[w] # b
  /\ lease' = [lease EXCEPT ![b] = FALSE]
  /\ UNCHANGED <<batch, owner, item, jobVars, workerVars>>

-----------------------------------------------------------------------------
(* The person and the jobs *)

\* The batches that cancel_batch reaches: an item leads to its variants unless
\* it is through.
Reached(b) ==
  {b} \cup {c \in Batches \ {Root} :
              /\ b = Root
              /\ batch[c] \in Active
              /\ item[<<Root, c>>] \notin {"succeeded", "failed"}}

Cancel(b) ==
  LET hit == {x \in Items : x[1] \in Reached(b) /\ item[x] \notin {"succeeded", "failed"}} IN
  /\ batch[b] \in Active
  /\ batch' = [c \in Batches |-> IF c \in Reached(b) THEN "cancelled" ELSE batch[c]]
  /\ item' = [x \in Items |-> IF x \in hit THEN "cancelled" ELSE item[x]]
  /\ job' = [x \in Items |-> IF x \in hit /\ job[x] = "active" THEN "cancelled" ELSE job[x]]
  /\ \E c \in [{x \in hit : job[x] = "active"} -> 0..PerJob] :
       /\ \A x \in DOMAIN c : c[x] <= hold[x]
       /\ charge' = [x \in Items |-> IF x \in DOMAIN c THEN c[x] ELSE charge[x]]
  /\ UNCHANGED <<lease, owner, hold, others, workerVars>>

\* VideoJobs: a job stays within its limit.  A person may cancel it.
JobEnds(x) ==
  /\ job[x] = "active"
  /\ \E end \in Ended, c \in 0..hold[x] :
       /\ job' = [job EXCEPT ![x] = end]
       /\ charge' = [charge EXCEPT ![x] = c]
  /\ UNCHANGED <<batchVars, hold, others, workerVars>>

OtherJobStarts ==
  /\ ActiveJobs < MaxActive
  /\ others' = others + 1
  /\ UNCHANGED <<batchVars, job, hold, charge, workerVars>>

OtherJobEnds ==
  /\ others > 0
  /\ others' = others - 1
  /\ UNCHANGED <<batchVars, job, hold, charge, workerVars>>

-----------------------------------------------------------------------------
Advance(w) ==
  \/ Leave(w) \/ Look(w) \/ LookRefused(w) \/ Grant(w)
  \/ Admit(w) \/ AdmitFails(w) \/ Defer(w) \/ Stop(w)

Next ==
  \/ \E w \in Workers, b \in Batches : Take(w, b)
  \/ \E w \in Workers : Advance(w) \/ Crash(w)
  \/ \E b \in Batches : LeaseEnds(b) \/ Cancel(b)
  \/ \E x \in Items : JobEnds(x)
  \/ OtherJobStarts \/ OtherJobEnds

Spec == Init /\ [][Next]_vars

-----------------------------------------------------------------------------
(* Properties *)

\* "one active child per batch", the batches of variants included, however many
\* workers look at the root and at its variants.
OneChild == Cardinality({x \in Items : job[x] = "active"}) <= 1

\* The whole tree stays within the root's budget.
WithinBudget == FoldFunction(+, 0, charge) <= Budget

=============================================================================

--------------------------- MODULE TargetLifecycle ---------------------------
(***************************************************************************)
(* What a publication target promises to whoever looks at the row.         *)
(*                                                                         *)
(* A target is created pending, is claimed for publishing by one worker    *)
(* at a time, and ends published or failed.  A failed target may be put    *)
(* back to pending at most MaxRetries times, a claim whose worker is gone  *)
(* may be put back to pending at any time, and published is final.         *)
(*                                                                         *)
(* PublicationTargets is the detailed specification: worker processes,     *)
(* queue, crashes and the beat task.  It implements this one as long as no *)
(* publisher call outlives the stuck timeout.                              *)
(***************************************************************************)
EXTENDS Naturals

CONSTANTS
  Targets,     \* ids of publication_targets rows
  MaxRetries   \* BATCH_IMPORT_RUN_MAX_RETRIES

VARIABLES
  status,      \* publication_targets.status, "absent" before the insert
  retries      \* publication_targets.retry_count

lifecycleVars == <<status, retries>>

Statuses == {"absent", "pending", "publishing", "published", "failed"}

Init ==
  /\ status = [t \in Targets |-> "absent"]
  /\ retries = [t \in Targets |-> 0]

Move(t, from, to) ==
  /\ status[t] = from
  /\ status' = [status EXCEPT ![t] = to]

Create(t)  == Move(t, "absent", "pending")        /\ UNCHANGED retries
Claim(t)   == Move(t, "pending", "publishing")    /\ UNCHANGED retries
Succeed(t) == Move(t, "publishing", "published")  /\ UNCHANGED retries
Fail(t)    == Move(t, "publishing", "failed")     /\ UNCHANGED retries

Retry(t) ==
  /\ retries[t] < MaxRetries
  /\ Move(t, "failed", "pending")
  /\ retries' = [retries EXCEPT ![t] = @ + 1]

\* One run of the watchdog takes every claim it judges stuck.
Recover(S) ==
  /\ S \subseteq {t \in Targets : status[t] = "publishing"}
  /\ status' = [t \in Targets |-> IF t \in S THEN "pending" ELSE status[t]]
  /\ UNCHANGED retries

Next ==
  \/ \E t \in Targets : Create(t) \/ Claim(t) \/ Succeed(t) \/ Fail(t) \/ Retry(t)
  \/ \E S \in SUBSET Targets : Recover(S)

Spec == Init /\ [][Next]_lifecycleVars
=============================================================================

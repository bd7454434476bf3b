----------------------------- MODULE StatusOutbox -----------------------------
(***************************************************************************)
(* A status event outbox: status_event_outbox (batch import runs) or       *)
(* publication_status_event_outbox (publication targets), two tables with  *)
(* the same code around them.  Whoever changes the status of a subject     *)
(* inserts an event in the same transaction; a beat task delivers the due  *)
(* events to a webhook.  Beat starts the task every five seconds, a task   *)
(* can take much longer, and nothing locks a row: tasks overlap.           *)
(***************************************************************************)
EXTENDS Naturals, FiniteSets, FiniteSetsExt

CONSTANTS
  Subjects,     \* batch_import_runs or publication_targets rows
  Dispatchers,  \* workers that run dispatch_status_event_outbox
  NoSubject,
  MaxEvents,    \* bound: rows inserted into the outbox
  Limit,        \* STATUS_EVENT_OUTBOX_BATCH_SIZE
  MaxRetries,   \* STATUS_EVENT_OUTBOX_MAX_RETRIES
  Faults,       \* which of FaultKinds can happen
  MaxFaults     \* bound: how many of them, in all

FaultKinds ==
  { "crash",    \* a dispatcher dies between two steps
    "silent" }  \* pause, cancel or recovery: a status changes without an event

ASSUME BoundsAssumption ==
  MaxEvents \in Nat /\ Limit \in Nat \ {0} /\ MaxRetries \in Nat \ {0}
ASSUME FaultsAssumption == Faults \subseteq FaultKinds /\ MaxFaults \in Nat
ASSUME DistinctAssumption == NoSubject \notin Subjects

Events == 1..MaxEvents  \* ids of outbox rows

VARIABLES
  last,      \* the highest id of the outbox
  subject,   \* of an event
  silent,    \* subjects whose latest status no event tells
  state,     \* status of the row, "absent" before the insert
  attempts,  \* attempt_count
  due,       \* rows to deliver whose next_attempt_at has passed
  outcome,   \* for the receiver: "unsent", "refused" (publish raised) or "received"
  dpc, dtodo, dcount,  \* a dispatcher: its step, its rows, the attempt_count it read
  faults     \* how many faults happened

rowVars == <<state, attempts, due>>
sourceVars == <<last, subject, silent>>
dispatcherVars == <<dpc, dtodo, dcount>>
vars == <<rowVars, sourceVars, outcome, dispatcherVars, faults>>

States == {"absent", "pending", "failed", "sent", "exhausted"}
Steps == {"idle", "load", "publish", "sent", "failed"}

TypeOK ==
  /\ last \in 0..MaxEvents
  /\ subject \in [Events -> Subjects \cup {NoSubject}]
  /\ silent \in SUBSET Subjects
  /\ state \in [Events -> States]
  /\ \A e \in Events : state[e] # "absent" <=> e <= last
  /\ attempts \in [Events -> Nat]
  /\ due \in SUBSET {e \in Events : state[e] \in {"pending", "failed"}}
  /\ outcome \in [Events -> {"unsent", "refused", "received"}]
  /\ dpc \in [Dispatchers -> Steps]
  /\ dtodo \in [Dispatchers -> SUBSET (1..last)]
  /\ \A d \in Dispatchers : dpc[d] # "idle" <=> dtodo[d] # {}
  /\ dcount \in [Dispatchers -> Nat]
  /\ faults \in 0..MaxFaults

Init ==
  /\ last = 0 /\ subject = [e \in Events |-> NoSubject] /\ silent = {}
  /\ state = [e \in Events |-> "absent"] /\ attempts = [e \in Events |-> 0] /\ due = {}
  /\ outcome = [e \in Events |-> "unsent"]
  /\ dpc = [d \in Dispatchers |-> "idle"] /\ dtodo = [d \in Dispatchers |-> {}]
  /\ dcount = [d \in Dispatchers |-> 0]
  /\ faults = 0

-----------------------------------------------------------------------------
(* Helpers *)

Fault(kind) ==
  /\ kind \in Faults
  /\ faults < MaxFaults
  /\ faults' = faults + 1

\* list_due_status_events_outbox: ordered by id and limited.
List(S) == {e \in S : Cardinality({f \in S : f < e}) < Limit}

\* Variant: the newest rows come first.
CurrentNewest(d) == Max(dtodo[d])

Current(d) == Min(dtodo[d])

\* The next row of the list, or the end of the task.
Advance(d) ==
  /\ dtodo' = [dtodo EXCEPT ![d] = @ \ {Current(d)}]
  /\ dpc' = [dpc EXCEPT ![d] = IF dtodo[d] = {Current(d)} THEN "idle" ELSE "load"]
  /\ dcount' = [dcount EXCEPT ![d] = 0]

-----------------------------------------------------------------------------
(* Those who change a status *)

Change(s) ==
  /\ last < MaxEvents
  /\ last' = last + 1
  /\ subject' = [subject EXCEPT ![last + 1] = s]
  /\ silent' = silent \ {s}
  /\ state' = [state EXCEPT ![last + 1] = "pending"]
  /\ due' = due \cup {last + 1}
  /\ UNCHANGED <<attempts, outcome, dispatcherVars, faults>>

\* pause_batch_import_job, cancel_batch_import_job and the recovery of a stuck
\* target write the status only.
ChangeSilently(s) ==
  /\ Fault("silent")
  /\ silent' = silent \cup {s}
  /\ UNCHANGED <<last, subject, rowVars, outcome, dispatcherVars>>

\* The delay of a failed row passes.
BecomeDue(e) ==
  /\ state[e] = "failed" /\ e \notin due
  /\ due' = due \cup {e}
  /\ UNCHANGED <<state, attempts, sourceVars, outcome, dispatcherVars, faults>>

-----------------------------------------------------------------------------
(* process_status_event_outbox *)

\* The list is loaded with the rows, so the first row is read here.
Start(d) ==
  LET S == List(due) IN
  /\ dpc[d] = "idle" /\ S # {}
  /\ dtodo' = [dtodo EXCEPT ![d] = S]
  /\ dcount' = [dcount EXCEPT ![d] = attempts[Min(S)]]
  /\ dpc' = [dpc EXCEPT ![d] = "publish"]
  /\ UNCHANGED <<rowVars, sourceVars, outcome, faults>>

\* The commit of the row before expired this one: it is read again, but its
\* status is not looked at.
Load(d) ==
  /\ dpc[d] = "load"
  /\ dcount' = [dcount EXCEPT ![d] = attempts[Current(d)]]
  /\ dpc' = [dpc EXCEPT ![d] = "publish"]
  /\ UNCHANGED <<dtodo, rowVars, sourceVars, outcome, faults>>

\* The webhook answers below 400, or publish raises: the receiver was not
\* reached, or it got the event and its answer was an error or came too late.
Publish(d) ==
  /\ dpc[d] = "publish"
  /\ \/ /\ outcome' = [outcome EXCEPT ![Current(d)] = "received"]
        /\ dpc' = [dpc EXCEPT ![d] = "sent"]
        /\ dcount' = [dcount EXCEPT ![d] = 0]  \* not needed any more
     \/ /\ \E o \in {"refused", "received"} :
             outcome' = [outcome EXCEPT ![Current(d)] = IF @ = "received" THEN @ ELSE o]
        /\ dpc' = [dpc EXCEPT ![d] = "failed"]
        /\ UNCHANGED dcount
  /\ UNCHANGED <<dtodo, rowVars, sourceVars, faults>>

\* mark_sent, whatever another dispatcher has written.
MarkSent(d) ==
  /\ dpc[d] = "sent"
  /\ state' = [state EXCEPT ![Current(d)] = "sent"]
  /\ due' = due \ {Current(d)}
  /\ Advance(d)
  /\ UNCHANGED <<attempts, sourceVars, outcome, faults>>

\* Variant: a row that was refused before it was counted is forgotten.
MarkFailedForgotten(d) ==
  /\ dpc[d] = "failed"
  /\ due' = due \ {Current(d)}
  /\ Advance(d)
  /\ UNCHANGED <<state, attempts, sourceVars, outcome, faults>>

\* Variant: a failed delivery is taken for a success.
MarkFailedAsSent(d) ==
  /\ dpc[d] = "failed"
  /\ state' = [state EXCEPT ![Current(d)] = "sent"]
  /\ due' = due \ {Current(d)}
  /\ Advance(d)
  /\ UNCHANGED <<attempts, sourceVars, outcome, faults>>

\* mark_failed: counted from what was read, with a delay, exhausted at the limit.
MarkFailed(d) ==
  LET e == Current(d) IN
  /\ dpc[d] = "failed"
  /\ attempts' = [attempts EXCEPT ![e] = dcount[d] + 1]
  /\ state' = [state EXCEPT ![e] = IF dcount[d] + 1 >= MaxRetries THEN "exhausted" ELSE "failed"]
  /\ due' = due \ {e}
  /\ Advance(d)
  /\ UNCHANGED <<sourceVars, outcome, faults>>

Crash(d) ==
  /\ Fault("crash")
  /\ dpc[d] # "idle"
  /\ dpc' = [dpc EXCEPT ![d] = "idle"]
  /\ dtodo' = [dtodo EXCEPT ![d] = {}]
  /\ dcount' = [dcount EXCEPT ![d] = 0]
  /\ UNCHANGED <<rowVars, sourceVars, outcome>>

Dispatch(d) == Start(d) \/ Load(d) \/ Publish(d) \/ MarkSent(d) \/ MarkFailed(d)

Next ==
  \/ \E s \in Subjects : Change(s) \/ ChangeSilently(s)
  \/ \E e \in Events : BecomeDue(e)
  \/ \E d \in Dispatchers : Dispatch(d) \/ Crash(d)

\* Time passes, beat starts the task, and a task goes on until it ends.  The
\* receiver owes nothing.
Fairness ==
  /\ \A e \in Events : WF_vars(BecomeDue(e))
  /\ \A d \in Dispatchers : WF_vars(Dispatch(d))

Spec == Init /\ [][Next]_vars
FairSpec == Spec /\ Fairness

-----------------------------------------------------------------------------
(* Properties *)

\* What is marked as sent has reached the receiver, although dispatchers write
\* over each other's rows and die between the delivery and the mark.
SentWasReceived == \A e \in Events : state[e] = "sent" => outcome[e] = "received"

\* A receiver that keeps the first delivery of each event gets the events of a
\* subject in order, but for events that were refused: overlapping dispatchers,
\* batches that are cut off by the limit and deaths do not let a later event
\* overtake an earlier one.
FirstDeliveriesInOrder ==
  \A e, f \in Events :
    (e < f /\ subject[e] = subject[f] /\ outcome[f] = "received") => outcome[e] # "unsent"

\* No event waits for ever: it is delivered or its retries run out, whatever
\* the receiver answers, although overlapping tasks count attempts from stale
\* reads, revive exhausted rows and undo each other's marks.
EventsSettle ==
  \A e \in Events :
    state[e] # "absent" ~> [](outcome[e] = "received" \/ state[e] = "exhausted")

=============================================================================

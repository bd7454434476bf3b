------------------------- MODULE PublicationTargets -------------------------
(***************************************************************************)
(* Publication targets as the processes handle them: the producers that    *)
(* create a row and enqueue its task, the Celery workers that run          *)
(* postbridge.publication.process_target, the beat task                    *)
(* recover_stuck_targets, and the dedup ledger (published_posts) that      *)
(* live-sync claims before it publishes.                                   *)
(*                                                                         *)
(* A step is at most one database commit, one message or one call of the   *)
(* platform, so that a crash or another process can fall between any two.  *)
(*                                                                         *)
(* Video approvals take other branches of the same functions and belong to *)
(* VideoDelivery; here approval_for_plan returns None.                     *)
(***************************************************************************)
EXTENDS Naturals, FiniteSets

CONSTANTS
  Targets,     \* ids of publication_targets rows
  Posts,       \* live-sync posts: (source_channel, source_post_id, target_channel)
  Workers,     \* Celery worker processes
  NoPost,      \* origin of a target that is not of live-sync
  NoTarget,    \* a worker's target when it has none
  MaxRetries,  \* BATCH_IMPORT_RUN_MAX_RETRIES
  Answers,     \* whether an accepted post gets an id that the ledger keeps
  Faults,      \* which of FaultKinds can happen
  MaxFaults    \* bound: how many of them, in all

FaultKinds ==
  { "crash",       \* a process dies between two steps
    "overrun",     \* a publisher call outlives the stuck timeout
    "lostreply",   \* the platform accepts the post, the client gets no answer
    "brokerdown",  \* sending the task of a target raises
    "dispatch" }   \* an operator calls the dispatch endpoint

ASSUME MaxRetriesAssumption == MaxRetries \in Nat
ASSUME AnswersAssumption == Answers \subseteq BOOLEAN
ASSUME FaultsAssumption == Faults \subseteq FaultKinds /\ MaxFaults \in Nat
ASSUME DistinctAssumption == NoTarget \notin Targets /\ NoPost \notin Posts

\* The event rows that go with a status belong to StatusOutbox.
VARIABLES
  status,      \* publication_targets.status, "absent" before the insert
  retries,     \* publication_targets.retry_count
  origin,      \* the live-sync post a target was created for, or NoPost
  named,       \* external_post_id is there, and the platform is not rss
  ledger,      \* published_posts row of a post: none, claimed, or with message id
  queue,       \* messages of process_target: <<target, has live_sync kwargs>>
  creating,    \* targets committed by a producer that has not enqueued them yet
  recovering,  \* targets reset by the beat task, not enqueued yet
  wpc,         \* where a worker is in the task
  wtarget,     \* the task's target_id
  wlive,       \* the task's is_live_sync
  wcount,      \* the retry_count that schedule_publication_target_retry read
  posted,      \* how many posts the platform has created for a target
  lost,        \* how many of them no worker lived or learned to record
  faults,      \* how many faults happened
  happened     \* and of which kinds

rowVars == <<status, retries, origin, named, ledger>>
workerVars == <<wpc, wtarget, wlive, wcount>>
faultVars == <<faults, happened>>
vars == <<status, retries, origin, named, ledger, queue, creating, recovering,
          wpc, wtarget, wlive, wcount, posted, lost, faults, happened>>

Statuses == {"absent", "pending", "publishing", "published", "failed"}
LedgerStates == {"none", "claimed", "recorded"}
Steps == {"idle", "claim", "publish", "sent", "record", "rejected", "transient",
          "retry", "rewrite", "requeue", "abort"}
HoldingSteps == {"publish", "sent", "rejected", "transient"}  \* between claim and outcome
GivingUpSteps == {"retry", "rewrite", "abort"}                \* after a failed outcome
Messages == Targets \X BOOLEAN

TypeOK ==
  /\ status \in [Targets -> Statuses]
  /\ retries \in [Targets -> 0..MaxRetries]
  /\ origin \in [Targets -> Posts \cup {NoPost}]
  /\ named \in [Targets -> BOOLEAN]
  /\ ledger \in [Posts -> LedgerStates]
  /\ queue \in [Messages -> Nat]
  /\ creating \in SUBSET Targets
  /\ recovering \in SUBSET Targets
  /\ wpc \in [Workers -> Steps]
  /\ wtarget \in [Workers -> Targets \cup {NoTarget}]
  /\ \A w \in Workers : wpc[w] # "idle" => wtarget[w] \in Targets
  /\ wlive \in [Workers -> BOOLEAN]
  /\ wcount \in [Workers -> 0..MaxRetries]
  /\ \A w \in Workers : wpc[w] = "rewrite" => wcount[w] < MaxRetries
  /\ posted \in [Targets -> Nat]
  /\ lost \in [Targets -> Nat]
  /\ faults \in 0..MaxFaults
  /\ happened \in SUBSET Faults

Init ==
  /\ status = [t \in Targets |-> "absent"]
  /\ retries = [t \in Targets |-> 0]
  /\ origin = [t \in Targets |-> NoPost]
  /\ named = [t \in Targets |-> FALSE]
  /\ ledger = [p \in Posts |-> "none"]
  /\ queue = [m \in Messages |-> 0]
  /\ creating = {}
  /\ recovering = {}
  /\ wpc = [w \in Workers |-> "idle"]
  /\ wtarget = [w \in Workers |-> NoTarget]
  /\ wlive = [w \in Workers |-> FALSE]
  /\ wcount = [w \in Workers |-> 0]
  /\ posted = [t \in Targets |-> 0]
  /\ lost = [t \in Targets |-> 0]
  /\ faults = 0
  /\ happened = {}

-----------------------------------------------------------------------------
(* Helpers *)

Fault(kind) ==
  /\ kind \in Faults
  /\ faults < MaxFaults
  /\ faults' = faults + 1
  /\ happened' = happened \cup {kind}

Send(t, live) == queue' = [queue EXCEPT ![<<t, live>>] = @ + 1]

SetStatus(t, s) == status' = [status EXCEPT ![t] = s]

Goto(w, step) ==
  /\ wpc' = [wpc EXCEPT ![w] = step]
  /\ UNCHANGED <<wtarget, wlive, wcount>>

\* The end of the task: the worker keeps nothing.
Finish(w) ==
  /\ wpc' = [wpc EXCEPT ![w] = "idle"]
  /\ wtarget' = [wtarget EXCEPT ![w] = NoTarget]
  /\ wlive' = [wlive EXCEPT ![w] = FALSE]
  /\ wcount' = [wcount EXCEPT ![w] = 0]

-----------------------------------------------------------------------------
(* Producers *)

\* claim_publish, content + plan + target, one commit.  The unique key of
\* published_posts makes a second ingest of the same post a skip.
IngestLive(p, t) ==
  /\ status[t] = "absent"
  /\ ledger[p] = "none"
  /\ ledger' = [ledger EXCEPT ![p] = "claimed"]
  /\ status' = [status EXCEPT ![t] = "pending"]
  /\ origin' = [origin EXCEPT ![t] = p]
  /\ creating' = creating \cup {t}
  /\ UNCHANGED <<retries, named, queue, recovering, workerVars, posted, lost, faultVars>>

\* Plan and target for a content item; dispatch = FALSE leaves the target
\* pending until somebody dispatches it.
CreateDirect(t) ==
  /\ status[t] = "absent"
  /\ status' = [status EXCEPT ![t] = "pending"]
  /\ creating' \in {creating, creating \cup {t}}
  /\ UNCHANGED <<retries, origin, named, ledger, queue, recovering, workerVars,
                 posted, lost, faultVars>>

\* process_publication_target_task.delay after the commit.
EnqueueCreated(t) ==
  /\ t \in creating
  /\ creating' = creating \ {t}
  /\ Send(t, origin[t] # NoPost)
  /\ UNCHANGED <<rowVars, recovering, workerVars, posted, lost, faultVars>>

\* delay raises: live-sync gives its claim back, the target stays pending.
EnqueueFails(t) ==
  /\ Fault("brokerdown")
  /\ t \in creating
  /\ creating' = creating \ {t}
  /\ ledger' = IF origin[t] \in Posts THEN [ledger EXCEPT ![origin[t]] = "none"] ELSE ledger
  /\ UNCHANGED <<status, retries, origin, named, queue, recovering, workerVars,
                 posted, lost>>

CreatorCrash(t) ==
  /\ Fault("crash")
  /\ t \in creating
  /\ creating' = creating \ {t}
  /\ UNCHANGED <<rowVars, queue, recovering, workerVars, posted, lost>>

\* The dispatch endpoints enqueue any existing target, without live_sync kwargs.
Dispatch(t) ==
  /\ Fault("dispatch")
  /\ status[t] # "absent"
  /\ Send(t, FALSE)
  /\ UNCHANGED <<rowVars, creating, recovering, workerVars, posted, lost>>

-----------------------------------------------------------------------------
(* A worker running process_publication_target_task *)

\* Tasks are acknowledged before they run: the message is gone.
Receive(w, t, live) ==
  /\ wpc[w] = "idle"
  /\ queue[<<t, live>>] > 0
  /\ queue' = [queue EXCEPT ![<<t, live>>] = @ - 1]
  /\ wpc' = [wpc EXCEPT ![w] = "claim"]
  /\ wtarget' = [wtarget EXCEPT ![w] = t]
  /\ wlive' = [wlive EXCEPT ![w] = live]
  /\ UNCHANGED <<wcount, rowVars, creating, recovering, posted, lost, faultVars>>

\* Variant: the UPDATE does not compare the status.
ClaimUnconditional(w) ==
  /\ wpc[w] = "claim"
  /\ SetStatus(wtarget[w], "publishing")
  /\ Goto(w, "publish")
  /\ UNCHANGED <<retries, origin, named, ledger, queue, creating, recovering, posted, lost, faultVars>>

\* A published target returns 0 at once, and so does one that is not pending:
\* the conditional UPDATE touches no row.
Claim(w) ==
  LET t == wtarget[w] IN
  /\ wpc[w] = "claim"
  /\ \/ /\ status[t] = "pending"
        /\ SetStatus(t, "publishing")
        /\ Goto(w, "publish")
     \/ /\ status[t] # "pending"
        /\ Finish(w)
        /\ UNCHANGED status
  /\ UNCHANGED <<retries, origin, named, ledger, queue, creating, recovering, posted, lost, faultVars>>

\* The publisher's call: accepted, refused (a payload, credential or
\* configuration error before the call, a 4xx, any non-Postbridge exception:
\* not retryable) or failed in a way that may pass (429, 5xx, network).
Publish(w) ==
  /\ wpc[w] = "publish"
  /\ \/ /\ posted' = [posted EXCEPT ![wtarget[w]] = @ + 1]
        /\ Goto(w, "sent")
     \/ /\ \E error \in {"rejected", "transient"} : Goto(w, error)
        /\ UNCHANGED posted
  /\ UNCHANGED <<rowVars, queue, creating, recovering, lost, faultVars>>

\* The platform has the post, but the answer never comes or cannot be read:
\* a transport error is retryable, any other exception is not.
PublishReplyLost(w) ==
  /\ Fault("lostreply")
  /\ wpc[w] = "publish"
  /\ posted' = [posted EXCEPT ![wtarget[w]] = @ + 1]
  /\ lost' = [lost EXCEPT ![wtarget[w]] = @ + 1]
  /\ \E error \in {"rejected", "transient"} : Goto(w, error)
  /\ UNCHANGED <<rowVars, queue, creating, recovering>>

\* Written whatever the row's status has become meanwhile, with the id that the
\* platform gave the post, if any.
CommitPublished(w) ==
  /\ wpc[w] = "sent"
  /\ SetStatus(wtarget[w], "published")
  /\ \E id \in Answers : named' = [named EXCEPT ![wtarget[w]] = id]
  /\ IF wlive[w] THEN Goto(w, "record") ELSE Finish(w)
  /\ UNCHANGED <<retries, origin, ledger, queue, creating, recovering, posted, lost, faultVars>>

\* update_max_message_id, of an id that is there and not of a feed: an UPDATE of
\* the ledger row if there is one.
RecordMessageId(w) ==
  LET p == origin[wtarget[w]] IN
  /\ wpc[w] = "record"
  /\ ledger' = IF named[wtarget[w]] /\ p \in Posts /\ ledger[p] # "none"
               THEN [ledger EXCEPT ![p] = "recorded"] ELSE ledger
  /\ Finish(w)
  /\ UNCHANGED <<status, retries, origin, named, queue, creating, recovering,
                 posted, lost, faultVars>>

\* Variant: live-sync gives its claim back on every failure.
MarkFailedReleasing(w) ==
  LET p == origin[wtarget[w]] IN
  /\ wpc[w] \in {"rejected", "transient"}
  /\ SetStatus(wtarget[w], "failed")
  /\ Goto(w, IF wpc[w] = "transient" THEN "retry" ELSE "abort")
  /\ ledger' = IF wlive[w] /\ p \in Posts THEN [ledger EXCEPT ![p] = "none"] ELSE ledger
  /\ UNCHANGED <<retries, origin, named, queue, creating, recovering, posted, lost, faultVars>>

\* mark_publication_target_failed: written whatever the status is.  Only a
\* retryable error goes on to look at the row again.
MarkFailed(w) ==
  /\ wpc[w] \in {"rejected", "transient"}
  /\ SetStatus(wtarget[w], "failed")
  /\ Goto(w, IF wpc[w] = "transient" THEN "retry" ELSE "abort")
  /\ UNCHANGED <<retries, origin, named, ledger, queue, creating, recovering, posted, lost, faultVars>>

\* schedule_publication_target_retry reads the row ...
ReadForRetry(w) ==
  LET t == wtarget[w] IN
  /\ wpc[w] = "retry"
  /\ \/ /\ status[t] = "failed" /\ retries[t] < MaxRetries
        /\ wcount' = [wcount EXCEPT ![w] = retries[t]]
        /\ wpc' = [wpc EXCEPT ![w] = "rewrite"]
        /\ UNCHANGED <<wtarget, wlive>>
     \/ /\ ~(status[t] = "failed" /\ retries[t] < MaxRetries)
        /\ Goto(w, "abort")
  /\ UNCHANGED <<rowVars, queue, creating, recovering, posted, lost, faultVars>>

\* Variant: the retry is not counted.
WriteRetryUncounted(w) ==
  /\ wpc[w] = "rewrite"
  /\ SetStatus(wtarget[w], "pending")
  /\ Goto(w, "requeue")
  /\ UNCHANGED <<retries, origin, named, ledger, queue, creating, recovering, posted, lost, faultVars>>

\* ... and writes it back by id.
WriteRetry(w) ==
  LET t == wtarget[w] IN
  /\ wpc[w] = "rewrite"
  /\ retries' = [retries EXCEPT ![t] = wcount[w] + 1]
  /\ SetStatus(t, "pending")
  /\ Goto(w, "requeue")
  /\ UNCHANGED <<origin, named, ledger, queue, creating, recovering, posted, lost, faultVars>>

\* Variant: the retry is enqueued without the live_sync kwargs.
RequeueBare(w) ==
  /\ wpc[w] = "requeue"
  /\ Send(wtarget[w], FALSE)
  /\ Finish(w)
  /\ UNCHANGED <<rowVars, creating, recovering, posted, lost, faultVars>>

\* Variant: the retry is not enqueued.
RequeueForgotten(w) ==
  /\ wpc[w] = "requeue"
  /\ Finish(w)
  /\ UNCHANGED <<rowVars, queue, creating, recovering, posted, lost, faultVars>>

\* apply_async with a countdown keeps the live_sync kwargs.  If it raises, the
\* handler that gives the claim back is not the one that is running: the target
\* stays pending, with its claim and without a message.
Requeue(w) ==
  /\ wpc[w] = "requeue"
  /\ \/ Send(wtarget[w], wlive[w]) /\ UNCHANGED faultVars
     \/ Fault("brokerdown") /\ UNCHANGED queue
  /\ Finish(w)
  /\ UNCHANGED <<rowVars, creating, recovering, posted, lost>>

\* No retry: a live-sync task deletes the ledger row of its post.  The other
\* branch looks for a batch import row of the target, and there is none here.
Abort(w) ==
  LET p == origin[wtarget[w]] IN
  /\ wpc[w] = "abort"
  /\ ledger' = IF wlive[w] /\ p \in Posts THEN [ledger EXCEPT ![p] = "none"] ELSE ledger
  /\ Finish(w)
  /\ UNCHANGED <<status, retries, origin, named, queue, creating, recovering,
                 posted, lost, faultVars>>

WorkerCrash(w) ==
  /\ Fault("crash")
  /\ wpc[w] # "idle"
  /\ lost' = IF wpc[w] = "sent" THEN [lost EXCEPT ![wtarget[w]] = @ + 1] ELSE lost
  /\ Finish(w)
  /\ UNCHANGED <<rowVars, queue, creating, recovering, posted>>

-----------------------------------------------------------------------------
(* The beat task recover_stuck_targets *)

\* The claim of t is in the hands of a live worker.
Held(t) == \E w \in Workers : wtarget[w] = t /\ wpc[w] \in HoldingSteps

\* Variant: the age of the claim is not compared.
RecoverAnyAge(S) ==
  /\ S # {}
  /\ S \subseteq {t \in Targets : status[t] = "publishing"}
  /\ status' = [t \in Targets |-> IF t \in S THEN "pending" ELSE status[t]]
  /\ recovering' = recovering \cup S
  /\ UNCHANGED <<retries, origin, named, ledger, queue, creating, workerVars, posted, lost, faultVars>>

\* Every claim older than the timeout goes back to pending, in one commit and
\* without an event.  Only an overrun makes a live worker's claim that old.
Recover(S) ==
  /\ S # {}
  /\ S \subseteq {t \in Targets : status[t] = "publishing"}
  /\ IF \E t \in S : Held(t) THEN Fault("overrun") ELSE UNCHANGED faultVars
  /\ status' = [t \in Targets |-> IF t \in S THEN "pending" ELSE status[t]]
  /\ recovering' = recovering \cup S
  /\ UNCHANGED <<retries, origin, named, ledger, queue, creating, workerVars, posted, lost>>

\* The task is enqueued with the target id and a correlation id only.  If delay
\* raises, the rest of this run's targets is not enqueued either.
EnqueueRecovered(t) ==
  /\ t \in recovering
  /\ \/ recovering' = recovering \ {t} /\ Send(t, FALSE) /\ UNCHANGED faultVars
     \/ /\ Fault("brokerdown")
        /\ recovering' \in SUBSET (recovering \ {t})
        /\ UNCHANGED queue
  /\ UNCHANGED <<rowVars, creating, workerVars, posted, lost>>

RecoverCrash ==
  /\ Fault("crash")
  /\ recovering' \in SUBSET recovering /\ recovering' # recovering
  /\ UNCHANGED <<rowVars, queue, creating, workerVars, posted, lost>>

-----------------------------------------------------------------------------
Work(w) ==
  \/ \E t \in Targets, live \in BOOLEAN : Receive(w, t, live)
  \/ Claim(w) \/ Publish(w) \/ CommitPublished(w) \/ RecordMessageId(w) \/ MarkFailed(w)
  \/ ReadForRetry(w) \/ WriteRetry(w) \/ Requeue(w) \/ Abort(w)

Next ==
  \/ \E p \in Posts, t \in Targets : IngestLive(p, t)
  \/ \E t \in Targets : \/ CreateDirect(t) \/ EnqueueCreated(t) \/ EnqueueFails(t)
                        \/ CreatorCrash(t) \/ Dispatch(t) \/ EnqueueRecovered(t)
  \/ \E w \in Workers : Work(w) \/ PublishReplyLost(w) \/ WorkerCrash(w)
  \/ \E S \in SUBSET Targets : Recover(S)
  \/ RecoverCrash

\* Running processes go on, Celery delivers what is queued, and beat runs.
\* Nobody owes the system a post, a dispatch or a fault.
Fairness ==
  /\ \A t \in Targets : WF_vars(EnqueueCreated(t)) /\ WF_vars(EnqueueRecovered(t))
  /\ \A w \in Workers : WF_vars(Work(w))
  /\ WF_vars(\E S \in SUBSET Targets : Recover(S) /\ \A t \in S : ~Held(t))

Spec == Init /\ [][Next]_vars
FairSpec == Spec /\ Fairness

-----------------------------------------------------------------------------
(* Properties *)

Overruns == "overrun" \in happened

\* Two workers never publish one target at the same time, and a worker that
\* publishes finds its claim in the row: what the conditional UPDATE of
\* claim_publication_target_pending and the timeout of the beat task are for.
ExclusiveClaim ==
  ~Overruns =>
    \A w \in Workers :
      wpc[w] \in HoldingSteps =>
        /\ status[wtarget[w]] = "publishing"
        /\ \A v \in Workers \ {w} : wpc[v] \in HoldingSteps => wtarget[v] # wtarget[w]

\* The target is published, or can still become so by itself.
Active(t) ==
  \/ status[t] \in {"pending", "publishing", "published"}
  \/ \E w \in Workers : wtarget[w] = t /\ wpc[w] \in GivingUpSteps

\* The dedup ledger does its work: a post never has two targets on their way
\* to the platform, although producers repeat posts, the claim is released
\* after a final failure by a DELETE that names only the post, and tasks of
\* the same target reach workers with and without the live_sync kwargs.
OneTargetPerPost ==
  (happened \cap {"overrun", "brokerdown"} = {}) =>
    \A t1, t2 \in Targets :
      (t1 # t2 /\ origin[t1] \in Posts /\ origin[t1] = origin[t2]) => ~(Active(t1) /\ Active(t2))

\* The platform has at most one post of a target, and of a live-sync post over
\* all its targets, beyond those whose answer was lost or whose worker died
\* before it could write the result.
AtMostOnce ==
  /\ ~Overruns => \A t \in Targets : posted[t] <= lost[t] + 1
  /\ (happened \cap {"overrun", "brokerdown"} = {}) =>
       \A t1, t2 \in Targets :
         (t1 # t2 /\ origin[t1] \in Posts /\ origin[t1] = origin[t2]) =>
           ~(posted[t1] > lost[t1] /\ posted[t2] > lost[t2])

\* Lost answers and a broker that is down do not make tasks forget that they
\* are live-sync's; deaths, overruns and the dispatch endpoint do.
KwargsKept == happened \subseteq {"lostreply", "brokerdown"}

\* The target has come to its end.
Settled(t) ==
  \/ status[t] = "published"
  \/ /\ status[t] = "failed"
     /\ \A w \in Workers : wtarget[w] = t => wpc[w] \notin {"retry", "rewrite"}

\* The target is pending and nobody has it or will be told of it.
Stranded(t) ==
  /\ status[t] = "pending" /\ t \notin creating \cup recovering
  /\ \A live \in BOOLEAN : queue[<<t, live>>] = 0
  /\ \A w \in Workers : wtarget[w] # t

\* A task in the queue brings its target to an end, whatever fails: retries and
\* their messages run out, claims of the dead are found, and no task is dropped
\* when workers fight over a target whose publisher outlived the timeout.  A
\* target is left pending without a message only by a process that died or a
\* broker that refused one, between the commit and the message; never in a claim.
QueuedTargetSettles ==
  \A t \in Targets :
    (\E live \in BOOLEAN : queue[<<t, live>>] > 0) ~>
      (Settled(t) \/ (Stranded(t) /\ happened \cap {"crash", "brokerdown"} # {}))

\* What a live-sync post was published as ends up in the ledger, where edits
\* look for it, also after retries, if the platform told it.
DeliveryRecorded ==
  []KwargsKept =>
    \A t \in Targets : \A p \in Posts :
      (status[t] = "published" /\ named[t] /\ origin[t] = p) ~> (ledger[p] = "recorded")

\* The detailed specification implements the abstract one when no publisher
\* call can outlive the stuck timeout.
Lifecycle == INSTANCE TargetLifecycle
ImplementsLifecycle == Lifecycle!Spec

=============================================================================

---------------------------- MODULE VideoDelivery ----------------------------
(***************************************************************************)
(* Delivery of one approved video to its destinations: the approval and    *)
(* the person's later decisions, the beat tasks that dispatch, expire and  *)
(* recover, the workers that claim a target and run the provider's         *)
(* protocol, and the provider.                                             *)
(*                                                                         *)
(* Everything the person does, every expiry and every fresh claim happens  *)
(* under the lock of the post's row, so each is one step.  A worker's step *)
(* is one commit or one call of the provider: a worker may die, and an     *)
(* answer may get lost, between any two.                                   *)
(*                                                                         *)
(* Workers may die, and the person may choose a new time, any number of    *)
(* times; the limit of 100 schedule versions is left out.                  *)
(*                                                                         *)
(* A worker finishes before the stuck timeout: a claim that recover takes  *)
(* belongs to nobody alive.  Publication is enabled all along.             *)
(*                                                                         *)
(* approved_payload compares the post, the consent and the destination     *)
(* with what was approved.  Those change outside, at any time and back     *)
(* again, so the comparison may go either way whenever it is made: what    *)
(* needs it may happen, and a worker's Check may fail.                     *)
(***************************************************************************)
EXTENDS Naturals, FiniteSets

CONSTANTS
  Targets,      \* destinations of the approval
  Workers,      \* Celery workers
  NoTarget,     \* a worker's target when it has none
  Platforms     \* which of VIDEO_FORMATS the destinations may be on

VideoFormats == {"telegram", "instagram", "youtube", "tiktok"}

ASSUME PlatformsAssumption == Platforms \subseteq VideoFormats
ASSUME NoTargetAssumption == NoTarget \notin Targets

VARIABLES
  platform,   \* publication_targets.platform
  status,     \* publication_targets.status, "absent" before the approval
  error,      \* class of publication_targets.error_code
  window,     \* where now is, relative to publish_at and deadline_at
  post,       \* content_items.status
  phase,      \* video_delivery_states, "none" without a row
  job,        \* the provider's side of the saved session
  posted,     \* how many times the destination got the video
  wpc,        \* where a worker is
  wtarget,    \* its target
  wresume,    \* it read "processing" before the claim
  werror,     \* the error it is about to write
  wlast       \* it saw every other target published

rowVars == <<status, error, window, post>>
providerVars == <<phase, job, posted>>
workerVars == <<wpc, wtarget, wresume, werror, wlast>>
vars == <<platform, status, error, window, post, phase, job, posted,
          wpc, wtarget, wresume, werror, wlast>>

Statuses == {"absent", "pending", "publishing", "processing", "published", "failed",
             "unknown", "expired", "cancelled"}
\* A code that ends in _REJECTED (or Telegram's refusal), and any other.
Errors == {"none", "rejected", "other"}
Windows == {"early", "open", "missed"}
\* starting: creating.  accepted: upload_ready, processing.  committing:
\* uploading, publishing.  done: uploaded, published.
Phases == {"none", "starting", "rejected", "accepted", "committing", "done", "failed"}
\* open: a session without the bytes.  live: a container that was published.
Jobs == {"none", "open", "running", "ready", "broken", "live"}
HoldingSteps == {"check", "deliver", "create", "refused", "accepted", "upload", "commit",
                 "stored", "processing", "failed", "unknown", "finish", "publish"}
Steps == {"idle", "claim"} \cup HoldingSteps

TypeOK ==
  /\ platform \in [Targets -> Platforms]
  /\ status \in [Targets -> Statuses]
  /\ error \in [Targets -> Errors]
  /\ window \in Windows
  /\ post \in {"draft", "published"}
  /\ phase \in [Targets -> Phases]
  /\ job \in [Targets -> Jobs]
  /\ posted \in [Targets -> Nat]
  /\ wpc \in [Workers -> Steps]
  /\ wtarget \in [Workers -> Targets \cup {NoTarget}]
  /\ \A w \in Workers : wpc[w] # "idle" => wtarget[w] \in Targets
  /\ wresume \in [Workers -> BOOLEAN]
  /\ werror \in [Workers -> Errors]
  /\ wlast \in [Workers -> BOOLEAN]

Init ==
  /\ platform \in [Targets -> Platforms]
  /\ status = [t \in Targets |-> "absent"]
  /\ error = [t \in Targets |-> "none"]
  /\ window = "early"
  /\ post = "draft"
  /\ phase = [t \in Targets |-> "none"]
  /\ job = [t \in Targets |-> "none"]
  /\ posted = [t \in Targets |-> 0]
  /\ wpc = [w \in Workers |-> "idle"]
  /\ wtarget = [w \in Workers |-> NoTarget]
  /\ wresume = [w \in Workers |-> FALSE]
  /\ werror = [w \in Workers |-> "none"]
  /\ wlast = [w \in Workers |-> FALSE]

-----------------------------------------------------------------------------
(* Helpers *)

Write(t, s, e) ==
  /\ status' = [status EXCEPT ![t] = s]
  /\ error' = [error EXCEPT ![t] = e]

WriteAll(S, s, e) ==
  /\ status' = [t \in Targets |-> IF t \in S THEN s ELSE status[t]]
  /\ error' = [t \in Targets |-> IF t \in S THEN e ELSE error[t]]

With(s) == {t \in Targets : status[t] = s}

Save(t, p) == phase' = [phase EXCEPT ![t] = p]

Deliver(t) == posted' = [posted EXCEPT ![t] = @ + 1]

Goto(w, step) ==
  /\ wpc' = [wpc EXCEPT ![w] = step]
  /\ UNCHANGED <<wtarget, wresume, werror, wlast>>

FailWith(w, e) ==
  /\ wpc' = [wpc EXCEPT ![w] = "failed"]
  /\ werror' = [werror EXCEPT ![w] = e]
  /\ UNCHANGED <<wtarget, wresume, wlast>>

Finish(w) ==
  /\ wpc' = [wpc EXCEPT ![w] = "idle"]
  /\ wtarget' = [wtarget EXCEPT ![w] = NoTarget]
  /\ wresume' = [wresume EXCEPT ![w] = FALSE]
  /\ werror' = [werror EXCEPT ![w] = "none"]
  /\ wlast' = [wlast EXCEPT ![w] = FALSE]

Holds(w, t) == wtarget[w] = t /\ wpc[w] \in HoldingSteps

-----------------------------------------------------------------------------
(* The person, each time under the lock of the post's row *)

\* One approval, its plan and all its targets.  A repeated confirmation finds
\* them and changes nothing.
Approve(when) ==
  /\ \A t \in Targets : status[t] = "absent"
  /\ window' = when
  /\ WriteAll(Targets, "pending", "none")
  /\ UNCHANGED <<platform, post, providerVars, workerVars>>

Cancel ==
  /\ With("pending") # {}
  /\ WriteAll(With("pending"), "cancelled", "none")
  /\ UNCHANGED <<platform, window, post, providerVars, workerVars>>

\* Only what the provider refused, and only if it could be sent now.
Retry(t) ==
  /\ status[t] = "failed"
  /\ error[t] = "rejected"
  /\ window = "open"
  /\ Write(t, "pending", "none")
  /\ UNCHANGED <<platform, window, post, providerVars, workerVars>>

\* Takes the saved session up again, whatever the time.
Reconcile(t) ==
  /\ status[t] \in {"unknown", "failed"}
  /\ platform[t] # "telegram"
  /\ phase[t] \notin {"none", "rejected"}
  /\ Write(t, "processing", "none")
  /\ UNCHANGED <<platform, window, post, providerVars, workerVars>>

Movable == {t \in Targets : status[t] \in {"pending", "expired", "cancelled", "failed"}}

\* A new window for everything unsent.
Reschedule(when) ==
  /\ \A t \in Targets : status[t] \notin {"publishing", "processing", "unknown"}
  /\ Movable # {}
  /\ window' = when
  /\ WriteAll(Movable, "pending", "none")
  /\ UNCHANGED <<platform, post, providerVars, workerVars>>

-----------------------------------------------------------------------------
(* Time, the provider, and the beat tasks *)

TimePasses ==
  /\ \E t \in Targets : status[t] # "absent"
  /\ window' = CASE window = "early" -> "open" [] OTHER -> "missed"
  /\ window' # window
  /\ UNCHANGED <<platform, status, error, post, providerVars, workerVars>>

\* The provider is through with what it accepted.  TikTok publishes by itself.
ProviderEnds(t) ==
  /\ job[t] = "running"
  /\ \/ /\ job' = [job EXCEPT ![t] = "ready"]
        /\ IF platform[t] = "tiktok" THEN Deliver(t) ELSE UNCHANGED posted
     \/ /\ job' = [job EXCEPT ![t] = "broken"]
        /\ UNCHANGED posted
  /\ UNCHANGED <<platform, rowVars, phase, workerVars>>

ExpireDue ==
  /\ window = "missed"
  /\ With("pending") # {}
  /\ WriteAll(With("pending"), "expired", "other")
  /\ UNCHANGED <<platform, window, post, providerVars, workerVars>>

\* Variant: the age of the claim is not looked at.
RecoverAnyAge(t) ==
  /\ status[t] = "publishing"
  /\ Write(t, "unknown", "other")
  /\ UNCHANGED <<platform, window, post, providerVars, workerVars>>

\* The claim of a worker that is gone.
Recover(t) ==
  /\ status[t] = "publishing"
  /\ \A w \in Workers : ~Holds(w, t)
  /\ Write(t, "unknown", "other")
  /\ UNCHANGED <<platform, window, post, providerVars, workerVars>>

-----------------------------------------------------------------------------
(* A worker: from the message to the claim *)

\* Variant: only pending targets are sent.
ReceivePending(w, t) ==
  /\ wpc[w] = "idle"
  /\ status[t] = "pending"
  /\ wpc' = [wpc EXCEPT ![w] = "claim"]
  /\ wtarget' = [wtarget EXCEPT ![w] = t]
  /\ wresume' = [wresume EXCEPT ![w] = FALSE]
  /\ UNCHANGED <<werror, wlast, platform, rowVars, providerVars>>

\* dispatch_video_publications sends pending and processing targets every
\* 30 seconds: a message is always about.  One that finds another status ends
\* there, one that finds the target early is an operator's.
Receive(w, t) ==
  /\ wpc[w] = "idle"
  /\ status[t] \in {"pending", "processing"}
  /\ wpc' = [wpc EXCEPT ![w] = "claim"]
  /\ wtarget' = [wtarget EXCEPT ![w] = t]
  /\ wresume' = [wresume EXCEPT ![w] = status[t] = "processing"]
  /\ UNCHANGED <<werror, wlast, platform, rowVars, providerVars>>

\* Variant: only a window that is over is looked at.
ClaimEarly(w) ==
  LET t == wtarget[w] IN
  /\ wpc[w] = "claim"
  /\ wresume[w] \/ window # "missed"
  /\ status[t] = IF wresume[w] THEN "processing" ELSE "pending"
  /\ Write(t, "publishing", error[t])
  /\ Goto(w, "check")
  /\ UNCHANGED <<platform, window, post, providerVars>>

\* The UPDATE compares the status; a fresh claim also holds the post's lock.
Claim(w) ==
  LET t == wtarget[w] IN
  /\ wpc[w] = "claim"
  /\ wresume[w] \/ window = "open"
  /\ status[t] = IF wresume[w] THEN "processing" ELSE "pending"
  /\ Write(t, "publishing", error[t])
  /\ Goto(w, "check")
  /\ UNCHANGED <<platform, window, post, providerVars>>

\* Another worker, a person or the beat came first, or it is not due.
ClaimSkipped(w) ==
  /\ wpc[w] = "claim"
  /\ wresume[w] \/ window # "missed"
  /\ \/ ~wresume[w] /\ window = "early"
     \/ status[wtarget[w]] # IF wresume[w] THEN "processing" ELSE "pending"
  /\ Finish(w)
  /\ UNCHANGED <<platform, rowVars, providerVars>>

\* Too late: everything of the plan that still waits expires.
ClaimMissed(w) ==
  /\ wpc[w] = "claim"
  /\ ~wresume[w] /\ window = "missed"
  /\ WriteAll(With("pending"), "expired", "other")
  /\ Finish(w)
  /\ UNCHANGED <<platform, window, post, providerVars>>

\* approved_payload and the credentials, after the claim.
Check(w) ==
  /\ wpc[w] = "check"
  /\ \/ /\ wresume[w] \/ window = "open"
        /\ Goto(w, "deliver")
     \/ FailWith(w, "other")
  /\ UNCHANGED <<platform, rowVars, providerVars>>

-----------------------------------------------------------------------------
(* A worker: the provider's protocol, from the saved phase on.  Only the    *)
(* worker that holds the target reads or writes the phase.                  *)

At(w, step, format) == wpc[w] = step /\ platform[wtarget[w]] = format

\* A new attempt, saved before it is made.
Begin(w) ==
  LET t == wtarget[w] IN
  /\ wpc[w] = "deliver"
  /\ platform[t] # "telegram"
  /\ phase[t] \in {"none", "rejected"}
  /\ Save(t, "starting")
  /\ Goto(w, "create")
  /\ UNCHANGED <<platform, rowVars, job, posted>>

\* The answer to the attempt was never saved: nothing may be started.
AnswerLost(w) ==
  /\ wpc[w] = "deliver"
  /\ phase[wtarget[w]] = "starting"
  /\ Goto(w, "unknown")
  /\ UNCHANGED <<platform, rowVars, providerVars>>

Session(t) == [job EXCEPT ![t] = IF platform[t] = "youtube" THEN "open" ELSE "running"]

\* Upload session, container or publish request: accepted, refused with a
\* definite 4xx, or no answer that tells which.
Create(w) ==
  LET t == wtarget[w] IN
  /\ wpc[w] = "create"
  /\ \/ Goto(w, "accepted") /\ job' = Session(t)
     \/ Goto(w, "refused")  /\ UNCHANGED job
     \/ Goto(w, "unknown")  /\ job' \in {job, Session(t)}
  /\ UNCHANGED <<platform, rowVars, phase, posted>>

SaveAccepted(w) ==
  /\ wpc[w] = "accepted"
  /\ Save(wtarget[w], "accepted")
  /\ Goto(w, "deliver")
  /\ UNCHANGED <<platform, rowVars, job, posted>>

\* A refused container stays refused; a refused media_publish leaves the
\* container, which can be published later.
SaveRefused(w) ==
  LET t == wtarget[w] IN
  /\ wpc[w] = "refused"
  /\ Save(t, IF phase[t] = "committing" THEN "accepted" ELSE "rejected")
  /\ FailWith(w, "rejected")
  /\ UNCHANGED <<platform, rowVars, job, posted>>

\* Telegram: one attempt, nothing saved.
SendVideo(w) ==
  LET t == wtarget[w] IN
  /\ At(w, "deliver", "telegram")
  /\ \/ Goto(w, "finish")  /\ Deliver(t)
     \/ Goto(w, "unknown") /\ (Deliver(t) \/ UNCHANGED posted)
     \/ FailWith(w, "rejected") /\ UNCHANGED posted
  /\ UNCHANGED <<platform, rowVars, phase, job>>

\* YouTube: the session is known; the bytes are next.
StartUpload(w) ==
  LET t == wtarget[w] IN
  /\ At(w, "deliver", "youtube")
  /\ phase[t] = "accepted"
  /\ Save(t, "committing")
  /\ Goto(w, "upload")
  /\ UNCHANGED <<platform, rowVars, job, posted>>

\* Variant: an interrupted upload is uploaded again without a look.
ProbeForgotten(w) ==
  /\ At(w, "deliver", "youtube")
  /\ phase[wtarget[w]] = "committing"
  /\ Goto(w, "upload")
  /\ UNCHANGED <<platform, rowVars, providerVars>>

\* An upload that was interrupted: the session says whether it is complete.
Probe(w) ==
  /\ At(w, "deliver", "youtube")
  /\ phase[wtarget[w]] = "committing"
  /\ \/ job[wtarget[w]] # "open" /\ Goto(w, "stored")
     \/ job[wtarget[w]] = "open" /\ Goto(w, "upload")
     \/ Goto(w, "unknown")
  /\ UNCHANGED <<platform, rowVars, providerVars>>

Upload(w) ==
  LET t == wtarget[w]
      Complete == Deliver(t) /\ job' = [job EXCEPT ![t] = "running"] IN
  /\ wpc[w] = "upload"
  /\ \/ Goto(w, "stored")  /\ Complete
     \/ Goto(w, "unknown") /\ (Complete \/ UNCHANGED <<job, posted>>)
  /\ UNCHANGED <<platform, rowVars, phase>>

\* The identifier of the video is safe.
SaveStored(w) ==
  LET t == wtarget[w] IN
  /\ wpc[w] = "stored"
  /\ Save(t, "done")
  /\ Goto(w, IF platform[t] = "instagram" THEN "finish" ELSE "deliver")
  /\ UNCHANGED <<platform, rowVars, job, posted>>

\* A question to the provider - a new token, the creator, the state of its job -
\* may be refused or get no answer, like any.
PollFails(w) ==
  LET t == wtarget[w] IN
  /\ wpc[w] = "deliver"
  /\ \/ platform[t] \in {"youtube", "tiktok"}
     \/ platform[t] = "instagram" /\ phase[t] \in {"accepted", "committing"}
  /\ \/ platform[t] # "instagram" /\ FailWith(w, "other")
     \/ /\ platform[t] = "youtube" => phase[t] = "done"
        /\ platform[t] = "tiktok" => phase[t] # "starting"
        /\ FailWith(w, "rejected")
     \/ Goto(w, "unknown")
  /\ UNCHANGED <<platform, rowVars, providerVars>>

\* A video that YouTube does not list, yet or any more, is asked for again like one that
\* it still processes; that it lists a video some time is the provider's part.
PollYouTube(w) ==
  LET t == wtarget[w] IN
  /\ At(w, "deliver", "youtube")
  /\ phase[t] = "done"
  /\ \/ job[t] = "running" /\ Goto(w, "processing")
     \/ job[t] = "ready"   /\ (Goto(w, "finish") \/ FailWith(w, "other"))  \* visibility
     \/ job[t] = "broken"  /\ FailWith(w, "other")
  /\ UNCHANGED <<platform, rowVars, providerVars>>

\* Instagram: a finished container is published once; who finds that it was
\* tried before cannot tell whether it was.
PollInstagram(w) ==
  LET t == wtarget[w] IN
  /\ At(w, "deliver", "instagram")
  /\ phase[t] \in {"accepted", "committing"}
  /\ \/ job[t] = "broken" /\ FailWith(w, "other") /\ UNCHANGED phase
     \/ /\ job[t] # "broken"
        /\ phase[t] = "committing" \/ job[t] = "live"
        /\ Goto(w, "unknown") /\ UNCHANGED phase
     \/ /\ job[t] = "running" /\ phase[t] = "accepted"
        /\ Goto(w, "processing") /\ UNCHANGED phase
     \/ /\ job[t] = "ready" /\ phase[t] = "accepted"
        /\ Save(t, "committing") /\ Goto(w, "commit")
  /\ UNCHANGED <<platform, rowVars, job, posted>>

\* Its media identifier was saved: only the receipt was missing.
AlreadyPublished(w) ==
  /\ At(w, "deliver", "instagram")
  /\ phase[wtarget[w]] = "done"
  /\ Goto(w, "finish")
  /\ UNCHANGED <<platform, rowVars, providerVars>>

MediaPublish(w) ==
  LET t == wtarget[w]
      Live == Deliver(t) /\ job' = [job EXCEPT ![t] = "live"] IN
  /\ wpc[w] = "commit"
  /\ \/ Goto(w, "stored")  /\ Live
     \/ Goto(w, "unknown") /\ (Live \/ UNCHANGED <<job, posted>>)
     \/ Goto(w, "refused") /\ UNCHANGED <<job, posted>>
  /\ UNCHANGED <<platform, rowVars, phase>>

PollTikTok(w) ==
  LET t == wtarget[w] IN
  /\ At(w, "deliver", "tiktok")
  /\ phase[t] \in {"accepted", "failed", "done"}
  /\ \/ job[t] = "running" /\ Goto(w, "processing") /\ UNCHANGED phase
     \/ job[t] = "ready"   /\ Save(t, "done") /\ Goto(w, "finish")
     \/ job[t] = "broken"  /\ Save(t, "failed") /\ FailWith(w, "other")
  /\ UNCHANGED <<platform, rowVars, job, posted>>

-----------------------------------------------------------------------------
(* A worker: the outcome.  These writes do not compare the status.          *)

WriteProcessing(w) ==
  /\ wpc[w] = "processing"
  /\ Write(wtarget[w], "processing", "none")
  /\ Finish(w)
  /\ UNCHANGED <<platform, window, post, providerVars>>

WriteFailed(w) ==
  /\ wpc[w] = "failed"
  /\ Write(wtarget[w], "failed", werror[w])
  /\ Finish(w)
  /\ UNCHANGED <<platform, window, post, providerVars>>

WriteUnknown(w) ==
  /\ wpc[w] = "unknown"
  /\ Write(wtarget[w], "unknown", "other")
  /\ Finish(w)
  /\ UNCHANGED <<platform, window, post, providerVars>>

\* Its own row is flushed, the others are read as they are committed.
ReadOthers(w) ==
  /\ wpc[w] = "finish"
  /\ wpc' = [wpc EXCEPT ![w] = "publish"]
  /\ wlast' = [wlast EXCEPT ![w] = \A t \in Targets \ {wtarget[w]} : status[t] = "published"]
  /\ UNCHANGED <<wtarget, wresume, werror, platform, rowVars, providerVars>>

WritePublished(w) ==
  /\ wpc[w] = "publish"
  /\ Write(wtarget[w], "published", "none")
  /\ post' = IF wlast[w] THEN "published" ELSE post
  /\ Finish(w)
  /\ UNCHANGED <<platform, window, providerVars>>

Crash(w) ==
  /\ wpc[w] # "idle"
  /\ Finish(w)
  /\ UNCHANGED <<platform, rowVars, providerVars>>

-----------------------------------------------------------------------------
WorkerStep(w) ==
  \/ Claim(w) \/ ClaimSkipped(w) \/ ClaimMissed(w) \/ Check(w)
  \/ Begin(w) \/ AnswerLost(w) \/ Create(w) \/ SaveAccepted(w) \/ SaveRefused(w)
  \/ SendVideo(w)
  \/ StartUpload(w) \/ Probe(w) \/ Upload(w) \/ SaveStored(w)
  \/ PollFails(w) \/ PollYouTube(w) \/ PollInstagram(w) \/ AlreadyPublished(w)
  \/ MediaPublish(w) \/ PollTikTok(w)
  \/ WriteProcessing(w) \/ WriteFailed(w) \/ WriteUnknown(w)
  \/ ReadOthers(w) \/ WritePublished(w)

Person ==
  \/ \E when \in {"early", "open"} : Approve(when) \/ Reschedule(when)
  \/ Cancel
  \/ \E t \in Targets : Retry(t) \/ Reconcile(t)

Next ==
  \/ Person
  \/ TimePasses \/ ExpireDue
  \/ \E t \in Targets : ProviderEnds(t) \/ Recover(t)
  \/ \E w \in Workers : WorkerStep(w) \/ Crash(w)
  \/ \E w \in Workers, t \in Targets : Receive(w, t)

Due(t) ==
  \/ status[t] = "processing"
  \/ status[t] = "pending" /\ window # "early"

\* Workers run, the beat fires, the provider ends what it accepted.  Every
\* dispatch sends every due target, so a worker that comes free again and
\* again gets to each; workers do not die for ever before they claim.
Fairness ==
  /\ \A w \in Workers : WF_vars(WorkerStep(w))
  /\ \A t \in Targets :
       /\ SF_vars(Due(t) /\ \E w \in Workers : Receive(w, t))
       /\ SF_vars(\E w \in Workers : wtarget[w] = t /\ Claim(w))
       /\ WF_vars(ProviderEnds(t))
       /\ WF_vars(Recover(t))
  /\ WF_vars(TimePasses) /\ WF_vars(ExpireDue)

Spec == Init /\ [][Next]_vars /\ Fairness

-----------------------------------------------------------------------------
(* Properties *)

\* One worker at a time works on a target, and the row says so: whoever writes
\* an outcome without comparing the status overwrites nobody.
ExclusiveClaim ==
  \A t \in Targets :
    /\ Cardinality({w \in Workers : Holds(w, t)}) <= 1
    /\ \A w \in Workers : Holds(w, t) => status[t] = "publishing"

\* What the destination may have got can be traced: its session is saved, so a
\* death or a lost answer never leads to a second attempt.
PostedIsSaved ==
  \A t \in Targets :
    posted[t] > 0 /\ platform[t] # "telegram" => phase[t] \notin {"none", "rejected"}

\* Nothing is on its way before its time: a later time cannot be set under a
\* delivery, and a stale message cannot start one early.
UnderWayIsDue ==
  \A t \in Targets :
    status[t] \in {"publishing", "processing", "unknown"} => window # "early"

\* A claimed delivery comes to an end that the person can see and act on.
ClaimedSettles ==
  \A t \in Targets :
    status[t] \in {"publishing", "processing"}
      ~> status[t] \in {"published", "failed", "unknown"}

-----------------------------------------------------------------------------
(* What is promised: VideoDeliveryPromise *)

Stage(s) ==
  CASE s = "pending" -> "waiting"
    [] s \in {"cancelled", "expired"} -> "withdrawn"
    [] s \in {"publishing", "processing"} -> "sending"
    [] OTHER -> s

Promise == INSTANCE VideoDeliveryPromise WITH
  stage <- [t \in Targets |-> Stage(status[t])],
  sent <- posted,
  open <- {t \in Targets : phase[t] \notin {"none", "rejected"}},
  due <- window # "early"

\* Workers, provider sessions, lost answers and deaths do not show: each
\* destination gets the video at most once and the status tells the truth.
KeepsPromise == Promise!Spec
=============================================================================

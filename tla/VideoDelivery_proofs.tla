------------------------ MODULE VideoDelivery_proofs ------------------------
(***************************************************************************)
(* Proofs about VideoDelivery, for any sets of destinations and workers    *)
(* and any choice of platforms: its safety properties, and that it         *)
(* implements VideoDeliveryPromise.                                        *)
(***************************************************************************)
EXTENDS VideoDelivery, FiniteSetTheorems, TLAPS

-----------------------------------------------------------------------------
(* The inductive invariant *)

\* A worker that works on a target finds it "publishing", and is alone with it.
Claims ==
  /\ \A w \in Workers : wpc[w] \in HoldingSteps => status[wtarget[w]] = "publishing"
  /\ \A v, w \in Workers :
       /\ wpc[v] \in HoldingSteps
       /\ wpc[w] \in HoldingSteps
       /\ wtarget[v] = wtarget[w]
       => v = w

\* All targets are made by one approval.
OneApproval ==
  \A t, u \in Targets : status[t] = "absent" => status[u] = "absent"

\* UnderWayIsDue, and a failure that may be taken up again.
StartedIsDue ==
  \A t \in Targets :
    status[t] \in {"publishing", "processing", "unknown", "failed"} => window # "early"

\* What the saved phase says of the provider's side, and that of the video.
\* Telegram saves nothing: there the row's status has to tell.
SessionOK(t) ==
  /\ phase[t] \in {"none", "rejected"} => job[t] = "none"
  /\ platform[t] = "telegram" =>
       /\ phase[t] = "none"
       /\ status[t] # "processing"
       /\ posted[t] \in {0, 1}
       /\ posted[t] = 1 => status[t] \in {"publishing", "unknown", "published"}
  /\ platform[t] = "youtube" =>
       /\ job[t] \in {"none", "open", "running", "ready", "broken"}
       /\ posted[t] = IF job[t] \in {"none", "open"} THEN 0 ELSE 1
       /\ phase[t] = "accepted" => job[t] = "open"
       /\ phase[t] = "committing" => job[t] # "none"
       /\ phase[t] = "done" => job[t] \notin {"none", "open"}
  /\ platform[t] = "instagram" =>
       /\ job[t] \in {"none", "running", "ready", "broken", "live"}
       /\ posted[t] = IF job[t] = "live" THEN 1 ELSE 0
       /\ phase[t] = "done" => job[t] = "live"
  /\ platform[t] = "tiktok" =>
       /\ job[t] \in {"none", "running", "ready", "broken"}
       /\ posted[t] = IF job[t] = "ready" THEN 1 ELSE 0

Sessions == \A t \in Targets : SessionOK(t)

\* What the step a worker has come to says of its target's session.
Fits(step, t) ==
  /\ step = "create" => platform[t] # "telegram" /\ phase[t] = "starting" /\ job[t] = "none"
  /\ step = "accepted" =>
       /\ platform[t] # "telegram" /\ phase[t] = "starting" /\ job[t] # "none"
       /\ platform[t] = "youtube" => job[t] = "open"
  /\ step = "refused" =>
       /\ platform[t] # "telegram"
       /\ \/ phase[t] = "starting" /\ job[t] = "none"
          \/ phase[t] = "committing" /\ platform[t] = "instagram" /\ job[t] = "ready"
  /\ step = "upload" => platform[t] = "youtube" /\ phase[t] = "committing" /\ job[t] = "open"
  /\ step = "commit" => platform[t] = "instagram" /\ phase[t] = "committing" /\ job[t] = "ready"
  /\ step = "stored" =>
       /\ phase[t] = "committing"
       /\ \/ platform[t] = "youtube" /\ job[t] \notin {"none", "open"}
          \/ platform[t] = "instagram" /\ job[t] = "live"
  /\ step = "processing" => platform[t] # "telegram"
  /\ step \in {"finish", "publish"} => posted[t] = 1
  /\ step \in {"check", "deliver", "failed"} /\ platform[t] = "telegram" => posted[t] = 0

Steady == \A w \in Workers : wpc[w] \in HoldingSteps => Fits(wpc[w], wtarget[w])

IInv == TypeOK /\ Claims /\ OneApproval /\ StartedIsDue /\ Sessions /\ Steady
-----------------------------------------------------------------------------
(* The kinds of steps *)

\* The person, the beat and time: rows only.
Outside ==
  \/ Person \/ TimePasses \/ ExpireDue
  \/ \E t \in Targets : Recover(t)

\* A worker on its way to a claim.
Approach(w) == Claim(w) \/ ClaimSkipped(w) \/ ClaimMissed(w) \/ \E t \in Targets : Receive(w, t)

\* A worker at the provider's protocol.
Protocol(w) ==
  \/ Check(w) \/ Begin(w) \/ AnswerLost(w) \/ Create(w) \/ SaveAccepted(w) \/ SaveRefused(w)
  \/ SendVideo(w)
  \/ StartUpload(w) \/ Probe(w) \/ Upload(w) \/ SaveStored(w)
  \/ PollFails(w) \/ PollYouTube(w) \/ PollInstagram(w) \/ AlreadyPublished(w)
  \/ MediaPublish(w) \/ PollTikTok(w) \/ ReadOthers(w)

\* A worker that ends, with an outcome or without.
Outcome(w) ==
  WriteProcessing(w) \/ WriteFailed(w) \/ WriteUnknown(w) \/ WritePublished(w) \/ Crash(w)

LEMMA NextCases ==
  ASSUME Next
  PROVE  \/ Outside
         \/ \E t \in Targets : ProviderEnds(t)
         \/ \E w \in Workers : Approach(w) \/ Protocol(w) \/ Outcome(w)
  BY DEF Next, WorkerStep, Outside, Approach, Protocol, Outcome

-----------------------------------------------------------------------------
(* Types *)

LEMMA InitTypeOK == Init => TypeOK
  BY DEF Init, TypeOK, Statuses, Errors, Windows, Phases, Jobs, Steps

LEMMA NextTypeOK == TypeOK /\ [Next]_vars => TypeOK'
<1> SUFFICES ASSUME TypeOK, [Next]_vars PROVE TypeOK'
  OBVIOUS
<1> USE DEF TypeOK, Statuses, Errors, Windows, Phases, Jobs, Steps, HoldingSteps,
            rowVars, providerVars, workerVars
<1>1. CASE Outside
  <2>1. ASSUME NEW when \in {"early", "open"}, Approve(when) PROVE TypeOK'
    BY <2>1 DEF Approve, WriteAll
  <2>2. ASSUME NEW when \in {"early", "open"}, Reschedule(when) PROVE TypeOK'
    BY <2>2 DEF Reschedule, WriteAll, Movable
  <2>3. CASE Cancel
    BY <2>3 DEF Cancel, WriteAll, With
  <2>4. ASSUME NEW t \in Targets, Retry(t) PROVE TypeOK'
    BY <2>4 DEF Retry, Write
  <2>5. ASSUME NEW t \in Targets, Reconcile(t) PROVE TypeOK'
    BY <2>5 DEF Reconcile, Write
  <2>6. CASE TimePasses
    BY <2>6 DEF TimePasses
  <2>7. CASE ExpireDue
    BY <2>7 DEF ExpireDue, WriteAll, With
  <2>8. ASSUME NEW t \in Targets, Recover(t) PROVE TypeOK'
    BY <2>8 DEF Recover, Write
  <2> QED
    BY <1>1, <2>1, <2>2, <2>3, <2>4, <2>5, <2>6, <2>7, <2>8 DEF Outside, Person
<1>2. ASSUME NEW t \in Targets, ProviderEnds(t) PROVE TypeOK'
  BY <1>2 DEF ProviderEnds, Deliver
<1>3. ASSUME NEW w \in Workers, Approach(w) PROVE TypeOK'
  <2>1. CASE Claim(w)
    BY <2>1 DEF Claim, Write, Goto
  <2>2. CASE ClaimSkipped(w)
    BY <2>2 DEF ClaimSkipped, Finish
  <2>3. CASE ClaimMissed(w)
    BY <2>3 DEF ClaimMissed, WriteAll, With, Finish
  <2>4. ASSUME NEW t \in Targets, Receive(w, t) PROVE TypeOK'
    BY <2>4 DEF Receive
  <2> QED
    BY <1>3, <2>1, <2>2, <2>3, <2>4 DEF Approach
<1>4. ASSUME NEW w \in Workers, Protocol(w) PROVE TypeOK'
  <2>1. CASE Check(w)
    BY <2>1 DEF Check, Goto, FailWith
  <2>2. CASE Begin(w)
    BY <2>2 DEF Begin, Save, Goto
  <2>3. CASE AnswerLost(w)
    BY <2>3 DEF AnswerLost, Goto
  <2>4. CASE Create(w)
    BY <2>4 DEF Create, Session, Goto
  <2>5. CASE SaveAccepted(w)
    BY <2>5 DEF SaveAccepted, Save, Goto
  <2>6. CASE SaveRefused(w)
    BY <2>6 DEF SaveRefused, Save, FailWith
  <2>7. CASE SendVideo(w)
    BY <2>7 DEF SendVideo, At, Deliver, Goto, FailWith
  <2>8. CASE StartUpload(w)
    BY <2>8 DEF StartUpload, At, Save, Goto
  <2>9. CASE Probe(w)
    BY <2>9 DEF Probe, At, Goto
  <2>10. CASE Upload(w)
    BY <2>10 DEF Upload, Deliver, Goto
  <2>11. CASE SaveStored(w)
    BY <2>11 DEF SaveStored, Save, Goto
  <2>12. CASE PollFails(w)
    BY <2>12 DEF PollFails, FailWith, Goto
  <2>13. CASE PollYouTube(w)
    BY <2>13 DEF PollYouTube, At, Goto, FailWith
  <2>14. CASE PollInstagram(w)
    BY <2>14 DEF PollInstagram, At, Save, Goto, FailWith
  <2>15. CASE AlreadyPublished(w)
    BY <2>15 DEF AlreadyPublished, At, Goto
  <2>16. CASE MediaPublish(w)
    BY <2>16 DEF MediaPublish, Deliver, Goto
  <2>17. CASE PollTikTok(w)
    BY <2>17 DEF PollTikTok, At, Save, Goto, FailWith
  <2>18. CASE ReadOthers(w)
    BY <2>18 DEF ReadOthers
  <2> QED
    BY <1>4, <2>1, <2>2, <2>3, <2>4, <2>5, <2>6, <2>7, <2>8, <2>9, <2>10, <2>11,
       <2>12, <2>13, <2>14, <2>15, <2>16, <2>17, <2>18 DEF Protocol
<1>5. ASSUME NEW w \in Workers, Outcome(w) PROVE TypeOK'
  <2>1. CASE WriteProcessing(w)
    BY <2>1 DEF WriteProcessing, Write, Finish
  <2>2. CASE WriteFailed(w)
    BY <2>2 DEF WriteFailed, Write, Finish
  <2>3. CASE WriteUnknown(w)
    BY <2>3 DEF WriteUnknown, Write, Finish
  <2>4. CASE WritePublished(w)
    BY <2>4 DEF WritePublished, Write, Finish
  <2>5. CASE Crash(w)
    BY <2>5 DEF Crash, Finish
  <2> QED
    BY <1>5, <2>1, <2>2, <2>3, <2>4, <2>5 DEF Outcome
<1>6. CASE UNCHANGED vars
  BY <1>6 DEF vars
<1> QED
  BY <1>1, <1>2, <1>3, <1>4, <1>5, <1>6, NextCases

\* Every reachable state has well-typed rows, sessions and workers.
THEOREM TypeCorrect == Spec => []TypeOK
  BY InitTypeOK, NextTypeOK, PTL DEF Spec

-----------------------------------------------------------------------------
(* What a step leaves alone *)

\* The provider's protocol concerns the worker's own target; rows are not written.
LEMMA ProtocolShape ==
  ASSUME TypeOK, NEW w \in Workers, Protocol(w)
  PROVE  /\ wpc[w] \in HoldingSteps /\ wtarget[w] \in Targets
         /\ \E step \in HoldingSteps : wpc' = [wpc EXCEPT ![w] = step]
         /\ wtarget' = wtarget
         /\ UNCHANGED <<platform, rowVars>>
         /\ \A u \in Targets : u # wtarget[w] =>
              phase'[u] = phase[u] /\ job'[u] = job[u] /\ posted'[u] = posted[u]
<1> USE DEF TypeOK, HoldingSteps, rowVars, providerVars, Goto, FailWith, Save, Deliver, At
<1>1. CASE Check(w)
  BY <1>1 DEF Check
<1>2. CASE Begin(w)
  BY <1>2 DEF Begin
<1>3. CASE AnswerLost(w)
  BY <1>3 DEF AnswerLost
<1>4. CASE Create(w)
  BY <1>4 DEF Create, Session
<1>5. CASE SaveAccepted(w)
  BY <1>5 DEF SaveAccepted
<1>6. CASE SaveRefused(w)
  BY <1>6 DEF SaveRefused
<1>7. CASE SendVideo(w)
  BY <1>7 DEF SendVideo
<1>8. CASE StartUpload(w)
  BY <1>8 DEF StartUpload
<1>9. CASE Probe(w)
  BY <1>9 DEF Probe
<1>10. CASE Upload(w)
  BY <1>10 DEF Upload
<1>11. CASE SaveStored(w)
  BY <1>11 DEF SaveStored
<1>12. CASE PollFails(w)
  BY <1>12 DEF PollFails
<1>13. CASE PollYouTube(w)
  BY <1>13 DEF PollYouTube
<1>14. CASE PollInstagram(w)
  BY <1>14 DEF PollInstagram
<1>15. CASE AlreadyPublished(w)
  BY <1>15 DEF AlreadyPublished
<1>16. CASE MediaPublish(w)
  BY <1>16 DEF MediaPublish
<1>17. CASE PollTikTok(w)
  BY <1>17 DEF PollTikTok
<1>18. CASE ReadOthers(w)
  BY <1>18 DEF ReadOthers
<1> QED
  BY <1>1, <1>2, <1>3, <1>4, <1>5, <1>6, <1>7, <1>8, <1>9, <1>10, <1>11, <1>12,
     <1>13, <1>14, <1>15, <1>16, <1>17, <1>18 DEF Protocol
\* An outcome is written to the worker's own target, and the worker is done.
LEMMA OutcomeShape ==
  ASSUME TypeOK, NEW w \in Workers, Outcome(w)
  PROVE  /\ wpc' = [wpc EXCEPT ![w] = "idle"]
         /\ \A v \in Workers : v # w => wtarget'[v] = wtarget[v]
         /\ UNCHANGED <<platform, window, providerVars>>
         /\ \/ UNCHANGED status
            \/ /\ wpc[w] \in HoldingSteps /\ wtarget[w] \in Targets
               /\ \E s \in {"processing", "failed", "unknown", "published"} :
                    /\ status' = [status EXCEPT ![wtarget[w]] = s]
                    /\ s \in {"processing", "failed"} => wpc[w] = s
                    /\ s = "published" => wpc[w] = "publish"
<1> USE DEF TypeOK, HoldingSteps, rowVars, Write, Finish
<1>1. CASE WriteProcessing(w)
  BY <1>1 DEF WriteProcessing
<1>2. CASE WriteFailed(w)
  BY <1>2 DEF WriteFailed
<1>3. CASE WriteUnknown(w)
  BY <1>3 DEF WriteUnknown
<1>4. CASE WritePublished(w)
  BY <1>4 DEF WritePublished
<1>5. CASE Crash(w)
  BY <1>5 DEF Crash, providerVars
<1> QED
  BY <1>1, <1>2, <1>3, <1>4, <1>5 DEF Outcome

-----------------------------------------------------------------------------
(* One worker at a time *)

\* Nobody but its worker ends a claim.
LEMMA OutsideKeepsClaims ==
  ASSUME TypeOK, Claims, OneApproval, Outside
  PROVE  /\ UNCHANGED <<platform, providerVars, workerVars>>
         /\ \A w \in Workers : wpc[w] \in HoldingSteps => status'[wtarget[w]] = "publishing"
<1> USE DEF TypeOK, Claims, HoldingSteps
<1>1. ASSUME NEW when \in {"early", "open"}, Approve(when) PROVE UNCHANGED <<platform, providerVars, workerVars>>
        /\ \A w \in Workers : wpc[w] \in HoldingSteps => status'[wtarget[w]] = "publishing"
  BY <1>1 DEF Approve, WriteAll
<1>2. ASSUME NEW when \in {"early", "open"}, Reschedule(when) PROVE UNCHANGED <<platform, providerVars, workerVars>>
        /\ \A w \in Workers : wpc[w] \in HoldingSteps => status'[wtarget[w]] = "publishing"
  BY <1>2 DEF Reschedule, WriteAll, Movable
<1>3. CASE Cancel
  BY <1>3 DEF Cancel, WriteAll, With
<1>4. ASSUME NEW t \in Targets, Retry(t) \/ Reconcile(t) PROVE UNCHANGED <<platform, providerVars, workerVars>>
        /\ \A w \in Workers : wpc[w] \in HoldingSteps => status'[wtarget[w]] = "publishing"
  BY <1>4 DEF Retry, Reconcile, Write
<1>5. CASE TimePasses
  BY <1>5 DEF TimePasses
<1>6. CASE ExpireDue
  BY <1>6 DEF ExpireDue, WriteAll, With
<1>7. ASSUME NEW t \in Targets, Recover(t) PROVE UNCHANGED <<platform, providerVars, workerVars>>
        /\ \A w \in Workers : wpc[w] \in HoldingSteps => status'[wtarget[w]] = "publishing"
  BY <1>7 DEF Recover, Write, Holds
<1> QED
  BY <1>1, <1>2, <1>3, <1>4, <1>5, <1>6, <1>7 DEF Outside, Person

LEMMA NextClaims == TypeOK /\ Claims /\ OneApproval /\ [Next]_vars => Claims'
<1> SUFFICES ASSUME TypeOK, Claims, OneApproval, [Next]_vars PROVE Claims'
  OBVIOUS
<1>1. CASE Outside
  BY <1>1, OutsideKeepsClaims DEF Claims, workerVars
<1>2. ASSUME NEW t \in Targets, ProviderEnds(t) PROVE Claims'
  BY <1>2 DEF ProviderEnds, Claims, rowVars, workerVars
<1>3. ASSUME NEW w \in Workers, Approach(w) PROVE Claims'
  <2> USE DEF TypeOK, Claims, HoldingSteps
  <2>1. CASE Claim(w)
    BY <2>1 DEF Claim, Write, Goto
  <2>2. CASE ClaimSkipped(w)
    BY <2>2 DEF ClaimSkipped, Finish, rowVars
  <2>3. CASE ClaimMissed(w)
    BY <2>3 DEF ClaimMissed, WriteAll, With, Finish
  <2>4. ASSUME NEW t \in Targets, Receive(w, t) PROVE Claims'
    BY <2>4 DEF Receive, rowVars
  <2> QED
    BY <1>3, <2>1, <2>2, <2>3, <2>4 DEF Approach
<1>4. ASSUME NEW w \in Workers, Protocol(w) PROVE Claims'
  BY <1>4, ProtocolShape DEF TypeOK, Claims, rowVars
<1>5. ASSUME NEW w \in Workers, Outcome(w) PROVE Claims'
  BY <1>5, OutcomeShape DEF TypeOK, Claims, HoldingSteps
<1>6. CASE UNCHANGED vars
  BY <1>6 DEF vars, Claims
<1> QED
  BY <1>1, <1>2, <1>3, <1>4, <1>5, <1>6, NextCases

-----------------------------------------------------------------------------
(* The approval and its window *)

LEMMA NextOneApproval == TypeOK /\ Claims /\ OneApproval /\ [Next]_vars => OneApproval'
<1> SUFFICES ASSUME TypeOK, Claims, OneApproval, [Next]_vars PROVE OneApproval'
  OBVIOUS
<1> USE DEF TypeOK, OneApproval
<1>1. CASE Outside
  <2>1. ASSUME NEW when \in {"early", "open"}, Approve(when) \/ Reschedule(when) PROVE OneApproval'
    BY <2>1 DEF Approve, Reschedule, WriteAll, Movable
  <2>2. CASE Cancel \/ ExpireDue
    BY <2>2 DEF Cancel, ExpireDue, WriteAll, With
  <2>3. ASSUME NEW t \in Targets, Retry(t) \/ Reconcile(t) \/ Recover(t) PROVE OneApproval'
    BY <2>3 DEF Retry, Reconcile, Recover, Write
  <2>4. CASE TimePasses
    BY <2>4 DEF TimePasses
  <2> QED
    BY <1>1, <2>1, <2>2, <2>3, <2>4 DEF Outside, Person
<1>2. ASSUME NEW t \in Targets, ProviderEnds(t) PROVE OneApproval'
  BY <1>2 DEF ProviderEnds, rowVars
<1>3. ASSUME NEW w \in Workers, Approach(w) PROVE OneApproval'
  <2>1. CASE Claim(w)
    BY <2>1 DEF Claim, Write, Steps
  <2>2. CASE ClaimSkipped(w)
    BY <2>2 DEF ClaimSkipped, rowVars
  <2>3. CASE ClaimMissed(w)
    BY <2>3 DEF ClaimMissed, WriteAll, With
  <2>4. ASSUME NEW t \in Targets, Receive(w, t) PROVE OneApproval'
    BY <2>4 DEF Receive, rowVars
  <2> QED
    BY <1>3, <2>1, <2>2, <2>3, <2>4 DEF Approach
<1>4. ASSUME NEW w \in Workers, Protocol(w) PROVE OneApproval'
  BY <1>4, ProtocolShape DEF rowVars
<1>5. ASSUME NEW w \in Workers, Outcome(w) PROVE OneApproval'
  BY <1>5, OutcomeShape DEF Claims
<1>6. CASE UNCHANGED vars
  BY <1>6 DEF vars
<1> QED
  BY <1>1, <1>2, <1>3, <1>4, <1>5, <1>6, NextCases

LEMMA NextStartedIsDue == TypeOK /\ Claims /\ OneApproval /\ StartedIsDue /\ [Next]_vars => StartedIsDue'
<1> SUFFICES ASSUME TypeOK, Claims, OneApproval, StartedIsDue, [Next]_vars PROVE StartedIsDue'
  OBVIOUS
<1> USE DEF TypeOK, StartedIsDue
<1>1. CASE Outside
  <2>1. ASSUME NEW when \in {"early", "open"}, Approve(when) PROVE StartedIsDue'
    BY <2>1 DEF Approve, WriteAll
  <2>2. ASSUME NEW when \in {"early", "open"}, Reschedule(when) PROVE StartedIsDue'
    BY <2>2 DEF Reschedule, WriteAll, Movable, Statuses
  <2>3. CASE Cancel \/ ExpireDue
    BY <2>3 DEF Cancel, ExpireDue, WriteAll, With
  <2>4. ASSUME NEW t \in Targets, Retry(t) \/ Reconcile(t) \/ Recover(t) PROVE StartedIsDue'
    BY <2>4 DEF Retry, Reconcile, Recover, Write
  <2>5. CASE TimePasses
    BY <2>5 DEF TimePasses
  <2> QED
    BY <1>1, <2>1, <2>2, <2>3, <2>4, <2>5 DEF Outside, Person
<1>2. ASSUME NEW t \in Targets, ProviderEnds(t) PROVE StartedIsDue'
  BY <1>2 DEF ProviderEnds, rowVars
<1>3. ASSUME NEW w \in Workers, Approach(w) PROVE StartedIsDue'
  <2>1. CASE Claim(w)
    BY <2>1 DEF Claim, Write, Steps
  <2>2. CASE ClaimSkipped(w)
    BY <2>2 DEF ClaimSkipped, rowVars
  <2>3. CASE ClaimMissed(w)
    BY <2>3 DEF ClaimMissed, WriteAll, With
  <2>4. ASSUME NEW t \in Targets, Receive(w, t) PROVE StartedIsDue'
    BY <2>4 DEF Receive, rowVars
  <2> QED
    BY <1>3, <2>1, <2>2, <2>3, <2>4 DEF Approach
<1>4. ASSUME NEW w \in Workers, Protocol(w) PROVE StartedIsDue'
  BY <1>4, ProtocolShape DEF rowVars
<1>5. ASSUME NEW w \in Workers, Outcome(w) PROVE StartedIsDue'
  BY <1>5, OutcomeShape DEF Claims
<1>6. CASE UNCHANGED vars
  BY <1>6 DEF vars
<1> QED
  BY <1>1, <1>2, <1>3, <1>4, <1>5, <1>6, NextCases

-----------------------------------------------------------------------------
(* Sessions *)

\* Where the protocol leads from a step that fits: it fits again, and the saved
\* phase still tells the truth.
LEMMA ProtocolSession ==
  ASSUME TypeOK, Claims, Sessions, Steady, NEW w \in Workers, Protocol(w),
         NEW t \in Targets, t = wtarget[w]
  PROVE  SessionOK(t)' /\ (wpc[w] \in HoldingSteps => Fits(wpc[w], t))'
<1>0. /\ SessionOK(t) /\ Fits(wpc[w], t) /\ status[t] = "publishing"
  BY ProtocolShape DEF Sessions, Steady, Claims
<1> USE <1>0 DEF TypeOK, SessionOK, Fits, rowVars, providerVars, Goto, FailWith, Save, Deliver, At,
                 Phases, Jobs
<1>1. CASE Check(w)
  BY <1>1 DEF Check
<1>2. CASE Begin(w)
  BY <1>2 DEF Begin
<1>3. CASE AnswerLost(w)
  BY <1>3 DEF AnswerLost
<1>4. CASE Create(w)
  BY <1>4 DEF Create, Session
<1>5. CASE SaveAccepted(w)
  BY <1>5 DEF SaveAccepted
<1>6. CASE SaveRefused(w)
  BY <1>6 DEF SaveRefused
<1>7. CASE SendVideo(w)
  BY <1>7 DEF SendVideo
<1>8. CASE StartUpload(w)
  BY <1>8 DEF StartUpload
<1>9. CASE Probe(w)
  BY <1>9 DEF Probe
<1>10. CASE Upload(w)
  BY <1>10 DEF Upload
<1>11. CASE SaveStored(w)
  BY <1>11 DEF SaveStored
<1>12. CASE PollFails(w)
  BY <1>12 DEF PollFails
<1>13. CASE PollYouTube(w)
  BY <1>13 DEF PollYouTube
<1>14. CASE PollInstagram(w)
  BY <1>14 DEF PollInstagram
<1>15. CASE AlreadyPublished(w)
  BY <1>15 DEF AlreadyPublished
<1>16. CASE MediaPublish(w)
  BY <1>16 DEF MediaPublish
<1>17. CASE PollTikTok(w)
  BY <1>17 DEF PollTikTok
<1>18. CASE ReadOthers(w)
  BY <1>18 DEF ReadOthers
<1> QED
  BY <1>1, <1>2, <1>3, <1>4, <1>5, <1>6, <1>7, <1>8, <1>9, <1>10, <1>11, <1>12,
     <1>13, <1>14, <1>15, <1>16, <1>17, <1>18 DEF Protocol

LEMMA NextSessions ==
  TypeOK /\ Claims /\ OneApproval /\ Sessions /\ Steady /\ [Next]_vars => Sessions'
<1> SUFFICES ASSUME TypeOK, Claims, OneApproval, Sessions, Steady, [Next]_vars, NEW t \in Targets
             PROVE  SessionOK(t)'
  BY DEF Sessions
<1>0. SessionOK(t)
  BY DEF Sessions
<1>1. CASE Outside
  <2>0. UNCHANGED <<platform, phase, job, posted>>
    BY <1>1, OutsideKeepsClaims DEF providerVars
  <2> USE <1>0, <2>0 DEF TypeOK, SessionOK
  <2>1. ASSUME NEW when \in {"early", "open"}, Approve(when) \/ Reschedule(when) PROVE SessionOK(t)'
    BY <2>1 DEF Approve, Reschedule, WriteAll, Movable
  <2>2. CASE Cancel \/ ExpireDue
    BY <2>2 DEF Cancel, ExpireDue, WriteAll, With
  <2>3. ASSUME NEW u \in Targets, Retry(u) \/ Reconcile(u) \/ Recover(u) PROVE SessionOK(t)'
    BY <2>3 DEF Retry, Reconcile, Recover, Write
  <2>4. CASE TimePasses
    BY <2>4 DEF TimePasses
  <2> QED
    BY <1>1, <2>1, <2>2, <2>3, <2>4 DEF Outside, Person
<1>2. ASSUME NEW u \in Targets, ProviderEnds(u) PROVE SessionOK(t)'
  BY <1>0, <1>2 DEF ProviderEnds, Deliver, rowVars, TypeOK, SessionOK, VideoFormats
<1>3. ASSUME NEW w \in Workers, Approach(w) PROVE SessionOK(t)'
  <2> USE <1>0 DEF TypeOK, SessionOK, providerVars
  <2>1. CASE Claim(w)
    BY <2>1 DEF Claim, Write, Steps
  <2>2. CASE ClaimSkipped(w)
    BY <2>2 DEF ClaimSkipped, rowVars
  <2>3. CASE ClaimMissed(w)
    BY <2>3 DEF ClaimMissed, WriteAll, With
  <2>4. ASSUME NEW u \in Targets, Receive(w, u) PROVE SessionOK(t)'
    BY <2>4 DEF Receive, rowVars
  <2> QED
    BY <1>3, <2>1, <2>2, <2>3, <2>4 DEF Approach
<1>4. ASSUME NEW w \in Workers, Protocol(w) PROVE SessionOK(t)'
  <2>1. CASE t = wtarget[w]
    BY <1>4, <2>1, ProtocolSession
  <2>2. CASE t # wtarget[w]
    BY <1>0, <1>4, <2>2, ProtocolShape DEF SessionOK, rowVars
  <2> QED
    BY <2>1, <2>2
<1>5. ASSUME NEW w \in Workers, Outcome(w) PROVE SessionOK(t)'
  <2>1. CASE UNCHANGED status
    BY <1>0, <1>5, <2>1, OutcomeShape DEF SessionOK, providerVars
  <2>2. CASE ~UNCHANGED status
    <3>1. Fits(wpc[w], wtarget[w])
      BY <1>5, <2>2, OutcomeShape DEF Steady
    <3> QED
      BY <1>0, <1>5, <2>2, <3>1, OutcomeShape DEF TypeOK, SessionOK, Fits, providerVars
  <2> QED
    BY <2>1, <2>2
<1>6. CASE UNCHANGED vars
  BY <1>0, <1>6 DEF vars, SessionOK
<1> QED
  BY <1>1, <1>2, <1>3, <1>4, <1>5, <1>6, NextCases

LEMMA NextSteady ==
  TypeOK /\ Claims /\ OneApproval /\ Sessions /\ Steady /\ [Next]_vars => Steady'
<1> SUFFICES ASSUME TypeOK, Claims, OneApproval, Sessions, Steady, [Next]_vars,
                    NEW v \in Workers, wpc'[v] \in HoldingSteps
             PROVE  Fits(wpc[v], wtarget[v])'
  BY DEF Steady, HoldingSteps
<1>1. CASE Outside
  BY <1>1, OutsideKeepsClaims DEF Steady, Fits, providerVars, workerVars
<1>2. ASSUME NEW u \in Targets, ProviderEnds(u) PROVE Fits(wpc[v], wtarget[v])'
  <2>1. Fits(wpc[v], wtarget[v]) /\ wtarget[v] \in Targets /\ UNCHANGED workerVars
    BY <1>2 DEF Steady, ProviderEnds, workerVars, TypeOK, HoldingSteps
  <2>2. SessionOK(wtarget[v])
    BY <2>1 DEF Sessions
  <2> QED
    BY <1>2, <2>1, <2>2 DEF ProviderEnds, Deliver, workerVars, TypeOK, Fits, SessionOK
<1>3. ASSUME NEW w \in Workers, Approach(w) PROVE Fits(wpc[v], wtarget[v])'
  <2> USE DEF TypeOK, HoldingSteps, Steady, Fits, providerVars
  <2>1. CASE Claim(w)
    <3>1. SessionOK(wtarget[w])
      BY <2>1 DEF Claim, Sessions
    <3> QED
      BY <2>1, <3>1 DEF Claim, Goto, SessionOK
  <2>2. CASE ClaimSkipped(w)
    BY <2>2 DEF ClaimSkipped, Finish
  <2>3. CASE ClaimMissed(w)
    BY <2>3 DEF ClaimMissed, Finish
  <2>4. ASSUME NEW u \in Targets, Receive(w, u) PROVE Fits(wpc[v], wtarget[v])'
    BY <2>4 DEF Receive
  <2> QED
    BY <1>3, <2>1, <2>2, <2>3, <2>4 DEF Approach
<1>4. ASSUME NEW w \in Workers, Protocol(w) PROVE Fits(wpc[v], wtarget[v])'
  <2>1. CASE v = w
    BY <1>4, <2>1, ProtocolShape, ProtocolSession
  <2>2. CASE v # w
    <3>1. wpc'[v] = wpc[v] /\ wtarget[v] # wtarget[w] /\ wtarget[v] \in Targets
      BY <1>4, <2>2, ProtocolShape DEF TypeOK, Claims, HoldingSteps
    <3> QED
      BY <1>4, <3>1, ProtocolShape DEF Steady, Fits
  <2> QED
    BY <2>1, <2>2
<1>5. ASSUME NEW w \in Workers, Outcome(w) PROVE Fits(wpc[v], wtarget[v])'
  BY <1>5, OutcomeShape DEF TypeOK, HoldingSteps, Steady, Fits, providerVars
<1>6. CASE UNCHANGED vars
  BY <1>6 DEF vars, Steady, Fits
<1> QED
  BY <1>1, <1>2, <1>3, <1>4, <1>5, <1>6, NextCases

-----------------------------------------------------------------------------
(* The invariant *)

LEMMA InitIInv == Init => IInv
<1> SUFFICES ASSUME Init PROVE IInv
  OBVIOUS
<1>1. TypeOK
  BY InitTypeOK
<1>2. Claims /\ Steady
  BY DEF Init, Claims, Steady, HoldingSteps
<1>3. OneApproval /\ StartedIsDue /\ Sessions
  BY DEF Init, OneApproval, StartedIsDue, Sessions, SessionOK
<1> QED
  BY <1>1, <1>2, <1>3 DEF IInv

LEMMA NextIInv == IInv /\ [Next]_vars => IInv'
  BY NextTypeOK, NextClaims, NextOneApproval, NextStartedIsDue, NextSessions, NextSteady DEF IInv

LEMMA Invariance == Spec => []IInv
  BY InitIInv, NextIInv, PTL DEF Spec

-----------------------------------------------------------------------------
(* The safety properties *)

\* At most one worker works on a target at a time, and its row says so: the
\* outcome that it writes without comparing the status overwrites nobody.
THEOREM OneWorkerPerTarget == Spec => []ExclusiveClaim
<1>1. IInv => ExclusiveClaim
  <2> SUFFICES ASSUME IInv, NEW t \in Targets
               PROVE  /\ Cardinality({w \in Workers : Holds(w, t)}) <= 1
                      /\ \A w \in Workers : Holds(w, t) => status[t] = "publishing"
    BY DEF ExclusiveClaim
  <2>1. \A w \in Workers : Holds(w, t) => status[t] = "publishing"
    BY DEF IInv, Claims, Holds
  <2>2. Cardinality({w \in Workers : Holds(w, t)}) <= 1
    <3>1. CASE \A w \in Workers : ~Holds(w, t)
      <4>1. {w \in Workers : Holds(w, t)} = {}
        BY <3>1
      <4> QED
        BY <4>1, FS_EmptySet
    <3>2. ASSUME NEW w \in Workers, Holds(w, t)
          PROVE  Cardinality({v \in Workers : Holds(v, t)}) <= 1
      <4>1. {v \in Workers : Holds(v, t)} = {w}
        BY <3>2 DEF IInv, Claims, Holds
      <4> QED
        BY <4>1, FS_Singleton
    <3> QED
      BY <3>1, <3>2
  <2> QED
    BY <2>1, <2>2
<1> QED
  BY <1>1, Invariance, PTL

\* Wherever the destination may have the video the session is saved: neither a
\* worker's death nor a lost answer leads to a second attempt.
THEOREM PostedSessionIsSaved == Spec => []PostedIsSaved
<1>1. IInv => PostedIsSaved
  <2> SUFFICES ASSUME IInv, NEW t \in Targets, posted[t] > 0, platform[t] # "telegram"
               PROVE  phase[t] \notin {"none", "rejected"}
    BY DEF PostedIsSaved
  <2>1. SessionOK(t) /\ platform[t] \in VideoFormats
    BY PlatformsAssumption DEF IInv, Sessions, TypeOK
  <2> QED
    BY <2>1 DEF SessionOK, VideoFormats
<1> QED
  BY <1>1, Invariance, PTL

\* Nothing is on its way before its time, whatever times the person sets and
\* however stale the messages are.
THEOREM StartsInTime == Spec => []UnderWayIsDue
<1>1. IInv => UnderWayIsDue
  BY DEF IInv, StartedIsDue, UnderWayIsDue
<1> QED
  BY <1>1, Invariance, PTL

-----------------------------------------------------------------------------
(* The refinement *)

Shown == [t \in Targets |-> Stage(status[t])]
Opened == {t \in Targets : phase[t] \notin {"none", "rejected"}}
IsDue == window # "early"

\* A step of the promise, written with what the rows say.
Step ==
  \/ Promise!Next
  \/ UNCHANGED <<Shown, posted, Opened, IsDue>>

LEMMA StepIsPromised == Step => [Promise!Next]_(Promise!promiseVars)
  BY DEF Step, Promise!promiseVars, Shown, Opened, IsDue

LEMMA InitPromise == Init => Promise!Init
  BY DEF Init, Promise!Init, Stage

\* What is under way is under way at a time that has come, with a known session.
LEMMA UnderWay ==
  ASSUME IInv, NEW w \in Workers, wpc[w] \in HoldingSteps
  PROVE  /\ wtarget[w] \in Targets
         /\ status[wtarget[w]] = "publishing"
         /\ Shown[wtarget[w]] = "sending"
         /\ IsDue
         /\ SessionOK(wtarget[w])
         /\ Fits(wpc[w], wtarget[w])
         /\ platform[wtarget[w]] \in VideoFormats
<1>1. wtarget[w] \in Targets /\ status[wtarget[w]] = "publishing"
  BY DEF IInv, TypeOK, Claims, HoldingSteps
<1>2. IsDue
  BY <1>1 DEF IInv, StartedIsDue, IsDue
<1>3. SessionOK(wtarget[w]) /\ Fits(wpc[w], wtarget[w]) /\ platform[wtarget[w]] \in VideoFormats
  BY <1>1, PlatformsAssumption DEF IInv, TypeOK, Sessions, Steady
<1> QED
  BY <1>1, <1>2, <1>3 DEF Shown, Stage

LEMMA OutsidePromised == IInv /\ Outside => Step
<1> SUFFICES ASSUME IInv, Outside PROVE Step
  OBVIOUS
<1> USE DEF IInv, TypeOK, Stage, providerVars
<1>1. ASSUME NEW when \in {"early", "open"}, Approve(when) PROVE Step
  <2>1. Promise!Approve
    BY <1>1 DEF Approve, WriteAll, Promise!Approve
  <2> QED
    BY <2>1 DEF Step, Promise!Next
<1>2. ASSUME NEW when \in {"early", "open"}, Reschedule(when) PROVE Step
  <2>1. \A t \in Targets : status[t] # "absent"
    BY <1>2 DEF Reschedule, Movable, OneApproval
  <2>2. Promise!Reschedule
    BY <1>2, <2>1 DEF Reschedule, Movable, WriteAll, Promise!Reschedule, Promise!Unsent, Statuses
  <2> QED
    BY <2>2 DEF Step, Promise!Next
<1>3. CASE Cancel \/ ExpireDue
  <2>1. PICK S \in SUBSET Targets : S = With("pending")
    BY DEF With
  <2>2. Promise!Withdraw(S)
    BY <1>3, <2>1 DEF Cancel, ExpireDue, With, WriteAll, Promise!Withdraw
  <2> QED
    BY <2>2 DEF Step, Promise!Next
<1>4. ASSUME NEW t \in Targets, Retry(t) PROVE Step
  <2>1. Promise!Retry(t)
    BY <1>4 DEF Retry, Write, Promise!Retry, Promise!Move
  <2> QED
    BY <2>1 DEF Step, Promise!Next
<1>5. ASSUME NEW t \in Targets, Reconcile(t) PROVE Step
  <2>1. Promise!Resume(t)
    BY <1>5 DEF Reconcile, Write, StartedIsDue, Promise!Resume, Promise!Move
  <2> QED
    BY <2>1 DEF Step, Promise!Next
<1>6. ASSUME NEW t \in Targets, Recover(t) PROVE Step
  <2>1. Promise!GiveUp(t)
    BY <1>6 DEF Recover, Write, Promise!GiveUp, Promise!Move
  <2> QED
    BY <2>1 DEF Step, Promise!Next
<1>7. CASE TimePasses
  <2>1. CASE window = "early"
    <3>1. Promise!TimeComes
      BY <1>7, <2>1 DEF TimePasses, Promise!TimeComes
    <3> QED
      BY <3>1 DEF Step, Promise!Next
  <2>2. CASE window # "early"
    BY <1>7, <2>2 DEF TimePasses, Step, Shown, Opened, IsDue
  <2> QED
    BY <2>1, <2>2
<1> QED
  BY <1>1, <1>2, <1>3, <1>4, <1>5, <1>6, <1>7 DEF Outside, Person

LEMMA ProviderPromised == ASSUME IInv, NEW t \in Targets, ProviderEnds(t) PROVE Step
<1> USE DEF IInv, TypeOK, rowVars
<1>1. CASE UNCHANGED posted
  BY <1>1 DEF ProviderEnds, Step, Shown, Opened, IsDue
<1>2. CASE platform[t] = "tiktok" /\ Deliver(t)
  <2>1. SessionOK(t) /\ job[t] = "running"
    BY DEF ProviderEnds, Sessions
  <2>2. posted[t] = 0 /\ t \in Opened
    BY <1>2, <2>1 DEF SessionOK, Opened
  <2>3. Promise!Receive(t)
    BY <1>2, <2>2 DEF ProviderEnds, Deliver, Opened, Promise!Receive
  <2> QED
    BY <2>3 DEF Step, Promise!Next
<1> QED
  BY <1>1, <1>2 DEF ProviderEnds

LEMMA ApproachPromised == ASSUME IInv, NEW w \in Workers, Approach(w) PROVE Step
<1> USE DEF IInv, TypeOK, rowVars, providerVars, Stage
<1>1. CASE Claim(w) /\ wresume[w]
  BY <1>1 DEF Claim, Write, Step, Shown, Opened, IsDue
<1>2. CASE Claim(w) /\ ~wresume[w]
  <2>1. PICK t \in Targets : t = wtarget[w]
    BY <1>2 DEF Claim
  <2>2. Promise!Start(t)
    BY <1>2, <2>1 DEF Claim, Write, Promise!Start, Promise!Move
  <2> QED
    BY <2>2 DEF Step, Promise!Next
<1>3. CASE ClaimSkipped(w)
  BY <1>3 DEF ClaimSkipped, Step, Shown, Opened, IsDue
<1>4. CASE ClaimMissed(w) /\ With("pending") = {}
  BY <1>4 DEF ClaimMissed, WriteAll, Step, Shown, Opened, IsDue
<1>5. CASE ClaimMissed(w) /\ With("pending") # {}
  <2>1. PICK S \in SUBSET Targets : S = With("pending")
    BY DEF With
  <2>2. Promise!Withdraw(S)
    BY <1>5, <2>1 DEF ClaimMissed, With, WriteAll, Promise!Withdraw
  <2> QED
    BY <2>2 DEF Step, Promise!Next
<1>6. ASSUME NEW t \in Targets, Receive(w, t) PROVE Step
  BY <1>6 DEF Receive, Step, Shown, Opened, IsDue
<1> QED
  BY <1>1, <1>2, <1>3, <1>4, <1>5, <1>6 DEF Approach

LEMMA ProtocolPromised == ASSUME IInv, NEW w \in Workers, Protocol(w) PROVE Step
<1>1. wpc[w] \in HoldingSteps
  BY ProtocolShape DEF IInv
<1>0. PICK t \in Targets : t = wtarget[w]
  BY <1>1, UnderWay
<1>2. /\ status[t] = "publishing" /\ Shown[t] = "sending" /\ IsDue
      /\ SessionOK(t) /\ Fits(wpc[w], t) /\ platform[t] \in VideoFormats
  BY <1>0, <1>1, UnderWay
<1>3. UNCHANGED <<platform, status, window>>
  BY ProtocolShape DEF IInv, rowVars
<1> USE <1>0, <1>2, <1>3 DEF IInv, TypeOK
<1>4. CASE UNCHANGED <<posted, Opened>>
  BY <1>4 DEF Step, Shown, IsDue
<1>5. CASE Begin(w)
  <2>1. posted[t] = 0
    BY <1>5 DEF Begin, SessionOK, VideoFormats
  <2>2. Promise!Open(t)
    BY <1>5, <2>1 DEF Begin, Save, Shown, IsDue, Promise!Open
  <2> QED
    BY <2>2 DEF Step, Promise!Next
<1>6. CASE SaveRefused(w) /\ phase[t] # "committing"
  <2>1. posted[t] = 0 /\ phase[t] = "starting"
    BY <1>6 DEF SaveRefused, SessionOK, Fits, VideoFormats
  <2>2. Promise!Refuse(t)
    BY <1>6, <2>1 DEF SaveRefused, Save, Promise!Refuse
  <2> QED
    BY <2>2 DEF Step, Promise!Next
<1>7. CASE (SendVideo(w) \/ Upload(w) \/ MediaPublish(w)) /\ Deliver(t)
  <2>1. posted[t] = 0 /\ UNCHANGED phase
    BY <1>7 DEF SendVideo, Upload, MediaPublish, At, SessionOK, Fits, VideoFormats
  <2>2. Promise!Receive(t)
    BY <1>7, <2>1 DEF Deliver, Shown, Promise!Receive
  <2> QED
    BY <2>2 DEF Step, Promise!Next
<1>8. CASE SendVideo(w) \/ Upload(w) \/ MediaPublish(w)
  <2>1. UNCHANGED phase /\ (Deliver(t) \/ UNCHANGED posted)
    BY <1>8 DEF SendVideo, Upload, MediaPublish
  <2> QED
    BY <1>4, <1>7, <1>8, <2>1 DEF Opened
<1>9. CASE Check(w) \/ AnswerLost(w) \/ Create(w) \/ Probe(w) \/ PollFails(w)
           \/ PollYouTube(w) \/ AlreadyPublished(w) \/ ReadOthers(w)
  <2>1. UNCHANGED <<phase, posted>>
    BY <1>9 DEF Check, AnswerLost, Create, Probe, PollFails, PollYouTube, AlreadyPublished,
                ReadOthers, providerVars
  <2> QED
    BY <1>4, <2>1 DEF Opened
<1>10. CASE \/ SaveAccepted(w) \/ StartUpload(w) \/ SaveStored(w)
            \/ PollInstagram(w) \/ PollTikTok(w)
            \/ SaveRefused(w) /\ phase[t] = "committing"
  <2>1. /\ UNCHANGED posted
        /\ UNCHANGED phase \/ \E p \in {"accepted", "committing", "done", "failed"} :
                                phase' = [phase EXCEPT ![t] = p]
    BY <1>10 DEF SaveAccepted, StartUpload, SaveStored, PollInstagram, PollTikTok, SaveRefused,
                 Save, At
  <2>2. phase[t] \notin {"none", "rejected"}
    BY <1>10 DEF SaveAccepted, StartUpload, SaveStored, PollInstagram, PollTikTok, SaveRefused,
                 At, Fits
  <2> QED
    BY <1>4, <2>1, <2>2 DEF Opened
<1> QED
  BY <1>5, <1>6, <1>8, <1>9, <1>10 DEF Protocol

LEMMA OutcomePromised == ASSUME IInv, NEW w \in Workers, Outcome(w) PROVE Step
<1> USE DEF IInv, TypeOK, rowVars, providerVars
<1>1. CASE Crash(w)
  BY <1>1 DEF Crash, Step, Shown, Opened, IsDue
<1>2. CASE wpc[w] \in HoldingSteps
  <2>0. PICK t \in Targets : t = wtarget[w]
    BY <1>2, UnderWay
  <2>1. t = wtarget[w] /\ status[t] = "publishing" /\ Fits(wpc[w], t)
    BY <1>2, <2>0, UnderWay
  <2>2. CASE WriteProcessing(w)
    BY <2>1, <2>2 DEF WriteProcessing, Write, Step, Shown, Stage, Opened, IsDue
  <2>3. CASE WriteFailed(w)
    <3>1. Promise!Fail(t)
      BY <2>1, <2>3 DEF WriteFailed, Write, Stage, Promise!Fail, Promise!Move
    <3> QED
      BY <2>1, <3>1 DEF Step, Promise!Next
  <2>4. CASE WriteUnknown(w)
    <3>1. Promise!GiveUp(t)
      BY <2>1, <2>4 DEF WriteUnknown, Write, Stage, Promise!GiveUp, Promise!Move
    <3> QED
      BY <2>1, <3>1 DEF Step, Promise!Next
  <2>5. CASE WritePublished(w)
    <3>1. posted[t] = 1
      BY <2>1, <2>5 DEF WritePublished, Fits
    <3>2. Promise!Succeed(t)
      BY <2>1, <2>5, <3>1 DEF WritePublished, Write, Stage, Promise!Succeed, Promise!Move
    <3> QED
      BY <2>1, <3>2 DEF Step, Promise!Next
  <2> QED
    BY <1>1, <2>2, <2>3, <2>4, <2>5 DEF Outcome
<1> QED
  BY <1>1, <1>2 DEF Outcome, WriteProcessing, WriteFailed, WriteUnknown, WritePublished, HoldingSteps

LEMMA NextPromised == IInv /\ [Next]_vars => [Promise!Next]_(Promise!promiseVars)
<1> SUFFICES ASSUME IInv, [Next]_vars PROVE Step
  BY StepIsPromised
<1>1. CASE UNCHANGED vars
  BY <1>1 DEF vars, Step, Shown, Opened, IsDue
<1>2. CASE Next
  BY <1>2, NextCases, OutsidePromised, ProviderPromised, ApproachPromised, ProtocolPromised,
     OutcomePromised
<1> QED
  BY <1>1, <1>2

\* With workers, saved sessions, lost answers and deaths, an approved video keeps
\* the promise: at most once to each destination, and a status that is true.
THEOREM DeliveryKeepsPromise == Spec => KeepsPromise
  BY InitPromise, Invariance, NextPromised, PTL DEF Spec, KeepsPromise, Promise!Spec
=============================================================================

--------------------------- MODULE Publishing_proofs ---------------------------
(***************************************************************************)
(* Proofs about PublicationTargets, for any sets of targets, posts and     *)
(* workers, any retry limit and any budget of faults; about AiContent and  *)
(* MediaLibrary, for any requests, posts, pictures and faults; about       *)
(* Publishers, for any media and any number of attempts; and about         *)
(* EditorChat, for any transactions, overlaps and limit.                   *)
(***************************************************************************)
EXTENDS MCPublishing, FiniteSetTheorems, SequenceTheorems, WellFoundedInduction, TLAPS

\* Every step of the specification is one of these.
LEMMA NextCases ==
  ASSUME Next
  PROVE  \/ \E p \in Posts, t \in Targets : IngestLive(p, t)
         \/ \E t \in Targets : \/ CreateDirect(t) \/ EnqueueCreated(t) \/ EnqueueFails(t)
                               \/ CreatorCrash(t) \/ Dispatch(t) \/ EnqueueRecovered(t)
         \/ \E w \in Workers, t \in Targets, live \in BOOLEAN : Receive(w, t, live)
         \/ \E w \in Workers : \/ Claim(w) \/ Publish(w) \/ CommitPublished(w)
                               \/ RecordMessageId(w) \/ MarkFailed(w) \/ ReadForRetry(w)
                               \/ WriteRetry(w) \/ Requeue(w) \/ Abort(w)
                               \/ PublishReplyLost(w) \/ WorkerCrash(w)
         \/ \E S \in SUBSET Targets : Recover(S)
         \/ RecoverCrash
  BY DEF Next, Work

-----------------------------------------------------------------------------
(* Types *)

LEMMA InitTypeOK == Init => TypeOK
  BY MaxRetriesAssumption, FaultsAssumption
  DEF Init, TypeOK, Statuses, LedgerStates, Steps, Messages

LEMMA SendType ==
  ASSUME NEW t \in Targets, NEW live \in BOOLEAN, queue \in [Messages -> Nat], Send(t, live)
  PROVE  queue' \in [Messages -> Nat]
<1>1. <<t, live>> \in Messages
  BY DEF Messages
<1> QED
  BY <1>1 DEF Send

LEMMA FinishType ==
  ASSUME TypeOK, NEW w \in Workers, Finish(w)
  PROVE  /\ wpc' \in [Workers -> Steps]
         /\ wtarget' \in [Workers -> Targets \cup {NoTarget}]
         /\ \A v \in Workers : wpc'[v] # "idle" => wtarget'[v] \in Targets
         /\ wlive' \in [Workers -> BOOLEAN]
         /\ wcount' \in [Workers -> 0..MaxRetries]
         /\ \A v \in Workers : wpc'[v] = "rewrite" => wcount'[v] < MaxRetries
  BY MaxRetriesAssumption DEF Finish, TypeOK, Steps

LEMMA NextTypeOK == TypeOK /\ [Next]_vars => TypeOK'
<1> SUFFICES ASSUME TypeOK, [Next]_vars PROVE TypeOK'
  OBVIOUS
<1> USE MaxRetriesAssumption, FaultsAssumption
    DEF TypeOK, Statuses, LedgerStates, Steps, Messages, rowVars, workerVars, faultVars
<1>1. ASSUME NEW p \in Posts, NEW t \in Targets, IngestLive(p, t) PROVE TypeOK'
  BY <1>1 DEF IngestLive
<1>2. ASSUME NEW t \in Targets, CreateDirect(t) PROVE TypeOK'
  BY <1>2 DEF CreateDirect
<1>3. ASSUME NEW t \in Targets, EnqueueCreated(t) PROVE TypeOK'
  <2>1. (origin[t] # NoPost) \in BOOLEAN
    OBVIOUS
  <2>2. queue' \in [Messages -> Nat]
    BY <1>3, <2>1, SendType DEF EnqueueCreated
  <2> QED
    BY <1>3, <2>2 DEF EnqueueCreated
<1>4. ASSUME NEW t \in Targets, EnqueueFails(t) PROVE TypeOK'
  BY <1>4 DEF EnqueueFails, Fault
<1>5. ASSUME NEW t \in Targets, CreatorCrash(t) PROVE TypeOK'
  BY <1>5 DEF CreatorCrash, Fault
<1>6. ASSUME NEW t \in Targets, Dispatch(t) PROVE TypeOK'
  <2>1. queue' \in [Messages -> Nat]
    BY <1>6, SendType DEF Dispatch
  <2> QED
    BY <1>6, <2>1 DEF Dispatch, Fault
<1>7. ASSUME NEW t \in Targets, EnqueueRecovered(t) PROVE TypeOK'
  <2>1. queue' \in [Messages -> Nat]
    BY <1>7, SendType DEF EnqueueRecovered
  <2>2. recovering' \in SUBSET Targets
    BY <1>7 DEF EnqueueRecovered
  <2>3. faults' \in 0..MaxFaults /\ happened' \in SUBSET Faults
    <3>1. UNCHANGED <<faults, happened>> \/ Fault("brokerdown")
      BY <1>7 DEF EnqueueRecovered
    <3>2. faults \in 0..MaxFaults /\ happened \in SUBSET Faults /\ MaxFaults \in Nat
      OBVIOUS
    <3> HIDE DEF TypeOK
    <3> QED
      BY <3>1, <3>2 DEF Fault
  <2>4. UNCHANGED <<rowVars, creating, workerVars, posted, lost>>
    BY <1>7 DEF EnqueueRecovered
  <2> HIDE DEF TypeOK
  <2>5. TypeOK /\ UNCHANGED <<rowVars, creating, workerVars, posted, lost>> /\ queue' \in [Messages -> Nat]
        /\ recovering' \in SUBSET Targets /\ faults' \in 0..MaxFaults /\ happened' \in SUBSET Faults => TypeOK'
    BY DEF TypeOK, rowVars, workerVars
  <2> QED
    BY <2>1, <2>2, <2>3, <2>4, <2>5
<1>8. ASSUME NEW w \in Workers, NEW t \in Targets, NEW live \in BOOLEAN, Receive(w, t, live)
      PROVE TypeOK'
  BY <1>8 DEF Receive
<1>9. ASSUME NEW w \in Workers, Claim(w) PROVE TypeOK'
  <2>1. CASE status[wtarget[w]] = "pending"
    BY <1>9, <2>1 DEF Claim, SetStatus, Goto
  <2>2. CASE status[wtarget[w]] # "pending"
    <3>1. Finish(w) /\ UNCHANGED status
      BY <1>9, <2>2 DEF Claim
    <3> QED
      BY <1>9, <3>1, FinishType DEF Claim
  <2> QED
    BY <2>1, <2>2
<1>10. ASSUME NEW w \in Workers, Publish(w) PROVE TypeOK'
  BY <1>10 DEF Publish, Goto
<1>11. ASSUME NEW w \in Workers, CommitPublished(w) PROVE TypeOK'
  <2>1. status' \in [Targets -> Statuses] /\ named' \in [Targets -> BOOLEAN]
    BY <1>11, AnswersAssumption DEF CommitPublished, SetStatus
  <2>2. CASE wlive[w]
    BY <1>11, <2>1, <2>2 DEF CommitPublished, Goto
  <2>3. CASE ~wlive[w]
    <3>1. Finish(w)
      BY <1>11, <2>3 DEF CommitPublished
    <3> QED
      BY <1>11, <2>1, <3>1, FinishType DEF CommitPublished
  <2> QED
    BY <2>2, <2>3
<1>12. ASSUME NEW w \in Workers, RecordMessageId(w) PROVE TypeOK'
  BY <1>12 DEF RecordMessageId, Finish
<1>13. ASSUME NEW w \in Workers, MarkFailed(w) PROVE TypeOK'
  BY <1>13 DEF MarkFailed, SetStatus, Goto
<1>14. ASSUME NEW w \in Workers, ReadForRetry(w) PROVE TypeOK'
  BY <1>14 DEF ReadForRetry, Goto
<1>15. ASSUME NEW w \in Workers, WriteRetry(w) PROVE TypeOK'
  BY <1>15 DEF WriteRetry, SetStatus, Goto
<1>16. ASSUME NEW w \in Workers, Requeue(w) PROVE TypeOK'
  <2>1. Finish(w)
    BY <1>16 DEF Requeue
  <2>2. queue' \in [Messages -> Nat]
    BY <1>16, SendType DEF Requeue
  <2>3. faults' \in 0..MaxFaults /\ happened' \in SUBSET Faults
    BY <1>16 DEF Requeue, Fault
  <2> QED
    BY <1>16, <2>1, <2>2, <2>3, FinishType DEF Requeue
<1>17. ASSUME NEW w \in Workers, Abort(w) PROVE TypeOK'
  BY <1>17 DEF Abort, Finish
<1>18. ASSUME NEW w \in Workers, PublishReplyLost(w) PROVE TypeOK'
  BY <1>18 DEF PublishReplyLost, Goto, Fault
<1>19. ASSUME NEW w \in Workers, WorkerCrash(w) PROVE TypeOK'
  BY <1>19 DEF WorkerCrash, Finish, Fault
<1>20. ASSUME NEW S \in SUBSET Targets, Recover(S) PROVE TypeOK'
  BY <1>20 DEF Recover, Fault
<1>21. CASE RecoverCrash
  BY <1>21 DEF RecoverCrash, Fault
<1>22. CASE UNCHANGED vars
  BY <1>22 DEF vars
<1> QED
  BY <1>1, <1>2, <1>3, <1>4, <1>5, <1>6, <1>7, <1>8, <1>9, <1>10, <1>11, <1>12, <1>13,
     <1>14, <1>15, <1>16, <1>17, <1>18, <1>19, <1>20, <1>21, <1>22, NextCases

\* Every reachable state has well-typed rows, messages and workers; in
\* particular retry_count never passes the limit, whoever writes it.
THEOREM TypeCorrect == Spec => []TypeOK
  BY InitTypeOK, NextTypeOK, PTL DEF Spec

-----------------------------------------------------------------------------
(* One worker at a time holds a target *)

\* Faults that happened stay happened, so a premise about them that holds after
\* a step held before it.
LEMMA HappenedGrows ==
  ASSUME [Next]_vars
  PROVE  happened \subseteq happened'
<1> USE DEF faultVars, Fault
<1>1. ASSUME NEW p \in Posts, NEW t \in Targets, IngestLive(p, t) PROVE happened \subseteq happened'
  BY <1>1 DEF IngestLive
<1>2. ASSUME NEW t \in Targets,
             \/ CreateDirect(t) \/ EnqueueCreated(t) \/ EnqueueFails(t) \/ CreatorCrash(t)
             \/ Dispatch(t) \/ EnqueueRecovered(t)
      PROVE happened \subseteq happened'
  BY <1>2 DEF CreateDirect, EnqueueCreated, EnqueueFails, CreatorCrash, Dispatch, EnqueueRecovered
<1>3. ASSUME NEW w \in Workers, NEW t \in Targets, NEW live \in BOOLEAN, Receive(w, t, live)
      PROVE happened \subseteq happened'
  BY <1>3 DEF Receive
<1>4. ASSUME NEW w \in Workers,
             \/ Claim(w) \/ Publish(w) \/ CommitPublished(w) \/ RecordMessageId(w)
             \/ MarkFailed(w) \/ ReadForRetry(w) \/ WriteRetry(w) \/ Requeue(w) \/ Abort(w)
             \/ PublishReplyLost(w) \/ WorkerCrash(w)
      PROVE happened \subseteq happened'
  BY <1>4 DEF Claim, Publish, CommitPublished, RecordMessageId, MarkFailed, ReadForRetry,
              WriteRetry, Requeue, Abort, PublishReplyLost, WorkerCrash
<1>5. ASSUME NEW S \in SUBSET Targets, Recover(S) PROVE happened \subseteq happened'
  BY <1>5 DEF Recover
<1>6. CASE RecoverCrash \/ UNCHANGED vars
  BY <1>6 DEF RecoverCrash, vars
<1> QED
  BY <1>1, <1>2, <1>3, <1>4, <1>5, <1>6, NextCases

\* Between the claim and the last look at the row a worker has the target to
\* itself, and the row says so: publishing until the outcome is written, failed
\* from then on.  The second conjunct alone is not inductive: it needs the row.
Occupied ==
  /\ \A w \in Workers : wpc[w] \in HoldingSteps => status[wtarget[w]] = "publishing"
  /\ \A w \in Workers : wpc[w] \in GivingUpSteps => status[wtarget[w]] = "failed"
  /\ \A v, w \in Workers :
       (v # w /\ wpc[v] \in HoldingSteps \cup GivingUpSteps
              /\ wpc[w] \in HoldingSteps \cup GivingUpSteps) => wtarget[v] # wtarget[w]

LEMMA InitOccupied == Init => Occupied
  BY DEF Init, Occupied, HoldingSteps, GivingUpSteps

\* Producers, operators and the broker do not touch an existing row.
LEMMA OutsideOccupied ==
  ASSUME TypeOK, Occupied, UNCHANGED workerVars,
         \A t \in Targets : status[t] # "absent" => status'[t] = status[t]
  PROVE  Occupied'
<1>1. \A w \in Workers :
        wpc[w] \in HoldingSteps \cup GivingUpSteps =>
          wtarget[w] \in Targets /\ status'[wtarget[w]] = status[wtarget[w]]
  BY DEF TypeOK, Occupied, HoldingSteps, GivingUpSteps
<1> QED
  BY <1>1 DEF Occupied, workerVars, HoldingSteps, GivingUpSteps

\* A worker that lets go leaves the others as they are.
LEMMA FinishOccupied ==
  ASSUME TypeOK, Occupied, NEW w \in Workers, Finish(w), UNCHANGED status
  PROVE  Occupied'
  BY DEF TypeOK, Occupied, Finish, HoldingSteps, GivingUpSteps

\* A worker that goes on without writing the row.
LEMMA GotoOccupied ==
  ASSUME TypeOK, Occupied, NEW w \in Workers, NEW at \in Steps,
         wpc' = [wpc EXCEPT ![w] = at], UNCHANGED <<wtarget, status>>,
         \/ wpc[w] \in HoldingSteps /\ at \in HoldingSteps
         \/ wpc[w] \in GivingUpSteps /\ at \in GivingUpSteps
  PROVE  Occupied'
  BY DEF TypeOK, Occupied, HoldingSteps, GivingUpSteps, Steps

LEMMA NextOccupied ==
  ASSUME ~Overruns', TypeOK, Occupied, [Next]_vars
  PROVE  Occupied'
<1> USE DEF rowVars
<1>1. ASSUME NEW p \in Posts, NEW t \in Targets, IngestLive(p, t) PROVE Occupied'
  BY <1>1, OutsideOccupied DEF IngestLive, TypeOK
<1>2. ASSUME NEW t \in Targets, CreateDirect(t) PROVE Occupied'
  BY <1>2, OutsideOccupied DEF CreateDirect, TypeOK
<1>3. ASSUME NEW t \in Targets,
             \/ EnqueueCreated(t) \/ EnqueueFails(t) \/ CreatorCrash(t) \/ Dispatch(t)
             \/ EnqueueRecovered(t)
      PROVE Occupied'
  BY <1>3, OutsideOccupied
  DEF EnqueueCreated, EnqueueFails, CreatorCrash, Dispatch, EnqueueRecovered
<1>4. ASSUME NEW w \in Workers, NEW t \in Targets, NEW live \in BOOLEAN, Receive(w, t, live)
      PROVE Occupied'
  BY <1>4 DEF Receive, TypeOK, Occupied, HoldingSteps, GivingUpSteps
<1>5. ASSUME NEW w \in Workers, Claim(w) PROVE Occupied'
  <2>1. CASE status[wtarget[w]] = "pending"
    <3>1. /\ wpc[w] = "claim" /\ wtarget[w] \in Targets
          /\ status' = [status EXCEPT ![wtarget[w]] = "publishing"]
          /\ wpc' = [wpc EXCEPT ![w] = "publish"] /\ wtarget' = wtarget
      BY <1>5, <2>1 DEF Claim, SetStatus, Goto, TypeOK
    <3>2. \A v \in Workers : wpc[v] \in HoldingSteps \cup GivingUpSteps
                               => wtarget[v] # wtarget[w] /\ wtarget[v] \in Targets
      BY <2>1 DEF Occupied, TypeOK, HoldingSteps, GivingUpSteps
    <3> QED
      BY <3>1, <3>2 DEF Occupied, TypeOK, HoldingSteps, GivingUpSteps
  <2>2. CASE status[wtarget[w]] # "pending"
    BY <1>5, <2>2, FinishOccupied DEF Claim
  <2> QED
    BY <2>1, <2>2
<1>6. ASSUME NEW w \in Workers, Publish(w) \/ PublishReplyLost(w) PROVE Occupied'
  <2>1. PICK at \in {"sent", "rejected", "transient"} :
          wpc[w] = "publish" /\ Goto(w, at) /\ UNCHANGED status
    BY <1>6 DEF Publish, PublishReplyLost
  <2> QED
    BY <2>1, GotoOccupied DEF Goto, HoldingSteps, Steps
<1>7. ASSUME NEW w \in Workers, CommitPublished(w) PROVE Occupied'
  <2>1. /\ wpc[w] = "sent" /\ wtarget[w] \in Targets
        /\ status' = [status EXCEPT ![wtarget[w]] = "published"]
    BY <1>7 DEF CommitPublished, SetStatus, TypeOK
  <2>2. \A v \in Workers \ {w} : wpc[v] \in HoldingSteps \cup GivingUpSteps
          => wtarget[v] # wtarget[w] /\ wtarget[v] \in Targets
    BY <2>1 DEF Occupied, TypeOK, HoldingSteps, GivingUpSteps
  <2>3. /\ wpc'[w] \in {"record", "idle"}
        /\ \A v \in Workers \ {w} : wpc'[v] = wpc[v] /\ wtarget'[v] = wtarget[v]
    BY <1>7 DEF CommitPublished, Goto, Finish, TypeOK
  <2> QED
    BY <2>1, <2>2, <2>3 DEF Occupied, TypeOK, HoldingSteps, GivingUpSteps
<1>8. ASSUME NEW w \in Workers, RecordMessageId(w) \/ Requeue(w) \/ Abort(w) \/ WorkerCrash(w)
      PROVE Occupied'
  BY <1>8, FinishOccupied DEF RecordMessageId, Requeue, Abort, WorkerCrash
<1>9. ASSUME NEW w \in Workers, MarkFailed(w) PROVE Occupied'
  <2>1. /\ wpc[w] \in HoldingSteps /\ wtarget[w] \in Targets
        /\ status' = [status EXCEPT ![wtarget[w]] = "failed"]
        /\ wtarget' = wtarget
    BY <1>9 DEF MarkFailed, SetStatus, Goto, TypeOK, HoldingSteps
  <2>2. PICK at \in {"retry", "abort"} : wpc' = [wpc EXCEPT ![w] = at]
    BY <1>9 DEF MarkFailed, Goto
  <2>3. \A v \in Workers \ {w} : wpc[v] \in HoldingSteps \cup GivingUpSteps
          => wtarget[v] # wtarget[w] /\ wtarget[v] \in Targets
    BY <2>1 DEF Occupied, TypeOK, HoldingSteps, GivingUpSteps
  <2> QED
    BY <2>1, <2>2, <2>3 DEF Occupied, TypeOK, HoldingSteps, GivingUpSteps
<1>10. ASSUME NEW w \in Workers, ReadForRetry(w) PROVE Occupied'
  <2>1. PICK at \in {"rewrite", "abort"} :
          /\ wpc[w] = "retry" /\ wpc' = [wpc EXCEPT ![w] = at]
          /\ UNCHANGED <<wtarget, status>>
    BY <1>10 DEF ReadForRetry, Goto
  <2> QED
    BY <2>1, GotoOccupied DEF GivingUpSteps, Steps
<1>11. ASSUME NEW w \in Workers, WriteRetry(w) PROVE Occupied'
  <2>1. /\ wpc[w] = "rewrite" /\ wtarget[w] \in Targets
        /\ status' = [status EXCEPT ![wtarget[w]] = "pending"]
        /\ wpc' = [wpc EXCEPT ![w] = "requeue"] /\ wtarget' = wtarget
    BY <1>11 DEF WriteRetry, SetStatus, Goto, TypeOK
  <2>2. \A v \in Workers \ {w} : wpc[v] \in HoldingSteps \cup GivingUpSteps
          => wtarget[v] # wtarget[w] /\ wtarget[v] \in Targets
    BY <2>1 DEF Occupied, TypeOK, HoldingSteps, GivingUpSteps
  <2> QED
    BY <2>1, <2>2 DEF Occupied, TypeOK, HoldingSteps, GivingUpSteps
<1>12. ASSUME NEW S \in SUBSET Targets, Recover(S) PROVE Occupied'
  <2>1. \A t \in S : ~Held(t) /\ status[t] = "publishing"
    BY <1>12 DEF Recover, Fault, Overruns
  <2>2. \A w \in Workers : wpc[w] \in HoldingSteps \cup GivingUpSteps => wtarget[w] \notin S
    BY <2>1 DEF Held, Occupied, GivingUpSteps
  <2> QED
    BY <1>12, <2>2 DEF Recover, Occupied, TypeOK, workerVars, HoldingSteps, GivingUpSteps
<1>13. CASE RecoverCrash
  BY <1>13, OutsideOccupied DEF RecoverCrash
<1>14. CASE UNCHANGED vars
  BY <1>14, OutsideOccupied DEF vars, workerVars
<1> QED
  BY <1>1, <1>2, <1>3, <1>4, <1>5, <1>6, <1>7, <1>8, <1>9, <1>10, <1>11, <1>12, <1>13, <1>14,
     NextCases

OccupiedUnlessOverrun == ~Overruns => Occupied

\* As long as no publisher call outlived the stuck timeout, two workers never
\* publish one target at the same time, whatever crashes, repeated messages,
\* operators' dispatches and recoveries interleave.
THEOREM ClaimIsExclusive == Spec => []ExclusiveClaim
<1>1. Init => OccupiedUnlessOverrun
  BY InitOccupied DEF OccupiedUnlessOverrun
<1>2. TypeOK /\ OccupiedUnlessOverrun /\ [Next]_vars => OccupiedUnlessOverrun'
  BY NextOccupied, HappenedGrows DEF OccupiedUnlessOverrun, Overruns
<1>3. OccupiedUnlessOverrun => ExclusiveClaim
  BY DEF OccupiedUnlessOverrun, Occupied, ExclusiveClaim
<1> QED
  BY <1>1, <1>2, <1>3, TypeCorrect, PTL DEF Spec

-----------------------------------------------------------------------------
(* One target on its way per post *)

\* An active target of a post is what the ledger row of the post stands for;
\* deleting the row by the post's key is safe because there is only one.
LedgerGuards ==
  /\ \A t \in Targets : origin[t] \in Posts => status[t] # "absent"
  /\ \A t \in Targets : (origin[t] \in Posts /\ Active(t)) => ledger[origin[t]] # "none"
  /\ \A t1, t2 \in Targets :
       (t1 # t2 /\ origin[t1] \in Posts /\ origin[t1] = origin[t2]) => ~(Active(t1) /\ Active(t2))

LEMMA InitLedgerGuards == Init => LedgerGuards
  BY DistinctAssumption DEF Init, LedgerGuards

\* A step that starts nothing and takes no claim from an active target.
LEMMA QuietLedgerGuards ==
  ASSUME TypeOK, LedgerGuards, UNCHANGED origin,
         \A t \in Targets : Active(t)' => Active(t),
         \A t \in Targets : status[t] # "absent" => status'[t] # "absent",
         \A t \in Targets : (origin[t] \in Posts /\ Active(t)' /\ ledger[origin[t]] # "none")
                              => ledger'[origin[t]] # "none"
  PROVE  LedgerGuards'
  BY DEF LedgerGuards

LEMMA NextLedgerGuards ==
  ASSUME "brokerdown" \notin happened', TypeOK, Occupied, LedgerGuards, [Next]_vars
  PROVE  LedgerGuards'
<1> USE DEF rowVars, workerVars
<1>1. ASSUME NEW p \in Posts, NEW t \in Targets, IngestLive(p, t) PROVE LedgerGuards'
  <2>1. /\ status[t] = "absent" /\ status' = [status EXCEPT ![t] = "pending"]
        /\ ledger[p] = "none" /\ ledger' = [ledger EXCEPT ![p] = "claimed"]
        /\ origin' = [origin EXCEPT ![t] = p]
        /\ wpc' = wpc /\ wtarget' = wtarget
    BY <1>1 DEF IngestLive
  <2>2. \A u \in Targets \ {t} :
          status'[u] = status[u] /\ origin'[u] = origin[u] /\ (Active(u)' <=> Active(u))
    BY <2>1 DEF TypeOK, Active
  <2>3. \A u \in Targets \ {t} : origin[u] = p => ~Active(u)
    BY <2>1 DEF LedgerGuards
  <2>4. origin'[t] = p /\ status'[t] = "pending" /\ ledger'[p] = "claimed"
    BY <2>1 DEF TypeOK
  <2>5. \A q \in Posts \ {p} : ledger'[q] = ledger[q]
    BY <2>1 DEF TypeOK
  <2>6. \A u \in Targets : origin'[u] \in Posts => status'[u] # "absent"
    BY <2>2, <2>4 DEF LedgerGuards
  <2>7. ASSUME NEW u \in Targets, origin'[u] \in Posts, Active(u)'
        PROVE  ledger'[origin'[u]] # "none"
    <3>1. CASE u = t
      BY <3>1, <2>4
    <3>2. CASE u # t
      BY <3>2, <2>2, <2>3, <2>5, <2>7 DEF LedgerGuards
    <3> QED
      BY <3>1, <3>2
  <2>8. ASSUME NEW t1 \in Targets, NEW t2 \in Targets, t1 # t2, origin'[t1] \in Posts,
               origin'[t1] = origin'[t2]
        PROVE  ~(Active(t1)' /\ Active(t2)')
    <3>1. CASE t1 # t /\ t2 # t
      BY <3>1, <2>2, <2>8 DEF LedgerGuards
    <3>2. CASE t1 = t \/ t2 = t
      BY <3>2, <2>2, <2>3, <2>4, <2>8
    <3> QED
      BY <3>1, <3>2
  <2> QED
    BY <2>6, <2>7, <2>8 DEF LedgerGuards
<1>2. ASSUME NEW t \in Targets, CreateDirect(t) PROVE LedgerGuards'
  <2>1. /\ status[t] = "absent" /\ status' = [status EXCEPT ![t] = "pending"]
        /\ UNCHANGED <<ledger, origin, wpc, wtarget>>
    BY <1>2 DEF CreateDirect
  <2>2. origin[t] \notin Posts
    BY <2>1 DEF LedgerGuards
  <2>3. \A u \in Targets \ {t} : status'[u] = status[u] /\ (Active(u)' <=> Active(u))
    BY <2>1 DEF TypeOK, Active
  <2> QED
    BY <2>1, <2>2, <2>3 DEF LedgerGuards
<1>3. ASSUME NEW t \in Targets,
             \/ EnqueueCreated(t) \/ CreatorCrash(t) \/ Dispatch(t) \/ EnqueueRecovered(t)
      PROVE LedgerGuards'
  <2>1. UNCHANGED <<status, origin, ledger, wpc, wtarget>>
    BY <1>3 DEF EnqueueCreated, CreatorCrash, Dispatch, EnqueueRecovered
  <2> QED
    BY <2>1 DEF LedgerGuards, Active
<1>4. ASSUME NEW t \in Targets, EnqueueFails(t) PROVE LedgerGuards'
  BY <1>4 DEF EnqueueFails, Fault
<1>5. ASSUME NEW w \in Workers, NEW t \in Targets, NEW live \in BOOLEAN, Receive(w, t, live)
      PROVE LedgerGuards'
  <2>1. \A u \in Targets : Active(u)' => Active(u)
    BY <1>5 DEF Receive, Active, TypeOK, GivingUpSteps
  <2> QED
    BY <1>5, <2>1, QuietLedgerGuards DEF Receive
<1>6. ASSUME NEW w \in Workers, Claim(w) PROVE LedgerGuards'
  <2>1. wtarget[w] \in Targets /\ wpc[w] = "claim"
    BY <1>6 DEF Claim, TypeOK
  <2>2. CASE status[wtarget[w]] = "pending"
    <3>1. /\ status' = [status EXCEPT ![wtarget[w]] = "publishing"]
          /\ wpc' = [wpc EXCEPT ![w] = "publish"]
          /\ UNCHANGED <<wtarget, origin, ledger>>
      BY <1>6, <2>2 DEF Claim, SetStatus, Goto
    <3>2. \A u \in Targets : Active(u)' => Active(u)
      BY <2>1, <2>2, <3>1 DEF Active, TypeOK, GivingUpSteps
    <3> QED
      BY <2>1, <3>1, <3>2, QuietLedgerGuards DEF TypeOK
  <2>3. CASE status[wtarget[w]] # "pending"
    <3>1. Finish(w) /\ UNCHANGED <<status, origin, ledger>>
      BY <1>6, <2>3 DEF Claim
    <3>2. \A u \in Targets : Active(u)' => Active(u)
      BY <3>1 DEF Finish, Active, TypeOK, GivingUpSteps
    <3> QED
      BY <3>1, <3>2, QuietLedgerGuards
  <2> QED
    BY <2>2, <2>3
<1>7. ASSUME NEW w \in Workers, Publish(w) \/ PublishReplyLost(w) PROVE LedgerGuards'
  <2>1. PICK at \in {"sent", "rejected", "transient"} :
          wpc[w] = "publish" /\ Goto(w, at) /\ UNCHANGED <<status, origin, ledger>>
    BY <1>7 DEF Publish, PublishReplyLost
  <2>2. \A u \in Targets : Active(u)' => Active(u)
    BY <2>1 DEF Goto, Active, TypeOK, GivingUpSteps
  <2> QED
    BY <2>1, <2>2, QuietLedgerGuards
<1>8. ASSUME NEW w \in Workers, CommitPublished(w) PROVE LedgerGuards'
  <2>1. /\ wpc[w] = "sent" /\ wtarget[w] \in Targets
        /\ status' = [status EXCEPT ![wtarget[w]] = "published"]
        /\ UNCHANGED <<origin, ledger>>
    BY <1>8 DEF CommitPublished, SetStatus, TypeOK
  <2>2. status[wtarget[w]] = "publishing"
    BY <2>1 DEF Occupied, HoldingSteps
  <2>3. /\ wpc'[w] \in {"record", "idle"}
        /\ \A v \in Workers \ {w} : wpc'[v] = wpc[v] /\ wtarget'[v] = wtarget[v]
    BY <1>8 DEF CommitPublished, Goto, Finish, TypeOK
  <2>4. \A u \in Targets : Active(u)' => Active(u)
    BY <2>1, <2>2, <2>3 DEF Active, TypeOK, GivingUpSteps
  <2> QED
    BY <2>1, <2>4, QuietLedgerGuards DEF TypeOK
<1>9. ASSUME NEW w \in Workers, RecordMessageId(w) PROVE LedgerGuards'
  <2>1. \A u \in Targets : Active(u)' => Active(u)
    BY <1>9 DEF RecordMessageId, Finish, Active, TypeOK, GivingUpSteps
  <2>2. \A p \in Posts : ledger[p] # "none" => ledger'[p] # "none"
    BY <1>9 DEF RecordMessageId, TypeOK
  <2> QED
    BY <1>9, <2>1, <2>2, QuietLedgerGuards DEF RecordMessageId
<1>10. ASSUME NEW w \in Workers, MarkFailed(w) PROVE LedgerGuards'
  <2>1. /\ wpc[w] \in HoldingSteps /\ wtarget[w] \in Targets
        /\ status' = [status EXCEPT ![wtarget[w]] = "failed"]
        /\ UNCHANGED <<wtarget, origin, ledger>>
    BY <1>10 DEF MarkFailed, SetStatus, Goto, TypeOK, HoldingSteps
  <2>2. PICK at \in {"retry", "abort"} : wpc' = [wpc EXCEPT ![w] = at]
    BY <1>10 DEF MarkFailed, Goto
  <2>3. status[wtarget[w]] = "publishing"
    BY <2>1 DEF Occupied
  <2>4. \A u \in Targets : Active(u)' => Active(u)
    BY <2>1, <2>2, <2>3 DEF Active, TypeOK
  <2> QED
    BY <2>1, <2>4, QuietLedgerGuards DEF TypeOK
<1>11. ASSUME NEW w \in Workers, ReadForRetry(w) PROVE LedgerGuards'
  <2>1. PICK at \in {"rewrite", "abort"} :
          /\ wpc[w] = "retry" /\ wpc' = [wpc EXCEPT ![w] = at]
          /\ UNCHANGED <<wtarget, status, origin, ledger>>
    BY <1>11 DEF ReadForRetry, Goto
  <2>2. \A u \in Targets : Active(u)' => Active(u)
    BY <2>1 DEF Active, TypeOK, GivingUpSteps
  <2> QED
    BY <2>1, <2>2, QuietLedgerGuards
<1>12. ASSUME NEW w \in Workers, WriteRetry(w) PROVE LedgerGuards'
  <2>1. /\ wpc[w] = "rewrite" /\ wtarget[w] \in Targets
        /\ status' = [status EXCEPT ![wtarget[w]] = "pending"]
        /\ wpc' = [wpc EXCEPT ![w] = "requeue"]
        /\ UNCHANGED <<wtarget, origin, ledger>>
    BY <1>12 DEF WriteRetry, SetStatus, Goto, TypeOK
  <2>2. Active(wtarget[w])
    BY <2>1 DEF Active, GivingUpSteps
  <2>3. \A u \in Targets : Active(u)' => Active(u)
    BY <2>1, <2>2 DEF Active, TypeOK, GivingUpSteps
  <2> QED
    BY <2>1, <2>3, QuietLedgerGuards DEF TypeOK
<1>13. ASSUME NEW w \in Workers, Requeue(w) \/ WorkerCrash(w) PROVE LedgerGuards'
  <2>1. Finish(w) /\ UNCHANGED <<status, origin, ledger>>
    BY <1>13 DEF Requeue, WorkerCrash
  <2>2. \A u \in Targets : Active(u)' => Active(u)
    BY <2>1 DEF Finish, Active, TypeOK, GivingUpSteps
  <2> QED
    BY <2>1, <2>2, QuietLedgerGuards
<1>14. ASSUME NEW w \in Workers, Abort(w) PROVE LedgerGuards'
  <2>1. wpc[w] = "abort" /\ Finish(w) /\ UNCHANGED <<status, origin>>
    BY <1>14 DEF Abort
  <2>2. PICK t \in Targets : t = wtarget[w]
    BY <2>1 DEF TypeOK
  <2>3. /\ wpc'[w] = "idle"
        /\ \A v \in Workers \ {w} : wpc'[v] = wpc[v] /\ wtarget'[v] = wtarget[v]
    BY <2>1 DEF Finish, TypeOK
  <2>4. \A u \in Targets : Active(u)' => Active(u)
    BY <2>1, <2>3 DEF Active, GivingUpSteps
  <2>5. Active(t) /\ ~Active(t)'
    BY <2>1, <2>2, <2>3 DEF Active, Occupied, GivingUpSteps, HoldingSteps
  <2>6. \A u \in Targets : (Active(u)' /\ origin[t] \in Posts) => origin[u] # origin[t]
    BY <2>4, <2>5 DEF LedgerGuards
  <2>7. \A q \in Posts : q # origin[t] => ledger'[q] = ledger[q]
    BY <1>14, <2>2 DEF Abort, TypeOK
  <2>8. origin[t] \notin Posts => ledger' = ledger
    BY <1>14, <2>2 DEF Abort
  <2> QED
    BY <2>1, <2>4, <2>6, <2>7, <2>8, QuietLedgerGuards
<1>15. ASSUME NEW S \in SUBSET Targets, Recover(S) PROVE LedgerGuards'
  <2>1. \A u \in Targets : Active(u)' => Active(u)
    BY <1>15 DEF Recover, Active, TypeOK
  <2> QED
    BY <1>15, <2>1, QuietLedgerGuards DEF Recover
<1>16. CASE RecoverCrash
  BY <1>16 DEF RecoverCrash, LedgerGuards, Active
<1>17. CASE UNCHANGED vars
  BY <1>17 DEF vars, LedgerGuards, Active
<1> QED
  BY <1>1, <1>2, <1>3, <1>4, <1>5, <1>6, <1>7, <1>8, <1>9, <1>10, <1>11, <1>12, <1>13, <1>14,
     <1>15, <1>16, <1>17, NextCases

Guarded == (happened \cap {"overrun", "brokerdown"} = {}) => Occupied /\ LedgerGuards

\* The dedup ledger keeps a live-sync post to one target on its way, however
\* often producers repeat the post, as long as no publisher call outlives the
\* stuck timeout and the first enqueue does not fail.
THEOREM OneTarget == Spec => []OneTargetPerPost
<1>1. Init => Guarded
  BY InitOccupied, InitLedgerGuards DEF Guarded
<1>2. TypeOK /\ Guarded /\ [Next]_vars => Guarded'
  BY NextOccupied, NextLedgerGuards, HappenedGrows DEF Guarded, Overruns
<1>3. Guarded => OneTargetPerPost
  BY DEF Guarded, LedgerGuards, OneTargetPerPost
<1> QED
  BY <1>1, <1>2, <1>3, TypeCorrect, PTL DEF Spec

-----------------------------------------------------------------------------
(* One post per target *)

\* The platform's last answer is recorded, or a worker is about to record it.
Delivered(t) ==
  \/ status[t] = "published"
  \/ \E w \in Workers : wtarget[w] = t /\ wpc[w] = "sent"

Deliveries ==
  \A t \in Targets :
    /\ Delivered(t) => posted[t] <= lost[t] + 1
    /\ ~Delivered(t) => posted[t] <= lost[t]

LEMMA InitDeliveries == Init => Deliveries
  BY DEF Init, Deliveries

\* A step that neither reaches the platform nor loses what it answered.
LEMMA QuietDeliveries ==
  ASSUME Deliveries, UNCHANGED <<posted, lost>>,
         \A t \in Targets : Delivered(t)' <=> Delivered(t)
  PROVE  Deliveries'
  BY DEF Deliveries

LEMMA NextDeliveries ==
  ASSUME ~Overruns', TypeOK, Occupied, Deliveries, [Next]_vars
  PROVE  Deliveries'
<1> USE DEF rowVars, workerVars
<1>1. ASSUME NEW t \in Targets,
             \/ \E p \in Posts : IngestLive(p, t)
             \/ CreateDirect(t)
      PROVE Deliveries'
  <2>1. /\ status[t] = "absent" /\ status' = [status EXCEPT ![t] = "pending"]
        /\ UNCHANGED <<wpc, wtarget, posted, lost>>
    BY <1>1 DEF IngestLive, CreateDirect
  <2>2. \A u \in Targets : Delivered(u)' <=> Delivered(u)
    BY <2>1 DEF Delivered, TypeOK
  <2> QED
    BY <2>1, <2>2, QuietDeliveries
<1>2. ASSUME NEW t \in Targets,
             \/ EnqueueCreated(t) \/ EnqueueFails(t) \/ CreatorCrash(t)
             \/ Dispatch(t) \/ EnqueueRecovered(t)
      PROVE Deliveries'
  <2>1. UNCHANGED <<status, wpc, wtarget, posted, lost>>
    BY <1>2 DEF EnqueueCreated, EnqueueFails, CreatorCrash, Dispatch, EnqueueRecovered
  <2> QED
    BY <2>1, QuietDeliveries DEF Delivered
<1>3. ASSUME NEW w \in Workers, NEW t \in Targets, NEW live \in BOOLEAN, Receive(w, t, live)
      PROVE Deliveries'
  <2>1. \A u \in Targets : Delivered(u)' <=> Delivered(u)
    BY <1>3 DEF Receive, Delivered, TypeOK
  <2> QED
    BY <1>3, <2>1, QuietDeliveries DEF Receive
<1>4. ASSUME NEW w \in Workers, Claim(w) PROVE Deliveries'
  <2>1. wtarget[w] \in Targets /\ wpc[w] = "claim" /\ UNCHANGED <<posted, lost>>
    BY <1>4 DEF Claim, TypeOK
  <2>2. \A u \in Targets : Delivered(u)' <=> Delivered(u)
    BY <1>4, <2>1 DEF Claim, SetStatus, Goto, Finish, Delivered, TypeOK
  <2> QED
    BY <2>1, <2>2, QuietDeliveries
<1>5. ASSUME NEW w \in Workers, Publish(w) PROVE Deliveries'
  <2>1. PICK t \in Targets : t = wtarget[w]
    BY <1>5 DEF Publish, TypeOK
  <2>2. /\ wpc[w] = "publish" /\ status[t] = "publishing"
        /\ UNCHANGED <<status, wtarget, lost>>
    BY <1>5, <2>1 DEF Publish, Goto, Occupied, HoldingSteps
  <2>3. ~Delivered(t)
    BY <2>1, <2>2 DEF Delivered, Occupied, HoldingSteps
  <2>4. CASE posted' = [posted EXCEPT ![wtarget[w]] = @ + 1] /\ Goto(w, "sent")
    <3>1. \A u \in Targets \ {t} : (Delivered(u)' <=> Delivered(u)) /\ posted'[u] = posted[u]
      BY <2>1, <2>2, <2>4 DEF Delivered, Goto, TypeOK
    <3>2. Delivered(t)' /\ posted'[t] = posted[t] + 1
      BY <2>1, <2>2, <2>4 DEF Delivered, Goto, TypeOK
    <3>3. posted[t] <= lost[t] /\ posted[t] \in Nat /\ lost[t] \in Nat
      BY <2>3 DEF Deliveries, TypeOK
    <3>4. posted'[t] <= lost'[t] + 1
      BY <2>2, <3>2, <3>3
    <3> QED
      BY <2>2, <3>1, <3>2, <3>4 DEF Deliveries
  <2>5. CASE (\E error \in {"rejected", "transient"} : Goto(w, error)) /\ UNCHANGED posted
    <3>1. \A u \in Targets : Delivered(u)' <=> Delivered(u)
      BY <2>2, <2>5 DEF Delivered, Goto, TypeOK
    <3> QED
      BY <2>2, <2>5, <3>1, QuietDeliveries
  <2> QED
    BY <1>5, <2>4, <2>5 DEF Publish
<1>6. ASSUME NEW w \in Workers, PublishReplyLost(w) PROVE Deliveries'
  <2>1. PICK t \in Targets : t = wtarget[w]
    BY <1>6 DEF PublishReplyLost, TypeOK
  <2>2. PICK error \in {"rejected", "transient"} : wpc' = [wpc EXCEPT ![w] = error]
    BY <1>6 DEF PublishReplyLost, Goto
  <2>3. /\ wpc[w] = "publish" /\ UNCHANGED <<status, wtarget>>
        /\ posted' = [posted EXCEPT ![t] = @ + 1] /\ lost' = [lost EXCEPT ![t] = @ + 1]
    BY <1>6, <2>1 DEF PublishReplyLost, Goto
  <2>4. \A u \in Targets : Delivered(u)' <=> Delivered(u)
    BY <2>2, <2>3 DEF Delivered, TypeOK
  <2>5. posted'[t] = posted[t] + 1 /\ lost'[t] = lost[t] + 1
    BY <2>3 DEF TypeOK
  <2>6. \A u \in Targets \ {t} : posted'[u] = posted[u] /\ lost'[u] = lost[u]
    BY <2>3 DEF TypeOK
  <2>7. posted[t] \in Nat /\ lost[t] \in Nat
    BY DEF TypeOK
  <2> QED
    BY <2>4, <2>5, <2>6, <2>7 DEF Deliveries
<1>7. ASSUME NEW w \in Workers, CommitPublished(w) PROVE Deliveries'
  <2>1. PICK t \in Targets : t = wtarget[w]
    BY <1>7 DEF CommitPublished, TypeOK
  <2>2. /\ wpc[w] = "sent" /\ status' = [status EXCEPT ![t] = "published"]
        /\ UNCHANGED <<posted, lost>>
    BY <1>7, <2>1 DEF CommitPublished, SetStatus
  <2>3. /\ wpc'[w] \in {"record", "idle"}
        /\ \A v \in Workers \ {w} : wpc'[v] = wpc[v] /\ wtarget'[v] = wtarget[v]
    BY <1>7 DEF CommitPublished, Goto, Finish, TypeOK
  <2>4. Delivered(t) /\ Delivered(t)'
    BY <2>1, <2>2 DEF Delivered, TypeOK
  <2>5. \A u \in Targets \ {t} : Delivered(u)' <=> Delivered(u)
    BY <2>1, <2>2, <2>3 DEF Delivered, TypeOK
  <2> QED
    BY <2>2, <2>4, <2>5, QuietDeliveries
<1>8. ASSUME NEW w \in Workers, RecordMessageId(w) \/ Requeue(w) \/ Abort(w) PROVE Deliveries'
  <2>1. /\ wpc[w] # "sent" /\ Finish(w) /\ UNCHANGED <<status, posted, lost>>
    BY <1>8 DEF RecordMessageId, Requeue, Abort
  <2>2. \A u \in Targets : Delivered(u)' <=> Delivered(u)
    BY <2>1 DEF Finish, Delivered, TypeOK
  <2> QED
    BY <2>1, <2>2, QuietDeliveries
<1>9. ASSUME NEW w \in Workers, MarkFailed(w) PROVE Deliveries'
  <2>1. PICK t \in Targets : t = wtarget[w]
    BY <1>9 DEF MarkFailed, TypeOK
  <2>2. /\ wpc[w] \in {"rejected", "transient"}
        /\ status' = [status EXCEPT ![t] = "failed"]
        /\ UNCHANGED <<wtarget, posted, lost>>
    BY <1>9, <2>1 DEF MarkFailed, SetStatus, Goto
  <2>3. PICK at \in {"retry", "abort"} : wpc' = [wpc EXCEPT ![w] = at]
    BY <1>9 DEF MarkFailed, Goto
  <2>4. status[t] = "publishing"
    BY <2>1, <2>2 DEF Occupied, HoldingSteps
  <2>5. \A u \in Targets : Delivered(u)' <=> Delivered(u)
    BY <2>2, <2>3, <2>4 DEF Delivered, TypeOK
  <2> QED
    BY <2>2, <2>5, QuietDeliveries
<1>10. ASSUME NEW w \in Workers, ReadForRetry(w) PROVE Deliveries'
  <2>1. PICK at \in {"rewrite", "abort"} :
          /\ wpc[w] = "retry" /\ wpc' = [wpc EXCEPT ![w] = at]
          /\ UNCHANGED <<wtarget, status, posted, lost>>
    BY <1>10 DEF ReadForRetry, Goto
  <2> QED
    BY <2>1, QuietDeliveries DEF Delivered, TypeOK
<1>11. ASSUME NEW w \in Workers, WriteRetry(w) PROVE Deliveries'
  <2>1. PICK t \in Targets : t = wtarget[w]
    BY <1>11 DEF WriteRetry, TypeOK
  <2>2. /\ wpc[w] = "rewrite" /\ wpc' = [wpc EXCEPT ![w] = "requeue"]
        /\ status' = [status EXCEPT ![t] = "pending"]
        /\ UNCHANGED <<wtarget, posted, lost>>
    BY <1>11, <2>1 DEF WriteRetry, SetStatus, Goto
  <2>3. status[t] = "failed"
    BY <2>1, <2>2 DEF Occupied, GivingUpSteps
  <2>4. \A u \in Targets : Delivered(u)' <=> Delivered(u)
    BY <2>2, <2>3 DEF Delivered, TypeOK
  <2> QED
    BY <2>2, <2>4, QuietDeliveries
<1>12. ASSUME NEW w \in Workers, WorkerCrash(w) PROVE Deliveries'
  <2>1. PICK t \in Targets : t = wtarget[w]
    BY <1>12 DEF WorkerCrash, TypeOK
  <2>2. Finish(w) /\ UNCHANGED <<status, posted>>
    BY <1>12 DEF WorkerCrash
  <2>3. CASE wpc[w] = "sent"
    <3>1. lost' = [lost EXCEPT ![t] = @ + 1]
      BY <1>12, <2>1, <2>3 DEF WorkerCrash
    <3>2. Delivered(t) /\ lost'[t] = lost[t] + 1 /\ lost[t] \in Nat /\ posted[t] \in Nat
      BY <2>1, <2>3, <3>1 DEF Delivered, TypeOK
    <3>3. posted'[t] <= lost'[t]
      BY <2>2, <3>2 DEF Deliveries
    <3>4. \A u \in Targets \ {t} : (Delivered(u)' <=> Delivered(u)) /\ lost'[u] = lost[u]
      BY <2>1, <2>2, <3>1 DEF Finish, Delivered, TypeOK
    <3>5. posted'[t] <= lost'[t] + 1
      BY <3>2, <3>3, <2>2
    <3> QED
      BY <2>2, <3>3, <3>4, <3>5 DEF Deliveries
  <2>4. CASE wpc[w] # "sent"
    <3>1. lost' = lost
      BY <1>12, <2>4 DEF WorkerCrash
    <3>2. \A u \in Targets : Delivered(u)' <=> Delivered(u)
      BY <2>2, <2>4 DEF Finish, Delivered, TypeOK
    <3> QED
      BY <2>2, <3>1, <3>2, QuietDeliveries
  <2> QED
    BY <2>3, <2>4
<1>13. ASSUME NEW S \in SUBSET Targets, Recover(S) PROVE Deliveries'
  <2>1. /\ \A t \in S : status[t] = "publishing"
        /\ status' = [t \in Targets |-> IF t \in S THEN "pending" ELSE status[t]]
        /\ UNCHANGED <<wpc, wtarget, posted, lost>>
    BY <1>13 DEF Recover
  <2>2. \A u \in Targets : Delivered(u)' <=> Delivered(u)
    BY <2>1 DEF Delivered
  <2> QED
    BY <2>1, <2>2, QuietDeliveries
<1>14. CASE RecoverCrash \/ UNCHANGED vars
  BY <1>14, QuietDeliveries DEF RecoverCrash, vars, Delivered
<1> QED
  BY <1>1, <1>2, <1>3, <1>4, <1>5, <1>6, <1>7, <1>8, <1>9, <1>10, <1>11, <1>12, <1>13, <1>14,
     NextCases

DeliveriesUnlessOverrun == ~Overruns => Occupied /\ Deliveries

\* The platform has one post of a target, and of a live-sync post over all its
\* targets, beyond those whose answer was lost, as long as no publisher call
\* outlives the stuck timeout (and, for the second part, the first enqueue of
\* a live-sync target does not fail).
THEOREM PostedAtMostOnce == Spec => []AtMostOnce
<1>1. Init => DeliveriesUnlessOverrun
  BY InitOccupied, InitDeliveries DEF DeliveriesUnlessOverrun
<1>2. TypeOK /\ DeliveriesUnlessOverrun /\ [Next]_vars => DeliveriesUnlessOverrun'
  BY NextOccupied, NextDeliveries, HappenedGrows DEF DeliveriesUnlessOverrun, Overruns
<1>3. TypeOK /\ Deliveries => \A t \in Targets : posted[t] <= lost[t] + 1
  BY DEF Deliveries, TypeOK
<1>4. TypeOK /\ Occupied /\ Deliveries =>
        \A t \in Targets : posted[t] > lost[t] => Active(t)
  <2>1. ASSUME TypeOK, Occupied, Deliveries, NEW t \in Targets, posted[t] > lost[t]
        PROVE  Active(t)
    <3>1. posted[t] \in Nat /\ lost[t] \in Nat
      BY <2>1 DEF TypeOK
    <3>2. Delivered(t)
      BY <2>1, <3>1 DEF Deliveries
    <3> QED
      BY <2>1, <3>2 DEF Delivered, Active, Occupied, HoldingSteps
  <2> QED
    BY <2>1
<1>5. TypeOK /\ DeliveriesUnlessOverrun /\ OneTargetPerPost => AtMostOnce
  BY <1>3, <1>4 DEF AtMostOnce, OneTargetPerPost, DeliveriesUnlessOverrun, Overruns
<1> QED
  BY <1>1, <1>2, <1>5, TypeCorrect, OneTarget, PTL DEF Spec

-----------------------------------------------------------------------------
(* The detailed specification implements TargetLifecycle *)

\* What schedule_publication_target_retry read is still what the row holds
\* when it writes: nobody else retries a target between the two steps.
Counted ==
  \A w \in Workers : wpc[w] = "rewrite" => wcount[w] = retries[wtarget[w]]

LEMMA NextCounted ==
  ASSUME ~Overruns', TypeOK, Occupied, Counted, [Next]_vars
  PROVE  Counted'
<1> USE DEF rowVars, workerVars
<1>1. ASSUME NEW w \in Workers, WriteRetry(w) PROVE Counted'
  <2>1. PICK t \in Targets : t = wtarget[w]
    BY <1>1 DEF WriteRetry, TypeOK
  <2>2. /\ wpc[w] = "rewrite" /\ wpc' = [wpc EXCEPT ![w] = "requeue"]
        /\ retries' = [retries EXCEPT ![t] = wcount[w] + 1]
        /\ UNCHANGED <<wtarget, wcount>>
    BY <1>1, <2>1 DEF WriteRetry, Goto
  <2>3. \A v \in Workers \ {w} : wpc[v] = "rewrite" => wtarget[v] # t /\ wtarget[v] \in Targets
    BY <2>1, <2>2 DEF Occupied, GivingUpSteps, TypeOK
  <2> QED
    BY <2>1, <2>2, <2>3 DEF Counted, TypeOK
<1>2. ASSUME NEW w \in Workers, ReadForRetry(w) PROVE Counted'
  <2>1. UNCHANGED <<wtarget, retries>>
    BY <1>2 DEF ReadForRetry, Goto
  <2>2. \A v \in Workers \ {w} : wpc'[v] = wpc[v] /\ wcount'[v] = wcount[v]
    BY <1>2 DEF ReadForRetry, Goto, TypeOK
  <2>3. wpc'[w] = "rewrite" => wcount'[w] = retries[wtarget[w]]
    BY <1>2 DEF ReadForRetry, Goto, TypeOK
  <2> QED
    BY <2>1, <2>2, <2>3 DEF Counted
<1>3. ASSUME NEW w \in Workers,
             \/ RecordMessageId(w) \/ Requeue(w) \/ Abort(w) \/ WorkerCrash(w)
      PROVE Counted'
  <2>1. Finish(w) /\ UNCHANGED retries
    BY <1>3 DEF RecordMessageId, Requeue, Abort, WorkerCrash
  <2> QED
    BY <2>1 DEF Finish, Counted, TypeOK
<1>4. ASSUME NEW w \in Workers,
             \/ Claim(w) \/ Publish(w) \/ PublishReplyLost(w) \/ CommitPublished(w) \/ MarkFailed(w)
      PROVE Counted'
  <2>1. UNCHANGED retries
    BY <1>4 DEF Claim, Publish, PublishReplyLost, CommitPublished, MarkFailed
  <2>2. \/ Finish(w)
        \/ \E at \in Steps \ {"rewrite"} : Goto(w, at)
    BY <1>4 DEF Claim, Publish, PublishReplyLost, CommitPublished, MarkFailed, Goto, Steps
  <2>3. CASE Finish(w)
    BY <2>1, <2>3 DEF Finish, Counted, TypeOK
  <2>4. CASE \E at \in Steps \ {"rewrite"} : Goto(w, at)
    BY <2>1, <2>4 DEF Goto, Counted, TypeOK
  <2> QED
    BY <2>2, <2>3, <2>4
<1>5. ASSUME NEW w \in Workers, NEW t \in Targets, NEW live \in BOOLEAN, Receive(w, t, live)
      PROVE Counted'
  BY <1>5 DEF Receive, Counted, TypeOK
<1>6. ASSUME UNCHANGED <<retries, workerVars>> PROVE Counted'
  BY <1>6 DEF Counted
<1>7. ASSUME NEW t \in Targets,
             \/ \E p \in Posts : IngestLive(p, t)
             \/ CreateDirect(t) \/ EnqueueCreated(t) \/ EnqueueFails(t) \/ CreatorCrash(t)
             \/ Dispatch(t) \/ EnqueueRecovered(t)
      PROVE Counted'
  BY <1>6, <1>7 DEF IngestLive, CreateDirect, EnqueueCreated, EnqueueFails, CreatorCrash,
                    Dispatch, EnqueueRecovered
<1>8. ASSUME NEW S \in SUBSET Targets, Recover(S) PROVE Counted'
  BY <1>6, <1>8 DEF Recover
<1>9. CASE RecoverCrash \/ UNCHANGED vars
  BY <1>6, <1>9 DEF RecoverCrash, vars
<1> QED
  BY <1>1, <1>2, <1>3, <1>4, <1>5, <1>7, <1>8, <1>9, NextCases

LEMMA StepImplements ==
  ASSUME ~Overruns', TypeOK, Occupied, Counted, [Next]_vars
  PROVE  [Lifecycle!Next]_(Lifecycle!lifecycleVars)
<1> USE DEF rowVars, workerVars, Lifecycle!lifecycleVars
<1>1. ASSUME NEW t \in Targets,
             \/ \E p \in Posts : IngestLive(p, t)
             \/ CreateDirect(t)
      PROVE Lifecycle!Create(t)
  BY <1>1 DEF IngestLive, CreateDirect, Lifecycle!Create, Lifecycle!Move
<1>2. ASSUME NEW w \in Workers, Claim(w)
      PROVE \/ UNCHANGED <<status, retries>>
            \/ \E t \in Targets : Lifecycle!Claim(t)
  BY <1>2 DEF Claim, SetStatus, TypeOK, Lifecycle!Claim, Lifecycle!Move
<1>3. ASSUME NEW w \in Workers, CommitPublished(w)
      PROVE \E t \in Targets : Lifecycle!Succeed(t)
  BY <1>3 DEF CommitPublished, SetStatus, TypeOK, Occupied, HoldingSteps,
              Lifecycle!Succeed, Lifecycle!Move
<1>4. ASSUME NEW w \in Workers, MarkFailed(w)
      PROVE \E t \in Targets : Lifecycle!Fail(t)
  BY <1>4 DEF MarkFailed, SetStatus, TypeOK, Occupied, HoldingSteps,
              Lifecycle!Fail, Lifecycle!Move
<1>5. ASSUME NEW w \in Workers, WriteRetry(w)
      PROVE \E t \in Targets : Lifecycle!Retry(t)
  <2>1. PICK t \in Targets : t = wtarget[w]
    BY <1>5 DEF WriteRetry, TypeOK
  <2>2. wpc[w] = "rewrite" /\ wcount[w] = retries[t] /\ status[t] = "failed"
    BY <1>5, <2>1 DEF WriteRetry, Counted, Occupied, GivingUpSteps
  <2>3. retries[t] < MaxRetries
    BY <2>2 DEF TypeOK
  <2>4. Lifecycle!Retry(t)
    BY <1>5, <2>1, <2>2, <2>3 DEF WriteRetry, SetStatus, Lifecycle!Retry, Lifecycle!Move
  <2> QED
    BY <2>4
<1>6. ASSUME NEW S \in SUBSET Targets, Recover(S) PROVE Lifecycle!Recover(S)
  BY <1>6 DEF Recover, Lifecycle!Recover
<1>7. ASSUME NEW w \in Workers,
             \/ \E t \in Targets, live \in BOOLEAN : Receive(w, t, live)
             \/ Publish(w) \/ PublishReplyLost(w) \/ RecordMessageId(w) \/ ReadForRetry(w)
             \/ Requeue(w) \/ Abort(w) \/ WorkerCrash(w)
      PROVE UNCHANGED <<status, retries>>
  BY <1>7 DEF Receive, Publish, PublishReplyLost, RecordMessageId, ReadForRetry, Requeue, Abort,
              WorkerCrash
<1>8. ASSUME NEW t \in Targets,
             \/ EnqueueCreated(t) \/ EnqueueFails(t) \/ CreatorCrash(t)
             \/ Dispatch(t) \/ EnqueueRecovered(t)
      PROVE UNCHANGED <<status, retries>>
  BY <1>8 DEF EnqueueCreated, EnqueueFails, CreatorCrash, Dispatch, EnqueueRecovered
<1>9. CASE RecoverCrash \/ UNCHANGED vars
  BY <1>9 DEF RecoverCrash, vars
<1> QED
  BY <1>1, <1>2, <1>3, <1>4, <1>5, <1>6, <1>7, <1>8, <1>9, NextCases DEF Lifecycle!Next

\* As long as no publisher call outlives the stuck timeout, the row of a
\* target goes through the steps of TargetLifecycle and no others: published
\* is final, a failed target comes back at most MaxRetries times.
THEOREM TargetsImplementLifecycle == "overrun" \notin Faults => (Spec => ImplementsLifecycle)
<1> SUFFICES ASSUME "overrun" \notin Faults PROVE Spec => ImplementsLifecycle
  OBVIOUS
<1>1. Init => Lifecycle!Init
  BY DEF Init, Lifecycle!Init
<1>2. Init => Counted
  BY DEF Init, Counted
<1>3. TypeOK' => ~Overruns'
  BY DEF TypeOK, Overruns
<1>4. TypeOK /\ TypeOK' /\ Occupied /\ Counted /\ [Next]_vars
        => Occupied' /\ Counted' /\ [Lifecycle!Next]_(Lifecycle!lifecycleVars)
  BY <1>3, NextOccupied, NextCounted, StepImplements
<1> QED
  BY <1>1, <1>2, <1>4, InitOccupied, TypeCorrect, PTL DEF Spec, ImplementsLifecycle, Lifecycle!Spec

-----------------------------------------------------------------------------
(* Requests that have a model write *)

\* Every answer is the one that is kept under its key, and a request whose
\* transaction was committed is kept under its key itself.
AnswersKept ==
  \A r \in Requests :
    /\ asked[r] # Texts!Idle
    /\ asked[r].key # None
    => /\ r \in effects => answers[asked[r].key] = r
       /\ asked[r].answer # None => answers[asked[r].key] = asked[r].answer

EffectsAnswered == \A r \in effects : asked[r].pc = "done"

\* Of TypeOK, what concerns the requests.
RequestsTyped ==
  /\ answers \in [Keys -> Requests \cup {None}] /\ effects \subseteq Requests
  /\ asked \in [Requests -> Texts!Received \cup {Texts!Idle}]

\* A version's number is at most one more than the transactions committed so far.
Numbered ==
  /\ \A v \in versions : v.version <= Cardinality(effects) + 1
  /\ \A r \in Requests : asked[r] # Texts!Idle /\ asked[r].seen # None =>
       asked[r].seen.version <= Cardinality(effects) + 1

\* A post that a request makes is there after its commit only, a target shows a version of
\* its own post, who adapts has a channel and has seen a version of the post.
Owned ==
  /\ \A t \in DOMAIN target : t[1] \in Posts \cup effects /\ target[t].post = t[1]
  /\ \A r \in Requests : asked[r] # Texts!Idle =>
       /\ asked[r].op = "adapt" => asked[r].channels # {}
       /\ asked[r].seen # None => asked[r].seen.post = asked[r].post

TextsInv == Texts!TypeOK /\ Numbered /\ Owned /\ EffectsAnswered /\ AnswersKept

LEMMA ReceivedFields ==
  ASSUME RequestsTyped, NEW r \in Requests
  PROVE  /\ asked[r] # Texts!Idle =>
              /\ asked[r] \in Texts!Received /\ asked[r].op \in Texts!Ops
              /\ asked[r].pc \in {"call", "seen", "send", "commit", "done"}
              /\ asked[r].key \in Keys \cup {None}
              /\ asked[r].post \in Texts!AllPosts \cup {None}
              /\ asked[r].channels \subseteq Channels
              /\ asked[r].seen \in Texts!Versions \cup {None}
              /\ asked[r].answer \in Requests \cup {None}
         /\ asked[r].pc # "idle" => asked[r] # Texts!Idle
  BY DEF RequestsTyped, Texts!Received, Texts!Idle

\* A step of a request that writes nothing.
LEMMA MovesKeep ==
  ASSUME RequestsTyped, EffectsAnswered, AnswersKept, NEW r \in Requests,
         asked[r] # Texts!Idle, asked[r].pc # "done",
         NEW new \in Texts!Received, asked' = [asked EXCEPT ![r] = new],
         new.key = asked[r].key,
         new.key # None /\ new.answer # None => answers[new.key] = new.answer,
         UNCHANGED <<answers, effects>>
  PROVE  RequestsTyped' /\ EffectsAnswered' /\ AnswersKept'
<1>1. RequestsTyped'
  BY DEF RequestsTyped
<1>2. \A x \in Requests : asked'[x] = IF x = r THEN new ELSE asked[x]
  BY DEF RequestsTyped
<1>3. r \notin effects
  BY DEF EffectsAnswered
<1>4. EffectsAnswered'
  BY <1>2, <1>3 DEF EffectsAnswered, RequestsTyped
<1>5. AnswersKept'
  BY <1>2, <1>3 DEF AnswersKept
<1> QED
  BY <1>1, <1>4, <1>5

\* Most of them change nothing but what the request is at, what it has seen and
\* its answer.
LEMMA UpdateKeeps ==
  ASSUME RequestsTyped, EffectsAnswered, AnswersKept, NEW r \in Requests,
         asked[r] # Texts!Idle, asked[r].pc # "done",
         NEW pc \in {"seen", "send", "commit", "done"},
         NEW seen \in Texts!Versions \cup {None},
         NEW answer \in Requests \cup {None},
         asked[r].key # None /\ answer # None => answers[asked[r].key] = answer,
         asked' = [asked EXCEPT ![r] = [asked[r] EXCEPT !.pc = pc, !.seen = seen, !.answer = answer]],
         UNCHANGED <<answers, effects>>
  PROVE  RequestsTyped' /\ EffectsAnswered' /\ AnswersKept'
<1> DEFINE new == [asked[r] EXCEPT !.pc = pc, !.seen = seen, !.answer = answer]
<1>1. asked[r] \in Texts!Received
  BY DEF RequestsTyped
<1>2. new \in Texts!Received /\ new.key = asked[r].key /\ new.answer = answer
  BY <1>1 DEF Texts!Received
<1> HIDE DEF new
<1>3. asked' = [asked EXCEPT ![r] = new]
  BY DEF new
<1> QED
  BY <1>2, <1>3, MovesKeep

LEMMA ReceiveKeeps ==
  ASSUME RequestsTyped, EffectsAnswered, AnswersKept, NEW r \in Requests,
         NEW op \in Texts!Ops, NEW c \in Texts!AllPosts \cup {None}, NEW hs \in SUBSET Channels,
         NEW dispatch \in BOOLEAN, NEW key \in Keys \cup {None},
         Texts!Receive(r, op, c, hs, dispatch, key)
  PROVE  RequestsTyped' /\ EffectsAnswered' /\ AnswersKept'
<1> DEFINE kept == key # None /\ answers[key] # None
           new == [pc |-> IF kept THEN "done" ELSE "call", op |-> op, key |-> key, post |-> c,
                   channels |-> hs, dispatch |-> dispatch, seen |-> None,
                   answer |-> IF kept THEN answers[key] ELSE None]
<1>1. new \in Texts!Received
  BY DEF Texts!Received, RequestsTyped
<1>2. new.key = key /\ (key # None /\ new.answer # None => new.answer = answers[key])
  OBVIOUS
<1>3. asked[r] = Texts!Idle /\ asked' = [asked EXCEPT ![r] = new] /\ UNCHANGED <<answers, effects>>
  BY DEF Texts!Receive
<1> HIDE DEF new
<1>4. RequestsTyped'
  BY <1>1, <1>3 DEF RequestsTyped
<1>5. \A x \in Requests : asked'[x] = IF x = r THEN new ELSE asked[x]
  BY <1>3 DEF RequestsTyped
<1>6. r \notin effects
  BY <1>3 DEF EffectsAnswered, Texts!Idle
<1>7. EffectsAnswered'
  BY <1>3, <1>5, <1>6 DEF EffectsAnswered, RequestsTyped
<1>8. AnswersKept'
  BY <1>2, <1>3, <1>5, <1>6 DEF AnswersKept
<1> QED
  BY <1>4, <1>7, <1>8

\* The transaction has the effect and keeps the answer in one.
LEMMA CommitKeeps ==
  ASSUME None \notin Requests, RequestsTyped, EffectsAnswered, AnswersKept, NEW r \in Requests, Texts!Commit(r)
  PROVE  RequestsTyped' /\ EffectsAnswered' /\ AnswersKept'
<1> DEFINE new == [asked[r] EXCEPT !.pc = "done", !.answer = r]
           key == asked[r].key
<1>1. asked[r] \in Texts!Received /\ asked[r].pc = "commit"
  BY DEF Texts!Commit, RequestsTyped, Texts!Idle
<1>2. new \in Texts!Received /\ new.key = key /\ new.answer = r /\ new.pc = "done" /\ new # Texts!Idle
  BY <1>1 DEF Texts!Received, Texts!Idle
<1>3. /\ asked' = [asked EXCEPT ![r] = new]
      /\ answers' = IF key = None THEN answers ELSE [answers EXCEPT ![key] = r]
      /\ effects' = effects \cup {r}
      /\ key # None => answers[key] = None
  BY DEF Texts!Commit, Texts!Clashes
<1>4. key \in Keys \cup {None}
  BY <1>1 DEF Texts!Received
<1> HIDE DEF new, key
<1>5. RequestsTyped'
  BY <1>2, <1>3, <1>4 DEF RequestsTyped
<1>6. \A x \in Requests : asked'[x] = IF x = r THEN new ELSE asked[x]
  BY <1>3 DEF RequestsTyped
<1>7. EffectsAnswered'
  BY <1>2, <1>3, <1>6 DEF EffectsAnswered, RequestsTyped
<1>8. ASSUME NEW x \in Requests, asked'[x] # Texts!Idle, asked'[x].key # None
      PROVE  /\ x \in effects' => answers'[asked'[x].key] = x
             /\ asked'[x].answer # None => answers'[asked'[x].key] = asked'[x].answer
  <2>1. CASE x = r
    BY <1>2, <1>3, <1>4, <1>6, <1>8, <2>1 DEF RequestsTyped
  <2>2. CASE x # r /\ asked[x].key = key
    BY <1>3, <1>6, <1>8, <2>2 DEF AnswersKept, RequestsTyped
  <2>3. CASE x # r /\ asked[x].key # key
    <3>1. asked[x].key \in Keys
      BY <1>6, <1>8, <2>3 DEF RequestsTyped, Texts!Received
    <3>2. answers'[asked[x].key] = answers[asked[x].key]
      BY <1>3, <2>3, <3>1 DEF RequestsTyped
    <3> QED
      BY <1>3, <1>6, <1>8, <2>3, <3>2 DEF AnswersKept
  <2> QED
    BY <2>1, <2>2, <2>3
<1>9. AnswersKept'
  BY <1>8 DEF AnswersKept
<1> QED
  BY <1>5, <1>7, <1>9

\* What is committed: posts, versions, targets, messages.
ContentTyped ==
  /\ posts \subseteq Texts!AllPosts /\ versions \subseteq Texts!Versions
  /\ DOMAIN target \subseteq Texts!Slots /\ \A t \in DOMAIN target : target[t] \in versions
  /\ sent \subseteq Texts!Slots

LEMMA TextsTypeParts ==
  Texts!TypeOK <=> ContentTyped /\ RequestsTyped /\ misses \in 0..MaxMisses
  BY DEF Texts!TypeOK, ContentTyped, RequestsTyped

LEMMA CountsAre ==
  ASSUME Texts!ConstantsOK, RequestsTyped
  PROVE  /\ Cardinality(effects) \in Nat /\ Cardinality(Requests) \in Nat
         /\ Texts!Cardinality(Requests) = Cardinality(Requests)
<1>1. effects \subseteq Requests /\ IsFiniteSet(Requests)
  BY DEF RequestsTyped, Texts!ConstantsOK, Texts!IsFiniteSet, IsFiniteSet
<1> QED
  BY <1>1, FS_Subset, FS_CardinalityType DEF Texts!Cardinality, Cardinality

LEMMA Counts ==
  ASSUME Texts!ConstantsOK, effects \subseteq Requests, effects' \subseteq Requests
  PROVE  /\ Cardinality(effects) \in Nat /\ Cardinality(Requests) \in Nat
         /\ Cardinality(effects) <= Cardinality(Requests)
         /\ Cardinality(effects') <= Cardinality(Requests)
         /\ \A r : effects' = effects \cup {r} /\ r \notin effects =>
               Cardinality(effects') = Cardinality(effects) + 1
         /\ Texts!Cardinality(Requests) = Cardinality(Requests)
<1>1. IsFiniteSet(Requests)
  BY DEF Texts!ConstantsOK, Texts!IsFiniteSet, IsFiniteSet
<1>2. Texts!Cardinality(Requests) = Cardinality(Requests)
  BY DEF Texts!Cardinality, Cardinality
<1> QED
  BY <1>1, <1>2, FS_Subset, FS_CardinalityType, FS_AddElement

\* A step that commits nothing keeps what is committed, and what was seen of it.
LEMMA ContentSteady ==
  ASSUME ContentTyped, Numbered, RequestsTyped, RequestsTyped',
         UNCHANGED <<posts, versions, target, effects>>, sent' \subseteq Texts!Slots,
         \A r \in Requests : asked'[r] # Texts!Idle /\ asked'[r].seen # None =>
           \/ asked[r] # Texts!Idle /\ asked'[r].seen = asked[r].seen
           \/ asked'[r].seen \in versions
  PROVE  ContentTyped' /\ Numbered'
<1>1. ContentTyped'
  BY DEF ContentTyped
<1>2. Numbered'
  BY DEF Numbered
<1> QED
  BY <1>1, <1>2

\* A step that commits adds versions of the next number at most.
LEMMA ContentGrows ==
  ASSUME Texts!ConstantsOK, ContentTyped, Numbered, RequestsTyped, RequestsTyped',
         NEW r \in Requests, r \notin effects, effects' = effects \cup {r},
         \A x \in Requests : asked'[x].seen = asked[x].seen /\ (asked'[x] # Texts!Idle => asked[x] # Texts!Idle),
         posts' \subseteq Texts!AllPosts, DOMAIN target' \subseteq Texts!Slots, UNCHANGED sent,
         \A t \in DOMAIN target' : target'[t] \in versions',
         \A v \in versions' :
            /\ v.by \in Requests \cup {None} /\ v.post \in Texts!AllPosts /\ v.channel \in Channels
            /\ v.text \in Requests \cup {None} /\ v.version \in Nat \ {0}
            /\ v = [by |-> v.by, post |-> v.post, channel |-> v.channel, version |-> v.version,
                    text |-> v.text]
            /\ v.version <= Cardinality(effects) + 2
  PROVE  ContentTyped' /\ Numbered'
<1>1. /\ Cardinality(effects) \in Nat /\ Cardinality(Requests) \in Nat
      /\ Cardinality(effects') = Cardinality(effects) + 1
      /\ Cardinality(effects') <= Cardinality(Requests)
      /\ Texts!Cardinality(Requests) = Cardinality(Requests)
  BY Counts DEF RequestsTyped
<1>2. \A v \in versions' : v.version \in 1..(Cardinality(Requests) + 1)
  BY <1>1
<1>3. versions' \subseteq Texts!Versions
  BY <1>1, <1>2 DEF Texts!Versions
<1>4. ContentTyped'
  BY <1>3 DEF ContentTyped
<1>5. \A x \in Requests : asked'[x] # Texts!Idle /\ asked'[x].seen # None =>
        asked'[x].seen.version <= Cardinality(effects) + 1 /\ asked'[x].seen.version \in Nat
  <2> SUFFICES ASSUME NEW x \in Requests, asked'[x] # Texts!Idle, asked'[x].seen # None
               PROVE  /\ asked'[x].seen.version <= Cardinality(effects) + 1
                      /\ asked'[x].seen.version \in Nat
    OBVIOUS
  <2>1. asked[x] # Texts!Idle /\ asked[x].seen = asked'[x].seen
    OBVIOUS
  <2>2. asked[x].seen \in Texts!Versions
    BY <2>1, ReceivedFields
  <2>3. asked[x].seen.version \in Nat
    BY <1>1, <2>2 DEF Texts!Versions
  <2>4. asked[x].seen.version <= Cardinality(effects) + 1
    BY <2>1 DEF Numbered
  <2> QED
    BY <2>1, <2>3, <2>4
<1> DEFINE n == Cardinality(effects)  m == Cardinality(effects')
<1>6. m = n + 1 /\ n \in Nat
  BY <1>1
<1>7. \A v \in versions' : v.version \in Nat /\ v.version <= n + 2
  OBVIOUS
<1> HIDE DEF n, m
<1>8. \A v \in versions' : v.version <= m + 1
  BY <1>6, <1>7
<1>9. \A x \in Requests : asked'[x] # Texts!Idle /\ asked'[x].seen # None => asked'[x].seen.version <= m + 1
  BY <1>5, <1>6 DEF n
<1>10. Numbered'
  BY <1>8, <1>9 DEF Numbered, m
<1> QED
  BY <1>4, <1>10

\* A request goes on, and commits nothing.
Waits(r) == Texts!Call(r) \/ Texts!Fail(r) \/ Texts!ReadLatest(r) \/ Texts!Send(r) \/ Texts!Rollback(r)

LEMMA TextsNextCases ==
  ASSUME Texts!Next
  PROVE  \/ \E r \in Requests : Texts!Requested(r)
         \/ \E r \in Requests : Waits(r)
         \/ \E r \in Requests : Texts!Commit(r)
         \/ \E c \in Texts!AllPosts : Texts!DeletePost(c)
  BY DEF Texts!Next, Waits

LEMMA InitTexts == Texts!ConstantsOK /\ Texts!Init => TextsInv
<1> SUFFICES ASSUME Texts!ConstantsOK, Texts!Init PROVE TextsInv
  OBVIOUS
<1>1. Cardinality(effects) = 0
  BY FS_EmptySet DEF Texts!Init
<1>2. Cardinality(Requests) \in Nat /\ Texts!Cardinality(Requests) = Cardinality(Requests)
  BY FS_CardinalityType DEF Texts!ConstantsOK, Texts!IsFiniteSet, IsFiniteSet, Texts!Cardinality, Cardinality
<1>3. versions \subseteq Texts!Versions /\ \A v \in versions : v.version = 1
  BY <1>2 DEF Texts!Init, Texts!FirstVersion, Texts!Versions, Texts!AllPosts
<1>4. ContentTyped
  BY <1>3 DEF ContentTyped, Texts!Init, Texts!FirstVersion, Texts!AllPosts, Texts!Slots
<1>5. RequestsTyped /\ EffectsAnswered /\ AnswersKept
  BY DEF RequestsTyped, EffectsAnswered, AnswersKept, Texts!Init
<1>6. misses \in 0..MaxMisses
  BY DEF Texts!Init, Texts!ConstantsOK
<1>7. Numbered
  BY <1>1, <1>3 DEF Numbered, Texts!Init
<1>8. Owned
  BY DEF Owned, Texts!Init, Texts!FirstVersion
<1> QED
  BY <1>4, <1>5, <1>6, <1>7, <1>8, TextsTypeParts DEF TextsInv

LEMMA RequestedKeeps ==
  ASSUME Texts!ConstantsOK, TextsInv, NEW r \in Requests, Texts!Requested(r)
  PROVE  TextsInv'
<1>1. ContentTyped /\ RequestsTyped /\ misses \in 0..MaxMisses
  BY TextsTypeParts DEF TextsInv
<1>2. PICK op \in Texts!Ops, c \in Texts!AllPosts \cup {None}, hs \in SUBSET Channels,
           dispatch \in BOOLEAN, key \in Keys \cup {None} :
        Texts!Receive(r, op, c, hs, dispatch, key) /\ (op = "adapt" => hs # {})
  <2>1. PICK key \in Keys \cup {None} :
          \/ \E c \in posts, h \in Channels : Texts!Receive(r, "adapt", c, {h}, FALSE, key)
          \/ \E c \in posts : Texts!Receive(r, "rewrite", c, {}, FALSE, key)
          \/ Texts!Receive(r, "draft", None, {}, FALSE, key)
          \/ \E hs \in SUBSET Channels \ {{}}, dispatch \in BOOLEAN :
                Texts!Receive(r, "plan", None, hs, dispatch, key)
    BY DEF Texts!Requested
  <2>2. {"adapt", "rewrite", "draft", "plan"} = Texts!Ops /\ posts \subseteq Texts!AllPosts
    BY <1>1 DEF Texts!Ops, ContentTyped
  <2>3. CASE \E c \in posts, h \in Channels : Texts!Receive(r, "adapt", c, {h}, FALSE, key)
    <3>1. PICK c \in posts, h \in Channels : Texts!Receive(r, "adapt", c, {h}, FALSE, key)
      BY <2>3
    <3>2. {h} \in SUBSET Channels /\ {h} # {} /\ c \in Texts!AllPosts \cup {None} /\ "adapt" \in Texts!Ops
      BY <2>2
    <3> QED
      BY <3>1, <3>2
  <2>4. CASE \E c \in posts : Texts!Receive(r, "rewrite", c, {}, FALSE, key)
    <3>1. PICK c \in posts : Texts!Receive(r, "rewrite", c, {}, FALSE, key)
      BY <2>4
    <3>2. {} \in SUBSET Channels /\ c \in Texts!AllPosts \cup {None} /\ "rewrite" \in Texts!Ops
      BY <2>2
    <3> QED
      BY <3>1, <3>2
  <2>5. CASE Texts!Receive(r, "draft", None, {}, FALSE, key)
    <3>1. {} \in SUBSET Channels /\ "draft" \in Texts!Ops
      BY <2>2
    <3> QED
      BY <2>5, <3>1
  <2>6. CASE \E hs \in SUBSET Channels \ {{}}, dispatch \in BOOLEAN :
               Texts!Receive(r, "plan", None, hs, dispatch, key)
    <3>1. "plan" \in Texts!Ops
      BY <2>2
    <3> QED
      BY <2>6, <3>1
  <2> QED
    BY <2>1, <2>3, <2>4, <2>5, <2>6
<1>3. RequestsTyped' /\ EffectsAnswered' /\ AnswersKept'
  BY <1>1, <1>2, ReceiveKeeps DEF TextsInv
<1>4. \A x \in Requests : asked'[x] = asked[x] \/ asked'[x].seen = None
  BY <1>1, <1>2 DEF Texts!Receive, RequestsTyped
<1>5. UNCHANGED <<posts, versions, target, effects, sent, misses>>
  BY <1>2 DEF Texts!Receive, Texts!contentVars
<1>6. ContentTyped' /\ Numbered'
  BY <1>1, <1>3, <1>4, <1>5, ContentSteady DEF TextsInv, ContentTyped
<1>7. \A x \in Requests : asked'[x] = asked[x]
                          \/ (asked'[x].op = op /\ asked'[x].channels = hs /\ asked'[x].seen = None)
  BY <1>1, <1>2 DEF Texts!Receive, RequestsTyped
<1>8. Owned'
  BY <1>2, <1>5, <1>7 DEF Owned, TextsInv
<1> QED
  BY <1>1, <1>3, <1>5, <1>6, <1>8 DEF TextsInv, Texts!TypeOK, ContentTyped, RequestsTyped

LEMMA WaitsKeeps ==
  ASSUME Texts!ConstantsOK, TextsInv, NEW r \in Requests, Waits(r)
  PROVE  TextsInv'
<1>1. ContentTyped /\ RequestsTyped /\ misses \in 0..MaxMisses /\ EffectsAnswered /\ AnswersKept /\ Numbered
  BY TextsTypeParts DEF TextsInv
<1>2. asked[r].pc \notin {"idle", "done"} /\ UNCHANGED <<posts, versions, target, answers, effects>>
  BY DEF Waits, Texts!Call, Texts!Fail, Texts!ReadLatest, Texts!Send, Texts!Rollback, Texts!contentVars
<1>3. asked[r] # Texts!Idle
  BY <1>2 DEF Texts!Idle
<1>4. asked[r].seen \in Texts!Versions \cup {None} /\ asked[r].answer \in Requests \cup {None}
  BY <1>1, <1>3, ReceivedFields
<1>5. asked[r].key # None /\ asked[r].answer # None => answers[asked[r].key] = asked[r].answer
  BY <1>1, <1>3 DEF AnswersKept
<1>6. misses' \in 0..MaxMisses
  BY <1>1 DEF Waits, Texts!Call, Texts!Fail, Texts!ReadLatest, Texts!Send, Texts!Rollback, Texts!Fault,
       Texts!ConstantsOK
<1>7. sent' \subseteq Texts!Slots
  <2>1. {r} \X asked[r].channels \subseteq Texts!Slots
    BY <1>1, <1>3, ReceivedFields DEF Texts!Slots, Texts!AllPosts
  <2> QED
    BY <1>1, <2>1 DEF Waits, Texts!Call, Texts!Fail, Texts!ReadLatest, Texts!Send, Texts!Rollback, ContentTyped
<1>8. \E pc \in {"seen", "send", "commit", "done"}, seen \in versions \cup {None, asked[r].seen},
        answer \in Requests \cup {None} :
        /\ seen # None => seen.post = asked[r].post
        /\ asked' = [asked EXCEPT ![r] = [asked[r] EXCEPT !.pc = pc, !.seen = seen, !.answer = answer]]
        /\ asked[r].key # None /\ answer # None => answers[asked[r].key] = answer
  <2> DEFINE old == asked[r]
  <2>1. old \in Texts!Received
    BY <1>1, <1>3 DEF RequestsTyped
  <2>0. old.seen # None => old.seen.post = old.post
    BY <1>3 DEF Owned, TextsInv
  <2>2. \A pc : [old EXCEPT !.pc = pc] = [old EXCEPT !.pc = pc, !.seen = old.seen, !.answer = old.answer]
    BY <2>1 DEF Texts!Received
  <2>3. CASE Texts!Call(r)
    <3>1. PICK pc \in {"seen", "send", "commit"} : asked' = [asked EXCEPT ![r] = [old EXCEPT !.pc = pc]]
      BY <1>1, <2>3 DEF Texts!Call, Texts!Goto, RequestsTyped
    <3>2. asked' = [asked EXCEPT ![r] = [old EXCEPT !.pc = pc, !.seen = old.seen, !.answer = old.answer]]
      BY <2>2, <3>1
    <3> QED
      BY <1>4, <1>5, <2>0, <3>2
  <2>4. CASE Texts!Fail(r)
    BY <1>1, <1>4, <1>5, <2>0, <2>2, <2>4 DEF Texts!Fail, Texts!Goto, RequestsTyped
  <2>5. CASE Texts!ReadLatest(r)
    <3> DEFINE vs == Texts!VersionsOf(old.post, CHOOSE h \in old.channels : TRUE)
    <3>1. vs \subseteq versions /\ \A v \in vs : v.post = old.post
      BY DEF Texts!VersionsOf
    <3> HIDE DEF vs
    <3>2. PICK v \in IF vs = {} THEN {None} ELSE {u \in vs : u.version = Texts!Latest(vs).version} :
            asked' = [asked EXCEPT ![r] = [old EXCEPT !.pc = "commit", !.seen = v]]
      BY <1>1, <2>5 DEF Texts!ReadLatest, RequestsTyped, vs
    <3>3. v \in versions \cup {None} /\ (v # None => v.post = old.post)
      BY <3>1, <3>2
    <3>4. [old EXCEPT !.pc = "commit", !.seen = v] = [old EXCEPT !.pc = "commit", !.seen = v, !.answer = old.answer]
      BY <2>1 DEF Texts!Received
    <3> QED
      BY <1>4, <1>5, <3>2, <3>3, <3>4
  <2>6. CASE Texts!Send(r)
    <3>1. asked' = [asked EXCEPT ![r] = [old EXCEPT !.pc = "commit", !.seen = old.seen, !.answer = old.answer]]
      BY <1>1, <2>2, <2>6 DEF Texts!Send, Texts!Goto, RequestsTyped
    <3> QED
      BY <1>4, <1>5, <2>0, <3>1
  <2>7. CASE Texts!Rollback(r)
    <3> DEFINE answer == IF old.key = None THEN None ELSE answers[old.key]
    <3>1. asked' = [asked EXCEPT ![r] = [old EXCEPT !.pc = "done", !.answer = answer]]
      BY <1>1, <2>7 DEF Texts!Rollback, RequestsTyped
    <3>2. answer \in Requests \cup {None}
      BY <1>1, <2>1 DEF RequestsTyped, Texts!Received
    <3> HIDE DEF answer
    <3>3. [old EXCEPT !.pc = "done", !.answer = answer]
            = [old EXCEPT !.pc = "done", !.seen = old.seen, !.answer = answer]
      BY <2>1 DEF Texts!Received
    <3> QED
      BY <2>0, <3>1, <3>2, <3>3 DEF answer
  <2> QED
    BY <2>3, <2>4, <2>5, <2>6, <2>7 DEF Waits
<1>9. PICK pc \in {"seen", "send", "commit", "done"}, seen \in versions \cup {None, asked[r].seen},
           answer \in Requests \cup {None} :
        /\ seen # None => seen.post = asked[r].post
        /\ asked' = [asked EXCEPT ![r] = [asked[r] EXCEPT !.pc = pc, !.seen = seen, !.answer = answer]]
        /\ asked[r].key # None /\ answer # None => answers[asked[r].key] = answer
  BY <1>8
<1>10. seen \in Texts!Versions \cup {None}
  BY <1>1, <1>4, <1>9 DEF ContentTyped
<1>11. RequestsTyped' /\ EffectsAnswered' /\ AnswersKept'
  BY <1>1, <1>2, <1>3, <1>9, <1>10, UpdateKeeps
<1>12. \A x \in Requests : asked'[x].seen = asked[x].seen \/ asked'[x].seen \in versions \cup {None}
  <2>1. [asked[r] EXCEPT !.pc = pc, !.seen = seen, !.answer = answer].seen = seen
    BY <1>1, <1>3 DEF RequestsTyped, Texts!Received
  <2> QED
    BY <1>1, <1>9, <2>1 DEF RequestsTyped
<1>13. \A x \in Requests : asked'[x] # Texts!Idle => asked[x] # Texts!Idle
  BY <1>1, <1>3, <1>9 DEF RequestsTyped
<1>14. ContentTyped' /\ Numbered'
  BY <1>1, <1>2, <1>7, <1>11, <1>12, <1>13, ContentSteady
<1>15. /\ asked'[r].op = asked[r].op /\ asked'[r].channels = asked[r].channels
       /\ asked'[r].post = asked[r].post /\ asked'[r].seen = seen
  <2>1. asked[r] \in Texts!Received
    BY <1>1, <1>3 DEF RequestsTyped
  <2>2. asked'[r] = [asked[r] EXCEPT !.pc = pc, !.seen = seen, !.answer = answer]
    BY <1>1, <1>9 DEF RequestsTyped
  <2> QED
    BY <2>1, <2>2 DEF Texts!Received
<1>16. \A x \in Requests : x # r => asked'[x] = asked[x]
  BY <1>1, <1>9 DEF RequestsTyped
<1>17. Owned'
  BY <1>2, <1>3, <1>9, <1>15, <1>16 DEF Owned, TextsInv
<1> QED
  BY <1>6, <1>11, <1>14, <1>17 DEF TextsInv, Texts!TypeOK, ContentTyped, RequestsTyped

\* A version that may be stored next.
Storable(v) ==
  /\ v.by \in Requests \cup {None} /\ v.post \in Texts!AllPosts /\ v.channel \in Channels
  /\ v.text \in Requests \cup {None} /\ v.version \in Nat \ {0}
  /\ v = [by |-> v.by, post |-> v.post, channel |-> v.channel, version |-> v.version, text |-> v.text]
  /\ v.version <= Cardinality(effects) + 2

LEMMA StoredIsStorable ==
  ASSUME Texts!ConstantsOK, ContentTyped, RequestsTyped, Numbered, NEW v \in versions
  PROVE  Storable(v)
<1>1. /\ Cardinality(effects) \in Nat /\ Cardinality(Requests) \in Nat
      /\ Texts!Cardinality(Requests) = Cardinality(Requests)
  BY CountsAre
<1>2. v \in Texts!Versions
  BY DEF ContentTyped
<1>3. /\ v.by \in Requests \cup {None} /\ v.post \in Texts!AllPosts /\ v.channel \in Channels
      /\ v.text \in Requests \cup {None}
      /\ v = [by |-> v.by, post |-> v.post, channel |-> v.channel, version |-> v.version, text |-> v.text]
  BY <1>2 DEF Texts!Versions
<1>4. v.version \in Nat \ {0}
  BY <1>1, <1>2 DEF Texts!Versions
<1>5. v.version <= Cardinality(effects) + 1
  BY DEF Numbered
<1>6. v.version <= Cardinality(effects) + 2
  BY <1>1, <1>4, <1>5
<1> QED
  BY <1>3, <1>4, <1>6 DEF Storable

LEMMA AdaptStores ==
  ASSUME Texts!ConstantsOK, ContentTyped, RequestsTyped, Numbered, NEW r \in Requests,
         asked[r] # Texts!Idle, asked[r].channels # {}, asked[r].post \in posts, Texts!Adapt(r)
  PROVE  /\ \A v \in versions' : Storable(v)
         /\ DOMAIN target' \subseteq Texts!Slots /\ \A t \in DOMAIN target' : target'[t] \in versions'
         /\ posts' \subseteq Texts!AllPosts
<1> DEFINE seen == asked[r].seen
           channel == CHOOSE h \in asked[r].channels : TRUE
           new == [by |-> r, post |-> asked[r].post, channel |-> channel,
                   version |-> IF seen = None THEN 1 ELSE seen.version + 1, text |-> r]
<1>1. versions' = versions \cup {new} /\ target' = Texts!Moved(r, new) /\ posts' = posts
  BY DEF Texts!Adapt
<1>2. Storable(new)
  <2>1. channel \in Channels /\ asked[r].post \in Texts!AllPosts
    BY ReceivedFields DEF ContentTyped
  <2>2. /\ Cardinality(effects) \in Nat /\ Cardinality(Requests) \in Nat
        /\ Texts!Cardinality(Requests) = Cardinality(Requests)
    BY CountsAre
  <2>3. seen # None => seen.version \in Nat /\ seen.version <= Cardinality(effects) + 1
    <3>1. seen \in Texts!Versions \cup {None}
      BY ReceivedFields
    <3>2. seen # None => seen.version \in Nat
      BY <2>2, <3>1 DEF Texts!Versions
    <3> QED
      BY <3>2 DEF Numbered
  <2> HIDE DEF seen, channel
  <2>4. new.version \in Nat \ {0} /\ new.version <= Cardinality(effects) + 2
    BY <2>2, <2>3
  <2>5. /\ new.by = r /\ new.post = asked[r].post /\ new.channel = channel /\ new.text = r
        /\ new = [by |-> new.by, post |-> new.post, channel |-> new.channel, version |-> new.version,
                  text |-> new.text]
    OBVIOUS
  <2> HIDE DEF new
  <2> QED
    BY <2>1, <2>4, <2>5 DEF Storable
<1> HIDE DEF new
<1>3. \A v \in versions' : Storable(v)
  BY <1>1, <1>2, StoredIsStorable
<1>4. DOMAIN target' = DOMAIN target /\ \A t \in DOMAIN target : target'[t] \in {new, target[t]}
  BY <1>1 DEF Texts!Moved
<1> QED
  BY <1>1, <1>3, <1>4 DEF ContentTyped

LEMMA RewriteStores ==
  ASSUME Texts!ConstantsOK, ContentTyped, RequestsTyped, Numbered, NEW r \in Requests, Texts!Rewrite(r)
  PROVE  /\ \A v \in versions' : Storable(v)
         /\ DOMAIN target' \subseteq Texts!Slots /\ \A t \in DOMAIN target' : target'[t] \in versions'
         /\ posts' \subseteq Texts!AllPosts
<1> DEFINE New(v) == IF v.post = asked[r].post THEN [v EXCEPT !.text = r] ELSE v
<1>1. /\ versions' = {New(v) : v \in versions} /\ posts' = posts
      /\ target' = [t \in DOMAIN target |-> New(target[t])]
  BY DEF Texts!Rewrite
<1>2. ASSUME NEW v \in versions PROVE Storable(New(v))
  <2>1. Storable(v)
    BY StoredIsStorable
  <2>2. [v EXCEPT !.text = r] =
          [by |-> v.by, post |-> v.post, channel |-> v.channel, version |-> v.version, text |-> r]
    BY <2>1 DEF Storable
  <2> DEFINE u == [by |-> v.by, post |-> v.post, channel |-> v.channel, version |-> v.version, text |-> r]
  <2>3. /\ u.by = v.by /\ u.post = v.post /\ u.channel = v.channel /\ u.version = v.version /\ u.text = r
        /\ u = [by |-> u.by, post |-> u.post, channel |-> u.channel, version |-> u.version, text |-> u.text]
    OBVIOUS
  <2> HIDE DEF u
  <2>4. Storable(u)
    BY <2>1, <2>3 DEF Storable
  <2> QED
    BY <2>1, <2>2, <2>4 DEF u
<1> HIDE DEF New
<1>3. \A v \in versions' : Storable(v)
  BY <1>1, <1>2
<1> QED
  BY <1>1, <1>3 DEF ContentTyped

LEMMA CreateStores ==
  ASSUME Texts!ConstantsOK, ContentTyped, RequestsTyped, Numbered, NEW r \in Requests,
         asked[r] # Texts!Idle, r \notin effects, Owned, Texts!Create(r)
  PROVE  /\ \A v \in versions' : Storable(v)
         /\ DOMAIN target' \subseteq Texts!Slots /\ \A t \in DOMAIN target' : target'[t] \in versions'
         /\ posts' \subseteq Texts!AllPosts
<1> DEFINE New(h) == [by |-> r, post |-> r, channel |-> h, version |-> 1, text |-> r]
           hs == asked[r].channels
<1>1. /\ versions' = versions \cup {New(h) : h \in hs} /\ posts' = posts \cup {r}
      /\ target' = [t \in DOMAIN target \cup ({r} \X hs) |-> IF t[1] = r THEN New(t[2]) ELSE target[t]]
  BY DEF Texts!Create
<1>2. hs \subseteq Channels
  BY ReceivedFields
<1>3. ASSUME NEW h \in hs PROVE Storable(New(h))
  <2>1. Cardinality(effects) \in Nat
    BY CountsAre
  <2>2. 1 <= Cardinality(effects) + 2
    BY <2>1
  <2> QED
    BY <1>2, <2>2 DEF Storable, Texts!AllPosts
<1> HIDE DEF New
<1>4. \A v \in versions' : Storable(v)
  BY <1>1, <1>3, StoredIsStorable
<1>5. DOMAIN target' \subseteq Texts!Slots
  BY <1>1, <1>2 DEF ContentTyped, Texts!Slots, Texts!AllPosts
<1>6. ASSUME NEW t \in DOMAIN target' PROVE target'[t] \in versions'
  <2>1. CASE t \in DOMAIN target
    <3>1. t[1] # r
      BY <2>1 DEF Owned, Texts!ConstantsOK
    <3> QED
      BY <1>1, <2>1, <3>1 DEF ContentTyped
  <2>2. CASE t \in {r} \X hs
    BY <1>1, <2>2
  <2> QED
    BY <1>1, <2>1, <2>2
<1> QED
  BY <1>1, <1>4, <1>5, <1>6 DEF ContentTyped, Texts!AllPosts

LEMMA CommitKeepsTexts ==
  ASSUME Texts!ConstantsOK, TextsInv, NEW r \in Requests, Texts!Commit(r)
  PROVE  TextsInv'
<1>1. /\ ContentTyped /\ RequestsTyped /\ misses \in 0..MaxMisses
      /\ EffectsAnswered /\ AnswersKept /\ Numbered /\ Owned
  BY TextsTypeParts DEF TextsInv
<1>2. /\ asked[r].pc = "commit" /\ asked[r] # Texts!Idle /\ asked[r] \in Texts!Received
      /\ effects' = effects \cup {r} /\ UNCHANGED <<sent, misses>>
      /\ asked' = [asked EXCEPT ![r].pc = "done", ![r].answer = r]
  BY <1>1 DEF Texts!Commit, Texts!Idle, RequestsTyped
<1>3. r \notin effects
  BY <1>1, <1>2 DEF EffectsAnswered
<1>4. RequestsTyped' /\ EffectsAnswered' /\ AnswersKept'
  BY <1>1, CommitKeeps DEF Texts!ConstantsOK
<1>5. /\ \A v \in versions' : Storable(v)
      /\ DOMAIN target' \subseteq Texts!Slots /\ \A t \in DOMAIN target' : target'[t] \in versions'
      /\ posts' \subseteq Texts!AllPosts
      /\ \A t \in DOMAIN target' : (t \in DOMAIN target \/ t[1] = r) /\ target'[t].post = t[1]
  <2>0. \A t \in DOMAIN target : target[t].post = t[1] /\ target[t] \in Texts!Versions
    BY <1>1 DEF Owned, ContentTyped
  <2>1. CASE asked[r].op = "adapt" /\ Texts!Adapt(r)
    <3>1. asked[r].channels # {} /\ asked[r].post \in posts
      BY <1>2, <2>1 DEF Owned, TextsInv, Texts!Commit, Texts!Clashes
    <3>2. DOMAIN target' = DOMAIN target
      BY <2>1 DEF Texts!Adapt, Texts!Moved
    <3>3. ASSUME NEW t \in DOMAIN target PROVE target'[t].post = t[1]
      <4>1. target'[t] = target[t] \/ (Texts!SameRow(asked[r].seen, target[t]) /\ target'[t].post = asked[r].post)
        <5>1. PICK v : v.post = asked[r].post /\ target' = Texts!Moved(r, v)
          BY <2>1 DEF Texts!Adapt
        <5>2. target'[t] = IF Texts!SameRow(asked[r].seen, target[t]) THEN v ELSE target[t]
          BY <5>1 DEF Texts!Moved
        <5>3. CASE Texts!SameRow(asked[r].seen, target[t])
          BY <5>1, <5>2, <5>3
        <5>4. CASE ~Texts!SameRow(asked[r].seen, target[t])
          BY <5>2, <5>4
        <5> QED
          BY <5>3, <5>4
      <4>2. ASSUME Texts!SameRow(asked[r].seen, target[t]) PROVE asked[r].post = target[t].post
        <5>1. asked[r].seen \in Texts!Versions /\ asked[r].seen.post = asked[r].post
          BY <1>1, <1>2, <4>2, ReceivedFields DEF Texts!SameRow, Owned
        <5>2. [asked[r].seen EXCEPT !.text = None].post = asked[r].seen.post
          BY <5>1 DEF Texts!Versions
        <5>3. [target[t] EXCEPT !.text = None].post = target[t].post
          BY <2>0 DEF Texts!Versions
        <5> QED
          BY <4>2, <5>1, <5>2, <5>3 DEF Texts!SameRow
      <4> QED
        BY <2>0, <4>1, <4>2
    <3> QED
      BY <1>1, <1>2, <2>1, <3>1, <3>2, <3>3, AdaptStores
  <2>2. CASE Texts!Rewrite(r)
    <3>1. DOMAIN target' = DOMAIN target /\ \A t \in DOMAIN target : target'[t].post = t[1]
      BY <2>0, <2>2 DEF Texts!Rewrite, Texts!Versions
    <3> QED
      BY <1>1, <2>2, <3>1, RewriteStores
  <2>3. CASE Texts!Create(r)
    <3>1. \A t \in DOMAIN target' : (t \in DOMAIN target \/ t[1] = r) /\ target'[t].post = t[1]
      BY <2>0, <2>3 DEF Texts!Create
    <3> QED
      BY <1>1, <1>2, <1>3, <2>3, <3>1, CreateStores
  <2> QED
    BY <2>1, <2>2, <2>3 DEF Texts!Commit
<1>6. /\ \A x \in Requests : asked'[x].seen = asked[x].seen /\ (asked'[x] # Texts!Idle => asked[x] # Texts!Idle)
      /\ \A x \in Requests : asked'[x] # Texts!Idle =>
           /\ asked'[x].op = asked[x].op /\ asked'[x].channels = asked[x].channels
           /\ asked'[x].post = asked[x].post
  BY <1>1, <1>2 DEF RequestsTyped, Texts!Received
<1>7. ContentTyped' /\ Numbered'
  BY <1>1, <1>2, <1>3, <1>4, <1>5, <1>6, ContentGrows DEF Storable
<1>8. Owned'
  BY <1>1, <1>2, <1>5, <1>6 DEF Owned
<1> QED
  BY <1>1, <1>2, <1>4, <1>7, <1>8 DEF TextsInv, Texts!TypeOK, ContentTyped, RequestsTyped

LEMMA DeletePostKeepsTexts ==
  ASSUME TextsInv, NEW c \in Texts!AllPosts, Texts!DeletePost(c)
  PROVE  TextsInv'
<1>1. ContentTyped /\ RequestsTyped /\ misses \in 0..MaxMisses
  BY TextsTypeParts DEF TextsInv
<1>2. UNCHANGED <<sent, answers, effects, asked, misses>>
  BY DEF Texts!DeletePost
<1>3. RequestsTyped' /\ EffectsAnswered' /\ AnswersKept'
  BY <1>1, <1>2 DEF TextsInv, RequestsTyped, EffectsAnswered, AnswersKept
<1>4. versions' \subseteq versions /\ posts' \subseteq posts /\ DOMAIN target' \subseteq DOMAIN target
  BY DEF Texts!DeletePost
<1>5. \A t \in DOMAIN target' : target'[t] \in versions'
  <2>1. \A t \in DOMAIN target' : target'[t] = target[t] /\ t[1] # c
    BY DEF Texts!DeletePost
  <2>2. \A t \in DOMAIN target : target[t].post = t[1]
    BY DEF TextsInv, Owned
  <2> QED
    BY <1>1, <1>4, <2>1, <2>2 DEF Texts!DeletePost, ContentTyped
<1>6. ContentTyped'
  BY <1>1, <1>2, <1>4, <1>5 DEF ContentTyped
<1>7. Numbered' /\ Owned'
  BY <1>2, <1>4 DEF Numbered, Owned, TextsInv, Texts!DeletePost
<1> QED
  BY <1>1, <1>2, <1>3, <1>6, <1>7 DEF TextsInv, Texts!TypeOK, ContentTyped, RequestsTyped

LEMMA NextTexts == Texts!ConstantsOK /\ TextsInv /\ [Texts!Next]_Texts!vars => TextsInv'
<1> SUFFICES ASSUME Texts!ConstantsOK, TextsInv, [Texts!Next]_Texts!vars PROVE TextsInv'
  OBVIOUS
<1>1. CASE UNCHANGED Texts!vars
  BY <1>1 DEF Texts!vars, TextsInv, Texts!TypeOK, Numbered, Owned, EffectsAnswered, AnswersKept
<1>2. CASE Texts!Next
  BY <1>2, TextsNextCases, RequestedKeeps, WaitsKeeps, CommitKeepsTexts, DeletePostKeepsTexts
<1> QED
  BY <1>1, <1>2

\* Every reachable state of the requests, the versions and the targets is well typed.
THEOREM TextsTypeCorrect ==
  ASSUME Texts!ConstantsOK
  PROVE  Texts!Spec => []Texts!TypeOK
<1>1. Texts!Init => TextsInv
  BY InitTexts
<1>2. TextsInv /\ [Texts!Next]_Texts!vars => TextsInv'
  BY NextTexts
<1>3. TextsInv => Texts!TypeOK
  BY DEF TextsInv
<1> QED
  BY <1>1, <1>2, <1>3, PTL DEF Texts!Spec

\* Requests that come with one key change the posts once and are answered the same,
\* for any number of requests and keys, whatever fails, clashes or is deleted.
THEOREM OneEffectForAKey ==
  ASSUME Texts!ConstantsOK
  PROVE  Texts!Spec => []OneEffectPerKey
<1>1. Texts!Init => TextsInv
  BY InitTexts
<1>2. TextsInv /\ [Texts!Next]_Texts!vars => TextsInv'
  BY NextTexts
<1>3. TextsInv => OneEffectPerKey
  <2> SUFFICES ASSUME TextsInv PROVE OneEffectPerKey
    OBVIOUS
  <2>1. RequestsTyped /\ EffectsAnswered /\ AnswersKept
    BY TextsTypeParts DEF TextsInv
  <2>2. ASSUME NEW e1 \in effects, NEW e2 \in effects, Texts!KeyOf(e1) # None, Texts!KeyOf(e1) = Texts!KeyOf(e2)
        PROVE  e1 = e2
    <3>1. asked[e1] # Texts!Idle /\ asked[e2] # Texts!Idle /\ e1 \in Requests /\ e2 \in Requests
      BY <2>1 DEF RequestsTyped, EffectsAnswered, Texts!Idle
    <3> QED
      BY <2>1, <2>2, <3>1 DEF AnswersKept, Texts!KeyOf
  <2> QED
    BY <2>1, <2>2 DEF OneEffectPerKey, Texts!OneEffectPerKey, AnswersKept
<1> QED
  BY <1>1, <1>2, <1>3, PTL DEF Texts!Spec

-----------------------------------------------------------------------------
(* Pictures, and who shows them *)

\* Who is about to delete a row holds the tenant's lock, and nobody has come to
\* use the picture since it looked, but for posts that were edited.
ErasesUnused ==
  \A r \in Requests :
    taken[r].pc = "erase" =>
      /\ lock = r
      /\ taken[r].asset \notin video
      /\ \A p \in Posts \ edited : post[p] # None =>
           \A s \in Library!Places : post[p][s] # [asset |-> taken[r].asset, keyed |-> TRUE]

LibraryInv == Library!TypeOK /\ ErasesUnused

LEMMA InitLibrary == Library!ConstantsOK /\ Library!Init => LibraryInv
<1> SUFFICES ASSUME Library!ConstantsOK, Library!Init PROVE LibraryInv
  OBVIOUS
<1>1. post \in [Posts -> Library!Shown \cup {None}]
  <2>1. [s \in Library!Places |-> Library!NoUrl] \in Library!Shown
    BY DEF Library!Shown, Library!Addresses
  <2> QED
    BY <2>1 DEF Library!Init
<1>2. Library!TypeOK
  BY <1>1 DEF Library!Init, Library!TypeOK, Library!ConstantsOK
<1>3. ErasesUnused
  BY DEF Library!Init, Library!Idle, ErasesUnused
<1> QED
  BY <1>2, <1>3 DEF LibraryInv

\* A step of a request that erases nothing next: what it holds may be let go.
LEMMA RequestStep ==
  ASSUME None \notin Requests, LibraryInv,
         NEW r \in Requests, NEW new \in Library!Received, new.pc # "erase", taken' = [taken EXCEPT ![r] = new],
         lock' = lock \/ (lock = r /\ lock' = None) \/ (lock = None /\ lock' = r),
         edited \subseteq edited' \/ lock = None,
         \A p \in Posts \ edited' : post'[p] = post[p],
         UNCHANGED video
  PROVE  ErasesUnused'
<1>1. \A x \in Requests : taken'[x] = IF x = r THEN new ELSE taken[x]
  BY DEF LibraryInv, Library!TypeOK
<1> SUFFICES ASSUME NEW x \in Requests, taken'[x].pc = "erase"
             PROVE  /\ lock' = x
                    /\ taken'[x].asset \notin video'
                    /\ \A p \in Posts \ edited' : post'[p] # None =>
                         \A s \in Library!Places : post'[p][s] # [asset |-> taken'[x].asset, keyed |-> TRUE]
  BY DEF ErasesUnused
<1>2. x # r /\ taken[x].pc = "erase" /\ taken'[x] = taken[x]
  BY <1>1
<1>3. lock = x /\ lock # None
  BY <1>2 DEF LibraryInv, ErasesUnused
<1>4. lock' = x /\ edited \subseteq edited'
  BY <1>2, <1>3
<1> QED
  BY <1>2, <1>4 DEF LibraryInv, ErasesUnused

LEMMA BecomesReceived ==
  ASSUME Library!TypeOK, NEW r \in Requests, taken[r].pc # "idle",
         NEW pc \in {"enqueue", "queued", "generate", "put", "row", "show", "erase", "clean", "done"}
  PROVE  /\ taken[r] \in Library!Received /\ taken[r].asset \in Library!Assets
         /\ [taken[r] EXCEPT !.pc = pc] \in Library!Received
         /\ [taken[r] EXCEPT !.pc = pc].pc = pc
         /\ [taken[r] EXCEPT !.pc = pc].asset = taken[r].asset
  BY DEF Library!TypeOK, Library!Received, Library!Idle

\* What a request does with the pictures and posts that are there, but for deleting.
Handles(r) ==
  \/ \E p \in Posts \cup {None}, s \in Library!Places : Library!CreateJob(r, p, s) \/ Library!Generate(r, p, s)
  \/ \E a \in Pictures : Library!UploadDeduplicated(r, a)
  \/ Library!Upload(r)

Proceeds(r) ==
  \/ Library!Enqueue(r) \/ Library!EnqueueFails(r) \/ Library!Receive(r) \/ Library!Generated(r) \/ Library!Put(r)
  \/ Library!AddRow(r) \/ Library!Complete(r) \/ Library!Fail(r) \/ Library!Crash(r)
  \/ Library!EraseRow(r) \/ Library!EraseObject(r)

Uses ==
  \/ \E p \in Posts, s \in Library!Places : Library!ClearPost(p, s) \/ \E r \in Requests : Library!EditPost(p, s, r)
  \/ \E p \in Posts : Library!DeletePost(p)
  \/ \E a \in Library!Assets : Library!UseInVideo(a)
  \/ \E r \in Requests : Library!WriteQueueFailed(r)

LEMMA LibraryNextCases ==
  ASSUME Library!Next
  PROVE  \/ \E r \in Requests : Handles(r)
         \/ \E r \in Requests : Proceeds(r)
         \/ \E r \in Requests, a \in Library!Assets : Library!Delete(r, a)
         \/ Uses
  BY DEF Library!Next, Handles, Proceeds, Uses

\* A post may show any picture that somebody has.
LEMMA ShowTypes ==
  ASSUME Library!TypeOK, NEW p \in Posts, NEW places, NEW url \in Library!Addresses,
         post[p] # None, Library!Show(p, places, url)
  PROVE  /\ post' \in [Posts -> Library!Shown \cup {None}] /\ edited' \subseteq Posts
         /\ \A q \in Posts \ edited' : post'[q] = post[q]
         /\ edited \subseteq edited'
<1>1. post[p] \in Library!Shown
  BY DEF Library!TypeOK
<1>2. [s \in Library!Places |-> IF s \in places THEN url ELSE post[p][s]] \in Library!Shown
  BY <1>1 DEF Library!Shown
<1> QED
  BY <1>2 DEF Library!Show, Library!TypeOK

LEMMA UrlType ==
  ASSUME Library!TypeOK, NEW r \in Requests, taken[r].pc # "idle"
  PROVE  Library!UrlOf(r) \in Library!Addresses
  BY BecomesReceived DEF Library!UrlOf, Library!Addresses

LEMMA HandlesKeeps ==
  ASSUME Library!ConstantsOK, LibraryInv, NEW r \in Requests, Handles(r)
  PROVE  LibraryInv'
<1>1. PICK new \in Library!Received : new.pc # "erase" /\ taken' = [taken EXCEPT ![r] = new]
  <2>1. ASSUME NEW p \in Posts \cup {None}, NEW s \in Library!Places, Library!CreateJob(r, p, s)
        PROVE  \E new \in Library!Received : new.pc # "erase" /\ taken' = [taken EXCEPT ![r] = new]
    BY <2>1 DEF Library!CreateJob, Library!Begin, Library!Received, Library!Assets
  <2>2. ASSUME NEW p \in Posts \cup {None}, NEW s \in Library!Places, Library!Generate(r, p, s)
        PROVE  \E new \in Library!Received : new.pc # "erase" /\ taken' = [taken EXCEPT ![r] = new]
    BY <2>2 DEF Library!Generate, Library!Begin, Library!Received, Library!Assets
  <2>3. ASSUME NEW a \in Pictures, Library!UploadDeduplicated(r, a)
        PROVE  \E new \in Library!Received : new.pc # "erase" /\ taken' = [taken EXCEPT ![r] = new]
    <3> DEFINE there == a \in row
    <3>1. there \in BOOLEAN
      OBVIOUS
    <3> HIDE DEF there
    <3>2. [kind |-> "dedup", pc |-> "put", asset |-> a, post |-> None, place |-> "media", again |-> there]
            \in Library!Received
      BY <3>1 DEF Library!Received, Library!Assets, Library!Places
    <3> QED
      BY <2>3, <3>2 DEF Library!UploadDeduplicated, there
  <2>4. CASE Library!Upload(r)
    BY <2>4 DEF Library!Upload, Library!Begin, Library!Received, Library!Assets, Library!Places
  <2> QED
    BY <2>1, <2>2, <2>3, <2>4 DEF Handles
<1>2. /\ UNCHANGED <<storage, row, object, video, post, late, edited, mishaps>>
      /\ lock' = lock \/ (lock = None /\ lock' = r)
      /\ job' \in [Requests -> {"none", "pending", "running", "completed", "failed"}]
  BY DEF Handles, Library!CreateJob, Library!Generate, Library!UploadDeduplicated, Library!Upload,
         Library!libraryVars,          LibraryInv, Library!TypeOK
<1>3. Library!TypeOK'
  BY <1>1, <1>2 DEF LibraryInv, Library!TypeOK
<1>4. ErasesUnused'
  BY <1>1, <1>2, RequestStep DEF Library!ConstantsOK
<1> QED
  BY <1>3, <1>4 DEF LibraryInv

LEMMA ProceedsKeeps ==
  ASSUME Library!ConstantsOK, LibraryInv, NEW r \in Requests, Proceeds(r)
  PROVE  LibraryInv'
<1> DEFINE pcs == {"queued", "generate", "put", "row", "show", "clean", "done"}
<1>1. /\ Library!TypeOK /\ storage' = storage
      /\ taken[r].pc # "idle"
      /\ UNCHANGED video
      /\ lock' = lock \/ (lock = r /\ lock' = None)
  BY DEF LibraryInv, Proceeds, Library!Enqueue, Library!EnqueueFails, Library!Receive, Library!Generated,
         Library!Put, Library!AddRow, Library!Complete, Library!Fail, Library!Crash, Library!EraseRow,
         Library!EraseObject, Library!At, Library!libraryVars, Library!Free
<1>2. PICK pc \in pcs : taken' = [taken EXCEPT ![r] = [taken[r] EXCEPT !.pc = pc]]
  <2>1. taken \in [Requests -> Library!Received \cup {Library!Idle}]
    BY <1>1 DEF Library!TypeOK
  <2> QED
    BY <2>1 DEF Proceeds, Library!Enqueue, Library!EnqueueFails, Library!Receive, Library!Generated,
         Library!Put, Library!AddRow, Library!Complete, Library!Fail, Library!Crash, Library!EraseRow,
         Library!EraseObject, Library!Goto
<1> DEFINE new == [taken[r] EXCEPT !.pc = pc]
<1>3. new \in Library!Received /\ new.pc # "erase" /\ taken[r].asset \in Library!Assets
  BY <1>1, BecomesReceived
<1> HIDE DEF new
<1>4. /\ post' \in [Posts -> Library!Shown \cup {None}] /\ edited' \subseteq Posts /\ edited \subseteq edited'
      /\ \A p \in Posts \ edited' : post'[p] = post[p]
  <2>1. CASE Library!Complete(r)
    <3>1. CASE taken[r].post # None /\ post[taken[r].post] # None
      <4>1. taken[r].post \in Posts
        BY <1>1, <3>1, BecomesReceived DEF Library!Received
      <4>2. Library!Show(taken[r].post, {"cover", taken[r].place}, Library!UrlOf(r))
        BY <2>1, <3>1 DEF Library!Complete
      <4> QED
        BY <1>1, <3>1, <4>1, <4>2, ShowTypes, UrlType
    <3>2. CASE ~(taken[r].post # None /\ post[taken[r].post] # None)
      BY <1>1, <2>1, <3>2 DEF Library!Complete, Library!TypeOK
    <3> QED
      BY <3>1, <3>2
  <2>2. CASE UNCHANGED <<post, edited>>
    BY <1>1, <2>2 DEF Library!TypeOK
  <2> QED
    BY <2>1, <2>2 DEF Proceeds, Library!Enqueue, Library!EnqueueFails, Library!Receive, Library!Generated,
         Library!Put, Library!AddRow, Library!Fail, Library!Crash, Library!EraseRow, Library!EraseObject
<1>5. /\ row' \subseteq Library!Assets /\ object' \subseteq Library!Assets /\ late' \subseteq Requests
      /\ job' \in [Requests -> {"none", "pending", "running", "completed", "failed"}]
      /\ mishaps' \in 0..MaxMisses
  BY <1>1, <1>3 DEF Proceeds, Library!Enqueue, Library!EnqueueFails, Library!Receive, Library!Generated,
         Library!Put, Library!AddRow, Library!Complete, Library!Fail, Library!Crash, Library!EraseRow,
         Library!EraseObject, Library!libraryVars, Library!TypeOK, Library!Fault, Library!ConstantsOK
<1>6. taken' = [taken EXCEPT ![r] = new]
  BY <1>2 DEF new
<1>7. Library!TypeOK'
  BY <1>1, <1>3, <1>4, <1>5, <1>6 DEF Library!TypeOK
<1>8. ErasesUnused'
  BY <1>1, <1>3, <1>4, <1>6, RequestStep DEF Library!ConstantsOK
<1> QED
  BY <1>7, <1>8 DEF LibraryInv

\* Who looks for users of the picture holds the lock from then on.
LEMMA DeleteKeeps ==
  ASSUME Library!ConstantsOK, LibraryInv, NEW r \in Requests, NEW a \in Library!Assets, Library!Delete(r, a)
  PROVE  LibraryInv'
<1>1. \A x \in Requests : taken[x].pc # "erase"
  BY DEF LibraryInv, ErasesUnused, Library!Delete, Library!ConstantsOK
<1>2. PICK pc \in {"erase", "done"} :
        /\ taken' = [taken EXCEPT ![r] = [kind |-> "delete", pc |-> pc, asset |-> a, post |-> None,
                                         place |-> "media", again |-> FALSE]]
        /\ pc = "erase" => lock' = r /\ ~Library!Referenced(a)
        /\ lock' \in {lock, r}
  BY DEF Library!Delete, Library!Begin
<1>3. UNCHANGED <<storage, row, object, video, post, job, late, mishaps>> /\ edited' = {}
  BY DEF Library!Delete, Library!libraryVars
<1> DEFINE new == [kind |-> "delete", pc |-> pc, asset |-> a, post |-> None, place |-> "media", again |-> FALSE]
<1>4. new \in Library!Received /\ new.pc = pc /\ new.asset = a
  BY DEF Library!Received, Library!Places
<1> HIDE DEF new
<1>5. taken' = [taken EXCEPT ![r] = new]
  BY <1>2 DEF new
<1>6. Library!TypeOK'
  BY <1>2, <1>3, <1>4, <1>5 DEF LibraryInv, Library!TypeOK
<1>7. \A x \in Requests : taken'[x] = IF x = r THEN new ELSE taken[x]
  BY <1>5 DEF LibraryInv, Library!TypeOK
<1>8. ErasesUnused'
  <2> SUFFICES ASSUME NEW x \in Requests, taken'[x].pc = "erase"
               PROVE  /\ lock' = x
                      /\ taken'[x].asset \notin video'
                      /\ \A p \in Posts \ edited' : post'[p] # None =>
                           \A s \in Library!Places : post'[p][s] # [asset |-> taken'[x].asset, keyed |-> TRUE]
    BY DEF ErasesUnused
  <2>1. x = r /\ taken'[x].asset = a /\ lock' = r /\ ~Library!Referenced(a)
    BY <1>1, <1>2, <1>4, <1>7
  <2>2. /\ a \notin video
        /\ \A p \in Posts : post[p] # None =>
             \A s \in Library!Places : post[p][s] # [asset |-> a, keyed |-> TRUE]
    BY <2>1 DEF Library!Referenced
  <2> QED
    BY <1>3, <2>1, <2>2
<1> QED
  BY <1>6, <1>8 DEF LibraryInv

LEMMA UsesKeeps ==
  ASSUME Library!ConstantsOK, LibraryInv, Uses
  PROVE  LibraryInv'
<1>1. ASSUME NEW p \in Posts, NEW places, NEW url \in Library!Addresses, post[p] # None, Library!Show(p, places, url),
             UNCHANGED <<storage, row, object, video, job, taken, late, lock, mishaps>>
      PROVE  LibraryInv'
  <2>1. /\ post' \in [Posts -> Library!Shown \cup {None}] /\ edited' \subseteq Posts /\ edited \subseteq edited'
        /\ \A q \in Posts \ edited' : post'[q] = post[q]
    BY <1>1, ShowTypes DEF LibraryInv
  <2>2. Library!TypeOK'
    BY <1>1, <2>1 DEF LibraryInv, Library!TypeOK
  <2>3. ErasesUnused'
    BY <1>1, <2>1 DEF LibraryInv, ErasesUnused
  <2> QED
    BY <2>2, <2>3 DEF LibraryInv
<1>2. ASSUME NEW p \in Posts, NEW s \in Library!Places, Library!ClearPost(p, s) PROVE LibraryInv'
  BY <1>1, <1>2 DEF Library!ClearPost, Library!Addresses, Library!libraryVars
<1>3. ASSUME NEW p \in Posts, NEW s \in Library!Places, NEW r \in Requests, Library!EditPost(p, s, r)
      PROVE  LibraryInv'
  BY <1>1, <1>3, UrlType DEF Library!EditPost, Library!At, Library!libraryVars, LibraryInv
<1>4. ASSUME NEW p \in Posts, Library!DeletePost(p) PROVE LibraryInv'
  BY <1>4 DEF Library!DeletePost, Library!libraryVars, LibraryInv, Library!TypeOK, ErasesUnused
<1>5. ASSUME NEW a \in Library!Assets, Library!UseInVideo(a) PROVE LibraryInv'
  BY <1>5 DEF Library!UseInVideo, LibraryInv, Library!TypeOK, ErasesUnused, Library!ConstantsOK
<1>6. ASSUME NEW r \in Requests, Library!WriteQueueFailed(r) PROVE LibraryInv'
  BY <1>6 DEF Library!WriteQueueFailed, Library!libraryVars, LibraryInv, Library!TypeOK, ErasesUnused
<1> QED
  BY <1>2, <1>3, <1>4, <1>5, <1>6 DEF Uses

LEMMA NextLibrary == Library!ConstantsOK /\ LibraryInv /\ [Library!Next]_Library!vars => LibraryInv'
<1> SUFFICES ASSUME Library!ConstantsOK, LibraryInv, [Library!Next]_Library!vars PROVE LibraryInv'
  OBVIOUS
<1>1. CASE UNCHANGED Library!vars
  BY <1>1 DEF Library!vars, LibraryInv, Library!TypeOK, ErasesUnused
<1>2. CASE Library!Next
  BY <1>2, LibraryNextCases, HandlesKeeps, ProceedsKeeps, DeleteKeeps, UsesKeeps
<1> QED
  BY <1>1, <1>2

\* A row that goes was erased by its deletion.
LEMMA ErasedBy ==
  ASSUME LibraryInv, [Library!Next]_Library!vars, NEW a \in row \ row'
  PROVE  \E r \in Requests : Library!EraseRow(r) /\ taken[r].asset = a
<1>1. CASE UNCHANGED Library!vars
  BY <1>1 DEF Library!vars
<1>2. ASSUME NEW r \in Requests, Proceeds(r) PROVE Library!EraseRow(r) /\ taken[r].asset = a
  BY <1>2 DEF Proceeds, Library!Enqueue, Library!EnqueueFails, Library!Receive, Library!Generated,
         Library!Put, Library!AddRow, Library!Complete, Library!Fail, Library!Crash, Library!EraseRow,
         Library!EraseObject, Library!libraryVars
<1>3. ASSUME NEW r \in Requests, Handles(r) PROVE FALSE
  BY <1>3 DEF Handles, Library!CreateJob, Library!Generate, Library!UploadDeduplicated, Library!Upload,
         Library!libraryVars
<1>4. ASSUME NEW r \in Requests, NEW b \in Library!Assets, Library!Delete(r, b) PROVE FALSE
  BY <1>4 DEF Library!Delete, Library!libraryVars
<1>5. CASE Uses
  BY <1>5 DEF Uses, Library!ClearPost, Library!EditPost, Library!DeletePost, Library!UseInVideo,
         Library!WriteQueueFailed, Library!libraryVars
<1> QED
  BY <1>1, <1>2, <1>3, <1>4, <1>5, LibraryNextCases

\* Every reachable state of pictures, objects, posts, jobs and requests is well typed.
THEOREM LibraryTypeCorrect ==
  ASSUME Library!ConstantsOK
  PROVE  Library!Spec => []Library!TypeOK
<1>1. Library!Init => LibraryInv
  BY InitLibrary
<1>2. LibraryInv /\ [Library!Next]_Library!vars => LibraryInv'
  BY NextLibrary
<1>3. LibraryInv => Library!TypeOK
  BY DEF LibraryInv
<1> QED
  BY <1>1, <1>2, <1>3, PTL DEF Library!Spec

\* A deletion takes nothing that a video names, and nothing that a post shows by its key
\* unless the post changed after the deletion looked, for any number of requests.
THEOREM DeletionsSpareWhatIsUsed ==
  ASSUME Library!ConstantsOK
  PROVE  Library!Spec => DeletionSparesUsed
<1>1. Library!Init => LibraryInv
  BY InitLibrary
<1>2. LibraryInv /\ [Library!Next]_Library!vars => LibraryInv'
  BY NextLibrary
<1> DEFINE Spares ==
      \A a \in row \ row' :
        /\ a \notin video'
        /\ \A p \in Posts \ edited : post[p] # None =>
             \A s \in Library!Places : post[p][s] # [asset |-> a, keyed |-> TRUE]
<1>3. LibraryInv /\ [Library!Next]_Library!vars => Spares
  <2> SUFFICES ASSUME LibraryInv, [Library!Next]_Library!vars, NEW a \in row \ row'
               PROVE  /\ a \notin video'
                      /\ \A p \in Posts \ edited : post[p] # None =>
                           \A s \in Library!Places : post[p][s] # [asset |-> a, keyed |-> TRUE]
    OBVIOUS
  <2>1. PICK r \in Requests : Library!EraseRow(r) /\ taken[r].asset = a
    BY ErasedBy
  <2> QED
    BY <2>1 DEF Library!EraseRow, Library!At, LibraryInv, ErasesUnused
<1>4. LibraryInv /\ [Library!Next]_Library!vars => [Spares]_Library!vars
  BY <1>3
<1>5. DeletionSparesUsed <=> [][Spares]_Library!vars
  BY DEF DeletionSparesUsed, Library!DeletionSparesUsed
<1> QED
  BY <1>1, <1>2, <1>4, <1>5, PTL DEF Library!Spec

-----------------------------------------------------------------------------
(* Publishers: a call of the platform is what the targets take it for *)

\* Posts are counted by the length of a sequence.
ShownInOrder == \E S : shown \in Seq(S)

LEMMA OneMore ==
  ASSUME ShownInOrder, NEW x, shown' = Append(shown, x)
  PROVE  ShownInOrder' /\ Len(shown') = Len(shown) + 1
<1>1. PICK S : shown \in Seq(S)
  BY DEF ShownInOrder
<1>2. shown \in Seq(S \cup {x}) /\ x \in S \cup {x}
  BY <1>1
<1>3. Append(shown, x) \in Seq(S \cup {x}) /\ Len(Append(shown, x)) = Len(shown) + 1
  BY <1>2
<1> QED
  BY <1>3 DEF ShownInOrder

LEMMA InitCalls ==
  ASSUME Calls!Init
  PROVE  ShownInOrder /\ Calls!Promise!Init
<1>1. shown \in Seq({}) /\ Len(shown) = 0
  BY DEF Calls!Init
<1> QED
  BY <1>1 DEF ShownInOrder, Calls!Promise!Init, Calls!Init

Abstract == <<outcome, Len(shown), unheard>>

LEMMA QuietCall ==
  ASSUME ShownInOrder, UNCHANGED <<outcome, shown, unheard>>
  PROVE  ShownInOrder' /\ UNCHANGED Abstract
  BY DEF ShownInOrder, Abstract

LEMMA FailedCall ==
  ASSUME ShownInOrder, outcome = "calling", outcome' \in {"rejected", "transient"}, UNCHANGED <<shown, unheard>>
  PROVE  ShownInOrder' /\ Calls!Promise!Next
  BY DEF ShownInOrder, Calls!Promise!Next, Calls!Promise!Failed, Calls!Promise!Failures

\* Every step of a publisher is a step of the promise, or none.
LEMMA NextCalls ==
  ASSUME ShownInOrder, [Calls!Next]_Calls!vars
  PROVE  ShownInOrder' /\ (Calls!Promise!Next \/ UNCHANGED Abstract)
<1>1. CASE UNCHANGED Calls!vars
  BY <1>1, QuietCall DEF Calls!vars
<1>2. CASE Calls!Begin
  BY <1>2 DEF Calls!Begin, ShownInOrder, Calls!Promise!Next, Calls!Promise!Begin
<1>3. CASE Calls!Refused
  BY <1>3, FailedCall DEF Calls!Refused, Calls!Ends
<1>4. CASE Calls!Answered
  BY <1>4, QuietCall DEF Calls!Answered, Calls!Goes
<1>5. CASE Calls!Blank
  <2>1. outcome = "calling" /\ UNCHANGED <<shown, unheard>>
    BY <1>5 DEF Calls!Blank, Calls!Calling
  <2>2. outcome' \in {"rejected", "transient"} \/ outcome' = outcome
    BY <1>5 DEF Calls!Blank, Calls!Ends, Calls!Goes
  <2> QED
    BY <2>1, <2>2, QuietCall, FailedCall
<1>6. CASE Calls!Fails
  <2>1. outcome = "calling" /\ UNCHANGED <<shown, unheard>>
    BY <1>6 DEF Calls!Fails, Calls!Calling
  <2>2. outcome' \in {"rejected", "transient"} \/ outcome' = outcome
    BY <1>6 DEF Calls!Fails, Calls!Ends, Calls!Goes
  <2> QED
    BY <2>1, <2>2, QuietCall, FailedCall
<1>7. CASE Calls!Shows
  <2>1. outcome = "calling" /\ outcome' = "accepted" /\ shown' = Append(shown, assets) /\ unheard' = unheard
    BY <1>7 DEF Calls!Shows, Calls!Calling, Calls!Ends
  <2> QED
    BY <2>1, OneMore DEF Calls!Promise!Next, Calls!Promise!Accepted
<1>8. CASE Calls!ShowsUnheard
  <2>1. /\ outcome = "calling" /\ outcome' \in {"rejected", "transient"}
        /\ shown' = Append(shown, assets) /\ unheard' = unheard + 1
    BY <1>8 DEF Calls!ShowsUnheard, Calls!Calling, Calls!Ends
  <2> QED
    BY <2>1, OneMore DEF Calls!Promise!Next, Calls!Promise!ReplyLost, Calls!Promise!Failures
<1>9. CASE Calls!AroundProxy
  <2>1. outcome = "calling" /\ outcome' = outcome
    BY <1>9 DEF Calls!AroundProxy, Calls!Calling
  <2>2. CASE UNCHANGED <<shown, unheard>>
    BY <2>1, <2>2, QuietCall
  <2>3. CASE shown' = Append(shown, assets) /\ unheard' = unheard + 1
    BY <2>1, <2>3, OneMore DEF Calls!Promise!Next, Calls!Promise!Repeats
  <2> QED
    BY <1>9, <2>2, <2>3 DEF Calls!AroundProxy
<1> QED
  BY <1>1, <1>2, <1>3, <1>4, <1>5, <1>6, <1>7, <1>8, <1>9 DEF Calls!Next

\* publish_post of every platform shows a post once for an answer, or fails, or has shown
\* it once without an answer, whatever its plan of calls and however many attempts.
THEOREM PublishersKeepTheirPromise == Calls!Spec => KeepsPublishCall
<1>1. Calls!Init => ShownInOrder /\ Calls!Promise!Init
  BY InitCalls
<1>2. ShownInOrder /\ [Calls!Next]_Calls!vars => ShownInOrder'
  BY NextCalls
<1>3. ShownInOrder /\ [Calls!Next]_Calls!vars => [Calls!Promise!Next]_Abstract
  BY NextCalls
<1> QED
  BY <1>1, <1>2, <1>3, PTL DEF Calls!Spec, KeepsPublishCall, Calls!KeepsPublishCall, Calls!Promise!Spec, Abstract

-----------------------------------------------------------------------------
(* Publishers: which calls of a plan take which media *)

\* The calls before the last one: none shows anything, only uploads leave a URL out,
\* one that a post may lack, and when they fail only for MAX.
Parts ==
  {c \in [does : {"refuse", "attach", "get", "send", "ask", "put", "wait"}, url : Nat,
          blank : {"none", "reject", "transient", "skip"}, fails : {"raise", "reject", "skip"}] :
     /\ c.does \in {"attach", "put"} => c.url \in Urls
     /\ c.blank = "skip" \/ c.fails = "skip" => c.does = "put" /\ c.url \in Calls!Dispensable
     /\ c.fails = "skip" => platform = "max"}

Taking(P, k) == P[k].does \in {"attach", "put"}
Refuses(P) == \E k \in DOMAIN P : P[k].does = "refuse"

\* The calls that take something take this, in order.
Follows(f, P, W) ==
  /\ f \in [DOMAIN W -> DOMAIN P]
  /\ \A i, j \in DOMAIN W : i < j => f[i] < f[j]
  /\ \A i \in DOMAIN W : Taking(P, f[i]) /\ P[f[i]].url = W[i]
  /\ \A k \in DOMAIN P : Taking(P, k) => \E i \in DOMAIN W : f[i] = k

Takes(P, W) == P \in Seq(Parts) /\ W \in Seq(Urls) /\ (Refuses(P) \/ \E f : Follows(f, P, W))

\* Putting parts together: no call, one call, calls after each other.
LEMMA TakesNothing == Takes(<<>>, <<>>)
<1>1. <<>> \in Seq(Parts) /\ <<>> \in Seq(Urls) /\ DOMAIN <<>> = {}
  OBVIOUS
<1>2. Follows([i \in {} |-> 0], <<>>, <<>>)
  BY DEF Follows
<1> QED
  BY <1>1, <1>2 DEF Takes

LEMMA OneIsSeq == ASSUME NEW S, NEW x \in S PROVE <<x>> \in Seq(S) /\ DOMAIN <<x>> = {1} /\ <<x>>[1] = x
  OBVIOUS

LEMMA TakesOne ==
  ASSUME NEW c \in Parts, c.does \in {"attach", "put"}
  PROVE  Takes(<<c>>, <<c.url>>)
<1>1. c.url \in Urls
  BY DEF Parts
<1>2. /\ <<c>> \in Seq(Parts) /\ DOMAIN <<c>> = {1} /\ <<c>>[1] = c
      /\ <<c.url>> \in Seq(Urls) /\ DOMAIN <<c.url>> = {1} /\ <<c.url>>[1] = c.url
  BY <1>1, OneIsSeq
<1>3. Follows([i \in {1} |-> 1], <<c>>, <<c.url>>)
  BY <1>2 DEF Follows, Taking
<1> QED
  BY <1>2, <1>3 DEF Takes

LEMMA TakesNone ==
  ASSUME NEW c \in Parts, c.does \notin {"attach", "put"}
  PROVE  Takes(<<c>>, <<>>)
<1>1. <<c>> \in Seq(Parts) /\ DOMAIN <<c>> = {1} /\ <<c>>[1] = c /\ <<>> \in Seq(Urls) /\ DOMAIN <<>> = {}
  BY OneIsSeq
<1>2. Follows([i \in {} |-> 1], <<c>>, <<>>)
  BY <1>1 DEF Follows, Taking
<1> QED
  BY <1>1, <1>2 DEF Takes

\* A publisher that refuses takes nothing, whatever was wanted.
LEMMA Refusing ==
  ASSUME NEW P \in Seq(Parts), Refuses(P), NEW W \in Seq(Urls)
  PROVE  Takes(P, W)
  BY DEF Takes

\* Sequences put together.
LEMMA JoinedLength ==
  ASSUME NEW S, NEW s \in Seq(S), NEW t \in Seq(S)
  PROVE  /\ s \o t \in Seq(S) /\ Len(s \o t) = Len(s) + Len(t)
         /\ \A i \in 1..Len(s) : (s \o t)[i] = s[i]
         /\ \A i \in 1..Len(t) : (s \o t)[Len(s) + i] = t[i]
  OBVIOUS

LEMMA Joined ==
  ASSUME NEW S, NEW s \in Seq(S), NEW t \in Seq(S)
  PROVE  /\ s \o t \in Seq(S) /\ DOMAIN s = 1..Len(s) /\ DOMAIN t = 1..Len(t) /\ Len(s) \in Nat /\ Len(t) \in Nat
         /\ DOMAIN (s \o t) = 1..(Len(s) + Len(t))
         /\ \A i \in DOMAIN s : i \in DOMAIN (s \o t) /\ (s \o t)[i] = s[i]
         /\ \A i \in DOMAIN t : Len(s) + i \in DOMAIN (s \o t) /\ (s \o t)[Len(s) + i] = t[i]
         /\ \A k \in DOMAIN (s \o t) : k \in DOMAIN s \/ (k - Len(s) \in DOMAIN t /\ k = Len(s) + (k - Len(s)))
  OBVIOUS

LEMMA TakesBoth ==
  ASSUME NEW P, NEW W, Takes(P, W), NEW Q, NEW V, Takes(Q, V)
  PROVE  Takes(P \o Q, W \o V)
<1>1. P \in Seq(Parts) /\ Q \in Seq(Parts) /\ W \in Seq(Urls) /\ V \in Seq(Urls)
  BY DEF Takes
<1> DEFINE PQ == P \o Q   WV == W \o V   m == Len(P)   n == Len(W)
<1>2. /\ PQ \in Seq(Parts) /\ DOMAIN P = 1..m /\ DOMAIN Q = 1..Len(Q) /\ m \in Nat /\ Len(Q) \in Nat
      /\ DOMAIN PQ = 1..(m + Len(Q))
      /\ \A i \in DOMAIN P : i \in DOMAIN PQ /\ PQ[i] = P[i]
      /\ \A i \in DOMAIN Q : m + i \in DOMAIN PQ /\ PQ[m + i] = Q[i]
      /\ \A k \in DOMAIN PQ : k \in DOMAIN P \/ (k - m \in DOMAIN Q /\ k = m + (k - m))
  BY <1>1, Joined
<1>3. /\ WV \in Seq(Urls) /\ DOMAIN W = 1..n /\ DOMAIN V = 1..Len(V) /\ n \in Nat /\ Len(V) \in Nat
      /\ DOMAIN WV = 1..(n + Len(V))
      /\ \A i \in DOMAIN W : i \in DOMAIN WV /\ WV[i] = W[i]
      /\ \A i \in DOMAIN V : n + i \in DOMAIN WV /\ WV[n + i] = V[i]
      /\ \A k \in DOMAIN WV : k \in DOMAIN W \/ (k - n \in DOMAIN V /\ k = n + (k - n))
  BY <1>1, Joined
<1> HIDE DEF PQ, WV, m, n
<1>4. CASE Refuses(P) \/ Refuses(Q)
  <2>1. Refuses(PQ)
    BY <1>2, <1>4 DEF Refuses
  <2> QED
    BY <1>2, <1>3, <2>1 DEF Takes, PQ, WV
<1>5. CASE ~Refuses(P) /\ ~Refuses(Q)
  <2>1. PICK f : Follows(f, P, W)
    BY <1>5 DEF Takes
  <2>2. PICK g : Follows(g, Q, V)
    BY <1>5 DEF Takes
  <2> DEFINE h == [i \in DOMAIN WV |-> IF i \in DOMAIN W THEN f[i] ELSE m + g[i - n]]
  <2>3. h \in [DOMAIN WV -> DOMAIN PQ]
    <3> SUFFICES ASSUME NEW i \in DOMAIN WV PROVE h[i] \in DOMAIN PQ
      OBVIOUS
    <3>1. CASE i \in DOMAIN W
      BY <1>2, <2>1, <3>1 DEF Follows
    <3>2. CASE i \notin DOMAIN W
      BY <1>2, <1>3, <2>2, <3>2 DEF Follows
    <3> QED
      BY <3>1, <3>2
  <2>4. \A i \in DOMAIN W : h[i] = f[i] /\ f[i] \in DOMAIN P /\ f[i] \in 1..m
    BY <1>2, <1>3, <2>1 DEF Follows
  <2>5. \A i \in DOMAIN V : n + i \in DOMAIN WV /\ n + i \notin DOMAIN W /\ g[i] \in DOMAIN Q /\ h[n + i] = m + g[i]
    <3> SUFFICES ASSUME NEW i \in DOMAIN V
                 PROVE  n + i \in DOMAIN WV /\ n + i \notin DOMAIN W /\ g[i] \in DOMAIN Q /\ h[n + i] = m + g[i]
      OBVIOUS
    <3>1. n + i \in DOMAIN WV /\ n + i \notin DOMAIN W /\ (n + i) - n = i
      BY <1>3
    <3> QED
      BY <2>2, <3>1 DEF Follows
  <2> HIDE DEF h
  <2>6. \A k \in DOMAIN WV : k \in DOMAIN W \/ \E i \in DOMAIN V : k = n + i
    BY <1>3
  <2>7. ASSUME NEW i \in DOMAIN WV, NEW j \in DOMAIN WV, i < j PROVE h[i] < h[j]
    <3>1. CASE i \in DOMAIN W /\ j \in DOMAIN W
      BY <2>1, <2>4, <2>7, <3>1 DEF Follows
    <3>2. CASE i \in DOMAIN W /\ j \notin DOMAIN W
      <4>1. PICK l \in DOMAIN V : j = n + l
        BY <2>6, <3>2
      <4>2. g[l] \in Nat /\ g[l] >= 1
        BY <1>2, <2>5
      <4> QED
        BY <1>2, <2>4, <2>5, <3>2, <4>1, <4>2
    <3>3. CASE i \notin DOMAIN W
      <4>1. PICK k \in DOMAIN V : i = n + k
        BY <2>6, <3>3
      <4>2. j \notin DOMAIN W
        BY <1>3, <2>7, <4>1
      <4>3. PICK l \in DOMAIN V : j = n + l
        BY <2>6, <4>2
      <4>4. k < l
        BY <1>3, <2>7, <4>1, <4>3
      <4>5. g[k] < g[l] /\ g[k] \in Nat /\ g[l] \in Nat
        BY <1>2, <2>2, <4>4 DEF Follows
      <4> QED
        BY <1>2, <2>5, <4>1, <4>3, <4>5
    <3> QED
      BY <3>1, <3>2, <3>3
  <2>8. ASSUME NEW i \in DOMAIN WV PROVE Taking(PQ, h[i]) /\ PQ[h[i]].url = WV[i]
    <3>1. CASE i \in DOMAIN W
      <4>1. Taking(P, f[i]) /\ P[f[i]].url = W[i]
        BY <2>1, <3>1 DEF Follows
      <4>2. h[i] = f[i] /\ PQ[h[i]] = P[f[i]] /\ WV[i] = W[i]
        BY <1>2, <1>3, <2>4, <3>1
      <4> QED
        BY <4>1, <4>2 DEF Taking
    <3>2. CASE i \notin DOMAIN W
      <4>1. PICK l \in DOMAIN V : i = n + l
        BY <2>6, <3>2
      <4>2. Taking(Q, g[l]) /\ Q[g[l]].url = V[l]
        BY <2>2 DEF Follows
      <4>3. PQ[h[i]] = Q[g[l]] /\ WV[i] = V[l]
        BY <1>2, <1>3, <2>5, <4>1
      <4> QED
        BY <4>2, <4>3 DEF Taking
    <3> QED
      BY <3>1, <3>2
  <2>9. ASSUME NEW k \in DOMAIN PQ, Taking(PQ, k) PROVE \E i \in DOMAIN WV : h[i] = k
    <3>1. CASE k \in DOMAIN P
      <4>1. Taking(P, k)
        BY <1>2, <2>9, <3>1 DEF Taking
      <4>2. PICK i \in DOMAIN W : f[i] = k
        BY <2>1, <3>1, <4>1 DEF Follows
      <4> QED
        BY <1>3, <2>4, <4>2
    <3>2. CASE k \notin DOMAIN P
      <4>1. k - m \in DOMAIN Q /\ k = m + (k - m)
        BY <1>2, <3>2
      <4>2. Taking(Q, k - m)
        BY <1>2, <2>9, <4>1 DEF Taking
      <4>3. PICK i \in DOMAIN V : g[i] = k - m
        BY <2>2, <4>1, <4>2 DEF Follows
      <4> QED
        BY <2>5, <4>1, <4>3
    <3> QED
      BY <3>1, <3>2
  <2>10. Follows(h, PQ, WV)
    BY <2>3, <2>7, <2>8, <2>9 DEF Follows
  <2> QED
    BY <1>2, <1>3, <2>10 DEF Takes, PQ, WV
<1> QED
  BY <1>4, <1>5

\* Induction over natural numbers, for a set of good ones in the place of a predicate.
LEMMA UpFromZero ==
  ASSUME NEW Good \in SUBSET Nat, 0 \in Good, \A n \in Good : n + 1 \in Good
  PROVE  Good = Nat
<1> SUFFICES ASSUME Nat \ Good # {} PROVE FALSE
  OBVIOUS
<1>1. PICK k \in Nat \ Good : \A m \in Nat \ Good : <<m, k>> \notin OpToRel(<, Nat)
  <2> DEFINE Bad == Nat \ Good
  <2>1. Bad \subseteq Nat /\ Bad # {}
    OBVIOUS
  <2> HIDE DEF Bad
  <2>2. PICK k \in Bad : \A m \in Bad : <<m, k>> \notin OpToRel(<, Nat)
    BY <2>1, NatLessThanWellFounded, WFMin
  <2> QED
    BY <2>2 DEF Bad
<1>2. k # 0 /\ k - 1 \in Nat /\ k - 1 < k
  OBVIOUS
<1>3. k - 1 \in Good
  BY <1>1, <1>2 DEF OpToRel
<1> QED
  BY <1>2, <1>3

\* The sequence of what FlattenSeq has put together after each of the first m parts.
IsFlat(ss, m, g) == g = [i \in 1..m |-> IF i = 1 THEN ss[i] ELSE g[i - 1] \o ss[i]]

LEMMA FlatStep ==
  ASSUME NEW ss, NEW m \in Nat, NEW g, IsFlat(ss, m, g), NEW i \in 1..m
  PROVE  g[i] = IF i = 1 THEN ss[i] ELSE g[i - 1] \o ss[i]
<1> DEFINE Part(j) == IF j = 1 THEN ss[j] ELSE g[j - 1] \o ss[j]
<1>1. g = [j \in 1..m |-> Part(j)]
  BY DEF IsFlat
<1> HIDE DEF Part
<1>2. g[i] = Part(i)
  BY <1>1
<1> QED
  BY <1>2 DEF Part

LEMMA FlatExists == ASSUME NEW ss, NEW m \in Nat PROVE \E g : IsFlat(ss, m, g)
<1> DEFINE Good == {n \in Nat : \E g : IsFlat(ss, n, g)}
<1>1. 0 \in Good
  <2>1. IsFlat(ss, 0, [i \in 1..0 |-> <<>>])
    BY DEF IsFlat
  <2> QED
    BY <2>1
<1>2. ASSUME NEW n \in Good PROVE n + 1 \in Good
  <2>1. PICK g : IsFlat(ss, n, g)
    OBVIOUS
  <2> DEFINE h == [i \in 1..(n + 1) |-> IF i = 1 THEN ss[i] ELSE g[i - 1] \o ss[i]]
  <2>2. \A i \in 1..n : h[i] = g[i]
    BY <2>1, FlatStep
  <2>3. \A i \in 1..(n + 1) : i = 1 \/ i - 1 \in 1..n
    OBVIOUS
  <2>4. \A i \in 1..(n + 1) : h[i] = IF i = 1 THEN ss[i] ELSE h[i - 1] \o ss[i]
    BY <2>2, <2>3
  <2>5. h = [i \in 1..(n + 1) |-> h[i]]
    OBVIOUS
  <2> HIDE DEF h
  <2>6. IsFlat(ss, n + 1, h)
    BY <2>4, <2>5 DEF IsFlat
  <2> QED
    BY <2>6
<1>3. Good = Nat
  <2> HIDE DEF Good
  <2>1. Good \subseteq Nat
    BY DEF Good
  <2> QED
    BY <1>1, <1>2, <2>1, UpFromZero
<1> QED
  BY <1>3

Flat(ss, m) == CHOOSE g : IsFlat(ss, m, g)

LEMMA FlatOf ==
  ASSUME NEW ss, Len(ss) \in Nat
  PROVE  /\ Len(ss) = 0 => Calls!FlattenSeq(ss) = ss
         /\ Len(ss) # 0 => Calls!FlattenSeq(ss) = Flat(ss, Len(ss))[Len(ss)]
  BY DEF Calls!FlattenSeq, Flat, IsFlat

\* What the parts take, put together step by step, is what the plan takes.
LEMMA FlattenTakes ==
  ASSUME NEW n \in Nat, NEW ss \in [1..n -> Seq(Parts)], NEW pre, pre[0] = <<>>,
         \A i \in 1..n : \E W : Takes(ss[i], W) /\ pre[i] = pre[i - 1] \o W
  PROVE  Takes(Calls!FlattenSeq(ss), pre[n])
<1>1. Len(ss) = n /\ (n = 0 => ss = <<>>)
  OBVIOUS
<1>2. CASE n = 0
  BY <1>1, <1>2, FlatOf, TakesNothing
<1>3. CASE n # 0
  <2> DEFINE g == Flat(ss, n)
  <2>1. IsFlat(ss, n, g)
    BY FlatExists DEF Flat
  <2> HIDE DEF g
  <2> DEFINE Good == {m \in Nat : m \in 1..n => Takes(g[m], pre[m])}
  <2>2. 0 \in Good
    OBVIOUS
  <2>3. ASSUME NEW m \in Good PROVE m + 1 \in Good
    <3> SUFFICES ASSUME m + 1 \in 1..n PROVE Takes(g[m + 1], pre[m + 1])
      OBVIOUS
    <3>1. PICK W : Takes(ss[m + 1], W) /\ pre[m + 1] = pre[(m + 1) - 1] \o W
      OBVIOUS
    <3>2. (m + 1) - 1 = m /\ g[m + 1] = IF m + 1 = 1 THEN ss[m + 1] ELSE g[m] \o ss[m + 1]
      BY <2>1, FlatStep
    <3>3. CASE m = 0
      <4>1. <<>> \o W = W
        BY <3>1 DEF Takes
      <4>2. m + 1 = 1 /\ pre[m] = <<>>
        BY <3>3
      <4>3. g[m + 1] = ss[m + 1] /\ pre[m + 1] = W
        BY <3>1, <3>2, <4>1, <4>2
      <4> QED
        BY <3>1, <4>3
    <3>4. CASE m # 0
      <4>1. Takes(g[m], pre[m])
        BY <3>4
      <4> QED
        BY <3>1, <3>2, <3>4, <4>1, TakesBoth
    <3> QED
      BY <3>3, <3>4
  <2>4. Good = Nat
    <3> HIDE DEF Good
    <3>1. Good \subseteq Nat
      BY DEF Good
    <3> QED
      BY <2>2, <2>3, <3>1, UpFromZero
  <2>5. Takes(g[n], pre[n])
    <3>1. n \in 1..n
      BY <1>3
    <3>2. n \in Good
      <4> HIDE DEF Good
      <4> QED
        BY <2>4
    <3> QED
      BY <3>1, <3>2
  <2> QED
    BY <1>1, <1>3, <2>5, FlatOf DEF g
<1> QED
  BY <1>2, <1>3

\* For one part for each URL: each takes its URL, or each takes nothing.
LEMMA EachTakes ==
  ASSUME NEW urls \in Seq(Urls), NEW ss \in [DOMAIN urls -> Seq(Parts)],
         \A i \in DOMAIN urls : Takes(ss[i], <<urls[i]>>)
  PROVE  Takes(Calls!FlattenSeq(ss), urls)
<1> DEFINE n == Len(urls)   pre == [i \in 0..n |-> SubSeq(urls, 1, i)]
<1>1. n \in Nat /\ DOMAIN urls = 1..n
  OBVIOUS
<1>2. pre[0] = <<>> /\ pre[n] = urls
  BY <1>1
<1>3. ASSUME NEW i \in 1..n PROVE pre[i] = pre[i - 1] \o <<urls[i]>>
  BY <1>1, <1>3
<1> HIDE DEF pre, n
<1> QED
  BY <1>1, <1>2, <1>3, FlattenTakes

LEMMA EachTakesNothing ==
  ASSUME NEW urls \in Seq(Urls), NEW ss \in [DOMAIN urls -> Seq(Parts)],
         \A i \in DOMAIN urls : Takes(ss[i], <<>>)
  PROVE  Takes(Calls!FlattenSeq(ss), <<>>)
<1> DEFINE n == Len(urls)   pre == [i \in 0..n |-> <<>>]
<1>1. n \in Nat /\ DOMAIN urls = 1..n
  OBVIOUS
<1>2. pre[0] = <<>> /\ pre[n] = <<>>
  BY <1>1
<1>3. ASSUME NEW i \in 1..n PROVE pre[i] = pre[i - 1] \o <<>>
  BY <1>1, <1>3
<1> HIDE DEF pre, n
<1> QED
  BY <1>1, <1>2, <1>3, FlattenTakes

-----------------------------------------------------------------------------
(* Media of the payload *)

Once(s) == s \in Seq(Urls) /\ \A i, j \in DOMAIN s : s[i] = s[j] => i = j

Ready == payload \in Calls!Payloads /\ Calls!Ordered(payload.many)

\* media_urls of a payload has no URL twice, and taking one out of it leaves that so.
LEMMA ManyOnce ==
  ASSUME Calls!ConstantsOK, Ready
  PROVE  /\ payload.single \in {0} \cup Urls /\ payload.kind \in [Urls -> Calls!Kinds]
         /\ Once(payload.many)
<1>1. payload.many \in Calls!BoundedSeq(Urls, Calls!Cardinality(Urls))
  BY DEF Ready, Calls!Payloads
<1>2. PICK m \in 0..Calls!Cardinality(Urls) : payload.many \in [1..m -> Urls]
  BY <1>1 DEF Calls!BoundedSeq, Calls!SeqOf
<1>3. Calls!Cardinality(Urls) = Cardinality(Urls) /\ Cardinality(Urls) \in Nat
  BY FS_CardinalityType DEF Calls!ConstantsOK, Calls!IsFiniteSet, IsFiniteSet, Calls!Cardinality, Cardinality
<1>4. m \in Nat
  BY <1>3
<1>5. payload.many \in Seq(Urls) /\ DOMAIN payload.many = 1..m
  BY <1>2, <1>4
<1>6. ASSUME NEW i \in 1..m, NEW j \in 1..m, payload.many[i] = payload.many[j] PROVE i = j
  <2>1. payload.many[i] \in Nat /\ payload.many[j] \in Nat
    BY <1>2 DEF Calls!ConstantsOK
  <2>2. ~(i < j) /\ ~(j < i)
    BY <1>5, <1>6, <2>1 DEF Ready, Calls!Ordered
  <2> QED
    BY <1>4, <2>2
<1> QED
  BY <1>5, <1>6 DEF Ready, Calls!Payloads, Once

LEMMA WithoutOnce ==
  ASSUME NEW s, Once(s), NEW e
  PROVE  /\ Once(Calls!RemoveFirst(s, e))
         /\ \A i \in DOMAIN Calls!RemoveFirst(s, e) : Calls!RemoveFirst(s, e)[i] # e
<1>0. s \in Seq(Urls) /\ Len(s) \in Nat /\ DOMAIN s = 1..Len(s)
  BY DEF Once
<1>1. CASE ~\E i \in 1..Len(s) : s[i] = e
  <2>1. Calls!RemoveFirst(s, e) = s
    BY <1>1 DEF Calls!RemoveFirst
  <2> QED
    BY <1>0, <1>1, <2>1
<1>2. CASE \E i \in 1..Len(s) : s[i] = e
  <2>1. PICK k \in 1..Len(s) : s[k] = e
    BY <1>2
  <2>2. {i \in 1..Len(s) : s[i] = e} = {k}
    BY <1>0, <2>1 DEF Once
  <2>3. Calls!Min({k}) = k
    BY <1>0, <2>1 DEF Calls!Min
  <2>4. Calls!SelectInSeq(s, LAMBDA v : v = e) = k
    BY <2>2, <2>3 DEF Calls!SelectInSeq
  <2>5. Calls!RemoveFirst(s, e) = SubSeq(s, 1, k - 1) \o SubSeq(s, k + 1, Len(s))
    BY <1>2, <2>4 DEF Calls!RemoveFirst, Calls!RemoveAt
  <2> DEFINE a == SubSeq(s, 1, k - 1)   b == SubSeq(s, k + 1, Len(s))   t == a \o b
  <2>6. k \in Nat /\ Len(s) \in Nat /\ 1 <= k /\ k <= Len(s)
    BY <1>0, <2>1
  <2>7. a \in Seq(Urls) /\ Len(a) = k - 1 /\ \A i \in 1..(k - 1) : a[i] = s[i]
    BY <1>0, <2>6
  <2>8. b \in Seq(Urls) /\ Len(b) = Len(s) - k
    <3>1. \A i \in (k + 1)..Len(s) : s[i] \in Urls
      BY <1>0, <2>6
    <3>2. b \in Seq(Urls) /\ Len(b) = IF k + 1 <= Len(s) THEN Len(s) - (k + 1) + 1 ELSE 0
      BY <2>6, <3>1, SubSeqProperties
    <3> QED
      BY <2>6, <3>2
  <2>9. ASSUME NEW i \in 1..(Len(s) - k) PROVE b[i] = s[k + i]
    <3>1. i \in 1..(Len(s) - (k + 1) + 1) /\ k + 1 \in 1..Len(s) /\ k + i = (k + 1) + i - 1
      BY <2>6
    <3>2. b[i] = s[(k + 1) + i - 1]
      BY <1>0, <3>1, SubSeqProperties
    <3> QED
      BY <3>1, <3>2
  <2> HIDE DEF a, b
  <2>10. /\ t \in Seq(Urls) /\ Len(t) = Len(s) - 1 /\ DOMAIN t = 1..(Len(s) - 1)
         /\ \A i \in 1..(Len(s) - 1) : t[i] = IF i < k THEN s[i] ELSE s[i + 1]
    <3>1. /\ t \in Seq(Urls) /\ DOMAIN a = 1..(k - 1) /\ DOMAIN b = 1..(Len(s) - k)
          /\ Len(t) = (k - 1) + (Len(s) - k) /\ DOMAIN t = 1..((k - 1) + (Len(s) - k))
          /\ \A i \in DOMAIN a : t[i] = a[i]
          /\ \A i \in DOMAIN b : t[(k - 1) + i] = b[i]
      <4>1. /\ t \in Seq(Urls) /\ DOMAIN a = 1..Len(a) /\ DOMAIN b = 1..Len(b)
            /\ Len(t) = Len(a) + Len(b) /\ DOMAIN t = 1..(Len(a) + Len(b))
            /\ \A i \in DOMAIN a : t[i] = a[i]
            /\ \A i \in DOMAIN b : t[Len(a) + i] = b[i]
        <5>1. a \in Seq(Urls) /\ b \in Seq(Urls)
          BY <2>7, <2>8
        <5> QED
          BY <5>1, Joined, JoinedLength
      <4> HIDE DEF t
      <4> QED
        BY <2>7, <2>8, <4>1
    <3>2. (k - 1) + (Len(s) - k) = Len(s) - 1 /\ Len(s) - 1 \in Nat
      BY <2>6
    <3>3. DOMAIN t = 1..(Len(s) - 1) /\ Len(t) = Len(s) - 1
      BY <3>1, <3>2
    <3>4. ASSUME NEW i \in 1..(Len(s) - 1) PROVE t[i] = IF i < k THEN s[i] ELSE s[i + 1]
      <4>1. CASE i < k
        <5>1. i \in 1..(k - 1)
          BY <2>6, <4>1
        <5> QED
          BY <2>7, <3>1, <4>1, <5>1
      <4>2. CASE ~(i < k)
        <5>1. i - (k - 1) \in 1..(Len(s) - k) /\ (k - 1) + (i - (k - 1)) = i /\ k + (i - (k - 1)) = i + 1
          BY <2>6, <4>2
        <5>2. t[(k - 1) + (i - (k - 1))] = s[k + (i - (k - 1))]
          BY <2>9, <3>1, <5>1
        <5> QED
          BY <4>2, <5>1, <5>2
      <4> QED
        BY <4>1, <4>2
    <3> HIDE DEF t
    <3> QED
      BY <3>1, <3>3, <3>4
  <2> HIDE DEF t
  <2>11. \A i \in 1..(Len(s) - 1) : \E l \in 1..Len(s) : l # k /\ t[i] = s[l] /\ l = IF i < k THEN i ELSE i + 1
    BY <1>0, <2>1, <2>10
  <2>12. \A i \in DOMAIN t : t[i] # e
    BY <1>0, <2>1, <2>10, <2>11 DEF Once
  <2>13. ASSUME NEW i \in DOMAIN t, NEW j \in DOMAIN t, t[i] = t[j] PROVE i = j
    <3>1. PICK l \in 1..Len(s) : t[i] = s[l] /\ l = IF i < k THEN i ELSE i + 1
      BY <2>10, <2>11
    <3>2. PICK m \in 1..Len(s) : t[j] = s[m] /\ m = IF j < k THEN j ELSE j + 1
      BY <2>10, <2>11
    <3>3. l = m
      BY <1>0, <2>13, <3>1, <3>2 DEF Once
    <3> QED
      BY <1>0, <2>1, <2>10, <3>1, <3>2, <3>3
  <2> QED
    BY <2>5, <2>10, <2>12, <2>13 DEF Once, t, a, b
<1> QED
  BY <1>1, <1>2

\* What a platform wants of the payload has no URL twice.
LEMMA DistinctOnce ==
  ASSUME Calls!ConstantsOK, Ready
  PROVE  Once(Calls!Distinct) /\ Once(Calls!First)
<1>1. payload.single \in {0} \cup Urls /\ Once(payload.many)
  BY ManyOnce
<1> DEFINE rest == Calls!RemoveFirst(payload.many, payload.single)
<1>2. Once(rest) /\ \A i \in DOMAIN rest : rest[i] # payload.single
  BY <1>1, WithoutOnce
<1> HIDE DEF rest
<1>3. CASE payload.single = 0
  <2>1. Calls!First = <<>> /\ Calls!Distinct = <<>> \o rest
    BY <1>3 DEF Calls!First, Calls!Distinct, rest
  <2>2. <<>> \o rest = rest
    BY <1>2 DEF Once
  <2>3. Once(<<>>)
    BY DEF Once
  <2> QED
    BY <1>2, <2>1, <2>2, <2>3
<1>4. CASE payload.single # 0
  <2>1. Calls!First = <<payload.single>> /\ Calls!Distinct = <<payload.single>> \o rest
    BY <1>4 DEF Calls!First, Calls!Distinct, rest
  <2> DEFINE u == payload.single   t == <<u>> \o rest
  <2>2. u \in Urls
    BY <1>1, <1>4
  <2> HIDE DEF u
  <2>3. Once(<<u>>)
    BY <2>2 DEF Once
  <2>4. rest \in Seq(Urls) /\ DOMAIN rest = 1..Len(rest) /\ Len(rest) \in Nat
    BY <1>2 DEF Once
  <2>5. /\ t \in Seq(Urls) /\ DOMAIN t = 1..(Len(rest) + 1)
        /\ t[1] = u /\ \A i \in 2..(Len(rest) + 1) : i - 1 \in DOMAIN rest /\ t[i] = rest[i - 1]
    BY <2>2, <2>4
  <2> HIDE DEF t
  <2>6. ASSUME NEW i \in DOMAIN t, NEW j \in DOMAIN t, t[i] = t[j] PROVE i = j
    <3>1. i \in Nat /\ j \in Nat /\ (i = 1 \/ i \in 2..(Len(rest) + 1)) /\ (j = 1 \/ j \in 2..(Len(rest) + 1))
      BY <2>4, <2>5
    <3>2. i = 1 <=> j = 1
      BY <1>2, <2>5, <2>6, <3>1 DEF u
    <3>3. i # 1 => i - 1 = j - 1
      BY <1>2, <2>5, <2>6, <3>1, <3>2 DEF Once
    <3> QED
      BY <3>1, <3>2, <3>3
  <2> QED
    BY <2>1, <2>3, <2>5, <2>6 DEF Once, t, u
<1> QED
  BY <1>3, <1>4

LEMMA UpToOnce ==
  ASSUME NEW s, Once(s), NEW n \in Nat
  PROVE  Once(Calls!UpTo(n, s))
<1>1. CASE Len(s) <= n
  BY <1>1 DEF Calls!UpTo
<1>2. CASE ~(Len(s) <= n)
  <2>1. s \in Seq(Urls) /\ Len(s) \in Nat /\ DOMAIN s = 1..Len(s)
    BY DEF Once
  <2> DEFINE t == SubSeq(s, 1, n)
  <2>2. t \in Seq(Urls) /\ DOMAIN t = 1..n /\ \A i \in 1..n : t[i] = s[i]
    BY <1>2, <2>1
  <2>3. 1..n \subseteq DOMAIN s
    BY <1>2, <2>1
  <2> HIDE DEF t
  <2>4. Once(t)
    BY <2>2, <2>3 DEF Once
  <2> QED
    BY <1>2, <2>4 DEF Calls!UpTo, t
<1> QED
  BY <1>1, <1>2

LEMMA WantedOnce ==
  ASSUME Calls!ConstantsOK, Ready
  PROVE  Once(Calls!Wanted) /\ Once(Calls!Limited)
<1>1. /\ Once(Calls!Distinct) /\ Once(Calls!First) /\ Once(payload.many)
      /\ Once(Calls!Limited) /\ Once(Calls!UpTo(1, Calls!Distinct))
  BY DistinctOnce, UpToOnce, ManyOnce DEF Calls!Limited, Calls!ConstantsOK
<1> QED
  BY <1>1 DEF Calls!Wanted

-----------------------------------------------------------------------------
(* The plan of each platform *)

\* What single calls take.
Given(c, W) == c \in Parts /\ Takes(<<c>>, W)

LEMMA Single ==
  ASSUME Calls!ConstantsOK, NEW u \in Urls
  PROVE  /\ Given(Calls!Attach(u), <<u>>) /\ Given(Calls!Get(u), <<>>) /\ Given(Calls!Send(u), <<>>)
         /\ Given(Calls!Call("ask", u, "reject", "raise"), <<>>)
         /\ \A blank \in {"none", "reject"} : Given(Calls!Put(u, blank, "raise"), <<u>>)
         /\ u \in Calls!Dispensable => Given(Calls!Put(u, "skip", "raise"), <<u>>)
         /\ u \in Calls!Dispensable /\ platform = "max" => Given(Calls!Put(u, "skip", "skip"), <<u>>)
<1>1. u \in Nat
  BY DEF Calls!ConstantsOK
<1>2. /\ Calls!Attach(u) \in Parts /\ Calls!Attach(u).does = "attach" /\ Calls!Attach(u).url = u
      /\ Calls!Get(u) \in Parts /\ Calls!Get(u).does = "get"
      /\ Calls!Send(u) \in Parts /\ Calls!Send(u).does = "send"
  BY <1>1 DEF Parts, Calls!Attach, Calls!Get, Calls!Send, Calls!Call
<1>3. /\ Calls!Call("ask", u, "reject", "raise") \in Parts
      /\ Calls!Call("ask", u, "reject", "raise").does = "ask"
  BY <1>1 DEF Parts, Calls!Call
<1>4. \A c \in Parts : c.does \in {"attach", "put"} => Given(c, <<c.url>>)
  BY TakesOne DEF Given
<1>5. \A c \in Parts : c.does \notin {"attach", "put"} => Given(c, <<>>)
  BY TakesNone DEF Given
<1>6. ASSUME NEW blank \in {"none", "reject", "skip"}, NEW fails \in {"raise", "skip"},
             blank = "skip" \/ fails = "skip" => u \in Calls!Dispensable, fails = "skip" => platform = "max"
      PROVE  Given(Calls!Put(u, blank, fails), <<u>>)
  <2> DEFINE c == Calls!Put(u, blank, fails)
  <2>1. c \in Parts /\ c.does = "put" /\ c.url = u
    BY <1>1, <1>6 DEF Parts, Calls!Put, Calls!Call
  <2> HIDE DEF c
  <2>2. Given(c, <<u>>)
    BY <1>4, <2>1
  <2> QED
    BY <2>2 DEF c
<1>7. Given(Calls!Attach(u), <<u>>)
  BY <1>2, <1>4
<1>8. /\ Given(Calls!Get(u), <<>>) /\ Given(Calls!Send(u), <<>>)
      /\ Given(Calls!Call("ask", u, "reject", "raise"), <<>>)
  BY <1>2, <1>3, <1>5
<1> QED
  BY <1>6, <1>7, <1>8

LEMMA Asked ==
  /\ \A blank \in {"none", "reject", "transient"} : Given(Calls!Ask(blank), <<>>)
  /\ Given(Calls!FindChat, <<>>) /\ Given(Calls!Processed, <<>>)
<1>1. \A c \in Parts : c.does \notin {"attach", "put"} => Given(c, <<>>)
  BY TakesNone DEF Given
<1>2. \A blank \in {"none", "reject", "transient"} : Calls!Ask(blank) \in Parts /\ Calls!Ask(blank).does = "ask"
  BY DEF Parts, Calls!Ask, Calls!Call
<1>3. /\ Calls!FindChat \in Parts /\ Calls!FindChat.does = "ask"
      /\ Calls!Processed \in Parts /\ Calls!Processed.does = "wait"
  BY DEF Parts, Calls!FindChat, Calls!Processed, Calls!Call
<1> QED
  BY <1>1, <1>2, <1>3

LEMMA TakesRefusal ==
  ASSUME NEW W \in Seq(Urls)
  PROVE  Given(Calls!Refuse, W)
<1>1. Calls!Refuse \in Parts /\ Calls!Refuse.does = "refuse"
  BY DEF Parts, Calls!Refuse, Calls!Call
<1>2. <<Calls!Refuse>> \in Seq(Parts) /\ DOMAIN <<Calls!Refuse>> = {1} /\ <<Calls!Refuse>>[1] = Calls!Refuse
  BY <1>1, OneIsSeq
<1>3. Refuses(<<Calls!Refuse>>)
  BY <1>1, <1>2 DEF Refuses
<1> QED
  BY <1>1, <1>2, <1>3, Refusing DEF Given

LEMMA TakesWith ==
  ASSUME NEW P, NEW W, NEW Q
  PROVE  /\ Takes(P, <<>>) /\ Takes(Q, W) => Takes(P \o Q, W)
         /\ Takes(P, W) /\ Takes(Q, <<>>) => Takes(P \o Q, W)
<1>1. ASSUME Takes(P, <<>>), Takes(Q, W) PROVE Takes(P \o Q, W)
  <2>1. <<>> \o W = W
    BY <1>1 DEF Takes
  <2> QED
    BY <1>1, <2>1, TakesBoth
<1>2. ASSUME Takes(P, W), Takes(Q, <<>>) PROVE Takes(P \o Q, W)
  <2>1. W \o <<>> = W
    BY <1>2 DEF Takes
  <2> QED
    BY <1>2, <2>1, TakesBoth
<1> QED
  BY <1>1, <1>2

\* Short sequences put together.
LEMMA PutBefore ==
  ASSUME NEW S, NEW a \in S, NEW t \in Seq(S), NEW u \in Seq(S),
         Len(u) = Len(t) + 1, u[1] = a, \A i \in 1..Len(t) : u[1 + i] = t[i]
  PROVE  <<a>> \o t = u
<1> DEFINE s == <<a>> 
<1>2. s \in Seq(S) /\ Len(s) = 1 /\ s[1] = a /\ Len(t) \in Nat
  OBVIOUS
<1> HIDE DEF s
<1> DEFINE v == s \o t
<1>3. /\ v \in Seq(S) /\ Len(v) = 1 + Len(t)
      /\ v[1] = s[1]
      /\ \A i \in 1..Len(t) : v[1 + i] = t[i]
  <2>1. /\ v \in Seq(S) /\ Len(v) = Len(s) + Len(t)
        /\ \A i \in 1..Len(s) : v[i] = s[i]
        /\ \A i \in 1..Len(t) : v[Len(s) + i] = t[i]
    <3>1. s \in Seq(S) /\ t \in Seq(S)
      BY <1>2
    <3> QED
      BY <3>1, JoinedLength
  <2> HIDE DEF v
  <2> QED
    BY <1>2, <2>1
<1> HIDE DEF v
<1>4. \A i \in 1..Len(u) : i = 1 \/ (i - 1 \in 1..Len(t) /\ i = 1 + (i - 1))
  BY <1>2
<1>5. \A i \in 1..Len(u) : u[i] = v[i]
  BY <1>2, <1>3, <1>4
<1>6. v = u
  BY <1>2, <1>3, <1>5, SeqEqual
<1> QED
  BY <1>6 DEF s, v

LEMMA Pair ==
  ASSUME NEW S, NEW a \in S, NEW b \in S
  PROVE  <<a>> \o <<b>> = <<a, b>>
<1> DEFINE t == <<b>> u == <<a, b>>
<1>2. t \in Seq(S) /\ Len(t) = 1 /\ t[1] = b
  OBVIOUS
<1>1. u \in Seq(S) /\ Len(u) = 2 /\ u[1] = a /\ u[2] = b
  OBVIOUS
<1> HIDE DEF t, u
<1>3. <<a>> \o t = u
  <2>1. Len(u) = Len(t) + 1 /\ \A i \in 1..Len(t) : i = 1 /\ u[1 + i] = t[i]
    BY <1>1, <1>2
  <2> QED
    BY <1>1, <1>2, <2>1, PutBefore
<1> QED
  BY <1>3 DEF t, u

LEMMA Triple ==
  ASSUME NEW S, NEW a \in S, NEW b \in S, NEW c \in S
  PROVE  <<a>> \o <<b, c>> = <<a, b, c>>
<1> DEFINE t == <<b, c>> u == <<a, b, c>>
<1>2. t \in Seq(S) /\ Len(t) = 2 /\ t[1] = b /\ t[2] = c
  OBVIOUS
<1>1. u \in Seq(S) /\ Len(u) = 3 /\ u[1] = a /\ u[2] = b /\ u[3] = c
  OBVIOUS
<1> HIDE DEF t, u
<1>3. <<a>> \o t = u
  <2>1. Len(u) = Len(t) + 1 /\ \A i \in 1..Len(t) : u[1 + i] = t[i]
    <3>1. \A i \in 1..Len(t) : i = 1 \/ i = 2
      BY <1>2
    <3> QED
      BY <1>1, <1>2, <3>1
  <2> QED
    BY <1>1, <1>2, <2>1, PutBefore
<1> QED
  BY <1>3 DEF t, u

\* Two or three calls after each other.
LEMMA TakesAfter ==
  ASSUME NEW a, NEW W, NEW b, Given(a, <<>>), Given(b, W)
  PROVE  Takes(<<a, b>>, W)
<1>1. a \in Parts /\ b \in Parts /\ Takes(<<a>>, <<>>) /\ Takes(<<b>>, W)
  BY DEF Given
<1>2. <<a>> \o <<b>> = <<a, b>>
  BY <1>1, Pair
<1>3. Takes(<<a>> \o <<b>>, W)
  BY <1>1, TakesWith
<1> QED
  BY <1>2, <1>3

LEMMA TakesBefore ==
  ASSUME NEW a, NEW W, NEW b, Given(a, W), Given(b, <<>>)
  PROVE  Takes(<<a, b>>, W)
<1>1. a \in Parts /\ b \in Parts /\ Takes(<<a>>, W) /\ Takes(<<b>>, <<>>)
  BY DEF Given
<1>2. <<a>> \o <<b>> = <<a, b>>
  BY <1>1, Pair
<1>3. Takes(<<a>> \o <<b>>, W)
  BY <1>1, TakesWith
<1> QED
  BY <1>2, <1>3

LEMMA TakesLast ==
  ASSUME NEW a, NEW b, NEW c, NEW W, Given(a, <<>>), Given(b, <<>>), Given(c, W)
  PROVE  Takes(<<a, b, c>>, W)
<1>1. a \in Parts /\ b \in Parts /\ c \in Parts /\ Takes(<<a>>, <<>>)
  BY DEF Given
<1>2. <<a>> \o <<b, c>> = <<a, b, c>>
  BY <1>1, Triple
<1>3. Takes(<<b, c>>, W)
  BY TakesAfter
<1>4. Takes(<<a>> \o <<b, c>>, W)
  BY <1>1, <1>3, TakesWith
<1> QED
  BY <1>2, <1>4

\* A plan: the parts, which take what is wanted, and the call that shows the post.
Finals == [does : {"show", "refuse"}, url : Nat, blank : {"none", "reject"}, fails : {"raise", "reject"}]

Complete(P, W) ==
  \E B, c : /\ P = B \o <<c>> /\ B \in Seq(Parts) /\ c \in Finals
            /\ c.does = "show" => Takes(B, W)

LEMMA Shown ==
  ASSUME NEW B, NEW W, Takes(B, W)
  PROVE  Complete(B \o <<Calls!Show>>, W)
<1>1. Calls!Show \in Finals
  BY DEF Finals, Calls!Show, Calls!Call
<1> QED
  BY <1>1 DEF Complete, Takes

LEMMA TelegramTakes ==
  ASSUME Calls!ConstantsOK, Ready
  PROVE  Complete(Calls!TelegramPlan, Calls!UpTo(1, Calls!Distinct))
<1> DEFINE urls == Calls!UpTo(1, Calls!Distinct)   ss == [i \in DOMAIN urls |-> <<Calls!Attach(urls[i])>>]
<1>1. urls \in Seq(Urls)
  BY DistinctOnce, UpToOnce DEF Once
<1>2. Calls!TelegramPlan = Calls!FlattenSeq(ss) \o <<Calls!Show>>
  BY DEF Calls!TelegramPlan, Calls!Each
<1> HIDE DEF urls
<1>3. ASSUME NEW i \in DOMAIN urls PROVE Takes(<<Calls!Attach(urls[i])>>, <<urls[i]>>)
  <2>1. urls[i] \in Urls
    BY <1>1
  <2> QED
    BY <2>1, Single DEF Given
<1>4. ss \in [DOMAIN urls -> Seq(Parts)] /\ \A i \in DOMAIN urls : Takes(ss[i], <<urls[i]>>)
  BY <1>3 DEF Takes
<1> HIDE DEF ss
<1>5. Takes(Calls!FlattenSeq(ss), urls)
  BY <1>1, <1>4, EachTakes
<1>6. Complete(Calls!FlattenSeq(ss) \o <<Calls!Show>>, urls)
  BY <1>5, Shown
<1> QED
  BY <1>2, <1>6 DEF urls

\* The plans of the platforms, one by one.
LEMMA MaxTakes ==
  ASSUME Calls!ConstantsOK, Ready, platform = "max"
  PROVE  Complete(Calls!MaxPlan, IF payload.many # <<>> THEN payload.many ELSE Calls!First)
<1> DEFINE urls == IF payload.many # <<>> THEN payload.many ELSE Calls!First
           ss == [i \in DOMAIN urls |-> IF Calls!Kind(urls[i]) = "image" THEN <<Calls!Attach(urls[i])>>
                                        ELSE Calls!MaxUpload(urls[i])]
<1>1. urls \in Seq(Urls)
  BY ManyOnce, DistinctOnce DEF Once
<1>2. Calls!MaxPlan = (<<Calls!FindChat>> \o Calls!FlattenSeq(ss)) \o <<Calls!Show>>
  BY DEF Calls!MaxPlan, Calls!MaxMedia, Calls!Each
<1> HIDE DEF urls
<1>3. ASSUME NEW i \in DOMAIN urls PROVE Takes(ss[i], <<urls[i]>>)
  <2>1. urls[i] \in Urls
    BY <1>1
  <2> DEFINE u == urls[i]
  <2> HIDE DEF u
  <2>2. Takes(<<Calls!Attach(u)>>, <<u>>)
    BY <2>1, Single DEF Given, u
  <2>3. Calls!Kind(u) # "image" => Takes(<<Calls!Put(u, "skip", "skip")>>, <<u>>)
    <3>1. Calls!Kind(u) # "image" => u \in Calls!Dispensable
      BY <2>1 DEF Calls!Dispensable, u
    <3> QED
      BY <2>1, <3>1, Single DEF Given, u
  <2> QED
    BY <2>2, <2>3 DEF u, Calls!MaxUpload
<1>4. ss \in [DOMAIN urls -> Seq(Parts)]
  BY <1>3 DEF Takes
<1> HIDE DEF ss
<1>5. Takes(Calls!FlattenSeq(ss), urls)
  BY <1>1, <1>3, <1>4, EachTakes
<1>6. Takes(<<Calls!FindChat>> \o Calls!FlattenSeq(ss), urls)
  BY <1>5, Asked, TakesWith DEF Given
<1>7. Complete((<<Calls!FindChat>> \o Calls!FlattenSeq(ss)) \o <<Calls!Show>>, urls)
  BY <1>6, Shown
<1> QED
  BY <1>2, <1>7 DEF urls

LEMMA VKTakes ==
  ASSUME Calls!ConstantsOK, Ready
  PROVE  Complete(Calls!VKPlan, Calls!Limited)
<1> DEFINE urls == Calls!Limited   photos == Calls!VKPhotos(urls)
<1>1. urls \in Seq(Urls)
  BY WantedOnce DEF Once
<1>2. Calls!VKPlan = photos \o <<Calls!Show>>
  BY DEF Calls!VKPlan
<1> HIDE DEF urls
<1>3. Takes(photos, urls)
  <2>1. CASE urls = <<>>
    <3>1. photos = <<>>
      BY <2>1 DEF Calls!VKPhotos
    <3> QED
      BY <2>1, <3>1, TakesNothing
  <2>2. CASE urls # <<>> /\ ~options.userToken
    <3>1. photos = <<Calls!Refuse>>
      BY <2>2 DEF Calls!VKPhotos
    <3> QED
      BY <1>1, <3>1, TakesRefusal DEF Given
  <2>3. CASE ~(urls = <<>>) /\ options.userToken
    <3> DEFINE ss == [i \in DOMAIN urls |-> Calls!VKPhoto(urls[i])]
    <3>1. photos = <<Calls!Ask("reject")>> \o Calls!FlattenSeq(ss)
      BY <2>3 DEF Calls!VKPhotos, Calls!Each
    <3>2. ASSUME NEW i \in DOMAIN urls PROVE Takes(ss[i], <<urls[i]>>)
      <4> DEFINE u == urls[i]
      <4>1. u \in Urls
        BY <1>1
      <4>2. ss[i] = Calls!VKPhoto(u)
        OBVIOUS
      <4> HIDE DEF u
      <4>3. Takes(Calls!VKPhoto(u), <<u>>)
        BY <4>1, Single, TakesLast DEF Calls!VKPhoto
      <4> QED
        BY <4>2, <4>3 DEF u
    <3>3. ss \in [DOMAIN urls -> Seq(Parts)]
      BY <3>2 DEF Takes
    <3> HIDE DEF ss
    <3>4. Takes(Calls!FlattenSeq(ss), urls)
      BY <1>1, <3>2, <3>3, EachTakes
    <3>5. Takes(<<Calls!Ask("reject")>>, <<>>)
      BY Asked DEF Given
    <3>6. Takes(<<Calls!Ask("reject")>> \o Calls!FlattenSeq(ss), urls)
      BY <3>4, <3>5, TakesWith
    <3> QED
      BY <3>1, <3>6
  <2> QED
    BY <2>1, <2>2, <2>3
<1> HIDE DEF photos
<1>4. Complete(photos \o <<Calls!Show>>, urls)
  BY <1>3, Shown
<1> QED
  BY <1>2, <1>4 DEF urls

\* Downloads and uploads, one media after the other.
LEMMA TwoUploads ==
  ASSUME Calls!ConstantsOK, NEW urls \in Seq(Urls), Calls!Dispensable = Urls
  PROVE  /\ Takes(Calls!Each(urls, Calls!XMedia), urls)
         /\ Takes(Calls!Each(urls, Calls!MastodonMedia), urls)
         /\ Takes(Calls!Each(urls, Calls!BlueskyImage), urls)
<1>1. ASSUME NEW u \in Urls
      PROVE  /\ Takes(Calls!XMedia(u), <<u>>) /\ Takes(Calls!MastodonMedia(u), <<u>>)
             /\ Takes(Calls!BlueskyImage(u), <<u>>)
  <2>1. Given(Calls!Get(u), <<>>) /\ Given(Calls!Put(u, "skip", "raise"), <<u>>)
    BY Single
  <2>2. Given(Calls!Refuse, <<u>>)
    BY OneIsSeq, TakesRefusal
  <2>3. Takes(<<Calls!Get(u), Calls!Put(u, "skip", "raise")>>, <<u>>)
    BY <2>1, TakesAfter
  <2>4. Takes(<<Calls!Get(u), Calls!Refuse>>, <<u>>)
    BY <2>1, <2>2, TakesAfter
  <2>5. \/ Calls!BlueskyImage(u) = <<Calls!Get(u), Calls!Put(u, "skip", "raise")>>
        \/ Calls!BlueskyImage(u) = <<Calls!Get(u), Calls!Refuse>>
    BY DEF Calls!BlueskyImage
  <2> QED
    BY <2>3, <2>4, <2>5 DEF Calls!XMedia, Calls!MastodonMedia
<1>2. \A i \in DOMAIN urls : urls[i] \in Urls
  OBVIOUS
<1>3. Takes(Calls!Each(urls, Calls!XMedia), urls)
  <2> DEFINE ss == [i \in DOMAIN urls |-> Calls!XMedia(urls[i])]
  <2>1. ss \in [DOMAIN urls -> Seq(Parts)] /\ \A i \in DOMAIN urls : Takes(ss[i], <<urls[i]>>)
    BY <1>1, <1>2 DEF Takes
  <2> HIDE DEF ss
  <2>2. Takes(Calls!FlattenSeq(ss), urls)
    BY <2>1, EachTakes
  <2> QED
    BY <2>2 DEF ss, Calls!Each
<1>4. Takes(Calls!Each(urls, Calls!MastodonMedia), urls)
  <2> DEFINE ss == [i \in DOMAIN urls |-> Calls!MastodonMedia(urls[i])]
  <2>1. ss \in [DOMAIN urls -> Seq(Parts)] /\ \A i \in DOMAIN urls : Takes(ss[i], <<urls[i]>>)
    BY <1>1, <1>2 DEF Takes
  <2> HIDE DEF ss
  <2>2. Takes(Calls!FlattenSeq(ss), urls)
    BY <2>1, EachTakes
  <2> QED
    BY <2>2 DEF ss, Calls!Each
<1>5. Takes(Calls!Each(urls, Calls!BlueskyImage), urls)
  <2> DEFINE ss == [i \in DOMAIN urls |-> Calls!BlueskyImage(urls[i])]
  <2>1. ss \in [DOMAIN urls -> Seq(Parts)] /\ \A i \in DOMAIN urls : Takes(ss[i], <<urls[i]>>)
    BY <1>1, <1>2 DEF Takes
  <2> HIDE DEF ss
  <2>2. Takes(Calls!FlattenSeq(ss), urls)
    BY <2>1, EachTakes
  <2> QED
    BY <2>2 DEF ss, Calls!Each
<1> QED
  BY <1>3, <1>4, <1>5

LEMMA BlogsTake ==
  ASSUME Calls!ConstantsOK, Ready, platform \in {"x", "mastodon", "bluesky"}
  PROVE  /\ Complete(Calls!XPlan, Calls!Limited)
         /\ Complete(Calls!MastodonPlan, Calls!Limited)
         /\ Complete(Calls!BlueskyPlan, Calls!Limited)
<1> DEFINE urls == Calls!Limited
<1>1. urls \in Seq(Urls)
  BY WantedOnce DEF Once
<1>2. /\ Calls!XPlan = Calls!Each(urls, Calls!XMedia) \o <<Calls!Show>>
      /\ Calls!MastodonPlan = Calls!Each(urls, Calls!MastodonMedia) \o <<Calls!Show>>
      /\ Calls!BlueskyPlan = (<<Calls!Ask("reject")>> \o Calls!Each(urls, Calls!BlueskyImage)) \o <<Calls!Show>>
  BY DEF Calls!XPlan, Calls!MastodonPlan, Calls!BlueskyPlan
<1> HIDE DEF urls
<1>0. Calls!Dispensable = Urls
  BY DEF Calls!Dispensable
<1>3. Takes(<<Calls!Ask("reject")>> \o Calls!Each(urls, Calls!BlueskyImage), urls)
  BY <1>0, <1>1, TwoUploads, Asked, TakesWith DEF Given
<1>4. Complete((<<Calls!Ask("reject")>> \o Calls!Each(urls, Calls!BlueskyImage)) \o <<Calls!Show>>, urls)
  BY <1>3, Shown
<1>5. /\ Complete(Calls!Each(urls, Calls!XMedia) \o <<Calls!Show>>, urls)
      /\ Complete(Calls!Each(urls, Calls!MastodonMedia) \o <<Calls!Show>>, urls)
  BY <1>0, <1>1, TwoUploads, Shown
<1> QED
  BY <1>2, <1>4, <1>5 DEF urls

LEMMA RSSTakes ==
  ASSUME Calls!ConstantsOK, Ready
  PROVE  Complete(Calls!RSSPlan, Calls!Distinct)
<1> DEFINE urls == Calls!Distinct   ss == [i \in DOMAIN urls |-> <<Calls!Attach(urls[i])>>]
           entry == Calls!Call("show", 0, "none", "reject")
<1>1. urls \in Seq(Urls)
  BY DistinctOnce DEF Once
<1>2. Calls!RSSPlan = Calls!FlattenSeq(ss) \o <<entry>>
  BY DEF Calls!RSSPlan, Calls!Each
<1> HIDE DEF urls
<1>3. ASSUME NEW i \in DOMAIN urls PROVE Takes(<<Calls!Attach(urls[i])>>, <<urls[i]>>)
  <2>1. urls[i] \in Urls
    BY <1>1
  <2> QED
    BY <2>1, Single DEF Given
<1>4. ss \in [DOMAIN urls -> Seq(Parts)] /\ \A i \in DOMAIN urls : Takes(ss[i], <<urls[i]>>)
  BY <1>3 DEF Takes
<1> HIDE DEF ss
<1>5. Takes(Calls!FlattenSeq(ss), urls)
  BY <1>1, <1>4, EachTakes
<1>6. entry \in Finals
  BY DEF Finals, Calls!Call
<1> HIDE DEF entry
<1>7. Complete(Calls!FlattenSeq(ss) \o <<entry>>, urls)
  BY <1>5, <1>6 DEF Complete, Takes
<1> QED
  BY <1>2, <1>7 DEF urls

LEMMA ZenTakes ==
  ASSUME NEW W
  PROVE  Complete(Calls!ZenPlan, W)
<1>1. Calls!Refuse \in Finals /\ Calls!Refuse \in Parts /\ Calls!Refuse.does # "show"
  BY DEF Finals, Parts, Calls!Refuse, Calls!Call
<1>2. <<Calls!Refuse>> = <<>> \o <<Calls!Refuse>> /\ <<>> \in Seq(Parts)
  <2>1. <<Calls!Refuse>> \in Seq(Parts)
    BY <1>1, OneIsSeq
  <2> QED
    BY <2>1, ConcatEmptySeq
<1> QED
  BY <1>1, <1>2 DEF Complete, Calls!ZenPlan

LEMMA FacebookTakes ==
  ASSUME Calls!ConstantsOK, Ready, platform = "facebook"
  PROVE  Complete(Calls!FacebookPlan, Calls!Limited)
<1> DEFINE urls == Calls!Limited
           links == [i \in DOMAIN urls |-> <<Calls!Attach(urls[i])>>]
           photos == [i \in DOMAIN urls |-> <<IF Calls!Kind(urls[i]) = "video" THEN Calls!Refuse
                                              ELSE Calls!Put(urls[i], "skip", "raise")>>]
<1>1. urls \in Seq(Urls)
  BY WantedOnce DEF Once
<1>2. \/ Calls!FacebookPlan = Calls!FlattenSeq(links) \o <<Calls!Show>>
      \/ Calls!FacebookPlan = Calls!FlattenSeq(photos) \o <<Calls!Show>>
  BY DEF Calls!FacebookPlan, Calls!Each
<1> HIDE DEF urls
<1>3. ASSUME NEW i \in DOMAIN urls
      PROVE  Takes(links[i], <<urls[i]>>) /\ Takes(photos[i], <<urls[i]>>)
  <2> DEFINE u == urls[i]
  <2>1. u \in Urls
    BY <1>1
  <2>2. links[i] = <<Calls!Attach(u)>>
    OBVIOUS
  <2>3. photos[i] = <<Calls!Refuse>> \/ photos[i] = <<Calls!Put(u, "skip", "raise")>>
    OBVIOUS
  <2> HIDE DEF u, links, photos
  <2>4. /\ Takes(<<Calls!Attach(u)>>, <<u>>) /\ Takes(<<Calls!Put(u, "skip", "raise")>>, <<u>>)
        /\ Takes(<<Calls!Refuse>>, <<u>>)
    <3>1. u \in Calls!Dispensable
      BY <2>1 DEF Calls!Dispensable
    <3> QED
      BY <2>1, <3>1, Single, TakesRefusal, OneIsSeq DEF Given
  <2> QED
    BY <2>2, <2>3, <2>4 DEF u
<1>4. links \in [DOMAIN urls -> Seq(Parts)] /\ photos \in [DOMAIN urls -> Seq(Parts)]
  BY <1>3 DEF Takes
<1> HIDE DEF links, photos
<1>5. Takes(Calls!FlattenSeq(links), urls) /\ Takes(Calls!FlattenSeq(photos), urls)
  BY <1>1, <1>3, <1>4, EachTakes
<1>6. /\ Complete(Calls!FlattenSeq(links) \o <<Calls!Show>>, urls)
      /\ Complete(Calls!FlattenSeq(photos) \o <<Calls!Show>>, urls)
  BY <1>5, Shown
<1> QED
  BY <1>2, <1>6 DEF urls

LEMMA InstagramTakes ==
  ASSUME Calls!ConstantsOK, Ready
  PROVE  Complete(Calls!InstagramPlan, Calls!Limited)
<1> DEFINE urls == Calls!Limited   media == Calls!Containers(urls)
<1>1. urls \in Seq(Urls)
  BY WantedOnce DEF Once
<1>2. Calls!InstagramPlan = media \o <<Calls!Show>>
  BY DEF Calls!InstagramPlan
<1> HIDE DEF urls
<1>3. ASSUME NEW u \in Urls PROVE Takes(Calls!Container(u), <<u>>)
  BY Single, Asked, TakesBefore DEF Calls!Container
<1>4. Takes(media, urls)
  <2>1. CASE urls = <<>>
    <3>1. media = <<Calls!Refuse>>
      <4>1. Len(urls) # 1
        BY <2>1
      <4> QED
        BY <2>1, <4>1 DEF Calls!Containers
    <3> QED
      BY <1>1, <3>1, TakesRefusal DEF Given
  <2>2. CASE ~(urls = <<>>) /\ Len(urls) = 1
    <3>1. media = Calls!Container(urls[1])
      BY <2>2 DEF Calls!Containers
    <3>2. urls[1] \in Urls
      <4>1. 1 \in 1..Len(urls)
        BY <2>2
      <4> QED
        BY <1>1, <4>1, ElementOfSeq
    <3>3. urls = <<urls[1]>>
      <4> DEFINE t == <<urls[1]>>
      <4>1. t \in Seq(Urls) /\ Len(t) = 1 /\ t[1] = urls[1]
        BY <3>2
      <4> HIDE DEF t
      <4>2. \A i \in 1..Len(urls) : urls[i] = t[i]
        BY <2>2, <4>1
      <4>3. urls = t
        BY <1>1, <2>2, <4>1, <4>2, SeqEqual
      <4> QED
        BY <4>3 DEF t
    <3> QED
      BY <1>3, <3>1, <3>2, <3>3
  <2>3. CASE ~(urls = <<>>) /\ ~(Len(urls) = 1)
    <3> DEFINE ss == [i \in DOMAIN urls |-> IF Calls!Kind(urls[i]) = "video" THEN <<Calls!Refuse>>
                                            ELSE Calls!Container(urls[i])]
    <3>1. media = Calls!FlattenSeq(ss) \o <<Calls!Ask("reject"), Calls!Processed>>
      BY <2>3 DEF Calls!Containers, Calls!Each
    <3>2. ASSUME NEW i \in DOMAIN urls PROVE Takes(ss[i], <<urls[i]>>)
      <4> DEFINE u == urls[i]
      <4>1. u \in Urls
        BY <1>1
      <4>2. ss[i] = <<Calls!Refuse>> \/ ss[i] = Calls!Container(u)
        OBVIOUS
      <4> HIDE DEF u, ss
      <4>3. Takes(Calls!Container(u), <<u>>) /\ Takes(<<Calls!Refuse>>, <<u>>)
        BY <1>3, <4>1, TakesRefusal, OneIsSeq DEF Given
      <4> QED
        BY <4>2, <4>3 DEF u
    <3>3. ss \in [DOMAIN urls -> Seq(Parts)]
      BY <3>2 DEF Takes
    <3> HIDE DEF ss
    <3>4. Takes(Calls!FlattenSeq(ss), urls)
      BY <1>1, <3>2, <3>3, EachTakes
    <3>5. Takes(<<Calls!Ask("reject"), Calls!Processed>>, <<>>)
      BY Asked, TakesAfter
    <3>6. Takes(Calls!FlattenSeq(ss) \o <<Calls!Ask("reject"), Calls!Processed>>, urls)
      BY <3>4, <3>5, TakesWith
    <3> QED
      BY <3>1, <3>6
  <2> QED
    BY <2>1, <2>2, <2>3
<1> HIDE DEF media
<1>5. Complete(media \o <<Calls!Show>>, urls)
  BY <1>4, Shown
<1> QED
  BY <1>2, <1>5 DEF urls

LEMMA LinkedInTakes ==
  ASSUME Calls!ConstantsOK, Ready
  PROVE  Complete(Calls!LinkedInPlan, Calls!Distinct)
<1> DEFINE urls == Calls!Distinct
           down == [i \in DOMAIN urls |-> <<Calls!Get(urls[i])>>]
           up == [i \in DOMAIN urls |-> IF Calls!Kind(urls[i]) = "video" THEN Calls!LinkedInVideo(urls[i])
                                        ELSE Calls!LinkedInFile(urls[i])]
           media == IF urls = <<>> THEN <<>> ELSE Calls!LinkedInMedia
<1>1. urls \in Seq(Urls)
  BY DistinctOnce DEF Once
<1>2. Calls!LinkedInPlan = media \o <<Calls!Show>>
  BY DEF Calls!LinkedInPlan
<1>3. \/ media = <<>> /\ urls = <<>>
      \/ media = <<Calls!Refuse>>
      \/ media = Calls!FlattenSeq(down) \o <<Calls!Refuse>>
      \/ media = Calls!FlattenSeq(down) \o Calls!FlattenSeq(up)
  <2>1. CASE Len(urls) > Limit
    <3>1. Len(urls) \in Nat /\ Limit \in Nat
      BY <1>1 DEF Calls!ConstantsOK
    <3>2. ~(Len(urls) <= Limit)
      BY <2>1, <3>1
    <3>3. urls # <<>> => media = Calls!LinkedInMedia
      OBVIOUS
    <3>4. Calls!LinkedInMedia = <<Calls!Refuse>>
      BY <2>1, <3>2 DEF Calls!LinkedInMedia
    <3> QED
      BY <3>3, <3>4
  <2>2. CASE ~(Len(urls) > Limit) /\ Len(urls) <= Limit /\ Calls!Mixed
    BY <2>2 DEF Calls!LinkedInMedia, Calls!LinkedInDownloads, Calls!Each
  <2>3. CASE ~(Len(urls) > Limit) /\ ~(Len(urls) <= Limit /\ Calls!Mixed)
    BY <2>3 DEF Calls!LinkedInMedia, Calls!LinkedInDownloads, Calls!Each
  <2> QED
    BY <2>1, <2>2, <2>3
<1> HIDE DEF urls, media
<1>4. ASSUME NEW i \in DOMAIN urls
      PROVE  Takes(down[i], <<>>) /\ Takes(up[i], <<urls[i]>>)
  <2> DEFINE u == urls[i]
  <2>1. u \in Urls
    BY <1>1
  <2>2. down[i] = <<Calls!Get(u)>> /\ (up[i] = Calls!LinkedInVideo(u) \/ up[i] = Calls!LinkedInFile(u))
    OBVIOUS
  <2> HIDE DEF u, down, up
  <2>3. Takes(<<Calls!Get(u)>>, <<>>)
    BY <2>1, Single DEF Given
  <2>4. /\ Given(Calls!Ask("transient"), <<>>) /\ Given(Calls!Send(u), <<>>)
        /\ Given(Calls!Put(u, "none", "raise"), <<u>>)
    BY <2>1, Single, Asked
  <2>5. Takes(Calls!LinkedInVideo(u), <<u>>)
    BY <2>4, TakesLast DEF Calls!LinkedInVideo
  <2>6. Takes(Calls!LinkedInFile(u), <<u>>)
    BY <2>4, TakesAfter DEF Calls!LinkedInFile
  <2> QED
    BY <2>2, <2>3, <2>5, <2>6 DEF u
<1>5. down \in [DOMAIN urls -> Seq(Parts)] /\ up \in [DOMAIN urls -> Seq(Parts)]
  BY <1>4 DEF Takes
<1> HIDE DEF down, up
<1>6. Takes(Calls!FlattenSeq(down), <<>>) /\ Takes(Calls!FlattenSeq(up), urls)
  BY <1>1, <1>4, <1>5, EachTakes, EachTakesNothing
<1>7. Takes(<<Calls!Refuse>>, urls) /\ Takes(<<>>, <<>>)
  BY <1>1, TakesRefusal, TakesNothing DEF Given
<1>8. Takes(media, urls)
  <2>1. Takes(Calls!FlattenSeq(down) \o <<Calls!Refuse>>, urls)
    BY <1>6, <1>7, TakesWith
  <2>2. Takes(Calls!FlattenSeq(down) \o Calls!FlattenSeq(up), urls)
    BY <1>6, TakesWith
  <2> QED
    BY <1>3, <1>7, <2>1, <2>2
<1>9. Complete(media \o <<Calls!Show>>, urls)
  BY <1>8, Shown
<1> QED
  BY <1>2, <1>9 DEF urls

\* Every plan takes what its platform wants of the payload, or refuses it.
LEMMA PlansTake ==
  ASSUME Calls!ConstantsOK, Ready, platform \in Calls!Platforms
  PROVE  Complete(Calls!Plan, Calls!Wanted)
<1>1. CASE platform = "telegram"
  BY <1>1, TelegramTakes DEF Calls!Plan, Calls!Wanted
<1>2. CASE platform = "max"
  BY <1>2, MaxTakes DEF Calls!Plan, Calls!Wanted
<1>3. CASE platform = "vk"
  BY <1>3, VKTakes DEF Calls!Plan, Calls!Wanted
<1>4. CASE platform = "linkedin"
  BY <1>4, LinkedInTakes DEF Calls!Plan, Calls!Wanted
<1>5. CASE platform = "facebook"
  BY <1>5, FacebookTakes DEF Calls!Plan, Calls!Wanted
<1>6. CASE platform = "instagram"
  BY <1>6, InstagramTakes DEF Calls!Plan, Calls!Wanted
<1>7. CASE platform = "x"
  BY <1>7, BlogsTake DEF Calls!Plan, Calls!Wanted
<1>8. CASE platform = "mastodon"
  BY <1>8, BlogsTake DEF Calls!Plan, Calls!Wanted
<1>9. CASE platform = "bluesky"
  BY <1>9, BlogsTake DEF Calls!Plan, Calls!Wanted
<1>10. CASE platform = "rss"
  BY <1>10, RSSTakes DEF Calls!Plan, Calls!Wanted
<1>11. CASE platform = "zen"
  BY <1>11, ZenTakes DEF Calls!Plan, Calls!Wanted
<1> QED
  BY <1>1, <1>2, <1>3, <1>4, <1>5, <1>6, <1>7, <1>8, <1>9, <1>10, <1>11 DEF Calls!Platforms

-----------------------------------------------------------------------------
(* A walk through a plan: what is taken and left out before each call *)

\* What the plans have in common.
Sound(P, W) ==
  /\ Len(P) \in Nat \ {0} /\ DOMAIN P = 1..Len(P) /\ Once(W)
  /\ P[Len(P)].does \in {"show", "refuse"}
  /\ \A k \in DOMAIN P : /\ P[k].does = "show" => k = Len(P)
                         /\ P[k].blank = "skip" \/ P[k].fails = "skip" =>
                              P[k].does = "put" /\ P[k].url \in Calls!Dispensable
                         /\ P[k].fails = "skip" => platform = "max"
  /\ Refuses(P) \/ \E f : Follows(f, P, W)

LEMMA CompleteSound ==
  ASSUME NEW P, NEW W, Complete(P, W), Once(W)
  PROVE  Sound(P, W)
<1>1. PICK B, c : P = B \o <<c>> /\ B \in Seq(Parts) /\ c \in Finals /\ (c.does = "show" => Takes(B, W))
  BY DEF Complete
<1> DEFINE n == Len(B)
<1>2. n \in Nat /\ DOMAIN B = 1..n /\ \A k \in 1..n : B[k] \in Parts
  BY <1>1
<1>3. /\ Len(P) = n + 1 /\ DOMAIN P = 1..(n + 1)
      /\ P[n + 1] = c /\ \A k \in 1..n : P[k] = B[k]
  <2> DEFINE S == Parts \cup Finals   t == <<c>>   PP == B \o t
  <2>1. B \in Seq(S) /\ t \in Seq(S) /\ Len(t) = 1 /\ t[1] = c
    BY <1>1, <1>2
  <2> HIDE DEF S, t
  <2>2. /\ PP \in Seq(S) /\ Len(PP) = Len(B) + Len(t)
        /\ \A i \in 1..Len(B) : PP[i] = B[i]
        /\ \A i \in 1..Len(t) : PP[Len(B) + i] = t[i]
    <3>1. B \in Seq(S) /\ t \in Seq(S)
      BY <2>1
    <3> QED
      BY <3>1, JoinedLength
  <2>3. P = PP
    BY <1>1 DEF t
  <2> HIDE DEF PP
  <2>4. Len(PP) = n + 1 /\ PP[n + 1] = c /\ \A k \in 1..n : PP[k] = B[k]
    <3>1. 1 \in 1..Len(t)
      BY <2>1
    <3> QED
      BY <2>1, <2>2, <3>1
  <2>5. DOMAIN PP = 1..Len(PP)
    BY <2>2
  <2> QED
    BY <2>3, <2>4, <2>5
<1> HIDE DEF n
<1>4. \A k \in DOMAIN P : k \in 1..n \/ k = n + 1
  BY <1>2, <1>3
<1>5. /\ c.does \in {"show", "refuse"} /\ c.blank # "skip" /\ c.fails # "skip"
      /\ \A k \in 1..n : /\ P[k].does \notin {"show"}
                         /\ P[k].blank = "skip" \/ P[k].fails = "skip" =>
                              P[k].does = "put" /\ P[k].url \in Calls!Dispensable
                         /\ P[k].fails = "skip" => platform = "max"
  BY <1>1, <1>2, <1>3 DEF Finals, Parts
<1>6. Refuses(P) \/ \E f : Follows(f, P, W)
  <2>1. CASE c.does = "refuse"
    BY <1>2, <1>3, <2>1 DEF Refuses
  <2>2. CASE c.does = "show" /\ Refuses(B)
    BY <1>2, <1>3, <2>2 DEF Refuses
  <2>3. CASE c.does = "show" /\ ~Refuses(B)
    <3>1. PICK f : Follows(f, B, W)
      BY <1>1, <2>3 DEF Takes
    <3>2. \A k \in 1..n : Taking(P, k) <=> Taking(B, k)
      BY <1>3 DEF Taking
    <3>3. ~Taking(P, n + 1)
      BY <1>3, <2>3 DEF Taking
    <3>4. Follows(f, P, W)
      BY <1>2, <1>3, <1>4, <3>1, <3>2, <3>3 DEF Follows
    <3> QED
      BY <3>4
  <2> QED
    BY <1>5, <2>1, <2>2, <2>3
<1> QED
  BY <1>2, <1>3, <1>4, <1>5, <1>6 DEF Sound

\* Before call s: a is attached, d left out.
InOrder(a, W) ==
  \A i, j \in DOMAIN a : i < j => \E k, l \in DOMAIN W : k < l /\ W[k] = a[i] /\ W[l] = a[j]

Past(f, W, s) == {i \in DOMAIN W : f[i] < s}

Progress(f, W, s, a, d) ==
  /\ a \in Seq(Urls) /\ InOrder(a, W)
  /\ d \subseteq {W[i] : i \in Past(f, W, s)}
  /\ {a[i] : i \in DOMAIN a} = {W[i] : i \in Past(f, W, s)} \ d

OnTheWay(P, W, s, a, d) ==
  /\ s \in DOMAIN P
  /\ \A k \in 1..(s - 1) : P[k].does # "refuse"
  /\ Refuses(P) \/ \E f : Follows(f, P, W) /\ Progress(f, W, s, a, d)

IsWhole(a, W, d) == {a[i] : i \in DOMAIN a} = {W[i] : i \in DOMAIN W} \ d /\ InOrder(a, W)

\* The walk starts with nothing taken, goes on with each call, and ends with all of it.
LEMMA WalkStarts ==
  ASSUME NEW P, NEW W, Sound(P, W)
  PROVE  OnTheWay(P, W, 1, <<>>, {})
<1>1. 1 \in DOMAIN P /\ 1..(1 - 1) = {}
  BY DEF Sound
<1>2. ASSUME NEW f, Follows(f, P, W) PROVE Progress(f, W, 1, <<>>, {})
  <2>1. \A i \in DOMAIN W : f[i] \in Nat /\ f[i] >= 1
    BY <1>2 DEF Follows, Sound
  <2>2. Past(f, W, 1) = {}
    BY <2>1 DEF Past
  <2>3. <<>> \in Seq(Urls) /\ DOMAIN <<>> = {}
    OBVIOUS
  <2> QED
    BY <2>2, <2>3 DEF Progress, InOrder
<1> QED
  BY <1>1, <1>2 DEF Sound, OnTheWay

LEMMA WalkEnds ==
  ASSUME NEW P, NEW W, Sound(P, W), NEW s, NEW a, NEW d, OnTheWay(P, W, s, a, d), P[s].does = "show"
  PROVE  IsWhole(a, W, d)
<1>1. s = Len(P) /\ Len(P) \in Nat \ {0} /\ DOMAIN P = 1..Len(P)
  BY DEF Sound, OnTheWay
<1>2. ~Refuses(P)
  <2>1. \A k \in DOMAIN P : k = s \/ k \in 1..(s - 1)
    BY <1>1
  <2> QED
    BY <2>1 DEF Refuses, OnTheWay
<1>3. PICK f : Follows(f, P, W) /\ Progress(f, W, s, a, d)
  BY <1>2 DEF OnTheWay
<1>4. ASSUME NEW i \in DOMAIN W PROVE i \in Past(f, W, s)
  <2>1. f[i] \in DOMAIN P /\ f[i] # s
    BY <1>3 DEF Follows, Taking
  <2> QED
    BY <1>1, <2>1 DEF Past
<1>5. Past(f, W, s) = DOMAIN W
  BY <1>4 DEF Past
<1> QED
  BY <1>3, <1>5 DEF Progress, IsWhole

LEMMA WalkGoesOn ==
  ASSUME NEW P, NEW W, Sound(P, W), NEW s, NEW a, NEW d, OnTheWay(P, W, s, a, d),
         P[s].does \notin {"show", "refuse"}
  PROVE  /\ ~Taking(P, s) => OnTheWay(P, W, s + 1, a, d)
         /\ Taking(P, s) => OnTheWay(P, W, s + 1, Append(a, P[s].url), d)
         /\ Taking(P, s) => OnTheWay(P, W, s + 1, a, d \cup {P[s].url})
<1>1. /\ Len(P) \in Nat \ {0} /\ DOMAIN P = 1..Len(P) /\ s \in DOMAIN P /\ s # Len(P)
      /\ W \in Seq(Urls) /\ Len(W) \in Nat /\ DOMAIN W = 1..Len(W)
  BY DEF Sound, OnTheWay, Once
<1>2. s \in Nat /\ s + 1 \in DOMAIN P
  BY <1>1
<1>3. \A k \in 1..((s + 1) - 1) : P[k].does # "refuse"
  <2>1. \A k \in 1..((s + 1) - 1) : k = s \/ k \in 1..(s - 1)
    BY <1>2
  <2> QED
    BY <2>1 DEF OnTheWay
<1>4. CASE Refuses(P)
  BY <1>2, <1>3, <1>4 DEF OnTheWay
<1>5. CASE ~Refuses(P)
  <2>1. PICK f : Follows(f, P, W) /\ Progress(f, W, s, a, d)
    BY <1>5 DEF OnTheWay
  <2>2. \A i \in DOMAIN W : f[i] \in Nat
    BY <1>1, <2>1 DEF Follows
  <2>3. CASE ~Taking(P, s)
    <3>1. \A i \in DOMAIN W : f[i] # s
      BY <2>1, <2>3 DEF Follows
    <3>2. Past(f, W, s + 1) = Past(f, W, s)
      BY <1>2, <2>2, <3>1 DEF Past
    <3>3. Progress(f, W, s + 1, a, d)
      BY <2>1, <3>2 DEF Progress
    <3> QED
      BY <1>2, <1>3, <2>1, <2>3, <3>3 DEF OnTheWay
  <2>4. CASE Taking(P, s)
    <3>1. PICK m \in DOMAIN W : f[m] = s
      BY <1>1, <2>1, <2>4 DEF Follows
    <3> DEFINE u == P[s].url
    <3>2. u = W[m] /\ u \in Urls
      BY <1>1, <2>1, <3>1 DEF Follows
    <3> HIDE DEF u
    <3>3. ASSUME NEW i \in DOMAIN W PROVE (f[i] < s <=> i < m) /\ (f[i] = s <=> i = m)
      <4>1. i < m => f[i] < s
        BY <2>1, <3>1 DEF Follows
      <4>2. m < i => s < f[i]
        BY <2>1, <3>1 DEF Follows
      <4>3. i < m \/ i = m \/ m < i
        BY <1>1
      <4> QED
        BY <1>1, <1>2, <2>2, <3>1, <4>1, <4>2, <4>3
    <3>4. Past(f, W, s + 1) = Past(f, W, s) \cup {m} /\ \A i \in Past(f, W, s) : i \in DOMAIN W /\ i < m
      BY <1>2, <2>2, <3>3 DEF Past
    <3> DEFINE before == {W[i] : i \in Past(f, W, s)}
    <3>5. {W[i] : i \in Past(f, W, s + 1)} = before \cup {u}
      BY <3>2, <3>4
    <3>6. u \notin before
      <4> SUFFICES ASSUME NEW i \in Past(f, W, s), W[i] = u PROVE FALSE
        OBVIOUS
      <4>1. i \in DOMAIN W /\ i < m /\ W[i] = W[m]
        BY <3>2, <3>4
      <4>2. i = m
        BY <4>1 DEF Sound, Once
      <4> QED
        BY <1>1, <4>1, <4>2
    <3>7. \A v \in before : \E i \in DOMAIN W : i < m /\ W[i] = v
      BY <3>4
    <3> HIDE DEF before
    <3>8. /\ a \in Seq(Urls) /\ InOrder(a, W) /\ d \subseteq before
          /\ {a[i] : i \in DOMAIN a} = before \ d
      BY <2>1 DEF Progress, before
    <3>9. Progress(f, W, s + 1, a, d \cup {u})
      <4>1. d \cup {u} \subseteq before \cup {u} /\ {a[i] : i \in DOMAIN a} = (before \cup {u}) \ (d \cup {u})
        BY <3>6, <3>8
      <4> QED
        BY <3>5, <3>8, <4>1 DEF Progress
    <3>10. Progress(f, W, s + 1, Append(a, u), d)
      <4> DEFINE b == Append(a, u)   n == Len(a)
      <4>1. n \in Nat /\ DOMAIN a = 1..n
        BY <3>8
      <4>2. b \in Seq(Urls) /\ DOMAIN b = 1..(n + 1) /\ b[n + 1] = u /\ \A i \in 1..n : b[i] = a[i]
        BY <3>2, <3>8, <4>1
      <4> HIDE DEF b, n
      <4>3. \A i \in DOMAIN b : i \in DOMAIN a \/ i = n + 1
        BY <4>1, <4>2
      <4>4. {b[i] : i \in DOMAIN b} = {a[i] : i \in DOMAIN a} \cup {u}
        BY <4>1, <4>2, <4>3
      <4>5. {b[i] : i \in DOMAIN b} = (before \cup {u}) \ d
        BY <3>6, <3>8, <4>4
      <4>6. InOrder(b, W)
        <5> SUFFICES ASSUME NEW i \in DOMAIN b, NEW j \in DOMAIN b, i < j
                     PROVE  \E k, l \in DOMAIN W : k < l /\ W[k] = b[i] /\ W[l] = b[j]
          BY DEF InOrder
        <5>1. CASE j \in DOMAIN a
          <6>1. i \in DOMAIN a
            BY <4>1, <4>2, <5>1
          <6> QED
            BY <3>8, <4>1, <4>2, <5>1, <6>1 DEF InOrder
        <5>2. CASE j = n + 1
          <6>1. i \in DOMAIN a /\ b[i] = a[i]
            BY <4>1, <4>2, <5>2
          <6>2. a[i] \in before
            BY <3>8, <6>1
          <6>3. PICK k \in DOMAIN W : k < m /\ W[k] = a[i]
            BY <3>7, <6>2
          <6> QED
            BY <3>1, <3>2, <4>2, <5>2, <6>1, <6>3
        <5> QED
          BY <4>3, <5>1, <5>2
      <4>7. d \subseteq before \cup {u}
        BY <3>8
      <4>8. Progress(f, W, s + 1, b, d)
        BY <3>5, <4>2, <4>5, <4>6, <4>7 DEF Progress
      <4> QED
        BY <4>8 DEF b
    <3> QED
      BY <1>2, <1>3, <2>1, <2>4, <3>9, <3>10 DEF OnTheWay, u
  <2> QED
    BY <2>3, <2>4
<1> QED
  BY <1>4, <1>5

\* A step changes neither the payload nor the plan for it.
LEMMA MediaStay ==
  ASSUME payload' = payload, platform' = platform
  PROVE  /\ Calls!Distinct' = Calls!Distinct /\ Calls!First' = Calls!First
         /\ Calls!Limited' = Calls!Limited /\ Calls!Wanted' = Calls!Wanted
         /\ Calls!Dispensable' = Calls!Dispensable
<1>1. Calls!Distinct' = Calls!Distinct /\ Calls!First' = Calls!First
  BY DEF Calls!Distinct, Calls!First
<1>2. Calls!Limited' = Calls!Limited
  BY <1>1 DEF Calls!Limited
<1>3. Calls!Dispensable' = Calls!Dispensable
  BY DEF Calls!Dispensable, Calls!Kind
<1>4. Calls!Wanted' = Calls!Wanted
  BY <1>1, <1>2 DEF Calls!Wanted
<1> QED
  BY <1>1, <1>2, <1>3, <1>4

LEMMA PlansStay ==
  ASSUME UNCHANGED Calls!setupVars
  PROVE  Calls!Plan' = Calls!Plan
<1>1. payload' = payload /\ platform' = platform /\ options' = options
  BY DEF Calls!setupVars
<1>2. Calls!Distinct' = Calls!Distinct /\ Calls!First' = Calls!First /\ Calls!Limited' = Calls!Limited
  BY <1>1, MediaStay
<1>3. Calls!TelegramPlan' = Calls!TelegramPlan
  BY <1>2 DEF Calls!TelegramPlan, Calls!Each
<1>4. Calls!MaxPlan' = Calls!MaxPlan
  BY <1>1, <1>2 DEF Calls!MaxPlan, Calls!MaxMedia, Calls!Each, Calls!Kind
<1>5. Calls!VKPlan' = Calls!VKPlan
  BY <1>1, <1>2 DEF Calls!VKPlan, Calls!VKPhotos, Calls!Each
<1>6. Calls!LinkedInPlan' = Calls!LinkedInPlan
  <2>1. Calls!Mixed' <=> Calls!Mixed
    BY <1>1, <1>2 DEF Calls!Mixed, Calls!Kind
  <2>2. Calls!LinkedInDownloads' = Calls!LinkedInDownloads
    BY <1>2 DEF Calls!LinkedInDownloads, Calls!Each
  <2>3. Calls!LinkedInMedia' = Calls!LinkedInMedia
    BY <1>1, <1>2, <2>1, <2>2 DEF Calls!LinkedInMedia, Calls!Each, Calls!Kind
  <2> QED
    BY <1>2, <2>3 DEF Calls!LinkedInPlan
<1>7. Calls!FacebookPlan' = Calls!FacebookPlan
  BY <1>1, <1>2 DEF Calls!FacebookPlan, Calls!Each, Calls!Kind
<1>8. Calls!InstagramPlan' = Calls!InstagramPlan
  BY <1>1, <1>2 DEF Calls!InstagramPlan, Calls!Containers, Calls!Each, Calls!Kind
<1>9. Calls!XPlan' = Calls!XPlan /\ Calls!MastodonPlan' = Calls!MastodonPlan
  BY <1>2 DEF Calls!XPlan, Calls!MastodonPlan, Calls!Each
<1>10. Calls!BlueskyPlan' = Calls!BlueskyPlan
  BY <1>1, <1>2 DEF Calls!BlueskyPlan, Calls!Each, Calls!BlueskyImage, Calls!Kind
<1>11. Calls!RSSPlan' = Calls!RSSPlan /\ Calls!ZenPlan' = Calls!ZenPlan
  BY <1>2 DEF Calls!RSSPlan, Calls!ZenPlan, Calls!Each
<1> QED
  BY <1>1, <1>3, <1>4, <1>5, <1>6, <1>7, <1>8, <1>9, <1>10, <1>11 DEF Calls!Plan

Setup == platform \in Calls!Platforms /\ Ready

LEMMA PlanSound ==
  ASSUME Setup
  PROVE  Sound(Calls!Plan, Calls!Wanted)
  BY CallsAssumption, PlansTake, WantedOnce, CompleteSound DEF Setup

\* What has been left out may be missing.
Excused(d, f) == d \subseteq Calls!Dispensable /\ (f # {} => platform = "max")

\* So far so good.
SoFar ==
  /\ Setup /\ ShownInOrder
  /\ outcome = "calling" => OnTheWay(Calls!Plan, Calls!Wanted, step, assets, dropped)
  /\ outcome = "accepted" => IsWhole(shown[Len(shown)], Calls!Wanted, dropped)
  /\ outcome \in {"calling", "accepted"} => Excused(dropped, failed)

LEMMA InitSoFar == Calls!Init => SoFar
<1> SUFFICES ASSUME Calls!Init PROVE SoFar
  OBVIOUS
<1>1. ShownInOrder
  BY InitCalls
<1> QED
  BY <1>1 DEF SoFar, Setup, Ready, Calls!Init

LEMMA StaySoFar ==
  ASSUME SoFar, UNCHANGED Calls!setupVars
  PROVE  /\ Setup' /\ Calls!Plan' = Calls!Plan /\ Calls!Wanted' = Calls!Wanted
         /\ Sound(Calls!Plan, Calls!Wanted)
         /\ Excused(dropped, failed) /\ UNCHANGED <<dropped, failed>> => Excused(dropped, failed)'
<1>1. payload' = payload /\ platform' = platform
  BY DEF Calls!setupVars
<1>2. Setup'
  BY <1>1 DEF SoFar, Setup, Ready, Calls!Payloads, Calls!Ordered
<1>3. Excused(dropped, failed) /\ UNCHANGED <<dropped, failed>> => Excused(dropped, failed)'
  BY <1>1, MediaStay DEF Excused
<1> QED
  BY <1>1, <1>2, <1>3, PlansStay, MediaStay, PlanSound DEF SoFar

LEMMA SkippedIsTaking ==
  ASSUME Setup, step \in DOMAIN Calls!Plan,
         Calls!Current.blank = "skip" \/ Calls!Current.fails = "skip"
  PROVE  /\ Calls!Current.does = "put" /\ Calls!Current.url \in Calls!Dispensable
         /\ Calls!Current.fails = "skip" => platform = "max"
  BY PlanSound DEF Sound, Calls!Current

\* The three ways on to the next call.
LEMMA GoesOn ==
  ASSUME SoFar, outcome = "calling", Calls!Current.does \notin {"show", "refuse"},
         UNCHANGED <<Calls!setupVars, outcome, shown>>, step' = step + 1,
         \/ Calls!Current.does \notin {"attach", "put"} /\ UNCHANGED <<assets, dropped, failed>>
         \/ /\ Calls!Current.does \in {"attach", "put"}
            /\ assets' = Append(assets, Calls!Current.url) /\ UNCHANGED <<dropped, failed>>
         \/ /\ Calls!Current.does \in {"attach", "put"} /\ Calls!Current.url \in Calls!Dispensable
            /\ dropped' = dropped \cup {Calls!Current.url} /\ UNCHANGED assets
            /\ platform = "max" \/ UNCHANGED failed
  PROVE  SoFar'
<1>1. /\ Setup' /\ Calls!Plan' = Calls!Plan /\ Calls!Wanted' = Calls!Wanted
      /\ Sound(Calls!Plan, Calls!Wanted)
  BY StaySoFar
<1>2. ShownInOrder' /\ outcome' = "calling"
  BY DEF SoFar, ShownInOrder
<1>3. OnTheWay(Calls!Plan, Calls!Wanted, step, assets, dropped)
  BY DEF SoFar
<1>4. Calls!Current = Calls!Plan[step]
  BY DEF Calls!Current
<1>5. OnTheWay(Calls!Plan, Calls!Wanted, step + 1, assets', dropped')
  <2>1. CASE ~Taking(Calls!Plan, step) /\ UNCHANGED <<assets, dropped>>
    <3>1. OnTheWay(Calls!Plan, Calls!Wanted, step + 1, assets, dropped)
      BY <1>1, <1>3, <1>4, <2>1, WalkGoesOn
    <3> QED
      BY <2>1, <3>1
  <2>2. CASE Taking(Calls!Plan, step) /\ assets' = Append(assets, Calls!Current.url) /\ UNCHANGED dropped
    <3>1. OnTheWay(Calls!Plan, Calls!Wanted, step + 1, Append(assets, Calls!Plan[step].url), dropped)
      BY <1>1, <1>3, <1>4, <2>2, WalkGoesOn
    <3> QED
      BY <1>4, <2>2, <3>1
  <2>3. CASE Taking(Calls!Plan, step) /\ dropped' = dropped \cup {Calls!Current.url} /\ UNCHANGED assets
    <3>1. OnTheWay(Calls!Plan, Calls!Wanted, step + 1, assets, dropped \cup {Calls!Plan[step].url})
      BY <1>1, <1>3, <1>4, <2>3, WalkGoesOn
    <3> QED
      BY <1>4, <2>3, <3>1
  <2> QED
    BY <1>4, <2>1, <2>2, <2>3 DEF Taking
<1>6. Excused(dropped, failed)'
  <2>1. Excused(dropped, failed)
    BY DEF SoFar
  <2>2. Calls!Dispensable' = Calls!Dispensable /\ platform' = platform
    BY MediaStay DEF Calls!setupVars
  <2> DEFINE u == Calls!Current.url   D == Calls!Dispensable
  <2>3. dropped' = dropped \/ (dropped' = dropped \cup {u} /\ u \in D)
    BY Zenon
  <2>4. platform = "max" \/ failed' = failed
    BY Zenon
  <2> QED
    BY <2>1, <2>2, <2>3, <2>4 DEF Excused
<1> QED
  BY <1>1, <1>2, <1>5, <1>6 DEF SoFar

LEMMA EndsSoFar ==
  ASSUME SoFar, UNCHANGED Calls!setupVars, ShownInOrder', outcome' \in {"rejected", "transient"}
  PROVE  SoFar'
  BY StaySoFar DEF SoFar

LEMMA NextSoFar ==
  ASSUME SoFar, [Calls!Next]_Calls!vars
  PROVE  SoFar'
<1>0. ShownInOrder /\ ShownInOrder'
  BY NextCalls DEF SoFar
<1>1. CASE UNCHANGED Calls!vars
  <2>1. UNCHANGED <<Calls!setupVars, outcome, step, assets, dropped, failed, shown>>
    BY <1>1 DEF Calls!vars, Calls!setupVars
  <2>2. /\ Setup' /\ Calls!Plan' = Calls!Plan /\ Calls!Wanted' = Calls!Wanted
        /\ Excused(dropped, failed) => Excused(dropped, failed)'
    BY <2>1, StaySoFar
  <2> QED
    BY <1>0, <2>1, <2>2 DEF SoFar
<1>2. CASE Calls!Begin
  <2>1. /\ UNCHANGED Calls!setupVars /\ outcome' = "calling"
        /\ step' = 1 /\ assets' = <<>> /\ dropped' = {} /\ failed' = {}
    BY <1>2 DEF Calls!Begin
  <2>2. /\ Setup' /\ Calls!Plan' = Calls!Plan /\ Calls!Wanted' = Calls!Wanted
        /\ Sound(Calls!Plan, Calls!Wanted)
    BY <2>1, StaySoFar
  <2>3. OnTheWay(Calls!Plan, Calls!Wanted, 1, <<>>, {})
    BY <2>2, WalkStarts
  <2>4. Excused(dropped, failed)'
    BY <2>1 DEF Excused
  <2> QED
    BY <1>0, <2>1, <2>2, <2>3, <2>4 DEF SoFar
<1>3. CASE Calls!Refused
  BY <1>0, <1>3, EndsSoFar DEF Calls!Refused, Calls!Ends
<1>4. CASE Calls!Answered
  <2>1. /\ outcome = "calling" /\ step' = step + 1 /\ UNCHANGED <<Calls!setupVars, outcome, shown, dropped, failed>>
        /\ Calls!Current.does \in {"attach", "get", "send", "ask", "put", "wait"}
        /\ assets' = IF Calls!Current.does \in {"attach", "put"} THEN Append(assets, Calls!Current.url)
                     ELSE assets
    BY <1>4 DEF Calls!Answered, Calls!Calling, Calls!Goes
  <2> QED
    BY <2>1, GoesOn
<1>5. CASE Calls!Blank
  <2>1. /\ outcome = "calling" /\ Calls!Current.does \in {"ask", "put"}
        /\ UNCHANGED <<Calls!setupVars, shown>>
    BY <1>5 DEF Calls!Blank, Calls!Calling
  <2>2. \/ outcome' \in {"rejected", "transient"}
        \/ /\ Calls!Current.blank = "skip" /\ dropped' = dropped \cup {Calls!Current.url}
           /\ step' = step + 1 /\ UNCHANGED <<outcome, assets, failed>>
    BY <1>5 DEF Calls!Blank, Calls!Ends, Calls!Goes
  <2>3. Calls!Current.blank = "skip" => Calls!Current.does = "put" /\ Calls!Current.url \in Calls!Dispensable
    BY <2>1, SkippedIsTaking DEF SoFar, OnTheWay
  <2> QED
    BY <1>0, <2>1, <2>2, <2>3, EndsSoFar, GoesOn
<1>6. CASE Calls!Fails
  <2>1. /\ outcome = "calling" /\ UNCHANGED <<Calls!setupVars, shown>>
    BY <1>6 DEF Calls!Fails, Calls!Calling
  <2>2. \/ outcome' \in {"rejected", "transient"}
        \/ /\ Calls!Current.fails = "skip" /\ dropped' = dropped \cup {Calls!Current.url}
           /\ step' = step + 1 /\ UNCHANGED <<outcome, assets>>
    BY <1>6 DEF Calls!Fails, Calls!Ends, Calls!Goes
  <2>3. Calls!Current.fails = "skip" =>
          Calls!Current.does = "put" /\ Calls!Current.url \in Calls!Dispensable /\ platform = "max"
    BY <2>1, SkippedIsTaking DEF SoFar, OnTheWay
  <2> QED
    BY <1>0, <2>1, <2>2, <2>3, EndsSoFar, GoesOn
<1>7. CASE Calls!Shows
  <2>1. /\ outcome = "calling" /\ Calls!Current.does = "show" /\ outcome' = "accepted"
        /\ shown' = Append(shown, assets)
        /\ UNCHANGED <<Calls!setupVars, assets, dropped, failed>>
    BY <1>7 DEF Calls!Shows, Calls!Calling, Calls!Ends, Calls!callVars
  <2>2. /\ Setup' /\ Calls!Plan' = Calls!Plan /\ Calls!Wanted' = Calls!Wanted
        /\ Sound(Calls!Plan, Calls!Wanted)
        /\ Excused(dropped, failed) => Excused(dropped, failed)'
    BY <2>1, StaySoFar
  <2>3. OnTheWay(Calls!Plan, Calls!Wanted, step, assets, dropped) /\ Calls!Plan[step].does = "show"
    BY <2>1 DEF SoFar, Calls!Current
  <2>4. IsWhole(assets, Calls!Wanted, dropped)
    BY <2>2, <2>3, WalkEnds
  <2>5. shown'[Len(shown')] = assets
    <3>1. PICK S : shown \in Seq(S)
      BY <1>0 DEF ShownInOrder
    <3> QED
      BY <2>1, <3>1
  <2> QED
    BY <1>0, <2>1, <2>2, <2>4, <2>5 DEF SoFar
<1>8. CASE Calls!ShowsUnheard
  <2>1. UNCHANGED Calls!setupVars /\ outcome' \in {"rejected", "transient"}
    BY <1>8 DEF Calls!ShowsUnheard, Calls!Ends
  <2> QED
    BY <1>0, <2>1, EndsSoFar
<1>9. CASE Calls!AroundProxy
  <2>1. outcome = "calling" /\ UNCHANGED <<Calls!setupVars, outcome, step, assets, dropped, failed>>
    BY <1>9 DEF Calls!AroundProxy, Calls!Calling
  <2>2. /\ Setup' /\ Calls!Plan' = Calls!Plan /\ Calls!Wanted' = Calls!Wanted
        /\ Excused(dropped, failed) => Excused(dropped, failed)'
    BY <2>1, StaySoFar
  <2> QED
    BY <1>0, <2>1, <2>2 DEF SoFar
<1> QED
  BY <1>1, <1>2, <1>3, <1>4, <1>5, <1>6, <1>7, <1>8, <1>9 DEF Calls!Next

\* What readers see of a publication that counts as done has each of the media
\* once and in order, whatever the platform, the payload and the failed attempts,
\* but for those that the publisher of that platform may leave out.
THEOREM PublishedPostsAreWhole == Calls!Spec => []PostedIsWhole
<1>1. Calls!Init => SoFar
  BY InitSoFar
<1>2. SoFar /\ [Calls!Next]_Calls!vars => SoFar'
  BY NextSoFar
<1>3. SoFar => PostedIsWhole
  BY DEF SoFar, PostedIsWhole, Calls!PostedIsWhole, Calls!ToSet, IsWhole, InOrder, Excused
<1> QED
  BY <1>1, <1>2, <1>3, PTL DEF Calls!Spec

-----------------------------------------------------------------------------
(* EditorChat: what is counted and what is not, along a program *)

\* count: whether rows were counted since the last commit, or nothing happened
\* since; flushed, added: how many rows at most were flushed since then, and were
\* not; mode: whether it would report a failure, and has a savepoint to go back to.
CountKinds == {"fresh", "open", "counted"}
Modes == {"calm", "run", "safe"}
Tallies == [count : CountKinds, flushed : Nat, added : Nat, mode : Modes]

Tally(count, flushed, added, mode) ==
  [count |-> count, flushed |-> flushed, added |-> added, mode |-> mode]

Running(mode) == IF mode = "calm" THEN "run" ELSE mode

After(a, s) ==
  IF s = "running" THEN Tally("counted", 0, a.added + 1, Running(a.mode))
  ELSE IF s \in Chat!Kinds THEN Tally("counted", 0, a.added + 1, a.mode)
  ELSE IF s = "flush" THEN Tally(IF a.count = "fresh" THEN "open" ELSE a.count, a.flushed + a.added, 0, a.mode)
  ELSE IF s = "savepoint" THEN Tally(IF a.count = "fresh" THEN "open" ELSE a.count, a.flushed, a.added, "safe")
  ELSE IF s = "clear" THEN Tally("counted", 0, a.added, a.mode)
  ELSE Tally("fresh", 0, 0, a.mode)

Allowed(a, s) ==
  /\ a.mode = "run" => a.added <= 2
  /\ s = "commit" => a.count = "counted" /\ a.flushed + a.added <= Chat!Unflushed
  /\ s = "clear" => a.count = "fresh"

IsCourse(t, p) ==
  /\ t \in [0..Len(p) -> Tallies]
  /\ \A i \in 1..Len(p) : Allowed(t[i - 1], p[i]) /\ t[i] = After(t[i - 1], p[i])

Course(p, a, b) ==
  p \in Seq(Chat!Steps) /\ Len(p) # 0 /\ \E t : IsCourse(t, p) /\ t[0] = a /\ t[Len(p)] = b

\* What a tally and a step of it are made of.
LEMMA TallyType ==
  ASSUME NEW c \in CountKinds, NEW f \in Nat, NEW n \in Nat, NEW m \in Modes
  PROVE  Tally(c, f, n, m) \in Tallies
  BY DEF Tallies, Tally

LEMMA AfterType ==
  ASSUME NEW a \in Tallies, NEW s
  PROVE  After(a, s) \in Tallies
<1>1. /\ a.count \in CountKinds /\ a.flushed \in Nat /\ a.added \in Nat /\ a.mode \in Modes
      /\ a.added + 1 \in Nat /\ a.flushed + a.added \in Nat /\ 0 \in Nat
      /\ Running(a.mode) \in Modes /\ "safe" \in Modes
      /\ "counted" \in CountKinds /\ "fresh" \in CountKinds
      /\ (IF a.count = "fresh" THEN "open" ELSE a.count) \in CountKinds
  BY DEF Tallies, CountKinds, Modes, Running
<1> QED
  BY <1>1, TallyType DEF After

\* A course of one step.
LEMMA CourseOne ==
  ASSUME NEW a \in Tallies, NEW s \in Chat!Steps, Allowed(a, s)
  PROVE  Course(<<s>>, a, After(a, s))
<1> DEFINE p == <<s>>   t == [i \in 0..1 |-> IF i = 0 THEN a ELSE After(a, s)]
<1>1. p \in Seq(Chat!Steps) /\ Len(p) = 1 /\ p[1] = s
  OBVIOUS
<1> HIDE DEF p
<1>2. t \in [0..1 -> Tallies] /\ t[0] = a /\ t[1] = After(a, s)
  BY AfterType
<1> HIDE DEF t
<1>3. IsCourse(t, p)
  <2>1. \A i \in 1..Len(p) : i = 1 /\ i - 1 = 0
    BY <1>1
  <2> QED
    BY <1>1, <1>2, <2>1 DEF IsCourse
<1> QED
  BY <1>1, <1>2, <1>3 DEF Course, p

\* One course after the other.
LEMMA CourseBoth ==
  ASSUME NEW p, NEW q, NEW a, NEW b, NEW c, Course(p, a, b), Course(q, b, c)
  PROVE  Course(p \o q, a, c)
<1>1. p \in Seq(Chat!Steps) /\ q \in Seq(Chat!Steps)
  BY DEF Course
<1>2. PICK t : IsCourse(t, p) /\ t[0] = a /\ t[Len(p)] = b
  BY DEF Course
<1>3. PICK u : IsCourse(u, q) /\ u[0] = b /\ u[Len(q)] = c
  BY DEF Course
<1> DEFINE m == Len(p)   n == Len(q)   pq == p \o q
           v == [i \in 0..(m + n) |-> IF i <= m THEN t[i] ELSE u[i - m]]
<1>4. /\ pq \in Seq(Chat!Steps) /\ Len(pq) = m + n /\ m \in Nat /\ n \in Nat
      /\ \A i \in 1..m : pq[i] = p[i]
      /\ \A i \in 1..n : pq[m + i] = q[i]
  BY <1>1, JoinedLength
<1> HIDE DEF m, n, pq
<1>5. /\ \A i \in 0..m : i \in 0..(m + n) /\ v[i] = t[i]
      /\ \A i \in 0..n : m + i \in 0..(m + n) /\ v[m + i] = u[i]
  <2>1. ASSUME NEW i \in 0..m PROVE i \in 0..(m + n) /\ v[i] = t[i]
    BY <1>4
  <2>2. ASSUME NEW i \in 0..n PROVE m + i \in 0..(m + n) /\ v[m + i] = u[i]
    <3>1. CASE i = 0
      BY <1>2, <1>3, <1>4, <3>1 DEF m
    <3>2. CASE i # 0
      <4>1. m + i \in 0..(m + n) /\ ~(m + i <= m) /\ (m + i) - m = i
        BY <1>4, <3>2
      <4> QED
        BY <4>1
    <3> QED
      BY <3>1, <3>2
  <2> QED
    BY <2>1, <2>2
<1>6. v \in [0..(m + n) -> Tallies]
  <2> SUFFICES ASSUME NEW i \in 0..(m + n) PROVE v[i] \in Tallies
    OBVIOUS
  <2>1. CASE i <= m
    BY <1>2, <1>4, <1>5, <2>1 DEF IsCourse, m
  <2>2. CASE ~(i <= m)
    <3>1. i - m \in 0..n
      BY <1>4, <2>2
    <3> QED
      BY <1>3, <2>2, <3>1 DEF IsCourse, n
  <2> QED
    BY <2>1, <2>2
<1> HIDE DEF v
<1>7. ASSUME NEW i \in 1..(m + n) PROVE Allowed(v[i - 1], pq[i]) /\ v[i] = After(v[i - 1], pq[i])
  <2>1. CASE i <= m
    <3>1. i \in 1..m /\ i - 1 \in 0..m /\ i \in 0..m
      BY <1>4, <2>1
    <3>2. Allowed(t[i - 1], p[i]) /\ t[i] = After(t[i - 1], p[i])
      BY <1>2, <3>1 DEF IsCourse, m
    <3> QED
      BY <1>4, <1>5, <3>1, <3>2
  <2>2. CASE ~(i <= m)
    <3> DEFINE j == i - m
    <3>1. j \in 1..n /\ j - 1 \in 0..n /\ j \in 0..n /\ i = m + j /\ i - 1 = m + (j - 1)
      BY <1>4, <2>2
    <3> HIDE DEF j
    <3>2. Allowed(u[j - 1], q[j]) /\ u[j] = After(u[j - 1], q[j])
      BY <1>3, <3>1 DEF IsCourse, n
    <3>3. v[i] = u[j] /\ v[i - 1] = u[j - 1] /\ pq[i] = q[j]
      BY <1>4, <1>5, <3>1
    <3> QED
      BY <3>2, <3>3
  <2> QED
    BY <2>1, <2>2
<1>8. IsCourse(v, pq)
  BY <1>4, <1>6, <1>7 DEF IsCourse
<1>9. v[0] = a /\ v[Len(pq)] = c
  <2>1. 0 \in 0..m /\ n \in 0..n
    BY <1>4
  <2> QED
    BY <1>2, <1>3, <1>4, <1>5, <2>1 DEF n
<1> QED
  BY <1>4, <1>8, <1>9 DEF Course, pq

\* Two to four steps.
LEMMA CourseSteps ==
  ASSUME NEW x \in Chat!Steps, NEW y \in Chat!Steps, NEW z \in Chat!Steps, NEW w \in Chat!Steps,
         NEW a, NEW b, NEW c, Course(<<x>>, a, b)
  PROVE  /\ Course(<<y>>, b, c) => Course(<<x, y>>, a, c)
         /\ Course(<<y, z>>, b, c) => Course(<<x, y, z>>, a, c)
         /\ Course(<<y, z, w>>, b, c) => Course(<<x, y, z, w>>, a, c)
<1>1. <<x>> \o <<y>> = <<x, y>>
  BY Pair
<1>2. <<x>> \o <<y, z>> = <<x, y, z>>
  BY Triple
<1>3. <<x>> \o <<y, z, w>> = <<x, y, z, w>>
  <2> DEFINE t == <<y, z, w>>   u == <<x, y, z, w>>
  <2>1. t \in Seq(Chat!Steps) /\ Len(t) = 3 /\ t[1] = y /\ t[2] = z /\ t[3] = w
    OBVIOUS
  <2>2. u \in Seq(Chat!Steps) /\ Len(u) = 4 /\ u[1] = x /\ u[2] = y /\ u[3] = z /\ u[4] = w
    OBVIOUS
  <2> HIDE DEF t, u
  <2>3. <<x>> \o t = u
    <3>1. Len(u) = Len(t) + 1 /\ \A i \in 1..Len(t) : u[1 + i] = t[i]
      <4>1. \A i \in 1..Len(t) : i = 1 \/ i = 2 \/ i = 3
        BY <2>1
      <4> QED
        BY <2>1, <2>2, <4>1
    <3> QED
      BY <2>1, <2>2, <3>1, PutBefore
  <2> QED
    BY <2>3 DEF t, u
<1>4. Course(<<y>>, b, c) => Course(<<x>> \o <<y>>, a, c)
  BY CourseBoth
<1>5. Course(<<y, z>>, b, c) => Course(<<x>> \o <<y, z>>, a, c)
  BY CourseBoth
<1>6. Course(<<y, z, w>>, b, c) => Course(<<x>> \o <<y, z, w>>, a, c)
  BY CourseBoth
<1> QED
  BY <1>1, <1>2, <1>3, <1>4, <1>5, <1>6

\* What is left of a program ends with a commit.
CanGoOn(p, a) == a \in Tallies /\ \E b : Course(p, a, b) /\ b.count = "fresh"

\* The next step of what is left is allowed; the last one is a commit.
LEMMA GoesOnAfter ==
  ASSUME NEW p, NEW a, CanGoOn(p, a)
  PROVE  /\ Head(p) \in Chat!Steps /\ Allowed(a, Head(p)) /\ a \in Tallies /\ p \in Seq(Chat!Steps) /\ p # <<>>
         /\ Len(p) = 1 => Head(p) = "commit"
         /\ Len(p) # 1 => CanGoOn(Tail(p), After(a, Head(p)))
<1>1. PICK b : Course(p, a, b) /\ b.count = "fresh"
  BY DEF CanGoOn
<1>2. a \in Tallies /\ p \in Seq(Chat!Steps) /\ Len(p) # 0
  BY <1>1 DEF CanGoOn, Course
<1>3. PICK t : IsCourse(t, p) /\ t[0] = a /\ t[Len(p)] = b
  BY <1>1 DEF Course
<1> DEFINE n == Len(p)
<1>4. p # <<>> /\ n \in Nat /\ n >= 1 /\ Head(p) = p[1] /\ p[1] \in Chat!Steps
  BY <1>2
<1>5. 1 \in 1..n /\ 1 - 1 = 0
  BY <1>4
<1>6. Allowed(a, Head(p)) /\ t[1] = After(a, Head(p))
  BY <1>3, <1>4, <1>5 DEF IsCourse
<1>7. ASSUME n = 1 PROVE Head(p) = "commit"
  <2>1. After(a, Head(p)).count = "fresh"
    BY <1>1, <1>3, <1>6, <1>7
  <2>2. /\ Head(p) \in Chat!Kinds \cup {"running"} => After(a, Head(p)).count = "counted"
        /\ Head(p) \in {"flush", "savepoint"} => After(a, Head(p)).count # "fresh"
        /\ Head(p) = "clear" => After(a, Head(p)).count = "counted"
    BY DEF After, Tally, Chat!Kinds
  <2> QED
    BY <1>4, <2>1, <2>2 DEF Chat!Steps
<1>8. ASSUME n # 1 PROVE CanGoOn(Tail(p), After(a, Head(p)))
  <2> DEFINE q == Tail(p)   u == [i \in 0..(n - 1) |-> t[i + 1]]
  <2>1. /\ q \in Seq(Chat!Steps) /\ Len(q) = n - 1 /\ n - 1 >= 1 /\ n - 1 \in Nat
        /\ \A i \in 1..(n - 1) : i + 1 \in 1..n /\ q[i] = p[i + 1]
    <3>1. n - 1 \in Nat /\ n - 1 >= 1 /\ \A i \in 1..(n - 1) : i + 1 \in 1..n
      BY <1>4, <1>8
    <3>2. /\ Tail(p) \in Seq(Chat!Steps) /\ Len(Tail(p)) = n - 1
          /\ \A i \in 1..(n - 1) : Tail(p)[i] = p[i + 1]
      BY <1>2, <1>4, HeadTailProperties
    <3> QED
      BY <3>1, <3>2
  <2> HIDE DEF q, n
  <2>2. \A i \in 0..(n - 1) : i + 1 \in 0..n /\ i + 1 \in 1..n
    BY <1>4
  <2>3. u \in [0..(n - 1) -> Tallies]
    BY <1>3, <2>2 DEF IsCourse, n
  <2>4. ASSUME NEW i \in 1..(n - 1) PROVE Allowed(u[i - 1], q[i]) /\ u[i] = After(u[i - 1], q[i])
    <3>1. i - 1 \in 0..(n - 1) /\ i \in 0..(n - 1) /\ (i - 1) + 1 = i /\ (i + 1) - 1 = i /\ i + 1 \in 1..n
      BY <2>1, <2>2
    <3>2. Allowed(t[(i + 1) - 1], p[i + 1]) /\ t[i + 1] = After(t[(i + 1) - 1], p[i + 1])
      BY <1>3, <3>1 DEF IsCourse, n
    <3> QED
      BY <2>1, <3>1, <3>2
  <2>5. 0 \in 0..(n - 1) /\ 0 + 1 = 1 /\ u[0] = t[1]
    BY <2>1
  <2>6. n - 1 \in 0..(n - 1) /\ (n - 1) + 1 = n /\ u[n - 1] = t[n]
    BY <1>4, <2>1
  <2> HIDE DEF u
  <2>7. IsCourse(u, q)
    BY <2>1, <2>3, <2>4 DEF IsCourse
  <2>8. Len(q) # 0 /\ u[0] = After(a, Head(p)) /\ u[Len(q)] = b
    <3>1. t[n] = b
      BY <1>3 DEF n
    <3> QED
      BY <1>6, <2>1, <2>5, <2>6, <3>1
  <2>9. Course(q, After(a, Head(p)), b)
    BY <2>1, <2>7, <2>8 DEF Course
  <2>10. After(a, Head(p)) \in Tallies
    BY <1>2, AfterType
  <2> QED
    BY <1>1, <2>9, <2>10 DEF CanGoOn, q
<1> QED
  BY <1>2, <1>4, <1>6, <1>7, <1>8

Words == Chat!Kinds \ {"running"}

\* Rows are added by words.
LEMMA WordsAreSteps ==
  /\ Words \subseteq Chat!Steps
  /\ {"running", "flush", "savepoint", "commit", "clear"} \subseteq Chat!Steps
  /\ {"user", "assistant", "context", "draft", "package", "completed", "result", "error", "decision"} = Words
  /\ "commit" \notin Words /\ "clear" \notin Words
  BY DEF Words, Chat!Steps, Chat!Kinds

\* What each step does to a tally.
LEMMA Moves ==
  ASSUME NEW c, NEW f, NEW n, NEW m
  PROVE  /\ \A k \in Words : After(Tally(c, f, n, m), k) = Tally("counted", 0, n + 1, m)
         /\ After(Tally(c, f, n, m), "running") = Tally("counted", 0, n + 1, Running(m))
         /\ c # "fresh" => After(Tally(c, f, n, m), "flush") = Tally(c, f + n, 0, m)
         /\ After(Tally("fresh", f, n, m), "savepoint") = Tally("open", f, n, "safe")
         /\ After(Tally(c, f, n, m), "clear") = Tally("counted", 0, n, m)
         /\ After(Tally(c, f, n, m), "commit") = Tally("fresh", 0, 0, m)
<1> DEFINE a == Tally(c, f, n, m)   e == Tally("fresh", f, n, m)
<1>1. /\ a.count = c /\ a.flushed = f /\ a.added = n /\ a.mode = m
      /\ e.count = "fresh" /\ e.flushed = f /\ e.added = n /\ e.mode = m
  BY DEF Tally
<1> HIDE DEF a, e
<1>2. {"flush", "savepoint", "clear", "commit"} \cap Chat!Kinds = {}
  BY DEF Chat!Kinds
<1>3. /\ \A k \in Words : After(a, k) = Tally("counted", 0, n + 1, m)
      /\ After(a, "running") = Tally("counted", 0, n + 1, Running(m))
  BY <1>1 DEF After, Words
<1>4. c # "fresh" => After(a, "flush") = Tally(c, f + n, 0, m)
  BY <1>1, <1>2 DEF After
<1>5. After(e, "savepoint") = Tally("open", f, n, "safe")
  BY <1>1, <1>2 DEF After
<1>6. After(a, "clear") = Tally("counted", 0, n, m) /\ After(a, "commit") = Tally("fresh", 0, 0, m)
  BY <1>1, <1>2 DEF After
<1> QED
  BY <1>3, <1>4, <1>5, <1>6 DEF a, e

\* When the steps are allowed.
LEMMA Free ==
  ASSUME NEW c, NEW f, NEW n, NEW m, NEW k,
         m = "run" => n <= 2, k = "commit" => c = "counted" /\ f + n <= 3, k = "clear" => c = "fresh"
  PROVE  Allowed(Tally(c, f, n, m), k)
  BY DEF Allowed, Tally, Chat!Unflushed

\* A step from one count to the next.
LEMMA OneMove ==
  ASSUME NEW c \in CountKinds, NEW f \in Nat, NEW n \in Nat, NEW m \in Modes, NEW k \in Chat!Steps, NEW b,
         m = "run" => n <= 2, k = "commit" => c = "counted" /\ f + n <= 3, k = "clear" => c = "fresh",
         After(Tally(c, f, n, m), k) = b
  PROVE  Course(<<k>>, Tally(c, f, n, m), b)
<1>1. Tally(c, f, n, m) \in Tallies
  BY TallyType
<1>2. Allowed(Tally(c, f, n, m), k)
  BY Free
<1>3. Course(<<k>>, Tally(c, f, n, m), After(Tally(c, f, n, m), k))
  BY <1>1, <1>2, CourseOne
<1> QED
  BY <1>3

\* One row more.
LEMMA Says ==
  ASSUME NEW c \in CountKinds, NEW f \in Nat, NEW n \in Nat, NEW m \in Modes, NEW k \in Words, m = "run" => n <= 2
  PROVE  Course(<<k>>, Tally(c, f, n, m), Tally("counted", 0, n + 1, m))
<1>1. k \in Chat!Steps /\ k # "commit" /\ k # "clear"
  BY WordsAreSteps
<1>2. After(Tally(c, f, n, m), k) = Tally("counted", 0, n + 1, m)
  BY Moves
<1> QED
  BY <1>1, <1>2, OneMove

\* What was added is flushed.
LEMMA Flushes ==
  ASSUME NEW f \in Nat, NEW n \in Nat, NEW m \in Modes, NEW c \in {"open", "counted"}, m = "run" => n <= 2
  PROVE  Course(<<"flush">>, Tally(c, f, n, m), Tally(c, f + n, 0, m))
<1>1. c \in CountKinds /\ c # "fresh" /\ "flush" \in Chat!Steps
  BY WordsAreSteps DEF CountKinds
<1>2. After(Tally(c, f, n, m), "flush") = Tally(c, f + n, 0, m)
  BY <1>1, Moves
<1> QED
  BY <1>1, <1>2, OneMove

\* At most three rows that nobody counted are committed.
LEMMA Commits ==
  ASSUME NEW f \in Nat, NEW n \in Nat, NEW m \in Modes, f + n <= 3, m = "run" => n <= 2
  PROVE  Course(<<"commit">>, Tally("counted", f, n, m), Tally("fresh", 0, 0, m))
<1>1. "counted" \in CountKinds /\ "commit" \in Chat!Steps
  BY WordsAreSteps DEF CountKinds
<1>2. After(Tally("counted", f, n, m), "commit") = Tally("fresh", 0, 0, m)
  BY Moves
<1> QED
  BY <1>1, <1>2, OneMove

\* A run opens: "running", flushed and committed.
LEMMA Starts ==
  ASSUME NEW f \in Nat, NEW c \in CountKinds, NEW n \in {0, 1}
  PROVE  Course(<<"running", "flush", "commit">>, Tally(c, f, n, "calm"), Tally("fresh", 0, 0, "run"))
<1>1. /\ n \in Nat /\ "calm" \in Modes /\ "run" \in Modes /\ Running("calm") = "run"
      /\ "running" \in Chat!Steps /\ "flush" \in Chat!Steps /\ "commit" \in Chat!Steps
  BY WordsAreSteps DEF Modes, Running
<1>2. n + 1 \in Nat /\ n + 1 <= 2 /\ 0 + (n + 1) = n + 1 /\ (n + 1) + 0 <= 3
  OBVIOUS
<1>3. Course(<<"running">>, Tally(c, f, n, "calm"), Tally("counted", 0, n + 1, "run"))
  <2>1. After(Tally(c, f, n, "calm"), "running") = Tally("counted", 0, n + 1, "run")
    BY <1>1, Moves
  <2> QED
    BY <1>1, <2>1, OneMove
<1>4. Course(<<"flush">>, Tally("counted", 0, n + 1, "run"), Tally("counted", n + 1, 0, "run"))
  <2>1. Course(<<"flush">>, Tally("counted", 0, n + 1, "run"), Tally("counted", 0 + (n + 1), 0, "run"))
    BY <1>1, <1>2, Flushes
  <2> QED
    BY <1>2, <2>1
<1>5. Course(<<"commit">>, Tally("counted", n + 1, 0, "run"), Tally("fresh", 0, 0, "run"))
  BY <1>1, <1>2, Commits
<1>6. Course(<<"flush", "commit">>, Tally("counted", 0, n + 1, "run"), Tally("fresh", 0, 0, "run"))
  BY <1>1, <1>4, <1>5, CourseSteps
<1> QED
  BY <1>1, <1>3, <1>6, CourseSteps

\* The turn that a run answers may be a row before it.
LEMMA Opens ==
  ASSUME NEW f \in Nat, NEW c \in CountKinds, NEW wanted \in BOOLEAN
  PROVE  Course(Chat!Started(wanted), Tally(c, f, 0, "calm"), Tally("fresh", 0, 0, "run"))
<1> DEFINE p == <<"running", "flush", "commit">>
<1>1. p \in Seq(Chat!Steps)
  BY WordsAreSteps
<1>2. CASE wanted
  <2>1. Chat!Started(wanted) = <<"user">> \o p
    BY <1>2 DEF Chat!Started
  <2>2. "user" \in Words /\ "calm" \in Modes /\ "counted" \in CountKinds /\ 0 + 1 = 1 /\ 1 \in {0, 1}
    BY WordsAreSteps DEF Modes, CountKinds
  <2>3. Course(<<"user">>, Tally(c, f, 0, "calm"), Tally("counted", 0, 0 + 1, "calm"))
    BY <2>2, Says
  <2>4. Course(p, Tally("counted", 0, 1, "calm"), Tally("fresh", 0, 0, "run"))
    BY <2>2, Starts
  <2> HIDE DEF p
  <2>5. Course(<<"user">> \o p, Tally(c, f, 0, "calm"), Tally("fresh", 0, 0, "run"))
    BY <2>2, <2>3, <2>4, CourseBoth
  <2> QED
    BY <2>1, <2>5
<1>3. CASE ~wanted
  <2>1. Chat!Started(wanted) = <<>> \o p
    BY <1>3 DEF Chat!Started
  <2>2. <<>> \o p = p
    BY <1>1, ConcatEmptySeq
  <2>3. Course(p, Tally(c, f, 0, "calm"), Tally("fresh", 0, 0, "run"))
    BY Starts
  <2> HIDE DEF p
  <2> QED
    BY <2>1, <2>2, <2>3
<1> QED
  BY <1>2, <1>3

\* A decision adds two rows, an approval three.
Told(approved) == IF approved THEN 3 ELSE 2

LEMMA Decides ==
  ASSUME NEW f \in Nat, NEW c \in CountKinds, NEW n \in Nat, NEW m \in {"calm", "safe"}, NEW approved \in BOOLEAN
  PROVE  Course(Chat!Decided(approved), Tally(c, f, n, m), Tally("counted", 0, n + Told(approved), m))
<1> DEFINE p == <<"decision", "result">>
<1>1. /\ m \in Modes /\ m # "run" /\ "counted" \in CountKinds /\ "decision" \in Words /\ "result" \in Words
      /\ "decision" \in Chat!Steps /\ "result" \in Chat!Steps /\ 0 \in Nat
  BY WordsAreSteps DEF Modes, CountKinds
<1>2. /\ n + 1 \in Nat /\ n + 2 \in Nat /\ (n + 1) + 1 = n + 2 /\ (n + 2) + 1 = n + 3
  OBVIOUS
<1>3. Course(p, Tally(c, f, n, m), Tally("counted", 0, n + 2, m))
  <2>1. Course(<<"decision">>, Tally(c, f, n, m), Tally("counted", 0, n + 1, m))
    BY <1>1, Says
  <2>2. Course(<<"result">>, Tally("counted", 0, n + 1, m), Tally("counted", 0, (n + 1) + 1, m))
    BY <1>1, <1>2, Says
  <2>3. Course(<<"result">>, Tally("counted", 0, n + 1, m), Tally("counted", 0, n + 2, m))
    BY <1>2, <2>2
  <2> QED
    BY <1>1, <2>1, <2>3, CourseSteps
<1>4. p \in Seq(Chat!Steps)
  BY <1>1
<1>5. CASE approved
  <2>1. Chat!Decided(approved) = p \o <<"result">> /\ Told(approved) = 3
    BY <1>5 DEF Chat!Decided, Told
  <2>2. Course(<<"result">>, Tally("counted", 0, n + 2, m), Tally("counted", 0, (n + 2) + 1, m))
    BY <1>1, <1>2, Says
  <2>3. Course(<<"result">>, Tally("counted", 0, n + 2, m), Tally("counted", 0, n + 3, m))
    BY <1>2, <2>2
  <2> HIDE DEF p
  <2>4. Course(p \o <<"result">>, Tally(c, f, n, m), Tally("counted", 0, n + 3, m))
    BY <1>3, <2>3, CourseBoth
  <2> QED
    BY <2>1, <2>4
<1>6. CASE ~approved
  <2>1. Chat!Decided(approved) = p \o <<>> /\ Told(approved) = 2
    BY <1>6 DEF Chat!Decided, Told
  <2>2. p \o <<>> = p
    BY <1>4, ConcatEmptySeq
  <2> HIDE DEF p
  <2> QED
    BY <1>3, <2>1, <2>2
<1> QED
  BY <1>5, <1>6

\* The end of a run: flushed, "completed", "result".
LEMMA Finishes ==
  ASSUME NEW f \in Nat, NEW n \in Nat
  PROVE  Course(<<"flush", "completed", "result">>, Tally("counted", f, n, "safe"), Tally("counted", 0, 2, "safe"))
<1>1. /\ "safe" \in Modes /\ "safe" # "run" /\ "counted" \in CountKinds
      /\ "completed" \in Words /\ "result" \in Words /\ 0 + 1 = 1 /\ 1 + 1 = 2 /\ f + n \in Nat
      /\ "completed" \in Chat!Steps /\ "result" \in Chat!Steps /\ "flush" \in Chat!Steps
  BY WordsAreSteps DEF Modes, CountKinds
<1>2. Course(<<"flush">>, Tally("counted", f, n, "safe"), Tally("counted", f + n, 0, "safe"))
  BY <1>1, Flushes
<1>3. Course(<<"completed">>, Tally("counted", f + n, 0, "safe"), Tally("counted", 0, 1, "safe"))
  <2>1. Course(<<"completed">>, Tally("counted", f + n, 0, "safe"), Tally("counted", 0, 0 + 1, "safe"))
    BY <1>1, Says
  <2> QED
    BY <1>1, <2>1
<1>4. Course(<<"result">>, Tally("counted", 0, 1, "safe"), Tally("counted", 0, 2, "safe"))
  <2>1. Course(<<"result">>, Tally("counted", 0, 1, "safe"), Tally("counted", 0, 1 + 1, "safe"))
    BY <1>1, Says
  <2> QED
    BY <1>1, <2>1
<1>5. Course(<<"completed", "result">>, Tally("counted", f + n, 0, "safe"), Tally("counted", 0, 2, "safe"))
  BY <1>1, <1>3, <1>4, CourseSteps
<1> QED
  BY <1>1, <1>2, <1>5, CourseSteps

\* What a run proposes is counted, but for its last rows.
LEMMA Proposes ==
  ASSUME NEW f \in Nat, NEW what \in Chat!Outcomes
  PROVE  \E n \in {1, 2} :
           Course(Chat!Proposed(what), Tally("counted", f, 0, "safe"), Tally("counted", 0, n, "safe"))
<1> DEFINE t == <<"flush", "completed", "result">>   a == Tally("counted", f, 0, "safe")
<1>1. /\ "safe" \in Modes /\ "safe" # "run" /\ "counted" \in CountKinds /\ 0 + 1 = 1
      /\ {"completed", "package", "draft"} \subseteq Words
      /\ {"completed", "package", "draft", "flush", "result"} \subseteq Chat!Steps
  BY WordsAreSteps DEF Modes, CountKinds
<1>2. ASSUME NEW k \in Words PROVE Course(<<k>>, a, Tally("counted", 0, 1, "safe"))
  <2>1. Course(<<k>>, a, Tally("counted", 0, 0 + 1, "safe"))
    BY <1>1, Says
  <2> QED
    BY <1>1, <2>1
<1>3. ASSUME NEW n \in Nat PROVE Course(t, Tally("counted", 0, n, "safe"), Tally("counted", 0, 2, "safe"))
  BY Finishes
<1>4. CASE what = "nothing"
  <2>1. Chat!Proposed(what) = <<"completed">>
    BY <1>4 DEF Chat!Proposed
  <2> HIDE DEF a
  <2> QED
    BY <1>1, <1>2, <2>1 DEF a
<1>5. CASE what \in {"package", "draft"}
  <2>1. Chat!Proposed(what) = <<what, "flush", "completed", "result">>
    BY <1>5 DEF Chat!Proposed
  <2>2. what \in Words /\ what \in Chat!Steps
    BY <1>1, <1>5
  <2>3. Course(t, Tally("counted", 0, 1, "safe"), Tally("counted", 0, 2, "safe"))
    BY <1>3
  <2>4. Course(<<what>>, a, Tally("counted", 0, 1, "safe"))
    BY <1>2, <2>2
  <2> HIDE DEF a
  <2>5. Course(<<what, "flush", "completed", "result">>, a, Tally("counted", 0, 2, "safe"))
    BY <1>1, <2>2, <2>3, <2>4, CourseSteps
  <2> QED
    BY <2>1, <2>5 DEF a
<1>6. CASE what \in {"approved", "rejected"}
  <2> DEFINE yes == what = "approved"   d == Chat!Decided(yes)   e == <<"draft">>
  <2>1. Chat!Proposed(what) = e \o d \o t
    BY <1>6 DEF Chat!Proposed
  <2>2. Course(e, a, Tally("counted", 0, 1, "safe"))
    BY <1>1, <1>2
  <2>3. yes \in BOOLEAN /\ 1 + Told(yes) \in Nat
    BY DEF Told
  <2> HIDE DEF yes
  <2>4. Course(d, Tally("counted", 0, 1, "safe"), Tally("counted", 0, 1 + Told(yes), "safe"))
    BY <1>1, <2>3, Decides
  <2>5. Course(t, Tally("counted", 0, 1 + Told(yes), "safe"), Tally("counted", 0, 2, "safe"))
    BY <1>3, <2>3
  <2> HIDE DEF a, d, e, t
  <2>6. Course(e \o d, a, Tally("counted", 0, 1 + Told(yes), "safe"))
    BY <2>2, <2>4, CourseBoth
  <2>7. Course(e \o d \o t, a, Tally("counted", 0, 2, "safe"))
    BY <2>5, <2>6, CourseBoth
  <2> QED
    BY <2>1, <2>7 DEF a
<1> QED
  BY <1>4, <1>5, <1>6 DEF Chat!Outcomes

\* A whole run, whatever was flushed before it.
LEMMA RunsThrough ==
  ASSUME NEW f \in Nat, NEW c \in CountKinds, NEW wanted \in BOOLEAN, NEW what \in Chat!Outcomes
  PROVE  Course(Chat!Runs(wanted, what), Tally(c, f, 0, "calm"), Tally("fresh", 0, 0, "safe"))
<1> DEFINE o == Chat!Started(wanted)   s == <<"savepoint", "context", "flush">>   p == Chat!Proposed(what)
           e == <<"commit">>
<1>1. /\ "safe" \in Modes /\ "run" \in Modes /\ "safe" # "run"
      /\ {"counted", "open", "fresh"} \subseteq CountKinds
      /\ 0 + 1 = 1 /\ "context" \in Words
      /\ "savepoint" \in Chat!Steps /\ "context" \in Chat!Steps /\ "flush" \in Chat!Steps
  BY WordsAreSteps DEF Modes, CountKinds
<1>2. Chat!Runs(wanted, what) = o \o s \o p \o e
  BY DEF Chat!Runs
<1>3. Course(o, Tally(c, f, 0, "calm"), Tally("fresh", 0, 0, "run"))
  BY Opens
<1>4. Course(s, Tally("fresh", 0, 0, "run"), Tally("counted", 1, 0, "safe"))
  <2>1. Course(<<"savepoint">>, Tally("fresh", 0, 0, "run"), Tally("open", 0, 0, "safe"))
    <3>1. After(Tally("fresh", 0, 0, "run"), "savepoint") = Tally("open", 0, 0, "safe")
      BY Moves
    <3> QED
      BY <1>1, <3>1, OneMove
  <2>2. Course(<<"context">>, Tally("open", 0, 0, "safe"), Tally("counted", 0, 1, "safe"))
    <3>1. Course(<<"context">>, Tally("open", 0, 0, "safe"), Tally("counted", 0, 0 + 1, "safe"))
      BY <1>1, Says
    <3> QED
      BY <1>1, <3>1
  <2>3. Course(<<"flush">>, Tally("counted", 0, 1, "safe"), Tally("counted", 1, 0, "safe"))
    <3>1. Course(<<"flush">>, Tally("counted", 0, 1, "safe"), Tally("counted", 0 + 1, 0, "safe"))
      BY <1>1, Flushes
    <3> QED
      BY <1>1, <3>1
  <2>4. Course(<<"context", "flush">>, Tally("open", 0, 0, "safe"), Tally("counted", 1, 0, "safe"))
    BY <1>1, <2>2, <2>3, CourseSteps
  <2> QED
    BY <1>1, <2>1, <2>4, CourseSteps
<1>5. PICK n \in {1, 2} : Course(p, Tally("counted", 1, 0, "safe"), Tally("counted", 0, n, "safe"))
  BY Proposes
<1>6. Course(e, Tally("counted", 0, n, "safe"), Tally("fresh", 0, 0, "safe"))
  <2>1. n \in Nat /\ 0 + n <= 3
    BY <1>5
  <2> QED
    BY <1>1, <2>1, Commits
<1> HIDE DEF o, s, p, e
<1>7. Course(o \o s, Tally(c, f, 0, "calm"), Tally("counted", 1, 0, "safe"))
  BY <1>3, <1>4, CourseBoth
<1>8. Course(o \o s \o p, Tally(c, f, 0, "calm"), Tally("counted", 0, n, "safe"))
  BY <1>5, <1>7, CourseBoth
<1>9. Course(o \o s \o p \o e, Tally(c, f, 0, "calm"), Tally("fresh", 0, 0, "safe"))
  BY <1>6, <1>8, CourseBoth
<1> QED
  BY <1>2, <1>9

\* Every transaction counts in time.
LEMMA ProgramsGoOn ==
  ASSUME NEW program \in Chat!Programs
  PROVE  CanGoOn(program, Tally("fresh", 0, 0, "calm"))
<1> DEFINE a == Tally("fresh", 0, 0, "calm")
<1>1. /\ "calm" \in Modes /\ "calm" # "run" /\ "counted" \in CountKinds /\ "fresh" \in CountKinds
      /\ 0 + 1 = 1 /\ 1 + 1 = 2 /\ {"user", "assistant"} \subseteq Words
      /\ {"user", "assistant", "commit", "clear", "flush"} \subseteq Chat!Steps
  BY WordsAreSteps DEF Modes, CountKinds
<1>2. a \in Tallies /\ \A m \in Modes : Tally("fresh", 0, 0, m).count = "fresh"
  <2>1. a \in Tallies
    BY <1>1, TallyType
  <2> QED
    BY <2>1 DEF Tally
<1>3. ASSUME NEW p, NEW m \in Modes, Course(p, a, Tally("fresh", 0, 0, m)) PROVE CanGoOn(p, a)
  <2> HIDE DEF a
  <2> QED
    BY <1>2, <1>3 DEF CanGoOn
<1>4. CASE program = <<"user", "assistant", "commit">>
  <2>1. Course(<<"user">>, a, Tally("counted", 0, 1, "calm"))
    <3>1. Course(<<"user">>, a, Tally("counted", 0, 0 + 1, "calm"))
      BY <1>1, Says
    <3> QED
      BY <1>1, <3>1
  <2>2. Course(<<"assistant">>, Tally("counted", 0, 1, "calm"), Tally("counted", 0, 2, "calm"))
    <3>1. Course(<<"assistant">>, Tally("counted", 0, 1, "calm"), Tally("counted", 0, 1 + 1, "calm"))
      BY <1>1, Says
    <3> QED
      BY <1>1, <3>1
  <2>3. Course(<<"commit">>, Tally("counted", 0, 2, "calm"), Tally("fresh", 0, 0, "calm"))
    <3>1. 0 + 2 <= 3
      OBVIOUS
    <3> QED
      BY <1>1, <3>1, Commits
  <2> HIDE DEF a
  <2>4. Course(<<"assistant", "commit">>, Tally("counted", 0, 1, "calm"), Tally("fresh", 0, 0, "calm"))
    BY <1>1, <2>2, <2>3, CourseSteps
  <2>5. Course(<<"user", "assistant", "commit">>, a, Tally("fresh", 0, 0, "calm"))
    <3>1. "user" \in Chat!Steps /\ "assistant" \in Chat!Steps /\ "commit" \in Chat!Steps
      BY <1>1
    <3> QED
      BY <2>1, <2>4, <3>1, CourseSteps
  <2> QED
    BY <1>1, <1>3, <1>4, <2>5 DEF a
<1>5. CASE program = <<"clear", "commit">>
  <2>1. Course(<<"clear">>, a, Tally("counted", 0, 0, "calm"))
    <3>1. After(Tally("fresh", 0, 0, "calm"), "clear") = Tally("counted", 0, 0, "calm")
      BY Moves
    <3> QED
      BY <1>1, <3>1, OneMove
  <2>2. Course(<<"commit">>, Tally("counted", 0, 0, "calm"), Tally("fresh", 0, 0, "calm"))
    <3>1. 0 + 0 <= 3
      OBVIOUS
    <3> QED
      BY <1>1, <3>1, Commits
  <2> HIDE DEF a
  <2>3. Course(<<"clear", "commit">>, a, Tally("fresh", 0, 0, "calm"))
    BY <1>1, <2>1, <2>2, CourseSteps
  <2> QED
    BY <1>1, <1>3, <1>5, <2>3 DEF a
<1>6. ASSUME NEW wanted \in BOOLEAN, NEW what \in Chat!Outcomes, program = Chat!Runs(wanted, what)
      PROVE  CanGoOn(program, a)
  <2>1. Course(Chat!Runs(wanted, what), a, Tally("fresh", 0, 0, "safe"))
    BY <1>1, RunsThrough
  <2>2. "safe" \in Modes
    BY DEF Modes
  <2> HIDE DEF a
  <2> QED
    BY <1>3, <1>6, <2>1, <2>2
<1>7. ASSUME NEW approved \in BOOLEAN
      PROVE  Course(Chat!Decided(approved), a, Tally("counted", 0, Told(approved), "calm"))
  <2>1. Course(Chat!Decided(approved), a, Tally("counted", 0, 0 + Told(approved), "calm"))
    BY <1>1, Decides
  <2>2. 0 + Told(approved) = Told(approved)
    BY DEF Told
  <2> QED
    BY <2>1, <2>2
<1>8. ASSUME NEW n \in Nat
      PROVE  Course(<<"flush">>, Tally("counted", 0, n, "calm"), Tally("counted", n, 0, "calm"))
  <2>1. Course(<<"flush">>, Tally("counted", 0, n, "calm"), Tally("counted", 0 + n, 0, "calm"))
    BY <1>1, Flushes
  <2>2. 0 + n = n
    OBVIOUS
  <2> QED
    BY <2>1, <2>2
<1>9. ASSUME NEW approved \in BOOLEAN, program = Chat!Decided(approved) \o <<"flush", "commit">>
      PROVE  CanGoOn(program, a)
  <2> DEFINE d == Chat!Decided(approved)   n == Told(approved)   e == <<"flush", "commit">>
  <2>1. n \in Nat /\ n + 0 <= 3
    BY DEF Told
  <2>2. Course(d, a, Tally("counted", 0, n, "calm"))
    BY <1>7
  <2> HIDE DEF n
  <2>3. Course(<<"flush">>, Tally("counted", 0, n, "calm"), Tally("counted", n, 0, "calm"))
    BY <1>8, <2>1
  <2>4. Course(<<"commit">>, Tally("counted", n, 0, "calm"), Tally("fresh", 0, 0, "calm"))
    BY <1>1, <2>1, Commits
  <2>5. Course(e, Tally("counted", 0, n, "calm"), Tally("fresh", 0, 0, "calm"))
    BY <1>1, <2>3, <2>4, CourseSteps
  <2>6. program = d \o e
    BY <1>9
  <2> HIDE DEF a, d, e
  <2>7. Course(d \o e, a, Tally("fresh", 0, 0, "calm"))
    BY <2>2, <2>5, CourseBoth
  <2> QED
    BY <1>1, <1>3, <2>6, <2>7
<1>10. ASSUME NEW wanted \in BOOLEAN,
              program = Chat!Decided(FALSE) \o <<"flush">> \o Chat!Runs(wanted, "draft")
       PROVE  CanGoOn(program, a)
  <2> DEFINE d == Chat!Decided(FALSE)   e == <<"flush">>   q == Chat!Runs(wanted, "draft")
  <2>1. Course(d, a, Tally("counted", 0, 2, "calm"))
    <3>1. Told(FALSE) = 2 /\ FALSE \in BOOLEAN
      BY DEF Told
    <3>2. Course(d, a, Tally("counted", 0, Told(FALSE), "calm"))
      BY <1>7
    <3> QED
      BY <3>1, <3>2
  <2>2. Course(e, Tally("counted", 0, 2, "calm"), Tally("counted", 2, 0, "calm"))
    BY <1>8
  <2>3. Course(q, Tally("counted", 2, 0, "calm"), Tally("fresh", 0, 0, "safe"))
    <3>1. "draft" \in Chat!Outcomes
      BY DEF Chat!Outcomes
    <3> QED
      BY <1>1, <3>1, RunsThrough
  <2>4. program = d \o e \o q /\ "safe" \in Modes
    BY <1>10 DEF Modes
  <2> HIDE DEF a, d, e, q
  <2>5. Course(d \o e, a, Tally("counted", 2, 0, "calm"))
    BY <2>1, <2>2, CourseBoth
  <2>6. Course(d \o e \o q, a, Tally("fresh", 0, 0, "safe"))
    BY <2>3, <2>5, CourseBoth
  <2> QED
    BY <1>3, <2>4, <2>6
<1> DEFINE O == {<<"user", "assistant", "commit">>, <<"clear", "commit">>}
           A == {Chat!Runs(wanted, what) : wanted \in BOOLEAN, what \in Chat!Outcomes}
           B == {Chat!Decided(approved) \o <<"flush", "commit">> : approved \in BOOLEAN}
           C == {Chat!Decided(FALSE) \o <<"flush">> \o Chat!Runs(wanted, "draft") : wanted \in BOOLEAN}
<1>11. ASSUME program \in O PROVE program = <<"user", "assistant", "commit">> \/ program = <<"clear", "commit">>
  BY <1>11
<1>12. ASSUME program \in A PROVE \E wanted \in BOOLEAN, what \in Chat!Outcomes : program = Chat!Runs(wanted, what)
  BY <1>12
<1>13. ASSUME program \in B
       PROVE  \E approved \in BOOLEAN : program = Chat!Decided(approved) \o <<"flush", "commit">>
  BY <1>13
<1>14. ASSUME program \in C
       PROVE  \E wanted \in BOOLEAN : program = Chat!Decided(FALSE) \o <<"flush">> \o Chat!Runs(wanted, "draft")
  BY <1>14
<1>15. Chat!Programs = O \cup A \cup B \cup C
  BY DEF Chat!Programs
<1> HIDE DEF O, A, B, C
<1>16. program \in O \/ program \in A \/ program \in B \/ program \in C
  BY <1>15
<1> QED
  BY <1>4, <1>5, <1>6, <1>9, <1>10, <1>11, <1>12, <1>13, <1>14, <1>16

\* A run that fails reports it, whatever it had not flushed: at most two rows.
LEMMA ReportGoesOn ==
  ASSUME NEW f \in Nat, NEW n \in Nat, n <= 2
  PROVE  CanGoOn(<<"error", "commit">>, Tally("open", f, n, "calm"))
<1> DEFINE a == Tally("open", f, n, "calm")
<1>1. /\ "calm" \in Modes /\ "calm" # "run" /\ "open" \in CountKinds /\ "error" \in Words
      /\ "error" \in Chat!Steps /\ "commit" \in Chat!Steps /\ n + 1 \in Nat /\ 0 + (n + 1) <= 3
  BY WordsAreSteps DEF Modes, CountKinds
<1>2. Course(<<"error">>, a, Tally("counted", 0, n + 1, "calm"))
  BY <1>1, Says
<1>3. Course(<<"commit">>, Tally("counted", 0, n + 1, "calm"), Tally("fresh", 0, 0, "calm"))
  BY <1>1, Commits
<1>4. a \in Tallies
  BY <1>1, TallyType
<1>5. Tally("fresh", 0, 0, "calm").count = "fresh"
  BY DEF Tally
<1> HIDE DEF a
<1>6. Course(<<"error", "commit">>, a, Tally("fresh", 0, 0, "calm"))
  BY <1>1, <1>2, <1>3, CourseSteps
<1>7. CanGoOn(<<"error", "commit">>, a)
  BY <1>4, <1>5, <1>6 DEF CanGoOn
<1> QED
  BY <1>7 DEF a

RowsUpTo(k) == SUBSET (1..k)

\* Rows are finite sets, and counted as such.
LEMMA RowsAreFew ==
  ASSUME NEW k \in Nat, NEW rows \in RowsUpTo(k)
  PROVE  IsFiniteSet(rows) /\ Cardinality(rows) \in Nat
<1>1. IsFiniteSet(1..k)
  BY FS_Interval
<1>2. IsFiniteSet(rows)
  BY <1>1, FS_Subset DEF RowsUpTo
<1> QED
  BY <1>2, FS_CardinalityType

LEMMA RowsAdd ==
  ASSUME NEW k \in Nat, NEW S \in RowsUpTo(k), NEW T \in RowsUpTo(k)
  PROVE  Cardinality(S \cup T) <= Cardinality(S) + Cardinality(T)
<1>1. /\ IsFiniteSet(S) /\ IsFiniteSet(T) /\ IsFiniteSet(S \cap T)
      /\ Cardinality(S) \in Nat /\ Cardinality(T) \in Nat /\ Cardinality(S \cap T) \in Nat
  <2>1. S \cap T \in RowsUpTo(k)
    BY DEF RowsUpTo
  <2> QED
    BY <2>1, RowsAreFew
<1>2. Cardinality(S \cup T) = Cardinality(S) + Cardinality(T) - Cardinality(S \cap T)
  BY <1>1, FS_Union
<1> QED
  BY <1>1, <1>2

\* The chat counts as everybody does.
LEMMA SameCount ==
  ASSUME NEW S
  PROVE  Chat!Cardinality(S) = Cardinality(S)
  BY DEF Chat!Cardinality, Cardinality

\* A set of rows has a first one.
LEMMA FirstRow ==
  ASSUME NEW rows, rows \subseteq Nat, rows # {}
  PROVE  \E m \in rows : \A o \in rows : ~(o < m)
<1>1. PICK m \in rows : \A o \in rows : <<o, m>> \notin OpToRel(<, Nat)
  BY NatLessThanWellFounded, WFMin
<1> QED
  BY <1>1 DEF OpToRel

\* There are as many oldest rows as are wanted for.
LEMMA OldestAreEnough ==
  ASSUME NEW k \in Nat, NEW rows \in RowsUpTo(k), NEW n \in Nat, n <= Cardinality(rows)
  PROVE  Chat!Oldest(rows, n) \in RowsUpTo(k) /\ n <= Cardinality(Chat!Oldest(rows, n))
<1> DEFINE old == Chat!Oldest(rows, n)   Earlier(m) == {o \in rows : o < m}
<1>1. old = {m \in rows : Cardinality(Earlier(m)) < n}
  BY SameCount DEF Chat!Oldest
<1>2. old \subseteq rows /\ old \in RowsUpTo(k) /\ rows \subseteq Nat /\ Cardinality(old) \in Nat
  <2>1. old \subseteq rows /\ old \in RowsUpTo(k)
    BY <1>1 DEF RowsUpTo
  <2> HIDE DEF old
  <2>2. rows \subseteq Nat
    BY DEF RowsUpTo
  <2> QED
    BY <2>1, <2>2, RowsAreFew
<1> HIDE DEF old
<1>3. ASSUME ~(n <= Cardinality(old)) PROVE FALSE
  <2>1. rows \ old # {}
    <3>1. ASSUME rows \ old = {} PROVE FALSE
      <4>1. rows = old
        BY <1>2, <3>1
      <4> QED
        BY <1>3, <4>1
    <3> QED
      BY <3>1
  <2>2. PICK m \in rows \ old : \A o \in rows \ old : ~(o < m)
    <3> DEFINE rest == rows \ old
    <3>1. rest \subseteq Nat /\ rest # {}
      BY <1>2, <2>1
    <3> HIDE DEF rest
    <3>2. \E m \in rest : \A o \in rest : ~(o < m)
      BY <3>1, FirstRow
    <3> QED
      BY <3>2 DEF rest
  <2>3. Earlier(m) \subseteq old /\ Earlier(m) \in RowsUpTo(k)
    BY <2>2 DEF RowsUpTo
  <2> DEFINE early == Earlier(m)
  <2>4. Cardinality(early) <= Cardinality(old) /\ Cardinality(early) \in Nat
    <3> HIDE DEF early
    <3>1. IsFiniteSet(old)
      BY <1>2, RowsAreFew
    <3> QED
      BY <2>3, <3>1, FS_Subset, RowsAreFew DEF early
  <2> HIDE DEF early
  <2>5. Cardinality(early) < n
    BY <1>2, <1>3, <2>4
  <2> QED
    BY <1>1, <2>2, <2>5 DEF early
<1> QED
  BY <1>2, <1>3 DEF old

\* A count leaves no more rows than the limit.
LEMMA ExcessLeavesLimit ==
  ASSUME NEW k \in Nat, NEW rows \in RowsUpTo(k)
  PROVE  /\ Chat!Excess(rows) \in RowsUpTo(k)
         /\ Cardinality(rows \ Chat!Excess(rows)) <= ChatLimit
<1> DEFINE all == Cardinality(rows)   out == Chat!Excess(rows)
<1>1. all \in Nat /\ IsFiniteSet(rows) /\ ChatLimit \in Nat
  BY RowsAreFew, ChatAssumption DEF Chat!ConstantsOK
<1>2. CASE all <= ChatLimit
  <2>1. out = {}
    BY <1>2, SameCount DEF Chat!Excess
  <2>2. rows \ out = rows /\ out \in RowsUpTo(k)
    BY <2>1 DEF RowsUpTo
  <2> QED
    BY <1>2, <2>2
<1>3. CASE ~(all <= ChatLimit)
  <2> DEFINE n == all - ChatLimit   old == Chat!Oldest(rows, n)   rest == rows \ old
  <2>1. out = old
    BY <1>3, SameCount DEF Chat!Excess
  <2>2. n \in Nat /\ n <= all
    BY <1>1, <1>3
  <2> HIDE DEF n
  <2>3. old \in RowsUpTo(k) /\ n <= Cardinality(old)
    BY <2>2, OldestAreEnough
  <2>4. old \subseteq rows
    BY DEF Chat!Oldest
  <2> HIDE DEF old, all, out
  <2>5. rest \in RowsUpTo(k) /\ rest \cup old = rows /\ rest \cap old = {}
    BY <2>4 DEF RowsUpTo
  <2> HIDE DEF rest
  <2>6. /\ IsFiniteSet(rest) /\ IsFiniteSet(old) /\ Cardinality(rest) \in Nat /\ Cardinality(old) \in Nat
        /\ Cardinality({}) = 0
    BY <2>3, <2>5, RowsAreFew, FS_EmptySet
  <2>7. all = Cardinality(rest) + Cardinality(old) - 0
    BY <2>5, <2>6, FS_Union DEF all
  <2>8. Cardinality(rest) <= ChatLimit
    BY <1>1, <2>2, <2>3, <2>6, <2>7 DEF n
  <2> QED
    BY <2>1, <2>3, <2>8 DEF rest, out
<1> QED
  BY <1>2, <1>3

Records(k) ==
  [state : {"open"}, todo : Seq(Chat!Steps), added : RowsUpTo(k), flushed : RowsUpTo(k), removed : RowsUpTo(k),
   doomed : RowsUpTo(k), saved : {<<>>} \cup (RowsUpTo(k) \X RowsUpTo(k)), running : BOOLEAN, alone : BOOLEAN]

\* What is left of the chat when an open transaction deletes what it is about to.
Left(rows, t) == ((rows \ t.removed) \cup t.flushed) \ t.doomed

\* An open transaction is somewhere in its program; what it has flushed and
\* added is within the tally, and what it has counted within the limit.
Along(rows, t, a) ==
  /\ CanGoOn(t.todo, a)
  /\ Cardinality(t.added) <= a.added
  /\ t.running => a.mode # "calm"
  /\ a.mode = "safe" => t.saved # <<>>
  /\ a.count = "fresh" => t.flushed = {}
  /\ t.alone /\ a.count = "counted" => Cardinality(Left(rows, t)) <= ChatLimit + a.flushed

OnCourse(rows, t) == \E a : Along(rows, t, a)

States(k) == {Chat!Idle} \cup Chat!Over \cup Records(k)

ChatInv ==
  /\ clock \in Nat /\ chat \in RowsUpTo(clock) /\ misses \in 0..MaxMisses
  /\ tx \in [Requests -> States(clock)]
  /\ \A r \in Chat!Open : OnCourse(chat, tx[r])
  /\ \A r \in Chat!Open : tx[r].alone => \A s \in Chat!Open : s = r

\* Records stay records when the clock goes on.
LEMMA WiderRecords ==
  ASSUME NEW k \in Nat, NEW j \in Nat, k <= j
  PROVE  /\ RowsUpTo(k) \subseteq RowsUpTo(j) /\ Records(k) \subseteq Records(j)
         /\ States(k) \subseteq States(j)
<1>1. RowsUpTo(k) \subseteq RowsUpTo(j)
  BY DEF RowsUpTo
<1>2. {<<>>} \cup (RowsUpTo(k) \X RowsUpTo(k)) \subseteq {<<>>} \cup (RowsUpTo(j) \X RowsUpTo(j))
  BY <1>1
<1>3. Records(k) \subseteq Records(j)
  <2> DEFINE A == {<<>>} \cup (RowsUpTo(k) \X RowsUpTo(k))   B == {<<>>} \cup (RowsUpTo(j) \X RowsUpTo(j))
  <2>1. A \subseteq B
    BY <1>2
  <2>2. /\ Records(k) = [state : {"open"}, todo : Seq(Chat!Steps), added : RowsUpTo(k), flushed : RowsUpTo(k),
             removed : RowsUpTo(k), doomed : RowsUpTo(k), saved : A, running : BOOLEAN, alone : BOOLEAN]
        /\ Records(j) = [state : {"open"}, todo : Seq(Chat!Steps), added : RowsUpTo(j), flushed : RowsUpTo(j),
             removed : RowsUpTo(j), doomed : RowsUpTo(j), saved : B, running : BOOLEAN, alone : BOOLEAN]
    BY DEF Records
  <2> HIDE DEF A, B
  <2> QED
    BY <1>1, <2>1, <2>2
<1> QED
  BY <1>1, <1>3 DEF States

\* What is in a record.
LEMMA RecordFields ==
  ASSUME NEW k \in Nat, NEW t \in Records(k)
  PROVE  /\ t.state = "open" /\ t.todo \in Seq(Chat!Steps) /\ t.added \in RowsUpTo(k)
         /\ t.flushed \in RowsUpTo(k) /\ t.removed \in RowsUpTo(k) /\ t.doomed \in RowsUpTo(k)
         /\ t.running \in BOOLEAN /\ t.alone \in BOOLEAN
         /\ t.saved # <<>> => t.saved[1] \in RowsUpTo(k) /\ t.saved[2] \in RowsUpTo(k)
<1> DEFINE A == {<<>>} \cup (RowsUpTo(k) \X RowsUpTo(k))
<1>1. t \in [state : {"open"}, todo : Seq(Chat!Steps), added : RowsUpTo(k), flushed : RowsUpTo(k),
             removed : RowsUpTo(k), doomed : RowsUpTo(k), saved : A, running : BOOLEAN, alone : BOOLEAN]
  BY DEF Records
<1>2. \A p \in A : p # <<>> => p[1] \in RowsUpTo(k) /\ p[2] \in RowsUpTo(k)
  OBVIOUS
<1> HIDE DEF A
<1>3. t.saved \in A
  BY <1>1
<1>4. /\ t.state = "open" /\ t.todo \in Seq(Chat!Steps) /\ t.added \in RowsUpTo(k)
      /\ t.flushed \in RowsUpTo(k) /\ t.removed \in RowsUpTo(k) /\ t.doomed \in RowsUpTo(k)
  BY <1>1
<1>5. t.running \in BOOLEAN /\ t.alone \in BOOLEAN
  BY <1>1
<1> QED
  BY <1>2, <1>3, <1>4, <1>5

\* An open transaction is one with a record.
LEMMA OpenHasRecord ==
  ASSUME tx \in [Requests -> States(clock)], clock \in Nat, NEW r \in Requests
  PROVE  /\ r \in Chat!Open <=> tx[r] \in Records(clock)
         /\ tx[r] \in States(clock)
<1>1. tx[r] \in States(clock)
  OBVIOUS
<1>2. \A t \in {Chat!Idle} \cup Chat!Over : t.state # "open"
  BY DEF Chat!Idle, Chat!Over
<1>3. \A t \in Records(clock) : t.state = "open"
  BY RecordFields
<1>4. r \in Chat!Open <=> tx[r].state = "open"
  BY DEF Chat!Open
<1> QED
  BY <1>1, <1>2, <1>3, <1>4 DEF States

\* What others do matters only to a transaction that is alone.
LEMMA OthersStayOnCourse ==
  ASSUME NEW t, NEW rows, NEW later, OnCourse(rows, t), ~t.alone
  PROVE  OnCourse(later, t)
<1>1. PICK a : Along(rows, t, a)
  BY DEF OnCourse
<1>2. Along(later, t, a)
  BY <1>1 DEF Along
<1> QED
  BY <1>2 DEF OnCourse

\* A step of one transaction.
LEMMA ChatGoesOn ==
  ASSUME ChatInv, NEW r \in Chat!Open, NEW u, tx' = [tx EXCEPT ![r] = u],
         clock' \in Nat, clock <= clock', chat' \in RowsUpTo(clock'), misses' \in 0..MaxMisses,
         u \in States(clock'), u \in Records(clock') => (u.alone => tx[r].alone) /\ OnCourse(chat', u)
  PROVE  ChatInv'
<1>1. /\ clock \in Nat /\ tx \in [Requests -> States(clock)] /\ r \in Requests
      /\ \A s \in Chat!Open : OnCourse(chat, tx[s])
      /\ \A s \in Chat!Open : tx[s].alone => \A q \in Chat!Open : q = s
  BY DEF ChatInv, Chat!Open
<1>2. tx' \in [Requests -> States(clock')]
  <2>1. States(clock) \subseteq States(clock')
    BY <1>1, WiderRecords
  <2> QED
    BY <1>1, <2>1
<1>3. tx'[r] = u /\ \A s \in Requests : s # r => tx'[s] = tx[s]
  BY <1>1
<1>4. Chat!Open' \subseteq Chat!Open
  BY <1>1, <1>3 DEF Chat!Open
<1>5. r \in Chat!Open' => u \in Records(clock')
  <2>1. \A t \in {Chat!Idle} \cup Chat!Over : t.state # "open"
    BY DEF Chat!Idle, Chat!Over
  <2>2. r \in Chat!Open' => u.state = "open"
    BY <1>1, <1>3 DEF Chat!Open
  <2> QED
    BY <2>1, <2>2 DEF States
<1>6. ASSUME NEW s \in Chat!Open' PROVE OnCourse(chat', tx'[s]) /\ (tx'[s].alone => tx[s].alone)
  <2>1. CASE s = r
    BY <1>3, <1>5, <1>6, <2>1
  <2>2. CASE s # r
    <3>1. s \in Chat!Open /\ s \in Requests /\ tx'[s] = tx[s]
      BY <1>3, <1>4, <2>2 DEF Chat!Open
    <3>2. ~tx[s].alone
      BY <1>1, <2>2, <3>1
    <3>3. OnCourse(chat', tx[s])
      BY <1>1, <3>1, <3>2, OthersStayOnCourse
    <3> QED
      BY <3>1, <3>3
  <2> QED
    BY <2>1, <2>2
<1>7. \A s \in Chat!Open' : tx'[s].alone => \A q \in Chat!Open' : q = s
  BY <1>1, <1>4, <1>6
<1>8. (\A s \in Chat!Open : OnCourse(chat, tx[s]))'
  BY <1>6
<1>9. (\A s \in Chat!Open : tx[s].alone => \A q \in Chat!Open : q = s)'
  BY <1>7
<1> QED
  BY <1>2, <1>8, <1>9 DEF ChatInv

\* What the steps write into a record.
Fields(S, R, A) ==
  [state : {"open"}, todo : S, added : R, flushed : R, removed : R, doomed : R, saved : A,
   running : BOOLEAN, alone : BOOLEAN]

Saves(k) == {<<>>} \cup (RowsUpTo(k) \X RowsUpTo(k))

LEMMA FieldsOfRecords ==
  ASSUME NEW k
  PROVE  Records(k) = Fields(Seq(Chat!Steps), RowsUpTo(k), Saves(k))
  BY DEF Records, Fields, Saves

\* What is known of an open transaction and of its next step.
LEMMA OnTheCourse ==
  ASSUME ChatInv, NEW r \in Chat!Open
  PROVE  /\ r \in Requests /\ clock \in Nat /\ chat \in RowsUpTo(clock)
         /\ tx \in [Requests -> States(clock)]
         /\ tx[r] \in Records(clock)
         /\ \E a : Along(chat, tx[r], a)
<1>1. r \in Requests /\ clock \in Nat /\ tx \in [Requests -> States(clock)]
  BY DEF ChatInv, Chat!Open
<1>2. tx[r] \in Records(clock)
  BY <1>1, OpenHasRecord
<1> QED
  BY <1>1, <1>2 DEF ChatInv, OnCourse

\* A step of one transaction that stays open.
LEMMA StaysOpen ==
  ASSUME ChatInv, NEW r \in Chat!Open, NEW u, tx' = [tx EXCEPT ![r] = u],
         clock' \in Nat, clock <= clock', chat' \in RowsUpTo(clock'), misses' \in 0..MaxMisses,
         u \in Records(clock'), u.alone = tx[r].alone, NEW a, Along(chat', u, a)
  PROVE  ChatInv'
<1>1. u \in States(clock') /\ OnCourse(chat', u)
  BY DEF States, OnCourse
<1> QED
  BY <1>1, ChatGoesOn

\* The tally after each kind of step.
LEMMA AfterStep ==
  ASSUME NEW a, NEW s
  PROVE  /\ s \in Chat!Kinds =>
              /\ After(a, s).count = "counted" /\ After(a, s).flushed = 0 /\ After(a, s).added = a.added + 1
              /\ After(a, s).mode = IF s = "running" THEN Running(a.mode) ELSE a.mode
         /\ s = "flush" =>
              /\ After(a, s).flushed = a.flushed + a.added /\ After(a, s).added = 0 /\ After(a, s).mode = a.mode
              /\ After(a, s).count = IF a.count = "fresh" THEN "open" ELSE a.count
         /\ s = "savepoint" =>
              /\ After(a, s).flushed = a.flushed /\ After(a, s).added = a.added /\ After(a, s).mode = "safe"
              /\ After(a, s).count = IF a.count = "fresh" THEN "open" ELSE a.count
         /\ s = "clear" =>
              /\ After(a, s).flushed = 0 /\ After(a, s).added = a.added /\ After(a, s).mode = a.mode
              /\ After(a, s).count = "counted"
         /\ s = "commit" =>
              /\ After(a, s).flushed = 0 /\ After(a, s).added = 0 /\ After(a, s).mode = a.mode
              /\ After(a, s).count = "fresh"
<1>1. {"flush", "savepoint", "clear", "commit"} \cap Chat!Kinds = {}
  BY DEF Chat!Kinds
<1>2. "running" \in Chat!Kinds
  BY DEF Chat!Kinds
<1> QED
  BY <1>1, <1>2 DEF After, Tally

\* The next step, when it is not a commit.
LEMMA OneStepOn ==
  ASSUME NEW k \in Nat, NEW t \in Records(k), NEW rows, NEW a, Along(rows, t, a), NEW s, s = Head(t.todo)
  PROVE  /\ t.todo \in Seq(Chat!Steps) /\ t.todo # <<>> /\ a \in Tallies /\ Allowed(a, s)
         /\ s # "commit" => /\ CanGoOn(Tail(t.todo), After(a, s)) /\ Tail(t.todo) \in Seq(Chat!Steps)
                            /\ After(a, s) \in Tallies
<1>1. CanGoOn(t.todo, a)
  BY DEF Along
<1>2. t.todo \in Seq(Chat!Steps) /\ t.todo # <<>> /\ a \in Tallies /\ Allowed(a, s)
  BY <1>1, GoesOnAfter
<1>3. s # "commit" => CanGoOn(Tail(t.todo), After(a, s))
  BY <1>1, GoesOnAfter
<1>4. After(a, s) \in Tallies
  BY <1>2, AfterType
<1>5. Tail(t.todo) \in Seq(Chat!Steps)
  BY <1>2, HeadTailProperties
<1> QED
  BY <1>2, <1>3, <1>4, <1>5

\* What is in a tally.
LEMMA TallyFields ==
  ASSUME NEW a \in Tallies
  PROVE  a.count \in CountKinds /\ a.flushed \in Nat /\ a.added \in Nat /\ a.mode \in Modes
  BY DEF Tallies

\* What is left of the chat are rows.
LEMMA LeftIsFew ==
  ASSUME NEW k \in Nat, NEW rows \in RowsUpTo(k), NEW t \in Records(k)
  PROVE  Left(rows, t) \in RowsUpTo(k) /\ (rows \ t.removed) \cup t.flushed \in RowsUpTo(k)
  BY RecordFields DEF Left, RowsUpTo

\* The steps of a transaction, one by one: each leaves everybody on course.
LEMMA AppendEventOnCourse ==
  ASSUME ChatInv, NEW r \in Requests, Chat!AppendEvent(r)
  PROVE  ChatInv'
<1> DEFINE t == tx[r]   s == Chat!Step(r)
<1>1. r \in Chat!Open /\ t.doomed = {} /\ s \in Chat!Kinds
  BY DEF Chat!AppendEvent, Chat!At
<1>2. PICK a : Along(chat, t, a)
  BY <1>1, OnTheCourse
<1>3. /\ clock \in Nat /\ chat \in RowsUpTo(clock) /\ tx \in [Requests -> States(clock)]
      /\ t \in Records(clock)
  BY <1>1, OnTheCourse
<1>4. /\ clock' = clock + 1 /\ clock + 1 \in Nat /\ clock <= clock + 1 /\ chat' = chat /\ misses' = misses
      /\ misses \in 0..MaxMisses
  BY <1>3 DEF Chat!AppendEvent, ChatInv
<1> DEFINE doomed == Chat!Excess(Chat!Seen(r))   added == t.added \cup {clock + 1}
           running == t.running \/ s = "running"   seen == (chat \ t.removed) \cup t.flushed
           u == [t EXCEPT !.todo = Tail(t.todo), !.doomed = doomed, !.added = added, !.running = running]
<1>5. tx' = [tx EXCEPT ![r] = u]
  BY DEF Chat!AppendEvent
<1>6. /\ CanGoOn(Tail(t.todo), After(a, s)) /\ Tail(t.todo) \in Seq(Chat!Steps) /\ a \in Tallies
      /\ After(a, s) \in Tallies
  <2>1. s # "commit"
    BY <1>1 DEF Chat!Kinds
  <2>2. s = Head(t.todo)
    BY DEF Chat!Step
  <2> HIDE DEF s, t
  <2> QED
    BY <1>2, <1>3, <2>1, <2>2, OneStepOn
<1>7. /\ doomed \in RowsUpTo(clock) /\ Cardinality(seen \ doomed) <= ChatLimit
  <2>1. Chat!Seen(r) = seen
    BY DEF Chat!Seen
  <2>2. seen \in RowsUpTo(clock)
    BY <1>3, LeftIsFew
  <2> HIDE DEF seen
  <2> QED
    BY <1>3, <2>1, <2>2, ExcessLeavesLimit
<1>8. added \in RowsUpTo(clock + 1) /\ Cardinality(added) <= Cardinality(t.added) + 1
  <2>1. t.added \in RowsUpTo(clock)
    BY <1>3, RecordFields
  <2> HIDE DEF t
  <2>2. added \in RowsUpTo(clock + 1)
    BY <1>3, <2>1 DEF RowsUpTo
  <2>3. IsFiniteSet(t.added) /\ Cardinality(t.added) \in Nat
    BY <1>3, <2>1, RowsAreFew
  <2>4. Cardinality(added) = IF clock + 1 \in t.added THEN Cardinality(t.added) ELSE Cardinality(t.added) + 1
    BY <2>3, FS_AddElement
  <2> QED
    BY <2>2, <2>3, <2>4
<1>9. running \in BOOLEAN
  OBVIOUS
<1> HIDE DEF s, doomed, added, running
<1>10. /\ u \in Records(clock')
       /\ u.todo = Tail(t.todo) /\ u.doomed = doomed /\ u.added = added /\ u.running = running
       /\ u.flushed = t.flushed /\ u.removed = t.removed /\ u.saved = t.saved /\ u.alone = t.alone
  <2> DEFINE S == Seq(Chat!Steps)   R == RowsUpTo(clock + 1)   A == Saves(clock + 1)
  <2>1. t \in Fields(S, R, A) /\ Records(clock + 1) = Fields(S, R, A)
    <3>1. t \in Records(clock + 1)
      BY <1>3, <1>4, WiderRecords
    <3> QED
      BY <3>1, FieldsOfRecords
  <2>2. doomed \in R /\ Tail(t.todo) \in S /\ added \in R
    <3>1. RowsUpTo(clock) \subseteq RowsUpTo(clock + 1)
      BY <1>3, <1>4, WiderRecords
    <3> QED
      BY <1>6, <1>7, <1>8, <3>1
  <2> HIDE DEF S, R, A, t
  <2>5. u = [t EXCEPT !.todo = Tail(t.todo), !.doomed = doomed, !.added = added, !.running = running]
    OBVIOUS
  <2> HIDE DEF u
  <2>3. /\ u \in Fields(S, R, A)
        /\ u.todo = Tail(t.todo) /\ u.doomed = doomed /\ u.added = added /\ u.running = running
        /\ u.flushed = t.flushed /\ u.removed = t.removed /\ u.saved = t.saved /\ u.alone = t.alone
    BY <1>9, <2>1, <2>2, <2>5 DEF Fields
  <2> QED
    BY <1>4, <2>1, <2>3
<1> HIDE DEF u
<1> DEFINE b == After(a, s)
<1>11. /\ b.count = "counted" /\ b.flushed = 0 /\ b.added = a.added + 1
       /\ b.mode = IF s = "running" THEN Running(a.mode) ELSE a.mode
  BY <1>1, AfterStep
<1>12. /\ Cardinality(t.added) <= a.added /\ (t.running => a.mode # "calm")
       /\ (a.mode = "safe" => t.saved # <<>>)
  BY <1>2 DEF Along
<1> HIDE DEF b, t
<1>13. Cardinality(u.added) <= b.added
  <2>1. Cardinality(t.added) \in Nat /\ Cardinality(added) \in Nat
    <3>1. t.added \in RowsUpTo(clock)
      BY <1>3, RecordFields
    <3> QED
      BY <1>3, <1>4, <1>8, <3>1, RowsAreFew
  <2>2. a.added \in Nat
    BY <1>6, TallyFields
  <2> QED
    BY <1>8, <1>10, <1>11, <1>12, <2>1, <2>2
<1>14. u.running => b.mode # "calm"
  <2>1. u.running => t.running \/ s = "running"
    BY <1>10 DEF running
  <2>2. Running(a.mode) # "calm"
    BY DEF Running
  <2> QED
    BY <1>11, <1>12, <2>1, <2>2
<1>15. b.mode = "safe" => u.saved # <<>>
  <2>1. Running(a.mode) = "safe" => a.mode = "safe"
    BY DEF Running
  <2>2. b.mode = "safe" => a.mode = "safe"
    BY <1>11, <2>1
  <2> QED
    BY <1>10, <1>12, <2>2
<1>16. Cardinality(Left(chat, u)) <= ChatLimit + b.flushed
  <2>1. Left(chat, u) = seen \ doomed
    BY <1>10 DEF Left
  <2>2. Cardinality(seen \ doomed) \in Nat
    <3>1. seen \ doomed \in RowsUpTo(clock)
      <4>1. seen \in RowsUpTo(clock)
        BY <1>3, LeftIsFew
      <4> QED
        BY <4>1 DEF RowsUpTo
    <3> QED
      BY <1>3, <3>1, RowsAreFew
  <2>3. ChatLimit \in Nat /\ b.flushed = 0
    BY <1>11, ChatAssumption DEF Chat!ConstantsOK
  <2> HIDE DEF seen
  <2> QED
    BY <1>7, <2>1, <2>2, <2>3
<1>17. Along(chat', u, b)
  <2>1. CanGoOn(u.todo, b) /\ b.count # "fresh"
    BY <1>6, <1>10, <1>11 DEF b
  <2> QED
    BY <1>4, <1>13, <1>14, <1>15, <1>16, <2>1 DEF Along
<1>18. chat' \in RowsUpTo(clock') /\ u.alone = tx[r].alone
  <2>1. RowsUpTo(clock) \subseteq RowsUpTo(clock')
    BY <1>3, <1>4, WiderRecords
  <2> QED
    BY <1>3, <1>4, <1>10, <2>1 DEF t
<1> QED
  BY <1>1, <1>3, <1>4, <1>5, <1>10, <1>17, <1>18, StaysOpen

LEMMA TrimOnCourse ==
  ASSUME ChatInv, NEW r \in Requests, Chat!Trim(r)
  PROVE  ChatInv'
<1> DEFINE t == tx[r]
<1>1. r \in Chat!Open
  BY DEF Chat!Trim
<1>2. PICK a : Along(chat, t, a)
  BY <1>1, OnTheCourse
<1>3. /\ clock \in Nat /\ chat \in RowsUpTo(clock) /\ tx \in [Requests -> States(clock)]
      /\ t \in Records(clock)
  BY <1>1, OnTheCourse
<1>4. clock' = clock /\ clock <= clock /\ chat' = chat /\ misses' = misses /\ misses \in 0..MaxMisses
  BY <1>3 DEF Chat!Trim, ChatInv
<1> DEFINE flushed == t.flushed \ t.doomed   removed == t.removed \cup (t.doomed \cap chat)
           u == [t EXCEPT !.doomed = {}, !.flushed = flushed, !.removed = removed]
<1>5. tx' = [tx EXCEPT ![r] = u]
  BY DEF Chat!Trim
<1>6. flushed \in RowsUpTo(clock) /\ removed \in RowsUpTo(clock) /\ {} \in RowsUpTo(clock)
  BY <1>3, RecordFields DEF RowsUpTo
<1>7. Left(chat, t) = ((chat \ removed) \cup flushed) \ {}
  BY DEF Left
<1>8. t.flushed = {} => flushed = {}
  OBVIOUS
<1> HIDE DEF flushed, removed
<1>9. /\ u \in Records(clock)
      /\ u.doomed = {} /\ u.flushed = flushed /\ u.removed = removed
      /\ u.todo = t.todo /\ u.added = t.added /\ u.running = t.running /\ u.saved = t.saved /\ u.alone = t.alone
  <2> DEFINE S == Seq(Chat!Steps)   R == RowsUpTo(clock)   A == Saves(clock)
  <2>1. t \in Fields(S, R, A) /\ Records(clock) = Fields(S, R, A)
    BY <1>3, FieldsOfRecords
  <2>2. flushed \in R /\ removed \in R /\ {} \in R
    BY <1>6
  <2> HIDE DEF S, R, A, t
  <2>3. u = [t EXCEPT !.doomed = {}, !.flushed = flushed, !.removed = removed]
    OBVIOUS
  <2> HIDE DEF u
  <2>4. /\ u \in Fields(S, R, A)
        /\ u.doomed = {} /\ u.flushed = flushed /\ u.removed = removed
        /\ u.todo = t.todo /\ u.added = t.added /\ u.running = t.running /\ u.saved = t.saved /\ u.alone = t.alone
    BY <2>1, <2>2, <2>3 DEF Fields
  <2> QED
    BY <2>1, <2>4
<1> HIDE DEF u
<1>10. Left(chat, u) = Left(chat, t)
  BY <1>7, <1>9 DEF Left
<1>11. Along(chat, u, a)
  BY <1>2, <1>8, <1>9, <1>10 DEF Along
<1> QED
  BY <1>1, <1>3, <1>4, <1>5, <1>9, <1>11, StaysOpen

LEMMA ClearOnCourse ==
  ASSUME ChatInv, NEW r \in Requests, Chat!Clear(r)
  PROVE  ChatInv'
<1> DEFINE t == tx[r]   s == "clear"
<1>1. r \in Chat!Open /\ t.doomed = {} /\ s = Head(t.todo)
  BY DEF Chat!Clear, Chat!At, Chat!Step
<1>2. PICK a : Along(chat, t, a)
  BY <1>1, OnTheCourse
<1>3. /\ clock \in Nat /\ chat \in RowsUpTo(clock) /\ tx \in [Requests -> States(clock)]
      /\ t \in Records(clock)
  BY <1>1, OnTheCourse
<1>4. clock' = clock /\ clock <= clock /\ chat' = chat /\ misses' = misses /\ misses \in 0..MaxMisses
  BY <1>3 DEF Chat!Clear, ChatInv
<1> DEFINE u == [t EXCEPT !.todo = Tail(t.todo), !.removed = chat]   b == After(a, s)
<1>5. tx' = [tx EXCEPT ![r] = u]
  BY DEF Chat!Clear
<1>6. /\ CanGoOn(Tail(t.todo), b) /\ Tail(t.todo) \in Seq(Chat!Steps) /\ Allowed(a, s)
  <2> HIDE DEF t
  <2> QED
    BY <1>1, <1>2, <1>3, OneStepOn
<1>7. t.flushed = {}
  BY <1>2, <1>6 DEF Along, Allowed
<1>8. /\ u \in Records(clock)
      /\ u.todo = Tail(t.todo) /\ u.removed = chat
      /\ u.doomed = t.doomed /\ u.added = t.added /\ u.running = t.running /\ u.flushed = t.flushed
      /\ u.saved = t.saved /\ u.alone = t.alone
  <2> DEFINE S == Seq(Chat!Steps)   R == RowsUpTo(clock)   A == Saves(clock)   todo == Tail(t.todo)
  <2>1. t \in Fields(S, R, A) /\ Records(clock) = Fields(S, R, A) /\ todo \in S /\ chat \in R
    BY <1>3, <1>6, FieldsOfRecords
  <2> HIDE DEF S, R, A, t
  <2>2. u = [t EXCEPT !.todo = todo, !.removed = chat]
    OBVIOUS
  <2> HIDE DEF u, todo
  <2>3. /\ u \in Fields(S, R, A)
        /\ u.todo = todo /\ u.removed = chat
        /\ u.doomed = t.doomed /\ u.added = t.added /\ u.running = t.running /\ u.flushed = t.flushed
        /\ u.saved = t.saved /\ u.alone = t.alone
    BY <2>1, <2>2 DEF Fields
  <2> QED
    BY <2>1, <2>3 DEF todo
<1> HIDE DEF u
<1>9. b.flushed = 0 /\ b.added = a.added /\ b.mode = a.mode /\ b.count = "counted"
  BY AfterStep
<1> HIDE DEF b, t
<1>10. Cardinality(Left(chat, u)) <= ChatLimit + b.flushed
  <2>1. Left(chat, u) = {}
    BY <1>1, <1>7, <1>8 DEF Left
  <2>2. Cardinality({}) = 0 /\ ChatLimit \in Nat
    BY FS_EmptySet, ChatAssumption DEF Chat!ConstantsOK
  <2> QED
    BY <1>9, <2>1, <2>2
<1>11. Along(chat, u, b)
  BY <1>2, <1>6, <1>8, <1>9, <1>10 DEF Along
<1> QED
  BY <1>1, <1>3, <1>4, <1>5, <1>8, <1>11, StaysOpen DEF t

LEMMA FlushOnCourse ==
  ASSUME ChatInv, NEW r \in Requests, Chat!Flush(r)
  PROVE  ChatInv'
<1> DEFINE t == tx[r]   s == "flush"
<1>1. r \in Chat!Open /\ t.doomed = {} /\ s = Head(t.todo)
  BY DEF Chat!Flush, Chat!At, Chat!Step
<1>2. PICK a : Along(chat, t, a)
  BY <1>1, OnTheCourse
<1>3. /\ clock \in Nat /\ chat \in RowsUpTo(clock) /\ tx \in [Requests -> States(clock)]
      /\ t \in Records(clock)
  BY <1>1, OnTheCourse
<1>4. clock' = clock /\ clock <= clock /\ chat' = chat /\ misses' = misses /\ misses \in 0..MaxMisses
  BY <1>3 DEF Chat!Flush, ChatInv
<1> DEFINE flushed == t.flushed \cup t.added
           u == [t EXCEPT !.todo = Tail(t.todo), !.added = {}, !.flushed = flushed]   b == After(a, s)
<1>5. tx' = [tx EXCEPT ![r] = u]
  BY DEF Chat!Flush
<1>6. /\ CanGoOn(Tail(t.todo), b) /\ Tail(t.todo) \in Seq(Chat!Steps) /\ a \in Tallies
  <2> HIDE DEF t
  <2> QED
    BY <1>1, <1>2, <1>3, OneStepOn
<1>7. flushed \in RowsUpTo(clock) /\ {} \in RowsUpTo(clock) /\ t.added \in RowsUpTo(clock)
  BY <1>3, RecordFields DEF RowsUpTo
<1>8. Left(chat, t) \in RowsUpTo(clock)
  BY <1>3, LeftIsFew
<1> HIDE DEF flushed
<1>9. /\ u \in Records(clock)
      /\ u.todo = Tail(t.todo) /\ u.added = {} /\ u.flushed = flushed
      /\ u.doomed = t.doomed /\ u.removed = t.removed /\ u.running = t.running
      /\ u.saved = t.saved /\ u.alone = t.alone
  <2> DEFINE S == Seq(Chat!Steps)   R == RowsUpTo(clock)   A == Saves(clock)   todo == Tail(t.todo)
  <2>1. /\ t \in Fields(S, R, A) /\ Records(clock) = Fields(S, R, A) /\ todo \in S
        /\ {} \in R /\ flushed \in R
    BY <1>3, <1>6, <1>7, FieldsOfRecords
  <2> HIDE DEF S, R, A, t
  <2>2. u = [t EXCEPT !.todo = todo, !.added = {}, !.flushed = flushed]
    OBVIOUS
  <2> HIDE DEF u, todo
  <2>3. /\ u \in Fields(S, R, A)
        /\ u.todo = todo /\ u.added = {} /\ u.flushed = flushed
        /\ u.doomed = t.doomed /\ u.removed = t.removed /\ u.running = t.running
        /\ u.saved = t.saved /\ u.alone = t.alone
    BY <2>1, <2>2 DEF Fields
  <2> QED
    BY <2>1, <2>3 DEF todo
<1> HIDE DEF u
<1>10. /\ b.flushed = a.flushed + a.added /\ b.added = 0 /\ b.mode = a.mode
       /\ b.count = IF a.count = "fresh" THEN "open" ELSE a.count
  BY AfterStep
<1> HIDE DEF b, t
<1>11. Left(chat, u) = Left(chat, t) \cup t.added
  BY <1>1, <1>9 DEF Left, flushed
<1>12. Cardinality(Left(chat, u)) <= Cardinality(Left(chat, t)) + Cardinality(t.added)
       /\ Cardinality(Left(chat, t)) \in Nat /\ Cardinality(t.added) \in Nat /\ Cardinality(Left(chat, u)) \in Nat
  <2>1. Left(chat, u) \in RowsUpTo(clock)
    BY <1>3, <1>9, LeftIsFew
  <2> QED
    BY <1>3, <1>7, <1>8, <1>11, <2>1, RowsAdd, RowsAreFew
<1>13. u.alone /\ b.count = "counted" => Cardinality(Left(chat, u)) <= ChatLimit + b.flushed
  <2>1. u.alone /\ b.count = "counted" => Cardinality(Left(chat, t)) <= ChatLimit + a.flushed
    BY <1>2, <1>9, <1>10 DEF Along
  <2>2. Cardinality(t.added) <= a.added
    BY <1>2 DEF Along
  <2>3. a.flushed \in Nat /\ a.added \in Nat /\ ChatLimit \in Nat
    BY <1>6, TallyFields, ChatAssumption DEF Chat!ConstantsOK
  <2>4. Cardinality(Left(chat, t)) <= ChatLimit + a.flushed => Cardinality(Left(chat, u)) <= ChatLimit + b.flushed
    BY <1>10, <1>12, <2>2, <2>3
  <2> QED
    BY <2>1, <2>4
<1>14. Cardinality(u.added) <= b.added
  <2>1. Cardinality({}) = 0
    BY FS_EmptySet
  <2> QED
    BY <1>9, <1>10, <2>1
<1>15. b.count # "fresh"
  BY <1>10
<1>16. Along(chat, u, b)
  BY <1>2, <1>6, <1>9, <1>10, <1>13, <1>14, <1>15 DEF Along
<1> QED
  BY <1>1, <1>3, <1>4, <1>5, <1>9, <1>16, StaysOpen DEF t

LEMMA SavepointOnCourse ==
  ASSUME ChatInv, NEW r \in Requests, Chat!Savepoint(r)
  PROVE  ChatInv'
<1> DEFINE t == tx[r]   s == "savepoint"
<1>1. r \in Chat!Open /\ t.doomed = {} /\ s = Head(t.todo)
  BY DEF Chat!Savepoint, Chat!At, Chat!Step
<1>2. PICK a : Along(chat, t, a)
  BY <1>1, OnTheCourse
<1>3. /\ clock \in Nat /\ chat \in RowsUpTo(clock) /\ tx \in [Requests -> States(clock)]
      /\ t \in Records(clock)
  BY <1>1, OnTheCourse
<1>4. clock' = clock /\ clock <= clock /\ chat' = chat /\ misses' = misses /\ misses \in 0..MaxMisses
  BY <1>3 DEF Chat!Savepoint, ChatInv
<1> DEFINE saved == <<t.flushed, t.removed>>
           u == [t EXCEPT !.todo = Tail(t.todo), !.saved = saved]   b == After(a, s)
<1>5. tx' = [tx EXCEPT ![r] = u]
  BY DEF Chat!Savepoint
<1>6. /\ CanGoOn(Tail(t.todo), b) /\ Tail(t.todo) \in Seq(Chat!Steps) /\ a \in Tallies
  <2> HIDE DEF t
  <2> QED
    BY <1>1, <1>2, <1>3, OneStepOn
<1>7. saved \in Saves(clock) /\ saved # <<>>
  <2>1. t.flushed \in RowsUpTo(clock) /\ t.removed \in RowsUpTo(clock)
    BY <1>3, RecordFields
  <2> HIDE DEF t
  <2> QED
    BY <2>1 DEF Saves
<1> HIDE DEF saved
<1>8. /\ u \in Records(clock)
      /\ u.todo = Tail(t.todo) /\ u.saved = saved
      /\ u.doomed = t.doomed /\ u.removed = t.removed /\ u.running = t.running
      /\ u.added = t.added /\ u.flushed = t.flushed /\ u.alone = t.alone
  <2> DEFINE S == Seq(Chat!Steps)   R == RowsUpTo(clock)   A == Saves(clock)   todo == Tail(t.todo)
  <2>1. t \in Fields(S, R, A) /\ Records(clock) = Fields(S, R, A) /\ todo \in S /\ saved \in A
    BY <1>3, <1>6, <1>7, FieldsOfRecords
  <2> HIDE DEF S, R, A, t
  <2>2. u = [t EXCEPT !.todo = todo, !.saved = saved]
    OBVIOUS
  <2> HIDE DEF u, todo
  <2>3. /\ u \in Fields(S, R, A)
        /\ u.todo = todo /\ u.saved = saved
        /\ u.doomed = t.doomed /\ u.removed = t.removed /\ u.running = t.running
        /\ u.added = t.added /\ u.flushed = t.flushed /\ u.alone = t.alone
    BY <2>1, <2>2 DEF Fields
  <2> QED
    BY <2>1, <2>3 DEF todo
<1> HIDE DEF u
<1>9. /\ b.flushed = a.flushed /\ b.added = a.added /\ b.mode = "safe"
      /\ b.count = IF a.count = "fresh" THEN "open" ELSE a.count
  BY AfterStep
<1> HIDE DEF b, t
<1>10. Left(chat, u) = Left(chat, t)
  BY <1>8 DEF Left
<1>11. b.count # "fresh" /\ (b.count = "counted" => a.count = "counted") /\ b.mode # "calm"
  BY <1>9
<1>12. Along(chat, u, b)
  BY <1>2, <1>6, <1>7, <1>8, <1>9, <1>10, <1>11 DEF Along
<1> QED
  BY <1>1, <1>3, <1>4, <1>5, <1>8, <1>12, StaysOpen DEF t

\* A commit is of what is left, and of what was added.
LEMMA CommitIsCounted ==
  ASSUME ChatInv, NEW r \in Requests, Chat!Commit(r)
  PROVE  /\ chat' \in RowsUpTo(clock)
         /\ tx[r].alone => Cardinality(chat') <= ChatLimit + Chat!Unflushed
<1> DEFINE t == tx[r]   s == "commit"
<1>1. r \in Chat!Open /\ t.doomed = {} /\ s = Head(t.todo)
  BY DEF Chat!Commit, Chat!At, Chat!Step
<1>2. PICK a : Along(chat, t, a)
  BY <1>1, OnTheCourse
<1>3. clock \in Nat /\ chat \in RowsUpTo(clock) /\ t \in Records(clock)
  BY <1>1, OnTheCourse
<1>4. chat' = (chat \ t.removed) \cup t.flushed \cup t.added
  BY DEF Chat!Commit
<1> HIDE DEF t
<1>5. a \in Tallies /\ Allowed(a, s)
  BY <1>1, <1>2, <1>3, OneStepOn
<1>6. Left(chat, t) \in RowsUpTo(clock) /\ t.added \in RowsUpTo(clock)
  BY <1>3, LeftIsFew, RecordFields
<1>7. chat' = Left(chat, t) \cup t.added
  BY <1>1, <1>4 DEF Left
<1>8. chat' \in RowsUpTo(clock)
  BY <1>6, <1>7 DEF RowsUpTo
<1>9. ASSUME t.alone PROVE Cardinality(chat') <= ChatLimit + Chat!Unflushed
  <2>1. Cardinality(Left(chat, t)) <= ChatLimit + a.flushed /\ Cardinality(t.added) <= a.added
    BY <1>2, <1>5, <1>9 DEF Along, Allowed
  <2>2. a.flushed + a.added <= Chat!Unflushed
    BY <1>5 DEF Allowed
  <2>3. a.flushed \in Nat /\ a.added \in Nat /\ ChatLimit \in Nat /\ Chat!Unflushed = 3
    BY <1>5, TallyFields, ChatAssumption DEF Chat!ConstantsOK, Chat!Unflushed
  <2>4. Cardinality(Left(chat, t)) \in Nat /\ Cardinality(t.added) \in Nat /\ Cardinality(chat') \in Nat
    BY <1>3, <1>6, <1>8, RowsAreFew
  <2>5. Cardinality(chat') <= Cardinality(Left(chat, t)) + Cardinality(t.added)
    BY <1>3, <1>6, <1>7, RowsAdd
  <2> QED
    BY <2>1, <2>2, <2>3, <2>4, <2>5
<1> QED
  BY <1>8, <1>9 DEF t

LEMMA CommitOnCourse ==
  ASSUME ChatInv, NEW r \in Requests, Chat!Commit(r)
  PROVE  ChatInv'
<1> DEFINE t == tx[r]   s == "commit"
<1>1. r \in Chat!Open /\ t.doomed = {} /\ s = Head(t.todo)
  BY DEF Chat!Commit, Chat!At, Chat!Step
<1>2. PICK a : Along(chat, t, a)
  BY <1>1, OnTheCourse
<1>3. /\ clock \in Nat /\ chat \in RowsUpTo(clock) /\ tx \in [Requests -> States(clock)]
      /\ t \in Records(clock)
  BY <1>1, OnTheCourse
<1>4. clock' = clock /\ clock <= clock /\ misses' = misses /\ misses \in 0..MaxMisses
  BY <1>3 DEF Chat!Commit, ChatInv
<1>5. chat' \in RowsUpTo(clock)
  BY CommitIsCounted
<1>6. CASE Len(t.todo) = 1
  <2> DEFINE u == [state |-> "done"]
  <2>1. tx' = [tx EXCEPT ![r] = u]
    BY <1>6 DEF Chat!Commit
  <2>2. u \in States(clock) /\ u \notin Records(clock)
    <3>1. u \in Chat!Over /\ u.state # "open"
      BY DEF Chat!Over
    <3> HIDE DEF u
    <3>2. u \notin Records(clock)
      BY <1>3, <3>1, RecordFields
    <3> QED
      BY <3>1, <3>2 DEF States
  <2> HIDE DEF u
  <2> QED
    BY <1>1, <1>3, <1>4, <1>5, <2>1, <2>2, ChatGoesOn
<1>7. CASE Len(t.todo) # 1
  <2> DEFINE u == [t EXCEPT !.todo = Tail(t.todo), !.added = {}, !.flushed = {}, !.removed = {}]   b == After(a, s)
  <2>1. tx' = [tx EXCEPT ![r] = u]
    <3>1. tx' = [tx EXCEPT ![r] = IF Len(t.todo) = 1 THEN [state |-> "done"] ELSE u]
      BY DEF Chat!Commit
    <3> HIDE DEF u, t
    <3> QED
      BY <1>7, <3>1
  <2>2. CanGoOn(Tail(t.todo), b) /\ Tail(t.todo) \in Seq(Chat!Steps) /\ {} \in RowsUpTo(clock)
    <3>1. CanGoOn(t.todo, a)
      BY <1>2 DEF Along
    <3> HIDE DEF t
    <3>2. CanGoOn(Tail(t.todo), b) /\ t.todo \in Seq(Chat!Steps) /\ t.todo # <<>>
      BY <1>1, <1>7, <3>1, GoesOnAfter
    <3>3. Tail(t.todo) \in Seq(Chat!Steps)
      BY <3>2, HeadTailProperties
    <3> QED
      BY <3>2, <3>3 DEF RowsUpTo
  <2>3. /\ u \in Records(clock)
        /\ u.todo = Tail(t.todo) /\ u.added = {} /\ u.flushed = {} /\ u.running = t.running
        /\ u.saved = t.saved /\ u.alone = t.alone
    <3> DEFINE S == Seq(Chat!Steps)   R == RowsUpTo(clock)   A == Saves(clock)   todo == Tail(t.todo)
    <3>1. t \in Fields(S, R, A) /\ Records(clock) = Fields(S, R, A) /\ todo \in S /\ {} \in R
      BY <1>3, <2>2, FieldsOfRecords
    <3> HIDE DEF S, R, A, t
    <3>2. u = [t EXCEPT !.todo = todo, !.added = {}, !.flushed = {}, !.removed = {}]
      OBVIOUS
    <3> HIDE DEF u, todo
    <3>3. /\ u \in Fields(S, R, A)
          /\ u.todo = todo /\ u.added = {} /\ u.flushed = {} /\ u.running = t.running
          /\ u.saved = t.saved /\ u.alone = t.alone
      BY <3>1, <3>2 DEF Fields
    <3> QED
      BY <3>1, <3>3 DEF todo
  <2> HIDE DEF u
  <2>4. b.flushed = 0 /\ b.added = 0 /\ b.mode = a.mode /\ b.count = "fresh"
    BY AfterStep
  <2> HIDE DEF b, t
  <2>5. Cardinality(u.added) <= b.added
    <3>1. Cardinality({}) = 0
      BY FS_EmptySet
    <3> QED
      BY <2>3, <2>4, <3>1
  <2>6. Along(chat', u, b)
    BY <1>2, <2>2, <2>3, <2>4, <2>5 DEF Along
  <2> QED
    BY <1>1, <1>3, <1>4, <1>5, <2>1, <2>3, <2>6, StaysOpen DEF t
<1> QED
  BY <1>6, <1>7

LEMMA FailOnCourse ==
  ASSUME ChatInv, NEW r \in Requests, Chat!Fail(r)
  PROVE  ChatInv'
<1> DEFINE t == tx[r]
<1>1. r \in Chat!Open /\ t.running
  BY DEF Chat!Fail
<1>2. PICK a : Along(chat, t, a)
  BY <1>1, OnTheCourse
<1>3. /\ clock \in Nat /\ chat \in RowsUpTo(clock) /\ tx \in [Requests -> States(clock)]
      /\ t \in Records(clock)
  BY <1>1, OnTheCourse
<1>4. clock' = clock /\ clock <= clock /\ chat' = chat /\ misses' \in 0..MaxMisses
  <2>1. misses \in 0..MaxMisses /\ misses < MaxMisses /\ misses' = misses + 1
    BY DEF ChatInv, Chat!Fail, Chat!Fault
  <2>2. MaxMisses \in Nat
    BY ChatAssumption DEF Chat!ConstantsOK
  <2> QED
    BY <1>3, <2>1, <2>2 DEF Chat!Fail
<1> DEFINE report == <<"error", "commit">>
           added == IF t.saved = <<>> THEN t.added ELSE {}
           flushed == IF t.saved = <<>> THEN t.flushed ELSE t.saved[1]
           removed == IF t.saved = <<>> THEN t.removed ELSE t.saved[2]
           u == [t EXCEPT !.todo = report, !.doomed = {}, !.running = FALSE, !.added = added,
                          !.flushed = flushed, !.removed = removed]
           n == IF t.saved = <<>> THEN a.added ELSE 0   b == Tally("open", 0, n, "calm")
<1>5. tx' = [tx EXCEPT ![r] = u]
  BY DEF Chat!Fail
<1>6. /\ added \in RowsUpTo(clock) /\ flushed \in RowsUpTo(clock) /\ removed \in RowsUpTo(clock)
      /\ {} \in RowsUpTo(clock)
  <2>1. {} \in RowsUpTo(clock)
    BY DEF RowsUpTo
  <2>2. /\ t.added \in RowsUpTo(clock) /\ t.flushed \in RowsUpTo(clock) /\ t.removed \in RowsUpTo(clock)
        /\ t.saved # <<>> => t.saved[1] \in RowsUpTo(clock) /\ t.saved[2] \in RowsUpTo(clock)
    BY <1>3, RecordFields
  <2> HIDE DEF t
  <2> QED
    BY <2>1, <2>2
<1>7. report \in Seq(Chat!Steps)
  BY WordsAreSteps
<1>8. n \in Nat /\ n <= 2 /\ Cardinality(added) <= n
  <2>1. a \in Tallies /\ Allowed(a, Head(t.todo))
    <3> HIDE DEF t
    <3> QED
      BY <1>2, <1>3, OneStepOn
  <2>2. /\ Cardinality(t.added) <= a.added /\ a.mode # "calm" /\ (a.mode = "safe" => t.saved # <<>>)
        /\ (a.mode = "run" => a.added <= 2)
    BY <1>1, <1>2, <2>1 DEF Along, Allowed
  <2>3. a.mode \in Modes /\ a.added \in Nat /\ Cardinality({}) = 0
    BY <2>1, TallyFields, FS_EmptySet
  <2>4. t.saved = <<>> => a.mode = "run"
    BY <2>2, <2>3 DEF Modes
  <2> HIDE DEF t
  <2>5. CASE t.saved = <<>>
    BY <2>2, <2>3, <2>4, <2>5
  <2>6. CASE t.saved # <<>>
    BY <2>3, <2>6
  <2> QED
    BY <2>5, <2>6
<1> HIDE DEF n, added, flushed, removed, report
<1>9. /\ u \in Records(clock)
      /\ u.todo = report /\ u.added = added /\ ~u.running /\ u.alone = t.alone
  <2> DEFINE S == Seq(Chat!Steps)   R == RowsUpTo(clock)   A == Saves(clock)
  <2>1. /\ t \in Fields(S, R, A) /\ Records(clock) = Fields(S, R, A) /\ report \in S
        /\ {} \in R /\ added \in R /\ flushed \in R /\ removed \in R
    BY <1>3, <1>6, <1>7, FieldsOfRecords
  <2> HIDE DEF S, R, A, t
  <2>2. u = [t EXCEPT !.todo = report, !.doomed = {}, !.running = FALSE, !.added = added,
                      !.flushed = flushed, !.removed = removed]
    OBVIOUS
  <2> HIDE DEF u
  <2>3. u \in Fields(S, R, A) /\ u.todo = report /\ u.added = added /\ ~u.running /\ u.alone = t.alone
    BY <2>1, <2>2 DEF Fields
  <2> QED
    BY <2>1, <2>3
<1> HIDE DEF u
<1>10. b.flushed = 0 /\ b.added = n /\ b.mode = "calm" /\ b.count = "open"
  BY DEF Tally
<1>11. CanGoOn(u.todo, b)
  BY <1>8, <1>9, ReportGoesOn DEF report
<1> HIDE DEF b, t
<1>12. Along(chat, u, b)
  BY <1>8, <1>9, <1>10, <1>11 DEF Along
<1> QED
  BY <1>1, <1>3, <1>4, <1>5, <1>9, <1>12, StaysOpen DEF t

LEMMA AbortOnCourse ==
  ASSUME ChatInv, NEW r \in Requests, Chat!Abort(r)
  PROVE  ChatInv'
<1> DEFINE u == [state |-> "dead"]
<1>1. r \in Chat!Open /\ tx' = [tx EXCEPT ![r] = u] /\ clock' = clock /\ chat' = chat
  BY DEF Chat!Abort
<1>2. clock \in Nat /\ clock <= clock /\ chat \in RowsUpTo(clock)
  BY DEF ChatInv
<1>3. misses' \in 0..MaxMisses
  <2>1. misses \in 0..MaxMisses /\ misses < MaxMisses /\ misses' = misses + 1
    BY DEF ChatInv, Chat!Abort, Chat!Fault
  <2>2. MaxMisses \in Nat
    BY ChatAssumption DEF Chat!ConstantsOK
  <2> QED
    BY <2>1, <2>2
<1>4. u \in States(clock) /\ u \notin Records(clock)
  <2>1. u \in Chat!Over /\ u.state # "open"
    BY DEF Chat!Over
  <2> HIDE DEF u
  <2>2. u \notin Records(clock)
    BY <1>2, <2>1, RecordFields
  <2> QED
    BY <2>1, <2>2 DEF States
<1> HIDE DEF u
<1> QED
  BY <1>1, <1>2, <1>3, <1>4, ChatGoesOn

LEMMA BeginOnCourse ==
  ASSUME ChatInv, NEW r \in Requests, NEW program \in Chat!Programs, Chat!Begin(r, program)
  PROVE  ChatInv'
<1> DEFINE first == [state |-> "open", todo |-> program, added |-> {}, flushed |-> {}, removed |-> {},
                     doomed |-> {}, saved |-> <<>>, running |-> FALSE, alone |-> Chat!Open = {}]
           Meets(q) == [tx[q] EXCEPT !.alone = FALSE]
<1>1. /\ tx[r] = Chat!Idle /\ clock' = clock /\ chat' = chat /\ misses' = misses
      /\ tx' = [q \in Requests |-> IF q = r THEN first ELSE IF q \in Chat!Open THEN Meets(q) ELSE tx[q]]
  BY DEF Chat!Begin
<1>2. /\ clock \in Nat /\ chat \in RowsUpTo(clock) /\ misses \in 0..MaxMisses
      /\ tx \in [Requests -> States(clock)]
      /\ \A q \in Chat!Open : OnCourse(chat, tx[q])
  BY DEF ChatInv
<1>3. CanGoOn(program, Tally("fresh", 0, 0, "calm")) /\ program \in Seq(Chat!Steps)
  <2>1. CanGoOn(program, Tally("fresh", 0, 0, "calm"))
    BY ProgramsGoOn
  <2> QED
    BY <2>1, GoesOnAfter
<1>4. /\ first \in Records(clock) /\ first.state = "open" /\ first.todo = program /\ first.added = {}
      /\ first.flushed = {} /\ ~first.running /\ (first.alone => Chat!Open = {})
  <2> DEFINE S == Seq(Chat!Steps)   R == RowsUpTo(clock)   A == Saves(clock)   none == Chat!Open = {}
             f == [state |-> "open", todo |-> program, added |-> {}, flushed |-> {}, removed |-> {},
                   doomed |-> {}, saved |-> <<>>, running |-> FALSE, alone |-> none]
  <2>1. {} \in R /\ <<>> \in A /\ program \in S /\ Records(clock) = Fields(S, R, A) /\ none \in BOOLEAN
    BY <1>3, FieldsOfRecords DEF RowsUpTo, Saves
  <2> HIDE DEF S, R, A, none
  <2>2. /\ f \in Fields(S, R, A) /\ f.state = "open" /\ f.todo = program /\ f.added = {}
        /\ f.flushed = {} /\ ~f.running /\ (f.alone => none)
    BY <2>1 DEF Fields
  <2> QED
    BY <2>1, <2>2 DEF none
<1> HIDE DEF first
<1>5. ASSUME NEW q \in Chat!Open
      PROVE  Meets(q) \in Records(clock) /\ ~Meets(q).alone /\ OnCourse(chat, Meets(q))
  <2> DEFINE S == Seq(Chat!Steps)   R == RowsUpTo(clock)   A == Saves(clock)   t == tx[q]   u == Meets(q)
  <2>1. t \in Records(clock) /\ Records(clock) = Fields(S, R, A)
    BY OnTheCourse, FieldsOfRecords
  <2>2. PICK a : Along(chat, t, a)
    BY OnTheCourse
  <2> HIDE DEF S, R, A, t
  <2>3. PICK one \in BOOLEAN : u = [t EXCEPT !.alone = one] /\ ~one
    <3>1. u = [t EXCEPT !.alone = FALSE]
      BY DEF t
    <3> HIDE DEF u
    <3> WITNESS FALSE \in BOOLEAN
    <3> QED
      BY <3>1
  <2> HIDE DEF u
  <2>4. /\ u \in Fields(S, R, A)
        /\ u.todo = t.todo /\ u.added = t.added /\ u.saved = t.saved /\ u.flushed = t.flushed
    BY <2>1, <2>3 DEF Fields
  <2>5. ~u.alone
    <3>1. u.alone = one
      BY <2>1, <2>3 DEF Fields
    <3> QED
      BY <2>3, <3>1
  <2>6. u.running = t.running
    BY <2>1, <2>3 DEF Fields
  <2>7. Along(chat, u, a)
    BY <2>2, <2>4, <2>5, <2>6 DEF Along
  <2> QED
    BY <2>1, <2>4, <2>5, <2>7 DEF OnCourse, u
<1> DEFINE Then(q) == IF q = r THEN first ELSE IF q \in Chat!Open THEN Meets(q) ELSE tx[q]
<1>6. tx' \in [Requests -> States(clock)]
  <2> SUFFICES ASSUME NEW q \in Requests PROVE Then(q) \in States(clock)
    BY <1>1
  <2> QED
    BY <1>2, <1>4, <1>5 DEF States
<1>7. /\ tx'[r] = first
      /\ \A q \in Chat!Open : q # r => tx'[q] = Meets(q)
      /\ \A q \in Requests : q # r /\ q \notin Chat!Open => tx'[q] = tx[q]
  BY <1>1 DEF Chat!Open
<1> HIDE DEF Meets, Then
<1>8. \A q \in Chat!Open' : q # r => q \in Chat!Open
  BY <1>7 DEF Chat!Open
<1>9. OnCourse(chat, first)
  <2> DEFINE a == Tally("fresh", 0, 0, "calm")
  <2>1. a.added = 0 /\ a.mode = "calm" /\ a.count = "fresh"
    BY DEF Tally
  <2>2. CanGoOn(program, a)
    BY <1>3
  <2> HIDE DEF a
  <2>3. Cardinality(first.added) <= a.added
    <3>1. Cardinality({}) = 0
      BY FS_EmptySet
    <3> QED
      BY <1>4, <2>1, <3>1
  <2>4. Along(chat, first, a)
    BY <1>4, <2>1, <2>2, <2>3 DEF Along
  <2> QED
    BY <2>4 DEF OnCourse
<1>10. ASSUME NEW q \in Chat!Open'
       PROVE  OnCourse(chat', tx'[q]) /\ (tx'[q].alone => \A s \in Chat!Open' : s = q)
  <2>1. CASE q = r
    BY <1>1, <1>4, <1>7, <1>8, <1>9, <2>1
  <2>2. CASE q # r
    BY <1>1, <1>5, <1>7, <1>8, <2>2
  <2> QED
    BY <2>1, <2>2
<1>11. (\A q \in Chat!Open : OnCourse(chat, tx[q]))'
  BY <1>10
<1>12. (\A q \in Chat!Open : tx[q].alone => \A s \in Chat!Open : s = q)'
  BY <1>10
<1>13. (clock \in Nat /\ chat \in RowsUpTo(clock) /\ misses \in 0..MaxMisses)'
  BY <1>1, <1>2
<1>14. (tx \in [Requests -> States(clock)])'
  BY <1>1, <1>6
<1> QED
  BY <1>11, <1>12, <1>13, <1>14 DEF ChatInv

\* Nobody is there at first, and every step leaves everybody on course.
LEMMA ChatStarts ==
  ASSUME Chat!Init
  PROVE  ChatInv
<1>1. chat = {} /\ clock = 0 /\ misses = 0 /\ tx = [r \in Requests |-> Chat!Idle]
  BY DEF Chat!Init
<1>2. MaxMisses \in Nat /\ Chat!Idle.state # "open"
  BY ChatAssumption DEF Chat!ConstantsOK, Chat!Idle
<1>3. Chat!Open = {}
  BY <1>1, <1>2 DEF Chat!Open
<1>4. clock \in Nat /\ chat \in RowsUpTo(clock) /\ misses \in 0..MaxMisses
  BY <1>1, <1>2 DEF RowsUpTo
<1>5. tx \in [Requests -> States(clock)]
  BY <1>1 DEF States
<1> QED
  BY <1>3, <1>4, <1>5 DEF ChatInv

LEMMA ChatKeepsCourse ==
  ASSUME ChatInv, [Chat!Next]_(Chat!vars)
  PROVE  ChatInv'
<1>1. CASE Chat!Next
  BY <1>1, BeginOnCourse, AppendEventOnCourse, TrimOnCourse, ClearOnCourse, FlushOnCourse, SavepointOnCourse,
     CommitOnCourse, FailOnCourse, AbortOnCourse DEF Chat!Next
<1>2. CASE UNCHANGED Chat!vars
  <2>1. clock' = clock /\ chat' = chat /\ misses' = misses /\ tx' = tx
    BY <1>2 DEF Chat!vars
  <2>2. Chat!Open' = Chat!Open
    BY <2>1 DEF Chat!Open
  <2> QED
    BY <2>1, <2>2 DEF ChatInv
<1> QED
  BY <1>1, <1>2

\* The chat of a post and its transactions, whatever their number, their overlaps
\* and the failures: rows have been written, and what is left to do is steps.
THEOREM ChatTypeCorrect == Chat!Spec => []Chat!TypeOK
<1>1. ChatInv => Chat!TypeOK
  <2> SUFFICES ASSUME ChatInv PROVE Chat!TypeOK
    OBVIOUS
  <2>1. RowsUpTo(clock) = Chat!Rows
    BY DEF RowsUpTo, Chat!Rows
  <2>2. States(clock) = {Chat!Idle} \cup Chat!Over \cup
          [state : {"open"}, todo : Seq(Chat!Steps), added : Chat!Rows, flushed : Chat!Rows,
           removed : Chat!Rows, doomed : Chat!Rows, saved : {<<>>} \cup (Chat!Rows \X Chat!Rows),
           running : BOOLEAN, alone : BOOLEAN]
    BY <2>1 DEF States, Records
  <2> QED
    BY <2>1, <2>2 DEF ChatInv, Chat!TypeOK
<1> QED
  BY <1>1, ChatStarts, ChatKeepsCourse, PTL DEF Chat!Spec

\* A transaction that has the chat for itself leaves it within the limit, but for
\* the rows that no count has seen, whatever the others and failures left before.
THEOREM OneAloneKeepsLimit == Chat!Spec => AloneKeepsLimit
<1>1. ASSUME ChatInv, [Chat!Next]_(Chat!vars)
      PROVE  [\A r \in Chat!Open : tx[r].alone /\ chat' # chat =>
                Chat!Cardinality(chat') <= ChatLimit + Chat!Unflushed]_(Chat!vars)
  <2> SUFFICES ASSUME NEW r \in Chat!Open, tx[r].alone, chat' # chat, Chat!Next
               PROVE  Chat!Cardinality(chat') <= ChatLimit + Chat!Unflushed
    BY <1>1
  <2>1. PICK s \in Requests : Chat!Commit(s)
    BY DEF Chat!Next, Chat!Begin, Chat!AppendEvent, Chat!Trim, Chat!Clear, Chat!Flush, Chat!Savepoint,
           Chat!Fail, Chat!Abort
  <2>2. s \in Chat!Open
    BY <2>1 DEF Chat!Commit, Chat!At
  <2>3. s = r
    BY <1>1, <2>2 DEF ChatInv
  <2>4. Cardinality(chat') <= ChatLimit + Chat!Unflushed
    BY <1>1, <2>1, <2>3, CommitIsCounted
  <2>5. Chat!Cardinality(chat') = Cardinality(chat')
    BY SameCount
  <2> QED
    BY <2>4, <2>5
<1> QED
  BY <1>1, ChatStarts, ChatKeepsCourse, PTL DEF Chat!Spec, AloneKeepsLimit, Chat!AloneKeepsLimit
=============================================================================

--------------------------- MODULE VideoJobs_proofs ---------------------------
(***************************************************************************)
(* Proofs about VideoJobs, for any plan, any budget and any number of      *)
(* workers: no step is paid for twice, and the charge of a call is on the  *)
(* books or marked as uncertain.                                           *)
(***************************************************************************)
EXTENDS VideoJobs, TLAPS

-----------------------------------------------------------------------------
(* The inductive invariant *)

\* A worker that is not idle works under the lease, and alone.
UnderLease ==
  \A w \in Workers : wpc[w] # "idle" =>
    lease /\ owner = w /\ status \in {"running", "cancelled", "failed"}

\* What the books and the gateway know of a step: a call that may still be
\* sent was never paid for, an operation is charged for when it ends.
BooksOK(i) ==
  /\ i \in Calls =>
       /\ op[i] = "none" /\ calls[i] <= 1
       /\ state[i] \in {"none", "authorizing", "rejected"} => calls[i] = 0 /\ charged[i] = 0
       /\ units[i] = charged[i] \/ state[i] \in {"started", "unknown"}
  /\ i \in Scenes =>
       calls[i] = IF op[i] \in {"none", "running"} THEN 0 ELSE 1

Books == \A i \in Steps : BooksOK(i)

\* What the place a worker has come to says of its step.
Fits(place, i, u) ==
  /\ place \in {"authorize", "call", "bill", "refused", "lost", "consume"} => i \in Calls
  /\ place \in {"lookup", "submit", "store", "settle_store"} => i \in Scenes
  /\ place = "authorize" => state[i] = "authorizing"
  /\ place = "call" => state[i] = "started"
  /\ place \in {"call", "refused"} => calls[i] = 0 /\ charged[i] = 0
  /\ place = "bill" => charged[i] = u
  /\ place = "submit" => op[i] = "none"
  /\ place \in {"consume", "keep", "store"} => state[i] = "received"

Places == \A w \in Workers : Fits(wpc[w], wstep[w], wunits[w])

IInv == TypeOK /\ UnderLease /\ Books /\ Places

-----------------------------------------------------------------------------
(* Steps of the plan, charges, and the kinds of actions *)

LEMMA PlanSteps == /\ Len(Plan) \in Nat
                   /\ \A i \in Steps : i \in 1..Len(Plan) + 1 /\ i + 1 \in 1..Len(Plan) + 1
                   /\ 1 \in 1..Len(Plan) + 1
                   /\ Calls \subseteq Steps /\ Scenes \subseteq Steps
                   /\ \A i \in Steps : i \in Calls <=> i \notin Scenes
<1>1. Len(Plan) \in Nat
  BY PlanAssumption
<1>2. /\ \A i \in Steps : i \in 1..Len(Plan) + 1 /\ i + 1 \in 1..Len(Plan) + 1
      /\ 1 \in 1..Len(Plan) + 1
  BY <1>1 DEF Steps
<1>3. Scenes \subseteq Steps
  BY DEF Scenes
<1>4. Calls \subseteq Steps /\ \A i \in Steps : i \in Calls <=> i \notin Scenes
  BY DEF Calls
<1> QED
  BY <1>1, <1>2, <1>3, <1>4

\* Whatever is left of the budget.
LEMMA ChargeIsNat == \A u \in 0..Left : u \in Nat /\ 0 + u = u
<1>1. ASSUME NEW L, NEW u \in 0..L PROVE u \in Nat /\ 0 + u = u
  OBVIOUS
<1> QED
  BY <1>1

\* The job as a whole, the gateway and time.
Outside ==
  \/ Cancel \/ LeaseEnds
  \/ \E i \in Steps : TimePasses(i) \/ OperationEnds(i)

\* A worker takes the job or leaves it.
Boundary(w) ==
  \/ Claim(w) \/ GiveUp(w) \/ SettleClaim(w) \/ Crash(w) \/ Stopped(w)
  \/ Wait(w) \/ WriteFailed(w) \/ Assemble(w) \/ SettleEnd(w)

\* A worker that only moves on.
Moves(w) ==
  \/ AllDone(w) \/ SkipDone(w) \/ NeedsReconciliation(w) \/ Resume(w) \/ ResumeScene(w)
  \/ SettleNext(w) \/ SettleNoAnswer(w)

PaidCall(w) ==
  \/ BeginCall(w) \/ Authorize(w) \/ Call(w) \/ SaveBill(w) \/ SaveRefused(w) \/ SaveLost(w)
  \/ Consume(w) \/ Keep(w)

Scene(w) ==
  BeginScene(w) \/ Lookup(w) \/ Submit(w) \/ Store(w) \/ SettleLookup(w) \/ SettleStore(w)

LEMMA NextCases ==
  ASSUME Next
  PROVE  Outside \/ \E w \in Workers : Boundary(w) \/ Moves(w) \/ PaidCall(w) \/ Scene(w)
  BY DEF Next, Render, Settle, Outside, Boundary, Moves, PaidCall, Scene

-----------------------------------------------------------------------------
(* Types *)

\* TypeOK in three parts.
JobTypes ==
  /\ status \in Statuses /\ attempts \in 0..MaxAttempts
  /\ owner \in Workers \cup {NoWorker} /\ lease \in BOOLEAN

BookTypes ==
  /\ state \in [Steps -> States] /\ units \in [Steps -> Nat] /\ unsettled \in BOOLEAN
  /\ artifact \in [Steps -> BOOLEAN] /\ late \in [Steps -> BOOLEAN]
  /\ calls \in [Steps -> Nat] /\ charged \in [Steps -> Nat] /\ op \in [Steps -> Operations]

AllPlaces == {"idle"} \cup RenderSteps \cup SettleSteps
Stepless == {"idle", "next", "assemble", "failing", "settle", "settle_more", "settled"}

WorkerTypes ==
  /\ wpc \in [Workers -> AllPlaces]
  /\ wstep \in [Workers -> 1..Len(Plan) + 1]
  /\ wunits \in [Workers -> Nat]
  /\ \A w \in Workers : wpc[w] \notin Stepless => wstep[w] \in Steps

LEMMA TypeParts == TypeOK <=> JobTypes /\ BookTypes /\ WorkerTypes
  BY DEF TypeOK, JobTypes, BookTypes, WorkerTypes, AllPlaces, Stepless

LEMMA TypePartsNext == TypeOK' <=> JobTypes' /\ BookTypes' /\ WorkerTypes'
  BY DEF TypeOK, JobTypes, BookTypes, WorkerTypes, AllPlaces, Stepless

\* What the helpers of the actions keep.
LEMMA GotoTypes ==
  ASSUME WorkerTypes, NEW w \in Workers, NEW place \in AllPlaces,
         place \in Stepless \/ wstep[w] \in Steps, Goto(w, place)
  PROVE  WorkerTypes'
  BY DEF WorkerTypes, Goto

LEMMA FinishTypes ==
  ASSUME WorkerTypes, NEW w \in Workers, Finish(w)
  PROVE  WorkerTypes'
  BY PlanSteps DEF WorkerTypes, Finish, AllPlaces, Stepless

LEMMA NextStepTypes ==
  ASSUME WorkerTypes, NEW w \in Workers, wstep[w] \in Steps, NextStep(w)
  PROVE  WorkerTypes'
  BY PlanSteps DEF WorkerTypes, NextStep, AllPlaces, Stepless, RenderSteps

LEMMA RecordTypes ==
  ASSUME BookTypes, NEW i \in Steps, NEW s \in States, NEW u \in Nat, Record(i, s, u),
         UNCHANGED <<artifact, late, gatewayVars>>
  PROVE  BookTypes'
  BY DEF BookTypes, Record, Progress, Pending, gatewayVars

LEMMA SaveTypes ==
  ASSUME BookTypes, WorkerTypes, NEW w \in Workers, wstep[w] \in Steps,
         NEW s \in States, NEW u \in Nat, NEW place \in AllPlaces,
         Save(w, wstep[w], s, u, place)
  PROVE  /\ state' \in [Steps -> States] /\ units' \in [Steps -> Nat] /\ unsettled' \in BOOLEAN
         /\ WorkerTypes'
<1>1. CASE MayBill(w)
  <2>1. Record(wstep[w], s, u) /\ Goto(w, place)
    BY <1>1 DEF Save
  <2> QED
    BY <2>1, GotoTypes DEF BookTypes, Record, Progress, Pending
<1>2. CASE ~MayBill(w)
  <2>1. Finish(w) /\ UNCHANGED <<state, units, unsettled>>
    BY <1>2 DEF Save
  <2> QED
    BY <2>1, FinishTypes DEF BookTypes
<1> QED
  BY <1>1, <1>2

LEMMA SaveUnflaggedTypes ==
  ASSUME BookTypes, WorkerTypes, NEW w \in Workers, wstep[w] \in Steps,
         NEW s \in States, NEW place \in AllPlaces,
         SaveUnflagged(w, wstep[w], s, place)
  PROVE  /\ state' \in [Steps -> States] /\ units' \in [Steps -> Nat] /\ unsettled' \in BOOLEAN
         /\ WorkerTypes'
<1>1. CASE MayBill(w)
  <2>1. Progress(wstep[w], s, units[wstep[w]]) /\ Goto(w, place) /\ UNCHANGED unsettled
    BY <1>1 DEF SaveUnflagged
  <2> QED
    BY <2>1, GotoTypes DEF BookTypes, Progress
<1>2. CASE ~MayBill(w)
  <2>1. Finish(w) /\ UNCHANGED <<state, units, unsettled>>
    BY <1>2 DEF SaveUnflagged
  <2> QED
    BY <2>1, FinishTypes DEF BookTypes
<1> QED
  BY <1>1, <1>2

\* A poll that finds nothing, or an operation that still runs.
LEMMA WaitTypes ==
  ASSUME BookTypes, WorkerTypes, NEW w \in Workers, wstep[w] \in Steps,
         Yield(w) \/ StillRunning(w)
  PROVE  /\ state' \in [Steps -> States] /\ units' \in [Steps -> Nat] /\ unsettled' \in BOOLEAN
         /\ WorkerTypes'
<1>1. {"unknown", "video_pending"} \subseteq States /\ {"failing", "wait"} \subseteq AllPlaces
  BY DEF States, AllPlaces, RenderSteps
<1>2. units[wstep[w]] \in Nat
  BY DEF BookTypes
<1>3. CASE Goto(w, "wait") /\ UNCHANGED <<state, units, unsettled>>
  BY <1>1, <1>3, GotoTypes DEF BookTypes
<1>4. CASE SaveUnflagged(w, wstep[w], "unknown", "failing")
  BY <1>1, <1>4, SaveUnflaggedTypes
<1>5. CASE Save(w, wstep[w], "unknown", units[wstep[w]], "failing")
  BY <1>1, <1>2, <1>5, SaveTypes
<1>6. CASE Save(w, wstep[w], "video_pending", units[wstep[w]], "wait")
  BY <1>1, <1>2, <1>6, SaveTypes
<1> QED
  BY <1>3, <1>4, <1>5, <1>6 DEF Yield, StillRunning

LEMMA InitTypeOK == Init => TypeOK
<1> SUFFICES ASSUME Init PROVE JobTypes /\ BookTypes /\ WorkerTypes
  BY TypeParts
<1>1. JobTypes
  <2>1. lease \in BOOLEAN
    BY DEF Init
  <2> QED
    BY <2>1 DEF Init, JobTypes, Statuses, MaxAttempts
<1>2. BookTypes
  BY DEF Init, BookTypes, States, Operations
<1>3. WorkerTypes
  BY PlanSteps DEF Init, WorkerTypes, AllPlaces, Stepless
<1> QED
  BY <1>1, <1>2, <1>3

LEMMA NextTypeOK == TypeOK /\ [Next]_vars => TypeOK'
<1> SUFFICES ASSUME JobTypes, BookTypes, WorkerTypes, [Next]_vars
             PROVE  JobTypes' /\ BookTypes' /\ WorkerTypes'
  BY TypeParts, TypePartsNext
<1> USE DEF jobVars, progressVars, gatewayVars, workerVars
<1>s. /\ {"none", "authorizing", "started", "rejected", "unknown", "received", "done",
          "video_pending", "closed", "invalid_result"} \subseteq States
      /\ {"idle", "next", "authorize", "call", "bill", "refused", "lost", "consume", "keep", "lookup",
          "submit", "store", "wait", "failing", "assemble", "settle", "settle_store", "settle_more",
          "settled"} \subseteq AllPlaces
  BY DEF States, AllPlaces, RenderSteps, SettleSteps
<1>i. \A w \in Workers : wpc[w] \notin Stepless => wstep[w] \in Steps
  BY DEF WorkerTypes
<1>n. /\ \A w \in Workers : wunits[w] \in Nat
      /\ \A i \in Steps : units[i] \in Nat /\ charged[i] \in Nat
  BY DEF WorkerTypes, BookTypes
<1>1. CASE Outside
  <2>1. CASE Cancel
    BY <2>1 DEF Cancel, JobTypes, BookTypes, WorkerTypes, Statuses
  <2>2. CASE LeaseEnds
    BY <2>2 DEF LeaseEnds, JobTypes, BookTypes, WorkerTypes
  <2>3. ASSUME NEW i \in Steps, TimePasses(i) PROVE JobTypes' /\ BookTypes' /\ WorkerTypes'
    BY <2>3 DEF TimePasses, JobTypes, BookTypes, WorkerTypes
  <2>4. ASSUME NEW i \in Steps, OperationEnds(i) PROVE JobTypes' /\ BookTypes' /\ WorkerTypes'
    BY <2>4, ChargeIsNat DEF OperationEnds, JobTypes, BookTypes, WorkerTypes, Operations
  <2> QED
    BY <1>1, <2>1, <2>2, <2>3, <2>4 DEF Outside
<1>2. ASSUME NEW w \in Workers, Boundary(w) PROVE JobTypes' /\ BookTypes' /\ WorkerTypes'
  <2>1. BookTypes'
    BY <1>2 DEF Boundary, Claim, GiveUp, SettleClaim, Crash, Stopped, Wait, WriteFailed, Assemble,
                SettleEnd, BookTypes
  <2>l. lease' \in BOOLEAN
    BY <1>2 DEF Boundary, Claim, GiveUp, SettleClaim, Crash, Stopped, Wait, WriteFailed, Assemble,
                SettleEnd, JobTypes
  <2>a. attempts' \in 0..MaxAttempts
    <3>1. attempts' = attempts \/ (attempts < MaxAttempts /\ attempts' = attempts + 1)
          \/ (attempts # 0 /\ attempts' = attempts - 1)
      BY <1>2 DEF Boundary, Claim, GiveUp, SettleClaim, Crash, Stopped, Wait, WriteFailed, Assemble,
                  SettleEnd
    <3> QED
      BY <3>1 DEF JobTypes, MaxAttempts
  <2>o. status' \in Statuses /\ owner' \in Workers \cup {NoWorker}
    BY <1>2 DEF Boundary, Claim, GiveUp, SettleClaim, Crash, Stopped, Wait, WriteFailed, Assemble,
                SettleEnd, JobTypes, Statuses
  <2>2. JobTypes'
    BY <2>l, <2>a, <2>o DEF JobTypes
  <2>3. ASSUME GiveUp(w) PROVE WorkerTypes'
    BY <2>3 DEF GiveUp, WorkerTypes
  <2>4. ASSUME NEW place \in {"next", "settle", "failing"}, Goto(w, place) PROVE WorkerTypes'
    BY <2>4, <1>s, GotoTypes DEF Stepless
  <2>5. ASSUME Finish(w) PROVE WorkerTypes'
    BY <2>5, FinishTypes
  <2>6. WorkerTypes'
    BY <1>2, <2>3, <2>4, <2>5 DEF Boundary, Claim, SettleClaim, Crash, Stopped, Wait, WriteFailed,
                                  Assemble, SettleEnd
  <2> QED
    BY <2>1, <2>2, <2>6
<1>3. ASSUME NEW w \in Workers, Moves(w) PROVE JobTypes' /\ BookTypes' /\ WorkerTypes'
  <2>1. JobTypes' /\ BookTypes'
    BY <1>3 DEF Moves, AllDone, SkipDone, NeedsReconciliation, Resume, ResumeScene, SettleNext,
                SettleNoAnswer, JobTypes, BookTypes
  <2>2. CASE AllDone(w) \/ NeedsReconciliation(w) \/ SettleNoAnswer(w)
    BY <2>1, <2>2, <1>s, GotoTypes DEF AllDone, NeedsReconciliation, SettleNoAnswer, Stepless
  <2>3. CASE SkipDone(w)
    BY <2>1, <2>3, NextStepTypes DEF SkipDone, AtStep
  <2>4. CASE Resume(w)
    BY <2>1, <2>4, <1>s, GotoTypes, PlanSteps DEF Resume, AtStep
  <2>5. CASE ResumeScene(w)
    BY <2>1, <2>5, <1>s, GotoTypes, PlanSteps DEF ResumeScene, AtStep
  <2>6. CASE SettleNext(w)
    <3>1. CASE wstep[w] \in Steps
      BY <2>1, <2>6, <3>1, <1>s, PlanSteps DEF SettleNext, WorkerTypes, Stepless
    <3>2. CASE wstep[w] \notin Steps
      BY <2>1, <2>6, <3>2, <1>s, GotoTypes DEF SettleNext, Stepless
    <3> QED
      BY <3>1, <3>2
  <2> QED
    BY <1>3, <2>1, <2>2, <2>3, <2>4, <2>5, <2>6 DEF Moves
<1>4. ASSUME NEW w \in Workers, PaidCall(w) PROVE JobTypes' /\ BookTypes' /\ WorkerTypes'
  <2>1. JobTypes'
    BY <1>4 DEF PaidCall, BeginCall, Authorize, Call, SaveBill, SaveRefused, SaveLost, Consume, Keep,
                JobTypes
  <2>2. wstep[w] \in Steps
    BY <1>4, <1>i, PlanSteps DEF PaidCall, BeginCall, Authorize, Call, SaveBill, SaveRefused, SaveLost,
                                 Consume, Keep, AtStep, Stepless
  <2>3. CASE BeginCall(w)
    <3>1. WorkerTypes'
      BY <2>2, <2>3, <1>s, GotoTypes DEF BeginCall
    <3>2. BookTypes'
      BY <2>2, <2>3, <1>s DEF BeginCall, Progress, BookTypes
    <3> QED
      BY <2>1, <3>1, <3>2
  <2>4. CASE Authorize(w)
    <3>1. WorkerTypes'
      BY <2>2, <2>4, <1>s, GotoTypes, FinishTypes DEF Authorize
    <3>2. BookTypes'
      BY <2>2, <2>4, <1>s DEF Authorize, Progress, BookTypes
    <3> QED
      BY <2>1, <3>1, <3>2
  <2>5. CASE Call(w)
    <3>1. BookTypes'
      BY <2>2, <2>5, ChargeIsNat DEF Call, Charge, BookTypes
    <3>2. ASSUME NEW u \in 0..Left, wpc' = [wpc EXCEPT ![w] = "bill"],
                 wunits' = [wunits EXCEPT ![w] = u], UNCHANGED wstep
          PROVE  WorkerTypes'
      BY <2>2, <3>2, <1>s, ChargeIsNat DEF WorkerTypes
    <3>3. ASSUME Goto(w, "refused") \/ Goto(w, "lost") PROVE WorkerTypes'
      BY <2>2, <3>3, <1>s, GotoTypes
    <3> QED
      BY <2>1, <2>5, <3>1, <3>2, <3>3 DEF Call
  <2>6. CASE SaveBill(w) \/ SaveRefused(w) \/ SaveLost(w)
    <3>1. \E s \in States, u \in Nat, place \in AllPlaces : Save(w, wstep[w], s, u, place)
      BY <2>2, <2>6, <1>s, <1>n DEF SaveBill, SaveRefused, SaveLost
    <3> QED
      BY <2>1, <2>2, <2>6, <3>1, SaveTypes DEF SaveBill, SaveRefused, SaveLost, BookTypes
  <2>7. CASE Consume(w)
    <3>1. WorkerTypes'
      BY <2>2, <2>7, <1>s, GotoTypes DEF Consume
    <3>2. BookTypes'
      BY <2>2, <2>7 DEF Consume, BookTypes
    <3> QED
      BY <2>1, <3>1, <3>2
  <2>8. CASE Keep(w)
    <3>1. CASE MayBill(w)
      BY <2>1, <2>2, <2>8, <3>1, <1>s, <1>n, RecordTypes, NextStepTypes DEF Keep
    <3>2. CASE ~MayBill(w)
      BY <2>1, <2>2, <2>8, <3>2, FinishTypes DEF Keep, BookTypes
    <3> QED
      BY <3>1, <3>2
  <2> QED
    BY <1>4, <2>3, <2>4, <2>5, <2>6, <2>7, <2>8 DEF PaidCall
<1>5. ASSUME NEW w \in Workers, Scene(w) PROVE JobTypes' /\ BookTypes' /\ WorkerTypes'
  <2>1. JobTypes' /\ calls' \in [Steps -> Nat] /\ charged' \in [Steps -> Nat] /\ late' = late
    BY <1>5 DEF Scene, BeginScene, Lookup, Submit, Store, SettleLookup, SettleStore, JobTypes, BookTypes
  <2>2. wstep[w] \in Steps
    BY <1>5, <1>i, PlanSteps DEF Scene, BeginScene, Lookup, Submit, Store, SettleLookup, SettleStore,
                                 AtStep, ToSettle, Stepless
  <2>3. artifact' \in [Steps -> BOOLEAN] /\ op' \in [Steps -> Operations]
    BY <1>5, <2>2 DEF Scene, BeginScene, Lookup, Submit, Store, SettleLookup, SettleStore, BookTypes,
                      Operations
  <2> DEFINE SavedTypes == /\ state' \in [Steps -> States] /\ units' \in [Steps -> Nat]
                           /\ unsettled' \in BOOLEAN /\ WorkerTypes'
  <2>4. ASSUME NEW place \in AllPlaces, Goto(w, place), UNCHANGED <<state, units, unsettled>>
        PROVE  SavedTypes
    BY <2>2, <2>4, GotoTypes DEF BookTypes
  <2>5. ASSUME NEW s \in States, NEW place \in AllPlaces,
               \/ \E u \in Nat : Save(w, wstep[w], s, u, place)
               \/ SaveUnflagged(w, wstep[w], s, place)
        PROVE  SavedTypes
    BY <2>2, <2>5, SaveTypes, SaveUnflaggedTypes
  <2>6. ASSUME Yield(w) \/ StillRunning(w) PROVE SavedTypes
    BY <2>2, <2>6, WaitTypes
  <2>7. SavedTypes
    <3>1. CASE BeginScene(w)
      <4>1. CASE Goto(w, "lookup") /\ Progress(wstep[w], "video_pending", 0) /\ unsettled' = TRUE
        BY <2>2, <4>1, <1>s, GotoTypes DEF Progress, BookTypes
      <4> QED
        BY <3>1, <4>1, <2>4, <1>s DEF BeginScene
    <3>2. CASE Lookup(w)
      BY <3>2, <2>2, <2>4, <2>5, <2>6, <1>s, <1>n DEF Lookup
    <3>3. CASE Submit(w)
      BY <3>3, <2>2, <2>4, <2>5, <2>6, <1>s DEF Submit
    <3>4. CASE Store(w)
      BY <3>4, <2>2, <2>4, <2>5, <1>s, <1>n DEF Store
    <3>5. CASE SettleLookup(w)
      BY <3>5, <2>2, <2>5, <1>s, <1>n DEF SettleLookup
    <3>6. CASE SettleStore(w)
      BY <3>6, <2>2, <2>5, <1>s, <1>n DEF SettleStore
    <3> QED
      BY <1>5, <3>1, <3>2, <3>3, <3>4, <3>5, <3>6 DEF Scene
  <2> QED
    BY <2>1, <2>3, <2>7 DEF BookTypes
<1>6. CASE UNCHANGED vars
  BY <1>6 DEF vars, JobTypes, BookTypes, WorkerTypes
<1> QED
  BY <1>1, <1>2, <1>3, <1>4, <1>5, <1>6, NextCases

-----------------------------------------------------------------------------
(* One worker at a time *)

Acts(w) == Boundary(w) \/ Moves(w) \/ PaidCall(w) \/ Scene(w)

LEMMA Alone ==
  ASSUME TypeOK, UnderLease, NEW w \in Workers, Acts(w), NEW v \in Workers, v # w
  PROVE  wpc[v] = "idle" /\ wpc'[v] = "idle"
<1>1. wpc \in [Workers -> AllPlaces]
  BY TypeParts DEF WorkerTypes
<1>2. ASSUME ~lease PROVE wpc[v] = "idle"
  BY <1>2 DEF UnderLease
<1>3. ASSUME wpc[w] # "idle" PROVE wpc[v] = "idle"
  BY <1>3 DEF UnderLease
<1>4. ~lease \/ wpc[w] # "idle"
  BY DEF Acts, Boundary, Moves, PaidCall, Scene, Claim, GiveUp, SettleClaim, Crash, Stopped, Wait,
         WriteFailed, Assemble, SettleEnd, AllDone, SkipDone, NeedsReconciliation, Resume, ResumeScene,
         SettleNext, SettleNoAnswer, ToSettle, AtStep, BeginCall, Authorize, Call, SaveBill,
         SaveRefused, SaveLost, Consume, Keep, BeginScene, Lookup, Submit, Store, SettleLookup,
         SettleStore
<1>5. wpc[v] = "idle"
  BY <1>2, <1>3, <1>4
<1> USE <1>1, <1>5 DEF Goto, Finish, NextStep, workerVars
<1>7. CASE Boundary(w)
  BY <1>7 DEF Boundary, Claim, GiveUp, SettleClaim, Crash, Stopped, Wait, WriteFailed, Assemble, SettleEnd
<1>8. CASE Moves(w)
  BY <1>8 DEF Moves, AllDone, SkipDone, NeedsReconciliation, Resume, ResumeScene, SettleNext, SettleNoAnswer
<1>9. CASE PaidCall(w)
  BY <1>9 DEF PaidCall, BeginCall, Authorize, Call, SaveBill, SaveRefused, SaveLost, Consume, Keep, Save
<1>10. CASE Scene(w)
  BY <1>10 DEF Scene, BeginScene, Lookup, Submit, Store, SettleLookup, SettleStore, Save, SaveUnflagged,
               Yield, StillRunning
<1> QED
  BY <1>5, <1>7, <1>8, <1>9, <1>10 DEF Acts

LEMMA NextUnderLease ==
  ASSUME TypeOK, UnderLease, [Next]_vars
  PROVE  UnderLease'
<1> USE DEF jobVars, progressVars, gatewayVars, workerVars
<1>1. CASE Outside
  <2>1. CASE Cancel
    BY <2>1 DEF Cancel, UnderLease
  <2>2. CASE LeaseEnds
    BY <2>2 DEF LeaseEnds, UnderLease
  <2>3. ASSUME NEW i \in Steps, TimePasses(i) \/ OperationEnds(i) PROVE UnderLease'
    BY <2>3 DEF TimePasses, OperationEnds, UnderLease
  <2> QED
    BY <1>1, <2>1, <2>2, <2>3 DEF Outside
<1>2. ASSUME NEW w \in Workers, Acts(w) PROVE UnderLease'
  <2>1. SUFFICES ASSUME wpc'[w] # "idle"
                 PROVE  lease' /\ owner' = w /\ status' \in {"running", "cancelled", "failed"}
    BY <1>2, Alone DEF UnderLease
  <2>2. CASE Boundary(w)
    <3>1. CASE Claim(w)
      BY <3>1 DEF Claim
    <3>2. CASE SettleClaim(w)
      BY <3>2 DEF SettleClaim
    <3>3. CASE Assemble(w) /\ Goto(w, "failing") /\ UNCHANGED status
      BY <3>3 DEF Assemble, UnderLease
    <3>4. CASE GiveUp(w)
      BY <3>4, <2>1 DEF GiveUp
    <3>5. CASE Finish(w)
      BY <3>5, <2>1, TypeParts DEF Finish, WorkerTypes
    <3> QED
      BY <2>2, <3>1, <3>2, <3>3, <3>4, <3>5
         DEF Boundary, Crash, Stopped, Wait, WriteFailed, Assemble, SettleEnd
  <2>3. CASE wpc[w] # "idle" /\ UNCHANGED jobVars
    BY <2>3 DEF UnderLease
  <2>4. CASE Moves(w)
    BY <2>4, <2>3 DEF Moves, AllDone, SkipDone, NeedsReconciliation, Resume, ResumeScene, SettleNext,
                      SettleNoAnswer, ToSettle, AtStep
  <2>5. CASE PaidCall(w)
    BY <2>5, <2>3 DEF PaidCall, BeginCall, Authorize, Call, SaveBill, SaveRefused, SaveLost, Consume,
                      Keep, AtStep
  <2>6. CASE Scene(w)
    BY <2>6, <2>3 DEF Scene, BeginScene, Lookup, Submit, Store, SettleLookup, SettleStore, ToSettle, AtStep
  <2> QED
    BY <1>2, <2>2, <2>4, <2>5, <2>6 DEF Acts
<1>3. CASE UNCHANGED vars
  BY <1>3 DEF vars, UnderLease
<1> QED
  BY <1>1, <1>2, <1>3, NextCases DEF Acts

-----------------------------------------------------------------------------
(* The books *)

\* What a worker that acts finds at its own place.
LEMMA OwnPlace ==
  ASSUME TypeOK, Places, NEW w \in Workers
  PROVE  Fits(wpc[w], wstep[w], wunits[w])
  BY DEF Places

\* The end of a paid call is saved or not.
LEMMA SaveBooks ==
  ASSUME TypeOK, Books, NEW w \in Workers, NEW s, NEW u, NEW place, NEW i \in Calls, i = wstep[w],
         Save(w, i, s, u, place), UNCHANGED gatewayVars,
         s = "rejected" => calls[i] = 0 /\ charged[i] = 0,
         s \notin {"none", "authorizing"},
         u = charged[i] \/ s = "unknown"
  PROVE  Books'
<1> USE PlanSteps DEF Books, BooksOK, gatewayVars
<1>1. state \in [Steps -> States] /\ units \in [Steps -> Nat]
  BY DEF TypeOK
<1>2. CASE UNCHANGED <<state, units>>
  BY <1>2
<1>3. CASE Progress(i, s, u)
  BY <1>1, <1>3 DEF Progress
<1> QED
  BY <1>2, <1>3 DEF Save, Record

LEMMA NextBooks ==
  ASSUME TypeOK, Books, Places, [Next]_vars
  PROVE  Books'
<1> USE DEF jobVars, progressVars, gatewayVars, workerVars
<1>t. /\ state \in [Steps -> States] /\ units \in [Steps -> Nat]
      /\ calls \in [Steps -> Nat] /\ charged \in [Steps -> Nat] /\ op \in [Steps -> Operations]
  BY DEF TypeOK
<1>u. ASSUME UNCHANGED <<state, units, gatewayVars>> PROVE Books'
  BY <1>u DEF Books, BooksOK
<1>1. CASE Outside
  <2>1. ASSUME NEW i \in Steps, OperationEnds(i) PROVE Books'
    BY <2>1, <1>t, PlanSteps DEF OperationEnds, Books, BooksOK
  <2> QED
    BY <1>1, <1>u, <2>1 DEF Outside, Cancel, LeaseEnds, TimePasses
<1>2. ASSUME NEW w \in Workers, Boundary(w) \/ Moves(w) PROVE Books'
  BY <1>2, <1>u DEF Boundary, Claim, GiveUp, SettleClaim, Crash, Stopped, Wait, WriteFailed, Assemble,
                    SettleEnd, Moves, AllDone, SkipDone, NeedsReconciliation, Resume, ResumeScene,
                    SettleNext, SettleNoAnswer
<1>3. ASSUME NEW w \in Workers, PaidCall(w) PROVE Books'
  <2> DEFINE i == wstep[w]
  <2>f. Fits(wpc[w], i, wunits[w])
    BY OwnPlace
  <2>s. i \in Steps
    BY <1>3, <2>f, TypeParts, PlanSteps
       DEF PaidCall, BeginCall, Authorize, Call, SaveBill, SaveRefused, SaveLost, Consume, Keep, AtStep,
           WorkerTypes, Stepless
  <2>b. BooksOK(i)
    BY <2>s DEF Books
  <2>1. CASE BeginCall(w)
    BY <2>1, <2>s, <2>b, <1>t, PlanSteps DEF BeginCall, AtStep, Progress, Books, BooksOK
  <2>2. CASE Authorize(w)
    BY <2>2, <2>s, <2>f, <1>t, PlanSteps DEF Authorize, Progress, Books, BooksOK, Fits
  <2>3. CASE Call(w)
    <3>1. CASE \E u \in 0..Left : Charge(i, u)
      BY <2>3, <3>1, <2>s, <2>f, <1>t, PlanSteps, ChargeIsNat DEF Call, Charge, Books, BooksOK, Fits
    <3>2. CASE UNCHANGED gatewayVars
      BY <2>3, <3>2, <1>u DEF Call
    <3> QED
      BY <2>3, <3>1, <3>2 DEF Call
  <2>4. CASE SaveBill(w)
    <3>1. Save(w, i, "received", wunits[w], "consume") /\ UNCHANGED gatewayVars
      BY <2>4 DEF SaveBill
    <3>2. i \in Calls /\ charged[i] = wunits[w]
      BY <2>4, <2>f DEF SaveBill, Fits
    <3> QED
      BY <3>1, <3>2, SaveBooks
  <2>5. CASE SaveRefused(w)
    <3>1. Save(w, i, "rejected", 0, "failing") /\ UNCHANGED gatewayVars
      BY <2>5 DEF SaveRefused
    <3>2. i \in Calls /\ calls[i] = 0 /\ charged[i] = 0
      BY <2>5, <2>f DEF SaveRefused, Fits
    <3> QED
      BY <3>1, <3>2, SaveBooks
  <2>6. CASE SaveLost(w)
    <3>1. Save(w, i, "unknown", units[i], "failing") /\ UNCHANGED gatewayVars
      BY <2>6 DEF SaveLost
    <3>2. i \in Calls
      BY <2>6, <2>f DEF SaveLost, Fits
    <3> QED
      BY <3>1, <3>2, SaveBooks
  <2>7. CASE Consume(w)
    BY <2>7, <1>u DEF Consume
  <2>8. CASE Keep(w)
    <3>1. CASE MayBill(w)
      BY <2>8, <3>1, <2>s, <2>f, <2>b, <1>t, PlanSteps DEF Keep, Record, Progress, Books, BooksOK, Fits
    <3>2. CASE ~MayBill(w)
      BY <2>8, <3>2, <1>u DEF Keep
    <3> QED
      BY <3>1, <3>2
  <2> QED
    BY <1>3, <2>1, <2>2, <2>3, <2>4, <2>5, <2>6, <2>7, <2>8 DEF PaidCall
<1>4. ASSUME NEW w \in Workers, Scene(w) PROVE Books'
  <2> DEFINE i == wstep[w]
  <2>f. Fits(wpc[w], i, wunits[w])
    BY OwnPlace
  <2>s. i \in Scenes /\ i \in Steps /\ i \notin Calls
    BY <1>4, <2>f, PlanSteps DEF Scene, BeginScene, Lookup, Submit, Store, SettleLookup, SettleStore,
                                 AtStep, ToSettle, Fits
  <2>1. UNCHANGED <<calls, charged>>
    BY <1>4 DEF Scene, BeginScene, Lookup, Submit, Store, SettleLookup, SettleStore
  <2>2. op' = op \/ (op[i] = "none" /\ op' = [op EXCEPT ![i] = "running"])
    BY <1>4, <2>f DEF Scene, BeginScene, Lookup, Submit, Store, SettleLookup, SettleStore, Fits
  <2>3. \A j \in Calls : state'[j] = state[j] /\ units'[j] = units[j]
    BY <1>4, <2>s, <1>t, PlanSteps
       DEF Scene, BeginScene, Lookup, Submit, Store, SettleLookup, SettleStore, Yield, StillRunning, Save,
           SaveUnflagged, Record, Progress
  <2> QED
    BY <2>s, <2>1, <2>2, <2>3, <1>t, PlanSteps DEF Books, BooksOK
<1>5. CASE UNCHANGED vars
  BY <1>5, <1>u DEF vars
<1> QED
  BY <1>1, <1>2, <1>3, <1>4, <1>5, NextCases

-----------------------------------------------------------------------------
(* The places *)

LEMMA NextPlaces ==
  ASSUME TypeOK, UnderLease, Books, Places, [Next]_vars
  PROVE  Places'
<1> USE DEF jobVars, progressVars, gatewayVars, workerVars
<1>t. /\ state \in [Steps -> States] /\ units \in [Steps -> Nat]
      /\ calls \in [Steps -> Nat] /\ charged \in [Steps -> Nat] /\ op \in [Steps -> Operations]
      /\ wpc \in [Workers -> AllPlaces] /\ wstep \in [Workers -> 1..Len(Plan) + 1]
      /\ wunits \in [Workers -> Nat]
  BY TypeParts DEF BookTypes, WorkerTypes
<1>u. ASSUME UNCHANGED <<state, gatewayVars, workerVars>> PROVE Places'
  BY <1>u DEF Places, Fits
<1>1. CASE Outside
  <2>1. ASSUME NEW i \in Steps, OperationEnds(i) PROVE Places'
    <3>1. i \in Scenes /\ op[i] = "running"
      BY <2>1, PlanSteps DEF OperationEnds, Books, BooksOK
    <3>2. /\ UNCHANGED <<state, workerVars>>
          /\ \A j \in Steps : j # i => calls'[j] = calls[j] /\ charged'[j] = charged[j] /\ op'[j] = op[j]
      BY <2>1, <1>t DEF OperationEnds
    <3> QED
      BY <3>1, <3>2, PlanSteps DEF Places, Fits
  <2> QED
    BY <1>1, <1>u, <2>1 DEF Outside, Cancel, LeaseEnds, TimePasses
<1>2. ASSUME NEW w \in Workers, Acts(w) PROVE Places'
  <2> DEFINE i == wstep[w]
  <2>1. \A v \in Workers : v # w => Fits(wpc[v], wstep[v], wunits[v])'
    BY <1>2, Alone DEF Fits
  <2>2. SUFFICES Fits(wpc[w], wstep[w], wunits[w])'
    BY <2>1 DEF Places
  <2>f. Fits(wpc[w], i, wunits[w])
    BY OwnPlace
  \* Most places ask for nothing.
  <2>n. ASSUME wpc'[w] \in {"idle", "next", "failing", "assemble", "wait", "settle", "settle_more", "settled"}
        PROVE  Fits(wpc[w], wstep[w], wunits[w])'
    BY <2>n DEF Fits
  <2>3. CASE Boundary(w)
    BY <2>3, <2>n, <1>t, <1>u, <2>f
       DEF Boundary, Claim, GiveUp, SettleClaim, Crash, Stopped, Wait, WriteFailed, Assemble, SettleEnd,
           Goto, Finish, Fits
  <2>4. CASE Moves(w)
    <3>1. CASE AllDone(w) \/ SkipDone(w) \/ NeedsReconciliation(w) \/ SettleNext(w) \/ SettleNoAnswer(w)
      BY <3>1, <2>n, <1>t DEF AllDone, SkipDone, NeedsReconciliation, SettleNext, SettleNoAnswer, Goto, NextStep
    <3>2. CASE Resume(w)
      BY <3>2, <1>t DEF Resume, AtStep, Goto, Fits
    <3>3. CASE ResumeScene(w)
      BY <3>3, <1>t DEF ResumeScene, AtStep, Goto, Fits
    <3> QED
      BY <2>4, <3>1, <3>2, <3>3 DEF Moves
  <2>5. CASE PaidCall(w)
    <3> USE <1>t
    <3>1. CASE BeginCall(w)
      BY <3>1, PlanSteps DEF BeginCall, AtStep, Goto, Progress, Fits
    <3>2. CASE Authorize(w)
      BY <3>2, <2>f, <2>n, PlanSteps DEF Authorize, Goto, Finish, Progress, Fits, Books, BooksOK
    <3>3. CASE Call(w)
      <4>1. i \in Steps /\ calls[i] = 0 /\ charged[i] = 0 /\ i \in Calls
        BY <3>3, <2>f, PlanSteps DEF Call, Fits
      <4> QED
        BY <3>3, <4>1, ChargeIsNat DEF Call, Charge, Goto, Fits
    <3>4. CASE SaveBill(w)
      BY <3>4, <2>f, <2>n, PlanSteps DEF SaveBill, Save, Record, Progress, Goto, Finish, Fits
    <3>5. CASE SaveRefused(w) \/ SaveLost(w)
      BY <3>5, <2>n DEF SaveRefused, SaveLost, Save, Goto, Finish
    <3>6. CASE Consume(w)
      BY <3>6, <2>f, <2>n DEF Consume, Goto, Fits
    <3>7. CASE Keep(w)
      BY <3>7, <2>n DEF Keep, NextStep, Finish
    <3> QED
      BY <2>5, <3>1, <3>2, <3>3, <3>4, <3>5, <3>6, <3>7 DEF PaidCall
  <2>6. CASE Scene(w)
    <3> USE <1>t
    <3>1. CASE BeginScene(w)
      BY <3>1, <2>n DEF BeginScene, AtStep, Goto, Fits
    <3>y. ASSUME Yield(w) \/ StillRunning(w) PROVE Fits(wpc[w], wstep[w], wunits[w])'
      BY <3>y, <2>n DEF Yield, StillRunning, Save, SaveUnflagged, Goto, Finish
    <3>2. CASE Lookup(w)
      <4>1. i \in Scenes /\ i \in Steps
        BY <3>2, <2>f, PlanSteps DEF Lookup, Fits
      <4>2. CASE op[i] = "none" /\ Goto(w, "submit") /\ UNCHANGED <<state, units, unsettled>>
        BY <3>2, <4>1, <4>2 DEF Lookup, Goto, Fits
      <4>3. CASE Save(w, i, "received", charged[i], "store")
        BY <3>2, <4>1, <4>3, <2>n DEF Lookup, Save, Record, Progress, Goto, Finish, Fits
      <4>4. CASE Save(w, i, "closed", charged[i], "failing") \/ SaveUnflagged(w, i, "unknown", "failing")
        BY <4>4, <2>n DEF Save, SaveUnflagged, Goto, Finish
      <4> QED
        BY <3>2, <3>y, <4>2, <4>3, <4>4 DEF Lookup
    <3>3. CASE Submit(w)
      <4>1. CASE Goto(w, "failing") \/ Save(w, i, "closed", 0, "failing")
        BY <4>1, <2>n DEF Save, Goto, Finish
      <4> QED
        BY <3>3, <3>y, <4>1 DEF Submit
    <3>4. CASE Store(w)
      BY <3>4, <2>f, <2>n DEF Store, Save, Goto, Finish, Fits
    <3>5. CASE SettleLookup(w)
      <4>1. i \in Scenes /\ i \in Steps
        BY <3>5, PlanSteps DEF SettleLookup, ToSettle
      <4> QED
        BY <3>5, <4>1, <2>n DEF SettleLookup, Save, SaveUnflagged, Goto, Finish, Fits
    <3>6. CASE SettleStore(w)
      BY <3>6, <2>n DEF SettleStore, Save, Goto, Finish
    <3> QED
      BY <2>6, <3>1, <3>2, <3>3, <3>4, <3>5, <3>6 DEF Scene
  <2> QED
    BY <1>2, <2>3, <2>4, <2>5, <2>6 DEF Acts
<1>3. CASE UNCHANGED vars
  BY <1>3, <1>u DEF vars
<1> QED
  BY <1>1, <1>2, <1>3, NextCases DEF Acts

-----------------------------------------------------------------------------
(* Theorems *)

LEMMA InitIInv == Init => IInv
<1> SUFFICES ASSUME Init PROVE IInv
  OBVIOUS
<1>1. TypeOK
  BY InitTypeOK
<1>2. UnderLease
  BY DEF Init, UnderLease
<1>3. Books
  BY PlanSteps DEF Init, Books, BooksOK
<1>4. Places
  BY DEF Init, Places, Fits
<1> QED
  BY <1>1, <1>2, <1>3, <1>4 DEF IInv

LEMMA NextIInv == IInv /\ [Next]_vars => IInv'
  BY NextTypeOK, NextUnderLease, NextBooks, NextPlaces DEF IInv

LEMMA Invariance == Spec => []IInv
<1>1. Init => IInv
  BY InitIInv
<1>2. IInv /\ [Next]_vars => IInv'
  BY NextIInv
<1> QED
  BY <1>1, <1>2, PTL DEF Spec

\* Every reachable state of a job, its progress, its workers and the gateway's
\* account of it is well typed: attempts stay within the limit of
\* process_video_job, and a worker that is at a paid step is at a step of the plan.
THEOREM TypeCorrect == Spec => []TypeOK
<1>1. IInv => TypeOK
  BY DEF IInv
<1> QED
  BY <1>1, Invariance, PTL

\* paid_step and generate_scene pay for no step twice, for any plan and budget,
\* whoever dies, cancels or takes over: what may be sent was never paid for.
THEOREM StepsArePaidOnce == Spec => []PaidOnce
<1>1. IInv => PaidOnce
  <2> SUFFICES ASSUME IInv, NEW i \in Steps PROVE calls[i] <= 1
    BY DEF PaidOnce
  <2>1. calls[i] \in Nat /\ BooksOK(i)
    BY DEF IInv, TypeOK, Books
  <2> QED
    BY <2>1, PlanSteps DEF BooksOK
<1> QED
  BY <1>1, Invariance, PTL

\* A charge that the gateway has made for a call is in progress_json, or the call
\* is in a state that asks for reconciliation (VideoAutopilot.paid_step).
THEOREM ChargesAreAccounted == Spec => []CallsAccounted
<1>1. IInv => CallsAccounted
  BY PlanSteps DEF IInv, Books, BooksOK, CallsAccounted
<1> QED
  BY <1>1, Invariance, PTL

=============================================================================

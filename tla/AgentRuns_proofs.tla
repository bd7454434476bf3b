--------------------------- MODULE AgentRuns_proofs ---------------------------
(***************************************************************************)
(* Proofs about AgentRuns, for any number of runs, reviewers, proposals    *)
(* and paid calls: what the policy keeps for people never goes to the      *)
(* publication worker, every call the provider got is in a committed step, *)
(* a failed run leaves nothing, and a due occurrence is not lost.          *)
(***************************************************************************)
EXTENDS AgentRuns, SequenceTheorems, TLAPS

-----------------------------------------------------------------------------
(* The inductive invariant *)

\* Nothing was proposed.
Empty(written) == \A k \in Proposals : written[k] = Nothing

\* Where the process of a run can be: it begins once, has written nothing but a
\* source package before its first call, and keeps nothing when it is gone.
PlaceOK(r) ==
  /\ pc[r] # "idle" => run[r] \in {"none", "running"} /\ age[r] = 0
  /\ pc[r] \in {"dispatch", "wait", "write"} => run[r] = "running"
  /\ pc[r] \notin {"write", "done"} => Empty(made[r])
  /\ pc[r] = "idle" => cause[r] = <<>>
  /\ run[r] = "none" => calls[r] = <<>> /\ age[r] = 0
  /\ run[r] \notin {"completed", "awaiting_review"} => Empty(proposal[r])

Places == \A r \in Runs : PlaceOK(r)

\* The sources whose approval is not committed yet keep their review.
Causes ==
  \A r, q \in Runs : cause[r] = <<q>> => proposal[q][Package].review # "none"

\* The calls of a run whose process lives are recorded up to the one it is at.
CallsOK(r) ==
  /\ sent[r] <= Len(calls[r])
  /\ pc[r] = "dispatch" => sent[r] < Len(calls[r])
  /\ pc[r] # "idle" => \A i \in 1..Len(calls[r]) - 1 : calls[r][i] # "pending"
  /\ pc[r] \in {"sources", "turn", "write", "done"} \/ run[r] \in {"completed", "failed", "awaiting_review"} =>
       \A i \in 1..Len(calls[r]) : calls[r][i] # "pending"

Calls == \A r \in Runs : CallsOK(r)

\* The policy lets a run publish at all, and a post that is to be published is
\* not one that guardrails keep, wherever the row is known.
Publishes == setup.policy = "guarded_auto_publish" /\ ~setup.editorial
Kept(row) == setup.mode = "topic_scout" /\ row.blocked
RowOK(row) == row.post = "dispatched" => Publishes /\ ~Kept(row)

Rows ==
  /\ \A r \in Runs, k \in Proposals : RowOK(proposal[r][k]) /\ RowOK(made[r][k])
  /\ \A u \in Reviewers : seen[u] # <<>> => RowOK(seen[u][3])

\* A message is about a run that has begun, and about a proposal it has made.
MessageOK(r, k) ==
  /\ Publishes /\ ~Kept(proposal[r][k]) /\ ~Kept(made[r][k])
  /\ run[r] # "none" /\ pc[r] \in {"idle", "write", "done"}
  /\ pc[r] = "write" => made[r][k] # Nothing

Messages == \A r \in Runs, k \in Proposals : <<r, k>> \in told \cup started => MessageOK(r, k)

IInv == TypeOK /\ Places /\ Causes /\ Calls /\ Rows /\ Messages

-----------------------------------------------------------------------------
(* The kinds of actions *)

TaskStep == ClockReaches \/ DispatchDue \/ Pause \/ Resume

Starts(r) == StartTask(r) \/ StartRequest(r) \/ \E u \in Reviewers : ApproveSources(u, r)

CallStep(r) ==
  Sources(r) \/ RecordStart(r) \/ CallProvider(r) \/ RecordReceipt(r) \/ Submitted(r)

WriteStep(r) == SaveCandidate(r) \/ AllSaved(r)

EndStep(r) == Complete(r) \/ Fail(r) \/ Crash(r)

ReviewStep(u) ==
  \/ \E r \in Runs, k \in Proposals : LookAt(u, r, k)
  \/ \E d \in {"approved", "rejected"} : Resolve(u, d)
  \/ GiveUp(u)

RunStep(r) ==
  \/ Starts(r) \/ CallStep(r) \/ WriteStep(r) \/ EndStep(r) \/ TimePasses(r)
  \/ \E k \in Proposals : TakeTarget(r, k)

LEMMA NextCases ==
  ASSUME Next
  PROVE  \/ TaskStep \/ Cleanup
         \/ \E r \in Runs : RunStep(r)
         \/ \E u \in Reviewers : ReviewStep(u)
  BY DEF Next, Work, TaskStep, RunStep, Starts, CallStep, WriteStep, EndStep, ReviewStep

-----------------------------------------------------------------------------
(* Candidates and what is made of them *)

LEMMA PackageIsFirst == Package \in Proposals /\ Proposals = 0..MaxProposals /\ MaxProposals \in Nat
  BY LimitsAssumption DEF Proposals, Package

LEMMA NothingIsCandidate ==
  /\ Nothing \in Candidates
  /\ Nothing.review = "none" /\ Nothing.post = "none" /\ ~Nothing.blocked
  BY DEF Nothing, Candidates, Reviews, Posts

LEMMA MaterializedTypes ==
  ASSUME NEW level \in Posts, NEW exists \in BOOLEAN
  PROVE  /\ Materialized(level, exists) \in Posts
         /\ Materialized(level, exists) = "dispatched" => level = "dispatched" /\ ~setup.editorial
  BY DEF Materialized, Posts

LEMMA LevelTypes ==
  ASSUME NEW policy \in Policies
  PROVE  /\ Level(policy) \in Posts
         /\ Level(policy) = "dispatched" => policy = "guarded_auto_publish"
  BY DEF Level, Policies, Posts

\* What a run may write of a proposal, by the policy.
LEMMA OutcomesAllowed ==
  ASSUME setup \in Setups, NEW c \in Outcomes
  PROVE  c \in Candidates /\ c # Nothing /\ RowOK(c)
<1>0. setup.policy \in Policies /\ setup.attached \in BOOLEAN /\ setup.mode \in Modes
  BY DEF Setups
<1>1. Level(setup.policy) \in Posts
  BY <1>0, LevelTypes
<1>2. "dispatched" \in Posts
  BY DEF Posts
<1> DEFINE bold == Materialized("dispatched", setup.attached)
           calm == IF setup.policy = "full_manual" THEN "none"
                   ELSE Materialized(Level(setup.policy), setup.attached)
<1>3. bold \in Posts /\ (bold = "dispatched" => ~setup.editorial)
  BY <1>0, <1>2, MaterializedTypes
<1>4. calm \in Posts /\ (calm = "dispatched" => setup.policy = "guarded_auto_publish")
  BY <1>0, <1>1, MaterializedTypes, LevelTypes DEF Posts
<1>5. bold # "none"
  BY DEF Materialized
<1> HIDE DEF bold, calm
<1>6. CASE setup.policy = "guarded_auto_publish"
  <2>1. PICK b \in BOOLEAN :
          c = IF b /\ setup.mode = "topic_scout"
              THEN [Nothing EXCEPT !.review = "pending", !.blocked = TRUE]
              ELSE [Nothing EXCEPT !.post = bold, !.blocked = b]
    BY <1>6 DEF Outcomes, Guarded, bold
  <2> QED
    BY <2>1, <1>3, <1>5, <1>6 DEF Nothing, Candidates, Reviews, Posts, RowOK, Kept, Publishes
<1>7. CASE setup.policy # "guarded_auto_publish"
  <2>1. \/ c = [Nothing EXCEPT !.post = "updated"]
        \/ c = [Nothing EXCEPT !.review = "pending"]
        \/ c = [Nothing EXCEPT !.review = "rejected"]
        \/ c = [Nothing EXCEPT !.review = "approved", !.post = calm]
    BY <1>7 DEF Outcomes, Reviewed, calm
  <2>2. ASSUME NEW post \in Posts, NEW review \in Reviews, post # "none" \/ review # "none",
               post # "dispatched",
               c = [review |-> review, post |-> post, blocked |-> FALSE, compact |-> FALSE]
        PROVE  c \in Candidates /\ c # Nothing /\ RowOK(c)
    BY <2>2 DEF Nothing, Candidates, RowOK
  <2>3. CASE c = [Nothing EXCEPT !.post = "updated"]
    BY <2>2, <2>3 DEF Nothing, Posts, Reviews
  <2>4. CASE c = [Nothing EXCEPT !.review = "pending"]
    BY <2>2, <2>4 DEF Nothing, Posts, Reviews
  <2>5. CASE c = [Nothing EXCEPT !.review = "rejected"]
    BY <2>2, <2>5 DEF Nothing, Posts, Reviews
  <2>6. CASE c = [Nothing EXCEPT !.review = "approved", !.post = calm]
    BY <2>2, <2>6, <1>4, <1>7 DEF Nothing, Posts, Reviews
  <2> QED
    BY <2>1, <2>3, <2>4, <2>5, <2>6
<1> QED
  BY <1>6, <1>7

\* An approval makes no dispatched post, whatever row the reviewer has read.
LEMMA ApprovedIsModest ==
  ASSUME setup \in Setups, NEW row \in Candidates, RowOK(row)
  PROVE  Approved(row) \in Posts /\ Approved(row) # "dispatched"
<1>0. setup.policy \in Policies /\ setup.attached \in BOOLEAN
  BY DEF Setups
<1> DEFINE exists == setup.attached \/ row.post # "none"
<1>1. PolicyOf(row) \in Policies /\ (PolicyOf(row) = "full_manual" => setup.policy = "full_manual")
  BY <1>0 DEF PolicyOf, Policies
<1>2. row.post \in Posts
  BY DEF Candidates
<1>3. CASE PolicyOf(row) = "full_manual"
  BY <1>1, <1>2, <1>3 DEF Approved, RowOK, Publishes
<1>4. CASE PolicyOf(row) = "guarded_auto_publish"
  <2>1. "draft" \in Posts /\ exists \in BOOLEAN
    BY <1>0 DEF Posts
  <2> QED
    BY <2>1, <1>4, MaterializedTypes DEF Approved
<1>5. CASE PolicyOf(row) \notin {"full_manual", "guarded_auto_publish"}
  <2>1. Level(PolicyOf(row)) \in Posts /\ exists \in BOOLEAN
    BY <1>0, <1>1, LevelTypes
  <2>2. Approved(row) = Materialized(Level(PolicyOf(row)), exists)
    BY <1>5 DEF Approved
  <2> QED
    BY <2>1, <2>2, <1>1, <1>5, MaterializedTypes, LevelTypes
<1> QED
  BY <1>3, <1>4, <1>5

-----------------------------------------------------------------------------
(* Types *)

TaskTypes ==
  /\ setup \in Setups /\ next \in {"none", "later", "due"}
  /\ active \in BOOLEAN /\ queue \in Nat

RunTypes ==
  /\ run \in [Runs -> {"none", "running", "awaiting_review", "completed", "failed", "deleted"}]
  /\ calls \in [Runs -> Seq(Steps)] /\ sent \in [Runs -> Nat]
  /\ age \in [Runs -> 0..3]

RowTypes ==
  /\ proposal \in [Runs -> [Proposals -> Candidates]]
  /\ made \in [Runs -> [Proposals -> Candidates]]

ProcessTypes ==
  /\ pc \in [Runs -> {"idle", "sources", "turn", "dispatch", "wait", "write", "done"}]
  /\ byTask \in [Runs -> BOOLEAN]
  /\ cause \in [Runs -> {<<>>} \cup {<<r>> : r \in Runs}]
  /\ parent \in [Runs -> Runs \cup {NoRun}]

OtherTypes ==
  /\ told \subseteq Runs \X Proposals /\ started \subseteq Runs \X Proposals
  /\ seen \in [Reviewers -> {<<>>} \cup (Runs \X Proposals \X Candidates)]

LEMMA TypeParts == TypeOK <=> TaskTypes /\ RunTypes /\ RowTypes /\ ProcessTypes /\ OtherTypes
  BY DEF TypeOK, TaskTypes, RunTypes, RowTypes, ProcessTypes, OtherTypes

LEMMA TypePartsNext == TypeOK' <=> TaskTypes' /\ RunTypes' /\ RowTypes' /\ ProcessTypes' /\ OtherTypes'
  BY DEF TypeOK, TaskTypes, RunTypes, RowTypes, ProcessTypes, OtherTypes

\* A row with another review status, post or length is a row.
LEMMA RowChanges ==
  ASSUME NEW row \in Candidates, NEW review \in Reviews, NEW post \in Posts
  PROVE  /\ [row EXCEPT !.review = review] \in Candidates
         /\ [row EXCEPT !.review = review, !.post = post] \in Candidates
         /\ [row EXCEPT !.compact = TRUE] \in Candidates
  BY DEF Candidates

\* A commit of run r: what it does to the rows of the runs.
LEMMA DecidedRows ==
  ASSUME TypeOK, NEW r \in Runs, NEW to \in [Proposals -> Candidates], Decided(r, to)
  PROVE  /\ proposal' \in [Runs -> [Proposals -> Candidates]]
         /\ proposal'[r] = to
         /\ \A q \in Runs \ {r} :
              /\ cause[r] # <<q>> => proposal'[q] = proposal[q]
              /\ cause[r] = <<q>> =>
                   proposal'[q] = [proposal[q] EXCEPT ![Package].review = "approved"]
<1> DEFINE with == [q \in Runs |-> IF <<q>> = cause[r]
                              THEN [proposal[q] EXCEPT ![Package].review = "approved"]
                              ELSE proposal[q]]
<1>1. proposal' = [with EXCEPT ![r] = to]
  BY DEF Decided
<1>2. with \in [Runs -> [Proposals -> Candidates]]
  <2>1. "approved" \in Reviews /\ "none" \in Posts
    BY DEF Reviews, Posts
  <2>2. ASSUME NEW q \in Runs
        PROVE  [proposal[q] EXCEPT ![Package].review = "approved"] \in [Proposals -> Candidates]
    <3>1. proposal[q] \in [Proposals -> Candidates]
      BY DEF TypeOK
    <3>2. [proposal[q][Package] EXCEPT !.review = "approved"] \in Candidates
      BY <2>1, <3>1, PackageIsFirst, RowChanges
    <3> QED
      BY <3>1, <3>2
  <2> QED
    BY <2>2 DEF TypeOK
<1>3. \A q \in Runs \ {r} : proposal'[q] = with[q]
  BY <1>1, <1>2
<1> QED
  BY <1>1, <1>2, <1>3

\* ... and to the processes.
LEMMA DecidedProcesses ==
  ASSUME TypeOK, NEW r \in Runs, NEW to, Decided(r, to)
  PROVE  /\ cause' = [cause EXCEPT ![r] = <<>>]
         /\ cause' \in [Runs -> {<<>>} \cup {<<q>> : q \in Runs}]
         /\ parent' \in [Runs -> Runs \cup {NoRun}]
<1>1. cause[r] # <<>> => cause[r][1] \in Runs
  BY DEF TypeOK
<1> QED
  BY <1>1 DEF TypeOK, Decided

LEMMA NoRows == [k \in Proposals |-> Nothing] \in [Proposals -> Candidates]
  BY NothingIsCandidate

LEMMA LastIsInSequence ==
  ASSUME NEW S, NEW s \in Seq(S), s # <<>>
  PROVE  Len(s) \in 1..Len(s)
  BY EmptySeq

LEMMA NoCause == \A q : <<q>> # <<>>
  OBVIOUS

LEMMA InitTypeOK == Init => TypeOK
<1> SUFFICES ASSUME Init PROVE TypeOK
  OBVIOUS
<1>1. TaskTypes /\ ProcessTypes
  BY DEF Init, TaskTypes, ProcessTypes
<1>2. RunTypes
  BY DEF Init, RunTypes
<1>3. RowTypes
  BY NoRows DEF Init, RowTypes
<1>4. OtherTypes
  BY DEF Init, OtherTypes
<1> QED
  BY <1>1, <1>2, <1>3, <1>4, TypeParts

LEMMA StartTypes ==
  ASSUME TypeOK, NEW r \in Runs, Starts(r)
  PROVE  TypeOK'
<1>1. TaskTypes'
  <2>1. queue' = queue \/ (queue > 0 /\ queue' = queue - 1)
    BY DEF Starts, StartTask, StartRequest, ApproveSources, taskVars
  <2>2. queue' \in Nat
    BY <2>1 DEF TypeOK
  <2>3. UNCHANGED <<setup, next, active>>
    BY DEF Starts, StartTask, StartRequest, ApproveSources, taskVars
  <2> QED
    BY <2>2, <2>3 DEF TypeOK, TaskTypes
<1>2. RunTypes' /\ RowTypes'
  BY DEF TypeOK, RunTypes, RowTypes, Starts, StartTask, StartRequest, ApproveSources, Begin,
         runVars
<1>3. \E reviewed \in {<<>>} \cup {<<q>> : q \in Runs} :
        \E step \in {"sources", "turn"}, task \in BOOLEAN : Begin(r, step, task, reviewed)
  <2>1. CASE StartTask(r) \/ StartRequest(r)
    BY <2>1 DEF StartTask, StartRequest
  <2>2. CASE \E u \in Reviewers : ApproveSources(u, r)
    <3>1. PICK u \in Reviewers : ApproveSources(u, r)
      BY <2>2
    <3>2. seen[u] \in Runs \X Proposals \X Candidates
      BY <3>1 DEF TypeOK, ApproveSources
    <3>3. seen[u][1] \in Runs
      BY <3>2
    <3> QED
      BY <3>1, <3>3 DEF ApproveSources
  <2> QED
    BY <2>1, <2>2 DEF Starts
<1>4. parent' = parent
  BY DEF Starts, StartTask, StartRequest, ApproveSources
<1>5. ProcessTypes'
  BY <1>3, <1>4 DEF TypeOK, ProcessTypes, Begin, Goto
<1>6. OtherTypes'
  BY DEF TypeOK, OtherTypes, Starts, StartTask, StartRequest, ApproveSources, brokerVars
<1> QED
  BY <1>1, <1>2, <1>5, <1>6, TypePartsNext

LEMMA CallTypes ==
  ASSUME TypeOK, NEW r \in Runs, CallStep(r)
  PROVE  TypeOK'
<1>1. TaskTypes' /\ OtherTypes'
  BY DEF TypeOK, TaskTypes, OtherTypes, CallStep, Sources, RecordStart, CallProvider, RecordReceipt,
         Submitted, taskVars, brokerVars
<1>2. RunTypes'
  <2>1. CASE RecordStart(r)
    <3>1. calls[r] \in Seq(Steps) /\ "pending" \in Steps
      BY DEF TypeOK, Steps
    <3>2. Append(calls[r], "pending") \in Seq(Steps)
      BY <3>1
    <3> QED
      BY <2>1, <3>2 DEF TypeOK, RunTypes, RecordStart
  <2>2. CASE CallProvider(r)
    BY <2>2 DEF TypeOK, RunTypes, CallProvider
  <2>3. CASE RecordReceipt(r)
    <3>1. PICK status \in Steps : calls' = [calls EXCEPT ![r][Len(calls[r])] = status]
      BY <2>3 DEF RecordReceipt
    <3>2. calls[r] \in Seq(Steps) /\ calls[r] # <<>>
      BY <2>3 DEF TypeOK, RecordReceipt
    <3>3. [calls[r] EXCEPT ![Len(calls[r])] = status] \in Seq(Steps)
      BY <3>2, LastIsInSequence, ExceptSeq
    <3>4. calls' \in [Runs -> Seq(Steps)]
      BY <3>1, <3>3 DEF TypeOK
    <3> QED
      BY <2>3, <3>4 DEF TypeOK, RunTypes, RecordReceipt
  <2>4. CASE Sources(r) \/ Submitted(r)
    BY <2>4 DEF TypeOK, RunTypes, Sources, Submitted, runVars
  <2> QED
    BY <2>1, <2>2, <2>3, <2>4 DEF CallStep
<1>3. RowTypes'
  <2>1. CASE RecordStart(r)
    BY <2>1, DecidedRows DEF TypeOK, RowTypes, RecordStart
  <2>2. CASE Sources(r)
    <3>1. made[r] \in [Proposals -> Candidates] /\ "pending" \in Reviews /\ "none" \in Posts
      BY DEF TypeOK, Reviews, Posts
    <3>2. [made[r][Package] EXCEPT !.review = "pending"] \in Candidates
      BY <3>1, RowChanges, PackageIsFirst
    <3>3. [made[r] EXCEPT ![Package].review = "pending"] \in [Proposals -> Candidates]
      BY <3>1, <3>2
    <3>4. made' \in [Runs -> [Proposals -> Candidates]]
      BY <2>2, <3>3 DEF TypeOK, Sources
    <3> QED
      BY <2>2, <3>4 DEF TypeOK, RowTypes, Sources, runVars
  <2>3. CASE CallProvider(r) \/ RecordReceipt(r) \/ Submitted(r)
    BY <2>3 DEF TypeOK, RowTypes, CallProvider, RecordReceipt, Submitted, runVars
  <2> QED
    BY <2>1, <2>2, <2>3 DEF CallStep
<1>4. ProcessTypes'
  <2>1. CASE RecordStart(r)
    <3>1. proposal[r] \in [Proposals -> Candidates]
      BY DEF TypeOK
    <3> QED
      BY <2>1, <3>1, DecidedProcesses DEF TypeOK, ProcessTypes, RecordStart, Goto
  <2>2. CASE ~RecordStart(r)
    BY <2>2 DEF TypeOK, ProcessTypes, CallStep, Sources, CallProvider, RecordReceipt, Submitted, Goto
  <2> QED
    BY <2>1, <2>2
<1> QED
  BY <1>1, <1>2, <1>3, <1>4, TypePartsNext

LEMMA WriteTypes ==
  ASSUME TypeOK, NEW r \in Runs, WriteStep(r)
  PROVE  TypeOK'
<1>1. TaskTypes' /\ RunTypes' /\ ProcessTypes'
  BY DEF TypeOK, TaskTypes, RunTypes, ProcessTypes, WriteStep, SaveCandidate, AllSaved, taskVars,
         runVars, Goto
<1>2. RowTypes' /\ OtherTypes'
  <2>1. CASE SaveCandidate(r)
    <3>1. PICK k \in Proposals, c \in Outcomes :
            /\ made' = [made EXCEPT ![r][k] = c]
            /\ told' = IF c.post = "dispatched" THEN told \cup {<<r, k>>} ELSE told
      BY <2>1 DEF SaveCandidate
    <3>2. c \in Candidates
      BY OutcomesAllowed DEF TypeOK
    <3>3. made' \in [Runs -> [Proposals -> Candidates]] /\ told' \subseteq Runs \X Proposals
      BY <3>1, <3>2 DEF TypeOK
    <3> QED
      BY <2>1, <3>3 DEF TypeOK, RowTypes, OtherTypes, SaveCandidate, runVars
  <2>2. CASE AllSaved(r)
    BY <2>2 DEF TypeOK, RowTypes, OtherTypes, AllSaved, runVars, brokerVars
  <2> QED
    BY <2>1, <2>2 DEF WriteStep
<1> QED
  BY <1>1, <1>2, TypePartsNext

LEMMA EndTypes ==
  ASSUME TypeOK, NEW r \in Runs, EndStep(r)
  PROVE  TypeOK'
<1>1. TaskTypes' /\ OtherTypes'
  BY DEF TypeOK, TaskTypes, OtherTypes, EndStep, Complete, Fail, Crash, taskVars, brokerVars
<1>2. RunTypes'
  BY DEF TypeOK, RunTypes, EndStep, Complete, Fail, Crash, runVars
<1>3. made[r] \in [Proposals -> Candidates] /\ proposal[r] \in [Proposals -> Candidates]
  BY DEF TypeOK
<1>4. \/ UNCHANGED <<proposal, parent>> /\ cause' = [cause EXCEPT ![r] = <<>>]
      \/ Decided(r, made[r]) \/ Decided(r, proposal[r])
  BY DEF EndStep, Complete, Fail, Crash, runVars
<1>5. proposal' \in [Runs -> [Proposals -> Candidates]]
  BY <1>3, <1>4, DecidedRows DEF TypeOK
<1>6. /\ cause' \in [Runs -> {<<>>} \cup {<<q>> : q \in Runs}]
      /\ parent' \in [Runs -> Runs \cup {NoRun}]
  <2>1. CASE UNCHANGED <<proposal, parent>> /\ cause' = [cause EXCEPT ![r] = <<>>]
    BY <2>1 DEF TypeOK
  <2> QED
    BY <2>1, <1>4, DecidedProcesses
<1>7. /\ made' = [made EXCEPT ![r] = [k \in Proposals |-> Nothing]]
      /\ pc' = [pc EXCEPT ![r] = "idle"] /\ byTask' = byTask
  BY DEF EndStep, Complete, Fail, Crash, Goto
<1>8. RowTypes'
  BY <1>5, <1>7, NoRows DEF TypeOK, RowTypes
<1>9. ProcessTypes'
  BY <1>6, <1>7 DEF TypeOK, ProcessTypes
<1> QED
  BY <1>1, <1>2, <1>8, <1>9, TypePartsNext

\* What a resolution writes.
Writes(r, k, decision, post) ==
  /\ proposal[r][k].review # "none"
  /\ k = Package => ~Held(r)
  /\ proposal' \in [Runs -> [Proposals -> Candidates]]
  /\ \A q \in Runs, j \in Proposals :
       proposal'[q][j] = IF q = r /\ j = k
                         THEN [proposal[r][k] EXCEPT !.review = decision, !.post = post]
                         ELSE proposal[q][j]
  /\ post = "dispatched" => proposal[r][k].post = "dispatched"

LEMMA ResolvedRow ==
  ASSUME TypeOK, Rows, NEW u \in Reviewers, NEW decision \in {"approved", "rejected"},
         Resolve(u, decision)
  PROVE  /\ \E r \in Runs, k \in Proposals, post \in Posts : Writes(r, k, decision, post)
         /\ told' = told /\ seen' = [seen EXCEPT ![u] = <<>>]
<1>1. seen[u] # <<>> /\ seen[u] \in Runs \X Proposals \X Candidates
  BY DEF TypeOK, Resolve
<1> DEFINE r == seen[u][1]
           k == seen[u][2]
           row == seen[u][3]
           post == IF decision = "approved" /\ ~IsPackage(k, row) THEN Approved(row)
                   ELSE proposal[r][k].post
<1>2. r \in Runs /\ k \in Proposals /\ row \in Candidates /\ RowOK(row)
  BY <1>1 DEF Rows
<1>3. Approved(row) \in Posts /\ Approved(row) # "dispatched"
  BY <1>2, ApprovedIsModest DEF TypeOK
<1>4. proposal[r][k].post \in Posts
  BY <1>2 DEF TypeOK, Candidates
<1>5. /\ proposal[r][k].review # "none"
      /\ k = Package => ~Held(r)
      /\ IsPackage(k, row) => decision = "rejected"
      /\ proposal' = [proposal EXCEPT ![r][k].review = decision, ![r][k].post = post]
      /\ told' = IF post = "dispatched" /\ decision = "approved" THEN told \cup {<<r, k>>} ELSE told
      /\ seen' = [seen EXCEPT ![u] = <<>>]
  BY DEF Resolve
<1>6. decision = "approved" => post = Approved(row)
  BY <1>5
<1>7. post \in Posts /\ (post = "dispatched" => proposal[r][k].post = "dispatched" /\ decision # "approved")
  BY <1>3, <1>4, <1>6
<1>8. proposal' \in [Runs -> [Proposals -> Candidates]]
  <2>1. decision \in Reviews /\ proposal[r] \in [Proposals -> Candidates]
    BY <1>2 DEF Reviews, TypeOK
  <2>2. [proposal[r][k] EXCEPT !.review = decision, !.post = post] \in Candidates
    BY <1>2, <1>7, <2>1, RowChanges
  <2>3. [proposal[r] EXCEPT ![k].review = decision, ![k].post = post] \in [Proposals -> Candidates]
    BY <1>2, <2>1, <2>2
  <2> QED
    BY <1>2, <1>5, <2>3 DEF TypeOK
<1>9. ASSUME NEW q \in Runs, NEW j \in Proposals
      PROVE  proposal'[q][j] = IF q = r /\ j = k
                               THEN [proposal[r][k] EXCEPT !.review = decision, !.post = post]
                               ELSE proposal[q][j]
  <2>1. proposal[r] \in [Proposals -> Candidates]
    BY <1>2 DEF TypeOK
  <2> QED
    BY <1>2, <1>5, <2>1 DEF TypeOK
<1>10. \A q \in Runs, j \in Proposals :
         proposal'[q][j] = IF q = r /\ j = k
                           THEN [proposal[r][k] EXCEPT !.review = decision, !.post = post]
                           ELSE proposal[q][j]
  BY <1>9
<1>11. (k = Package => ~Held(r)) /\ proposal[r][k].review # "none"
  BY <1>5
<1>12. told' = told /\ seen' = [seen EXCEPT ![u] = <<>>]
  BY <1>5, <1>6, <1>3
<1> HIDE DEF r, k, post
<1>13. Writes(r, k, decision, post)
  BY <1>7, <1>8, <1>10, <1>11 DEF Writes
<1> QED
  BY <1>2, <1>7, <1>12, <1>13

LEMMA ReviewTypes ==
  ASSUME TypeOK, Rows, NEW u \in Reviewers, ReviewStep(u)
  PROVE  TypeOK'
<1>1. TaskTypes' /\ RunTypes' /\ ProcessTypes'
  BY DEF TypeOK, TaskTypes, RunTypes, ProcessTypes, ReviewStep, LookAt, Resolve, GiveUp, taskVars,
         runVars, processVars
<1>2. RowTypes' /\ OtherTypes'
  <2>1. CASE \E r \in Runs, k \in Proposals : LookAt(u, r, k)
    <3>1. PICK r \in Runs, k \in Proposals : LookAt(u, r, k)
      BY <2>1
    <3>2. <<r, k, proposal[r][k]>> \in Runs \X Proposals \X Candidates
      BY DEF TypeOK
    <3> QED
      BY <3>1, <3>2 DEF TypeOK, RowTypes, OtherTypes, LookAt, runVars, processVars, brokerVars
  <2>2. CASE \E d \in {"approved", "rejected"} : Resolve(u, d)
    <3>1. PICK d \in {"approved", "rejected"} : Resolve(u, d)
      BY <2>2
    <3>2. /\ proposal' \in [Runs -> [Proposals -> Candidates]]
          /\ told' = told
          /\ seen' = [seen EXCEPT ![u] = <<>>]
      BY <3>1, ResolvedRow DEF Writes
    <3> QED
      BY <3>1, <3>2 DEF TypeOK, RowTypes, OtherTypes, Resolve, processVars
  <2>3. CASE GiveUp(u)
    BY <2>3 DEF TypeOK, RowTypes, OtherTypes, GiveUp, runVars, processVars, brokerVars
  <2> QED
    BY <2>1, <2>2, <2>3 DEF ReviewStep
<1> QED
  BY <1>1, <1>2, TypePartsNext

LEMMA CleanupRows ==
  ASSUME TypeOK, Cleanup, NEW r \in Runs, NEW k \in Proposals
  PROVE  \/ proposal'[r][k] = proposal[r][k]
         \/ proposal'[r][k] = Nothing /\ Deletable(r)
         \/ proposal[r][k].review # "none" /\ proposal'[r][k] = [proposal[r][k] EXCEPT !.compact = TRUE]
<1>1. proposal'[r] = CASE Deletable(r) -> [q \in Proposals |-> Nothing]
         [] age[r] = 3 /\ ~Deletable(r) -> [q \in Proposals |-> Compacted(proposal[r][q])]
         [] OTHER -> proposal[r]
  BY DEF Cleanup
<1>2. CASE Deletable(r)
  BY <1>1, <1>2
<1>3. CASE age[r] = 3 /\ ~Deletable(r)
  <2>1. proposal'[r][k] = Compacted(proposal[r][k])
    BY <1>1, <1>3
  <2> QED
    BY <2>1 DEF Compacted
<1>4. CASE age[r] # 3 /\ ~Deletable(r)
  BY <1>1, <1>4
<1> QED
  BY <1>2, <1>3, <1>4

LEMMA CleanupTypes ==
  ASSUME TypeOK, Cleanup
  PROVE  TypeOK'
<1>1. TaskTypes' /\ ProcessTypes' /\ OtherTypes'
  BY DEF TypeOK, TaskTypes, ProcessTypes, OtherTypes, Cleanup, taskVars, processVars, brokerVars
<1>2. RunTypes'
  <2>1. calls' \in [Runs -> Seq(Steps)]
    <3>1. \A r \in Runs : calls[r] \in Seq(Steps) /\ <<>> \in Seq(Steps)
      BY EmptySeq DEF TypeOK
    <3> QED
      BY <3>1 DEF Cleanup
  <2>2. sent' \in [Runs -> Nat] /\ age' = age
    BY DEF TypeOK, Cleanup
  <2>3. run' \in [Runs -> {"none", "running", "awaiting_review", "completed", "failed", "deleted"}]
    BY DEF TypeOK, Cleanup
  <2> QED
    BY <2>1, <2>2, <2>3 DEF TypeOK, RunTypes
<1>3. RowTypes'
  <2>1. ASSUME NEW r \in Runs, NEW k \in Proposals
        PROVE  Compacted(proposal[r][k]) \in Candidates
    <3>1. proposal[r][k] \in Candidates /\ "none" \in Reviews /\ "none" \in Posts
      BY DEF TypeOK, Reviews, Posts
    <3> QED
      BY <3>1, RowChanges DEF Compacted
  <2>2. ASSUME NEW r \in Runs
        PROVE  /\ [k \in Proposals |-> Nothing] \in [Proposals -> Candidates]
               /\ [k \in Proposals |-> Compacted(proposal[r][k])] \in [Proposals -> Candidates]
               /\ proposal[r] \in [Proposals -> Candidates]
    BY <2>1, NothingIsCandidate DEF TypeOK
  <2>3. proposal' \in [Runs -> [Proposals -> Candidates]]
    BY <2>2 DEF Cleanup
  <2> QED
    BY <2>3 DEF TypeOK, RowTypes, Cleanup, processVars
<1> QED
  BY <1>1, <1>2, <1>3, TypePartsNext

LEMMA NextTypeOK == TypeOK /\ Rows /\ [Next]_vars => TypeOK'
<1> SUFFICES ASSUME TypeOK, Rows, [Next]_vars PROVE TypeOK'
  OBVIOUS
<1>1. CASE TaskStep
  <2>0. queue' \in Nat
    <3>1. queue' = queue \/ queue' = 1
      BY <1>1 DEF TaskStep, ClockReaches, DispatchDue, Pause, Resume
    <3> QED
      BY <3>1 DEF TypeOK
  <2>1. TaskTypes'
    BY <1>1, <2>0 DEF TypeOK, TaskTypes, TaskStep, ClockReaches, DispatchDue, Pause, Resume
  <2>2. RunTypes' /\ RowTypes' /\ ProcessTypes' /\ OtherTypes'
    BY <1>1 DEF TypeOK, RunTypes, RowTypes, ProcessTypes, OtherTypes, TaskStep, ClockReaches,
                DispatchDue, Pause, Resume, runVars, brokerVars, processVars
  <2> QED
    BY <2>1, <2>2, TypePartsNext
<1>2. CASE Cleanup
  BY <1>2, CleanupTypes
<1>3. ASSUME NEW r \in Runs, RunStep(r) PROVE TypeOK'
  <2>1. CASE TimePasses(r)
    <3>1. age[r] \in 0..3 /\ age[r] < MaxAge /\ MaxAge \in 0..3
      BY <2>1, LimitsAssumption DEF TypeOK, TimePasses
    <3>2. age[r] + 1 \in 0..3
      BY <3>1
    <3>3. RunTypes'
      BY <2>1, <3>2 DEF TypeOK, RunTypes, TimePasses, runVars
    <3>4. TaskTypes' /\ RowTypes' /\ ProcessTypes' /\ OtherTypes'
      BY <2>1 DEF TypeOK, TaskTypes, RowTypes, ProcessTypes, OtherTypes, TimePasses, taskVars,
                  runVars, brokerVars, processVars
    <3> QED
      BY <3>3, <3>4, TypePartsNext
  <2>2. CASE \E k \in Proposals : TakeTarget(r, k)
    BY <2>2 DEF TypeOK, TakeTarget, taskVars, runVars, processVars
  <2> QED
    BY <1>3, <2>1, <2>2, StartTypes, CallTypes, WriteTypes, EndTypes DEF RunStep
<1>4. ASSUME NEW u \in Reviewers, ReviewStep(u) PROVE TypeOK'
  BY <1>4, ReviewTypes
<1>5. CASE UNCHANGED vars
  BY <1>5 DEF TypeOK, vars
<1> QED
  BY <1>1, <1>2, <1>3, <1>4, <1>5, NextCases

-----------------------------------------------------------------------------
(* What an action leaves alone *)

Quiet(q) ==
  /\ run'[q] = run[q] /\ calls'[q] = calls[q] /\ sent'[q] = sent[q] /\ age'[q] = age[q]
  /\ pc'[q] = pc[q] /\ made'[q] = made[q] /\ cause'[q] = cause[q]

OnlyApproved(r, q) ==
  \A k \in Proposals :
    \/ proposal'[q][k] = proposal[q][k]
    \/ /\ cause[r] = <<q>>
       /\ proposal'[q][k] = [proposal[q][k] EXCEPT !.review = "approved"]

\* A step of a run changes another one only where it approves its sources.
LEMMA RunFrame ==
  ASSUME TypeOK, NEW r \in Runs, RunStep(r), NEW q \in Runs, q # r
  PROVE  Quiet(q) /\ OnlyApproved(r, q)
<1>1. CASE Starts(r) \/ TimePasses(r) \/ \E k \in Proposals : TakeTarget(r, k)
  BY <1>1 DEF TypeOK, Starts, StartTask, StartRequest, ApproveSources, TimePasses, TakeTarget, Begin,
              Goto, runVars, processVars, Quiet, OnlyApproved
<1>2. CASE WriteStep(r)
  BY <1>2 DEF TypeOK, WriteStep, SaveCandidate, AllSaved, Goto, runVars, Quiet, OnlyApproved
<1>3. CASE Sources(r) \/ CallProvider(r) \/ RecordReceipt(r) \/ Submitted(r)
  BY <1>3 DEF TypeOK, Sources, CallProvider, RecordReceipt, Submitted, Goto, runVars, Quiet, OnlyApproved
<1>4. ASSUME NEW to \in [Proposals -> Candidates], Decided(r, to)
      PROVE  cause'[q] = cause[q] /\ OnlyApproved(r, q)
  <2>1. cause'[q] = cause[q]
    BY <1>4, DecidedProcesses DEF TypeOK
  <2>2. CASE cause[r] # <<q>>
    BY <1>4, <2>1, <2>2, DecidedRows DEF OnlyApproved
  <2>3. CASE cause[r] = <<q>>
    <3>1. proposal'[q] = [proposal[q] EXCEPT ![Package].review = "approved"]
      BY <1>4, <2>3, DecidedRows
    <3>2. proposal[q] \in [Proposals -> Candidates]
      BY DEF TypeOK
    <3> QED
      BY <2>1, <2>3, <3>1, <3>2 DEF OnlyApproved
  <2> QED
    BY <2>2, <2>3
<1>5. made[r] \in [Proposals -> Candidates] /\ proposal[r] \in [Proposals -> Candidates]
  BY DEF TypeOK
<1>6. CASE RecordStart(r) \/ Complete(r) \/ Fail(r)
  <2>1. Decided(r, made[r]) \/ Decided(r, proposal[r])
    BY <1>6 DEF RecordStart, Complete, Fail
  <2>2. /\ run'[q] = run[q] /\ calls'[q] = calls[q] /\ sent'[q] = sent[q] /\ age'[q] = age[q]
        /\ pc'[q] = pc[q] /\ made'[q] = made[q]
    BY <1>6 DEF TypeOK, RecordStart, Complete, Fail, Goto
  <2> QED
    BY <1>4, <1>5, <2>1, <2>2 DEF Quiet
<1>7. CASE Crash(r)
  BY <1>7 DEF TypeOK, Crash, Goto, runVars, Quiet, OnlyApproved
<1> QED
  BY <1>1, <1>2, <1>3, <1>6, <1>7 DEF RunStep, CallStep, EndStep

-----------------------------------------------------------------------------
(* Where the processes are *)

LEMMA ReviewedIsThere ==
  ASSUME Places, NEW r \in Runs, NEW k \in Proposals, proposal[r][k].review # "none"
  PROVE  run[r] \in {"completed", "awaiting_review"} /\ pc[r] = "idle"
  BY NothingIsCandidate DEF Places, PlaceOK, Empty

\* A run that is at work, or has not begun, is not the one whose sources are
\* approved.
LEMMA CauseIsOver ==
  ASSUME Places, Causes, NEW r \in Runs, NEW q \in Runs, cause[r] = <<q>>
  PROVE  run[q] \in {"completed", "awaiting_review"} /\ pc[q] = "idle" /\ q # r
<1>1. proposal[q][Package].review # "none"
  BY DEF Causes
<1>2. run[q] \in {"completed", "awaiting_review"} /\ pc[q] = "idle"
  BY <1>1, PackageIsFirst, ReviewedIsThere
<1>3. cause[q] = <<>>
  BY <1>2 DEF Places, PlaceOK
<1> QED
  BY <1>2, <1>3

LEMMA MovePlaces ==
  ASSUME TypeOK, Places, Causes, NEW r \in Runs, RunStep(r)
  PROVE  PlaceOK(r)'
<1>0. PlaceOK(r) /\ made[r] \in [Proposals -> Candidates] /\ proposal[r] \in [Proposals -> Candidates]
  BY DEF Places, TypeOK
<1>1. CASE Starts(r)
  BY <1>0, <1>1 DEF TypeOK, PlaceOK, Empty, Starts, StartTask, StartRequest, ApproveSources, Begin,
                    Goto, runVars
<1>2. CASE Sources(r)
  <2>1. pc[r] = "sources" /\ pc'[r] \in {"turn", "done"} /\ (pc'[r] = "turn" => made' = made)
    BY <1>2 DEF TypeOK, Sources, Goto
  <2> QED
    BY <1>0, <1>2, <2>1 DEF TypeOK, PlaceOK, Empty, Sources, runVars
<1>3. CASE RecordStart(r)
  <2>1. proposal'[r] = proposal[r] /\ cause' = [cause EXCEPT ![r] = <<>>]
    BY <1>0, <1>3, DecidedRows, DecidedProcesses DEF RecordStart
  <2> QED
    BY <1>0, <1>3, <2>1 DEF TypeOK, PlaceOK, Empty, RecordStart, Goto
<1>4. CASE CallProvider(r)
  BY <1>0, <1>4 DEF TypeOK, PlaceOK, Empty, CallProvider, Goto
<1>5. CASE RecordReceipt(r)
  BY <1>0, <1>5 DEF TypeOK, PlaceOK, Empty, RecordReceipt, Goto
<1>6. CASE Submitted(r)
  <2>1. calls[r] # <<>>
    BY <1>6 DEF Submitted
  <2> QED
    BY <1>0, <1>6, <2>1 DEF TypeOK, PlaceOK, Empty, Submitted, Goto, runVars
<1>7. CASE WriteStep(r)
  BY <1>0, <1>7 DEF TypeOK, PlaceOK, Empty, WriteStep, SaveCandidate, AllSaved, Goto, runVars
<1>8. CASE Complete(r)
  <2>1. cause' = [cause EXCEPT ![r] = <<>>]
    BY <1>0, <1>8, DecidedProcesses DEF Complete
  <2> QED
    BY <1>0, <1>8, <2>1 DEF TypeOK, PlaceOK, Empty, Complete, Goto
<1>9. CASE Fail(r)
  <2>1. proposal'[r] = proposal[r] /\ cause' = [cause EXCEPT ![r] = <<>>]
    BY <1>0, <1>9, DecidedRows, DecidedProcesses DEF Fail
  <2> QED
    BY <1>0, <1>9, <2>1 DEF TypeOK, PlaceOK, Empty, Fail, Goto
<1>10. CASE Crash(r)
  BY <1>0, <1>10 DEF TypeOK, PlaceOK, Empty, Crash, Goto, runVars
<1>11. CASE TimePasses(r) \/ \E k \in Proposals : TakeTarget(r, k)
  BY <1>0, <1>11 DEF TypeOK, PlaceOK, Empty, TimePasses, TakeTarget, runVars, processVars
<1> QED
  BY <1>1, <1>2, <1>3, <1>4, <1>5, <1>6, <1>7, <1>8, <1>9, <1>10, <1>11
     DEF RunStep, CallStep, EndStep

\* A review changes rows of runs that are over, and nothing else of a run.
LEMMA ReviewFrame ==
  ASSUME TypeOK, Rows, NEW u \in Reviewers, ReviewStep(u)
  PROVE  /\ UNCHANGED <<setup, run, calls, sent, age, told, started, processVars>>
         /\ \A q \in Runs, k \in Proposals :
              \/ proposal'[q][k] = proposal[q][k]
              \/ /\ proposal[q][k].review # "none" /\ proposal'[q][k].review # "none"
                 /\ proposal'[q][k].blocked = proposal[q][k].blocked
                 /\ proposal'[q][k].post = "dispatched" => proposal[q][k].post = "dispatched"
<1>1. CASE (\E r \in Runs, k \in Proposals : LookAt(u, r, k)) \/ GiveUp(u)
  BY <1>1 DEF LookAt, GiveUp, taskVars, runVars, brokerVars, processVars
<1>2. CASE \E d \in {"approved", "rejected"} : Resolve(u, d)
  <2>1. PICK d \in {"approved", "rejected"} : Resolve(u, d)
    BY <1>2
  <2>2. told' = told
    BY <2>1, ResolvedRow
  <2>3. UNCHANGED <<setup, run, calls, sent, age, told, started, processVars>>
    BY <2>1, <2>2 DEF Resolve, taskVars
  <2>4. PICK r \in Runs, k \in Proposals, post \in Posts : Writes(r, k, d, post)
    BY <2>1, ResolvedRow
  <2>5. ASSUME NEW q \in Runs, NEW j \in Proposals, proposal'[q][j] # proposal[q][j]
        PROVE  /\ proposal[q][j].review # "none" /\ proposal'[q][j].review # "none"
               /\ proposal'[q][j].blocked = proposal[q][j].blocked
               /\ proposal'[q][j].post = "dispatched" => proposal[q][j].post = "dispatched"
    <3>1. q = r /\ j = k /\ proposal[r][k] \in Candidates
      BY <2>4, <2>5 DEF Writes, TypeOK
    <3>2. proposal'[r][k] = [proposal[r][k] EXCEPT !.review = d, !.post = post]
      BY <2>4 DEF Writes
    <3> QED
      BY <2>4, <3>1, <3>2 DEF Writes, Candidates
  <2> QED
    BY <2>3, <2>5
<1> QED
  BY <1>1, <1>2 DEF ReviewStep

LEMMA NextPlaces == TypeOK /\ Places /\ Causes /\ Rows /\ [Next]_vars => Places'
<1> SUFFICES ASSUME TypeOK, Places, Causes, Rows, [Next]_vars, NEW q \in Runs
             PROVE  PlaceOK(q)'
  BY DEF Places
<1>0. PlaceOK(q)
  BY DEF Places
<1>1. CASE TaskStep
  BY <1>0, <1>1 DEF PlaceOK, Empty, TaskStep, ClockReaches, DispatchDue, Pause, Resume, runVars,
                    processVars
<1>2. CASE Cleanup
  <2>1. /\ run'[q] = IF Deletable(q) THEN "deleted" ELSE run[q]
        /\ calls'[q] = IF age[q] >= 1 THEN <<>> ELSE calls[q]
        /\ age' = age /\ pc' = pc /\ made' = made /\ cause' = cause
    BY <1>2 DEF TypeOK, Cleanup, processVars
  <2>2. Deletable(q) => age[q] # 0
    BY DEF Deletable
  <2>3. ASSUME Empty(proposal[q]) PROVE Empty(proposal'[q])
    BY <1>2, <2>3, CleanupRows, NothingIsCandidate DEF Empty
  <2>4. ASSUME Deletable(q) PROVE Empty(proposal'[q])
    BY <1>2, <2>4 DEF Cleanup, Empty
  <2> QED
    BY <1>0, <2>1, <2>2, <2>3, <2>4 DEF PlaceOK, Empty
<1>3. ASSUME NEW r \in Runs, RunStep(r) PROVE PlaceOK(q)'
  <2>1. CASE q = r
    BY <1>3, <2>1, MovePlaces
  <2>2. CASE q # r
    <3>1. Quiet(q) /\ OnlyApproved(r, q)
      BY <1>3, <2>2, RunFrame
    <3>3. ASSUME NEW k \in Proposals, cause[r] # <<q>> PROVE proposal'[q][k] = proposal[q][k]
      BY <3>1, <3>3 DEF OnlyApproved
    <3>2. run[q] \notin {"completed", "awaiting_review"} => Empty(proposal[q]) /\ cause[r] # <<q>>
      BY <1>0, CauseIsOver DEF PlaceOK
    <3> QED
      BY <1>0, <3>1, <3>2, <3>3 DEF PlaceOK, Empty, Quiet
  <2> QED
    BY <2>1, <2>2
<1>4. ASSUME NEW u \in Reviewers, ReviewStep(u) PROVE PlaceOK(q)'
  <2>1. UNCHANGED <<run, calls, age, pc, made, cause>>
    BY <1>4, ReviewFrame DEF processVars
  <2>2. \A k \in Proposals : proposal'[q][k] = proposal[q][k] \/ proposal[q][k].review # "none"
    BY <1>4, ReviewFrame
  <2> QED
    BY <1>0, <2>1, <2>2, NothingIsCandidate DEF PlaceOK, Empty
<1>5. CASE UNCHANGED vars
  BY <1>0, <1>5 DEF PlaceOK, Empty, vars
<1> QED
  BY <1>1, <1>2, <1>3, <1>4, <1>5, NextCases

-----------------------------------------------------------------------------
(* Sources that are being approved *)

LEMMA NextCauses == TypeOK /\ Places /\ Causes /\ Rows /\ [Next]_vars => Causes'
<1> SUFFICES ASSUME TypeOK, Places, Causes, Rows, [Next]_vars,
                    NEW r \in Runs, NEW q \in Runs, cause'[r] = <<q>>
             PROVE  proposal'[q][Package].review # "none"
  BY DEF Causes
<1>0. Package \in Proposals /\ (cause[r] = <<q>> => proposal[q][Package].review # "none")
  BY PackageIsFirst DEF Causes
<1>1. CASE TaskStep \/ UNCHANGED vars
  BY <1>0, <1>1 DEF TaskStep, ClockReaches, DispatchDue, Pause, Resume, runVars, processVars, vars
<1>2. CASE Cleanup
  <2>1. cause[r] = <<q>> /\ proposal[q][Package] \in Candidates
    BY <1>0, <1>2 DEF Cleanup, processVars, TypeOK
  <2>2. ~Deletable(q)
    <3>1. Held(q) /\ age[q] \in 0..3
      BY <2>1 DEF Held, TypeOK
    <3>2. ~(age[q] >= 1)
      BY <1>2, <3>1 DEF Cleanup
    <3> QED
      BY <3>1, <3>2 DEF Deletable
  <2>3. \/ proposal'[q][Package] = proposal[q][Package]
        \/ proposal'[q][Package] = [proposal[q][Package] EXCEPT !.compact = TRUE]
    BY <1>0, <1>2, <2>2, CleanupRows
  <2> QED
    BY <1>0, <2>1, <2>3 DEF Candidates
<1>3. ASSUME NEW s \in Runs, RunStep(s) PROVE proposal'[q][Package].review # "none"
  <2>1. CASE cause[r] = <<q>>
    <3>1. CASE q = s
      <4>1. pc[s] = "idle" /\ run[s] \in {"completed", "awaiting_review"}
        BY <2>1, <3>1, CauseIsOver
      <4>2. proposal' = proposal
        BY <1>3, <4>1 DEF RunStep, Starts, StartTask, StartRequest, ApproveSources, Begin, CallStep,
             Sources, RecordStart, CallProvider, RecordReceipt, Submitted, WriteStep, SaveCandidate,
             AllSaved, EndStep, Complete, Fail, Crash, TimePasses, TakeTarget, runVars
      <4> QED
        BY <1>0, <2>1, <4>2
    <3>2. CASE q # s
      <4>1. \/ proposal'[q][Package] = proposal[q][Package]
            \/ proposal'[q][Package] = [proposal[q][Package] EXCEPT !.review = "approved"]
        BY <1>0, <1>3, <3>2, RunFrame DEF OnlyApproved
      <4>2. proposal[q][Package] \in Candidates
        BY <1>0 DEF TypeOK
      <4> QED
        BY <1>0, <2>1, <4>1, <4>2 DEF Candidates
    <3> QED
      BY <3>1, <3>2
  <2>2. CASE cause[r] # <<q>>
    <3>1. r = s
      BY <1>3, <2>2, RunFrame DEF Quiet
    <3>2. PICK u \in Reviewers : ApproveSources(u, r)
      <4>1. proposal[r] \in [Proposals -> Candidates] /\ made[r] \in [Proposals -> Candidates]
        BY DEF TypeOK
      <4>2. ASSUME NEW to, Decided(r, to) PROVE FALSE
        <5>1. cause' = [cause EXCEPT ![r] = <<>>]
          BY <4>2, DecidedProcesses
        <5> QED
          BY <5>1, NoCause DEF TypeOK
      <4>3. ~Complete(r) /\ ~Fail(r) /\ ~RecordStart(r)
        BY <4>1, <4>2 DEF Complete, Fail, RecordStart
      <4>4. ~StartTask(r) /\ ~StartRequest(r) /\ ~Crash(r)
        BY NoCause DEF TypeOK, StartTask, StartRequest, Begin, Crash
      <4>5. cause' # cause
        BY <2>2
      <4> QED
        BY <1>3, <3>1, <4>3, <4>4, <4>5 DEF RunStep, Starts, CallStep, Sources, CallProvider,
             RecordReceipt, Submitted, WriteStep, SaveCandidate, AllSaved, EndStep, TimePasses,
             TakeTarget, processVars
    <3>3. cause' = [cause EXCEPT ![r] = <<seen[u][1]>>] /\ proposal' = proposal
          /\ proposal[seen[u][1]][Package].review # "none"
      BY <3>2 DEF ApproveSources, Begin, runVars
    <3> QED
      BY <3>3 DEF TypeOK
  <2> QED
    BY <2>1, <2>2
<1>4. ASSUME NEW u \in Reviewers, ReviewStep(u) PROVE proposal'[q][Package].review # "none"
  <2>1. cause' = cause
    BY <1>4, ReviewFrame DEF processVars
  <2>2. \/ proposal'[q][Package] = proposal[q][Package]
        \/ proposal'[q][Package].review # "none"
    BY <1>0, <1>4, ReviewFrame
  <2> QED
    BY <1>0, <2>1, <2>2
<1> QED
  BY <1>1, <1>2, <1>3, <1>4, NextCases

-----------------------------------------------------------------------------
(* The calls *)

NonePending(s, n) == \A i \in 1..n : s[i] # "pending"


LEMMA FewerPending ==
  ASSUME NEW s, NEW n \in Nat, NonePending(s, n)
  PROVE  NonePending(s, n - 1)
  BY DEF NonePending

LEMMA MoveCalls ==
  ASSUME TypeOK, Places, NEW r \in Runs, CallsOK(r), RunStep(r)
  PROVE  CallsOK(r)'
<1> DEFINE n == Len(calls[r])
<1>0. PlaceOK(r) /\ calls[r] \in Seq(Steps) /\ n \in Nat /\ sent[r] \in Nat
  BY DEF Places, TypeOK
<1>1. CASE Starts(r)
  <2>1. calls[r] = <<>> /\ pc[r] = "idle" /\ run[r] = "none"
    BY <1>0, <1>1 DEF PlaceOK, Starts, StartTask, StartRequest, ApproveSources, Begin
  <2>2. calls' = calls /\ sent' = sent /\ pc'[r] \in {"sources", "turn"}
    BY <1>1 DEF Starts, StartTask, StartRequest, ApproveSources, Begin, Goto, runVars, TypeOK
  <2> QED
    BY <2>1, <2>2 DEF CallsOK
<1>2. CASE RecordStart(r)
  <2>1. /\ pc'[r] = "dispatch" /\ run'[r] = "running" /\ sent' = sent
        /\ calls'[r] = Append(calls[r], "pending") /\ pc[r] = "turn"
    BY <1>2 DEF RecordStart, Goto, TypeOK
  <2>2. "pending" \in Steps
    BY DEF Steps
  <2>3. Len(calls'[r]) = n + 1 /\ \A i \in 1..n : calls'[r][i] = calls[r][i]
    BY <1>0, <2>1, <2>2
  <2>4. NonePending(calls[r], n) /\ sent[r] <= n
    BY <2>1 DEF CallsOK, NonePending
  <2>5. NonePending(calls'[r], n)
    BY <2>3, <2>4 DEF NonePending
  <2> QED
    BY <1>0, <2>1, <2>3, <2>4, <2>5 DEF CallsOK, NonePending
<1>3. CASE CallProvider(r)
  <2>1. /\ pc[r] = "dispatch" /\ pc'[r] = "wait" /\ calls' = calls /\ run' = run
        /\ sent'[r] = sent[r] + 1
    BY <1>3 DEF CallProvider, Goto, TypeOK
  <2>2. run[r] = "running"
    BY <1>0, <2>1 DEF PlaceOK
  <2>3. sent[r] < n /\ sent'[r] <= n
    BY <1>0, <2>1 DEF CallsOK
  <2> QED
    BY <2>1, <2>2, <2>3 DEF CallsOK
<1>4. CASE RecordReceipt(r)
  <2>1. PICK status \in Steps \ {"pending"} : calls' = [calls EXCEPT ![r][Len(calls[r])] = status]
    BY <1>4 DEF RecordReceipt
  <2>2. pc[r] = "wait" /\ pc'[r] = "turn" /\ run' = run /\ sent' = sent /\ calls[r] # <<>>
    BY <1>4 DEF RecordReceipt, Goto, TypeOK
  <2>3. calls'[r] = [calls[r] EXCEPT ![n] = status]
    BY <2>1 DEF TypeOK
  <2>4. n \in 1..n
    BY <1>0, <2>2, LastIsInSequence
  <2>5. /\ Len(calls'[r]) = n
        /\ \A i \in 1..n : calls'[r][i] = IF i = n THEN status ELSE calls[r][i]
    BY <1>0, <2>3, <2>4, ExceptSeq
  <2>6. NonePending(calls[r], n - 1) /\ sent[r] <= n
    BY <2>2 DEF CallsOK, NonePending
  <2>7. NonePending(calls'[r], n)
    BY <1>0, <2>5, <2>6 DEF NonePending
  <2>8. NonePending(calls'[r], n - 1)
    BY <1>0, <2>7, FewerPending
  <2> QED
    BY <2>2, <2>5, <2>6, <2>7, <2>8 DEF CallsOK, NonePending
<1>5. CASE Sources(r) \/ Submitted(r) \/ WriteStep(r)
  <2>1. /\ pc[r] \in {"sources", "turn", "write"} /\ pc'[r] \in {"turn", "write", "done"}
        /\ calls' = calls /\ run' = run /\ sent' = sent
    BY <1>5 DEF Sources, Submitted, WriteStep, SaveCandidate, AllSaved, Goto, runVars, TypeOK
  <2> QED
    BY <1>0, <2>1 DEF CallsOK
<1>6. CASE Complete(r) \/ Fail(r)
  <2>1. /\ pc[r] \in {"sources", "turn", "write", "done"} /\ pc'[r] = "idle"
        /\ calls' = calls /\ sent' = sent
    BY <1>6 DEF Complete, Fail, Goto, TypeOK
  <2> QED
    BY <2>1 DEF CallsOK
<1>7. CASE Crash(r)
  <2>1. pc[r] # "idle" /\ pc'[r] = "idle" /\ calls' = calls /\ sent' = sent /\ run' = run
    BY <1>7 DEF Crash, Goto, TypeOK, runVars
  <2>2. run[r] \in {"none", "running"}
    BY <1>0, <2>1 DEF PlaceOK
  <2> QED
    BY <2>1, <2>2 DEF CallsOK
<1>8. CASE TimePasses(r) \/ \E k \in Proposals : TakeTarget(r, k)
  BY <1>8 DEF CallsOK, TimePasses, TakeTarget, runVars, processVars
<1> QED
  BY <1>1, <1>2, <1>3, <1>4, <1>5, <1>6, <1>7, <1>8 DEF RunStep, CallStep, EndStep

LEMMA NextCalls == TypeOK /\ Places /\ Calls /\ Rows /\ [Next]_vars => Calls'
<1> SUFFICES ASSUME TypeOK, Places, Calls, Rows, [Next]_vars, NEW q \in Runs
             PROVE  CallsOK(q)'
  BY DEF Calls
<1>0. CallsOK(q)
  BY DEF Calls
<1>1. CASE TaskStep \/ UNCHANGED vars
  BY <1>0, <1>1 DEF CallsOK, TaskStep, ClockReaches, DispatchDue, Pause, Resume, runVars,
                    processVars, vars
<1>2. CASE Cleanup
  <2>1. /\ run'[q] = run[q] \/ run'[q] = "deleted"
        /\ age[q] >= 1 => calls'[q] = <<>> /\ sent'[q] = 0
        /\ ~(age[q] >= 1) => calls'[q] = calls[q] /\ sent'[q] = sent[q]
        /\ pc' = pc
    BY <1>2 DEF TypeOK, Cleanup, processVars
  <2>2. age[q] >= 1 => pc[q] = "idle"
    BY DEF Places, PlaceOK
  <2> QED
    BY <1>0, <2>1, <2>2 DEF CallsOK
<1>3. ASSUME NEW r \in Runs, RunStep(r) PROVE CallsOK(q)'
  <2>1. CASE q = r
    BY <1>0, <1>3, <2>1, MoveCalls
  <2>2. CASE q # r
    BY <1>0, <1>3, <2>2, RunFrame DEF CallsOK, Quiet
  <2> QED
    BY <2>1, <2>2
<1>4. ASSUME NEW u \in Reviewers, ReviewStep(u) PROVE CallsOK(q)'
  BY <1>0, <1>4, ReviewFrame DEF CallsOK, processVars
<1> QED
  BY <1>1, <1>2, <1>3, <1>4, NextCases

-----------------------------------------------------------------------------
(* Rows and messages *)

\* What becomes of the rows of a run that takes a step.
LEMMA RowMoves ==
  ASSUME TypeOK, NEW r \in Runs, RunStep(r), NEW k \in Proposals
  PROVE  /\ proposal'[r][k] \in {proposal[r][k], made[r][k]}
         /\ \/ made'[r][k] \in {made[r][k], Nothing} \cup Outcomes
            \/ made'[r][k] = [made[r][k] EXCEPT !.review = "pending"]
<1>0. made[r] \in [Proposals -> Candidates] /\ proposal[r] \in [Proposals -> Candidates]
  BY DEF TypeOK
<1>1. CASE Starts(r) \/ TimePasses(r) \/ \E j \in Proposals : TakeTarget(r, j)
  BY <1>1 DEF Starts, StartTask, StartRequest, ApproveSources, Begin, TimePasses, TakeTarget, runVars,
              processVars
<1>2. CASE CallProvider(r) \/ RecordReceipt(r) \/ Submitted(r) \/ AllSaved(r)
  BY <1>2 DEF CallProvider, RecordReceipt, Submitted, AllSaved, runVars
<1>3. CASE Sources(r)
  <2>1. proposal' = proposal /\ (made' = made \/ made' = [made EXCEPT ![r][Package].review = "pending"])
    BY <1>3 DEF Sources, runVars
  <2>2. CASE made' = [made EXCEPT ![r][Package].review = "pending"]
    <3>1. made'[r] = [made[r] EXCEPT ![Package].review = "pending"]
      BY <2>2 DEF TypeOK
    <3>2. made'[r][k] = made[r][k] \/ made'[r][k] = [made[r][k] EXCEPT !.review = "pending"]
      BY <1>0, <3>1
    <3> QED
      BY <2>1, <3>2
  <2> QED
    BY <2>1, <2>2
<1>4. CASE RecordStart(r)
  BY <1>0, <1>4, DecidedRows DEF RecordStart
<1>5. CASE SaveCandidate(r)
  <2>1. PICK j \in Proposals, c \in Outcomes : made' = [made EXCEPT ![r][j] = c]
    BY <1>5 DEF SaveCandidate
  <2> QED
    BY <1>0, <1>5, <2>1 DEF TypeOK, SaveCandidate, runVars
<1>6. CASE Complete(r) \/ Fail(r)
  <2>1. proposal'[r] \in {proposal[r], made[r]}
    BY <1>0, <1>6, DecidedRows DEF Complete, Fail
  <2>2. made'[r] = [j \in Proposals |-> Nothing]
    BY <1>6 DEF TypeOK, Complete, Fail
  <2> QED
    BY <2>1, <2>2
<1>7. CASE Crash(r)
  BY <1>7 DEF TypeOK, Crash, runVars
<1> QED
  BY <1>1, <1>2, <1>3, <1>4, <1>5, <1>6, <1>7 DEF RunStep, CallStep, WriteStep, EndStep

LEMMA SetupStays == [Next]_vars => setup' = setup
  BY DEF Next, Work, ClockReaches, DispatchDue, Pause, Resume, StartTask, StartRequest, Sources,
         RecordStart, CallProvider, RecordReceipt, Submitted, SaveCandidate, AllSaved, Complete, Fail,
         Crash, TakeTarget, LookAt, Resolve, GiveUp, ApproveSources, TimePasses, Cleanup, taskVars, vars

\* A row is as harmless as one with the same post and flag.
LEMMA RowSame ==
  ASSUME NEW a, NEW b, RowOK(a), setup' = setup, b.blocked = a.blocked,
         b.post = "dispatched" => a.post = "dispatched"
  PROVE  RowOK(b)'
  BY DEF RowOK, Publishes, Kept

LEMMA NextRows == TypeOK /\ Rows /\ [Next]_vars => Rows'
<1> SUFFICES ASSUME TypeOK, Rows, [Next]_vars PROVE Rows'
  OBVIOUS
<1>0. setup' = setup
  BY SetupStays
<1>n. \A c \in Candidates : c.post # "dispatched" => RowOK(c)
  BY DEF RowOK
<1>1. ASSUME NEW q \in Runs, NEW k \in Proposals
      PROVE  RowOK(proposal[q][k])' /\ RowOK(made[q][k])'
  <2>0. /\ RowOK(proposal[q][k]) /\ RowOK(made[q][k])
        /\ proposal[q][k] \in Candidates /\ made[q][k] \in Candidates
    BY DEF Rows, TypeOK
  <2>1. CASE TaskStep \/ UNCHANGED vars
    BY <1>0, <2>0, <2>1, RowSame DEF TaskStep, ClockReaches, DispatchDue, Pause, Resume, runVars,
                                     processVars, vars
  <2>2. CASE Cleanup
    <3>1. \/ proposal'[q][k] = proposal[q][k] \/ proposal'[q][k] = Nothing
          \/ proposal'[q][k] = [proposal[q][k] EXCEPT !.compact = TRUE]
      BY <2>2, CleanupRows
    <3>2. made' = made
      BY <2>2 DEF Cleanup, processVars
    <3> QED
      BY <1>0, <2>0, <3>1, <3>2, NothingIsCandidate DEF RowOK, Publishes, Kept, Candidates
  <2>3. ASSUME NEW r \in Runs, RunStep(r) PROVE RowOK(proposal[q][k])' /\ RowOK(made[q][k])'
    <3>1. CASE q = r
      <4>1. proposal'[q][k] \in {proposal[q][k], made[q][k]}
        BY <2>3, <3>1, RowMoves
      <4>2. \/ made'[q][k] \in {made[q][k], Nothing} \cup Outcomes
            \/ made'[q][k] = [made[q][k] EXCEPT !.review = "pending"]
        BY <2>3, <3>1, RowMoves
      <4>3. made'[q][k] \in Outcomes => RowOK(made'[q][k])
        BY OutcomesAllowed DEF TypeOK
      <4> QED
        BY <1>0, <2>0, <4>1, <4>2, <4>3, NothingIsCandidate DEF RowOK, Publishes, Kept, Candidates
    <3>2. CASE q # r
      <4>1. \/ proposal'[q][k] = proposal[q][k]
            \/ proposal'[q][k] = [proposal[q][k] EXCEPT !.review = "approved"]
        BY <2>3, <3>2, RunFrame DEF OnlyApproved
      <4>2. made'[q][k] = made[q][k]
        BY <2>3, <3>2, RunFrame DEF Quiet
      <4> QED
        BY <1>0, <2>0, <4>1, <4>2 DEF RowOK, Publishes, Kept, Candidates
    <3> QED
      BY <3>1, <3>2
  <2>4. ASSUME NEW u \in Reviewers, ReviewStep(u)
        PROVE  RowOK(proposal[q][k])' /\ RowOK(made[q][k])'
    <3>1. /\ proposal'[q][k].blocked = proposal[q][k].blocked
          /\ proposal'[q][k].post = "dispatched" => proposal[q][k].post = "dispatched"
          /\ made' = made
      BY <2>4, ReviewFrame DEF processVars
    <3> QED
      BY <1>0, <2>0, <3>1, RowSame
  <2> QED
    BY <2>1, <2>2, <2>3, <2>4, NextCases
<1>2. ASSUME NEW u \in Reviewers, seen'[u] # <<>> PROVE RowOK(seen[u][3])'
  <2>0. seen'[u] = seen[u] => RowOK(seen[u][3])
    BY <1>2 DEF Rows
  <2>1. \/ seen'[u] = seen[u]
        \/ \E r \in Runs, k \in Proposals : seen'[u] = <<r, k, proposal[r][k]>>
    <3>1. CASE \E w \in Reviewers, r \in Runs, k \in Proposals : LookAt(w, r, k)
      BY <3>1 DEF LookAt, TypeOK
    <3>2. CASE \E w \in Reviewers : seen' = [seen EXCEPT ![w] = <<>>]
      BY <1>2, <3>2 DEF TypeOK
    <3>3. CASE seen' = seen
      BY <3>3
    <3> QED
      BY <3>1, <3>2, <3>3 DEF Next, Work, ClockReaches, DispatchDue, Pause, Resume, StartTask,
         StartRequest, Sources, RecordStart, CallProvider, RecordReceipt, Submitted, SaveCandidate,
         AllSaved, Complete, Fail, Crash, TakeTarget, Resolve, GiveUp, ApproveSources, TimePasses,
         Cleanup, vars
  <2>2. CASE seen'[u] = seen[u]
    BY <1>0, <2>0, <2>2, RowSame
  <2>3. ASSUME NEW r \in Runs, NEW k \in Proposals, seen'[u] = <<r, k, proposal[r][k]>>
        PROVE  RowOK(seen[u][3])'
    BY <1>0, <2>3, RowSame DEF Rows
  <2> QED
    BY <2>1, <2>2, <2>3
<1> QED
  BY <1>1, <1>2 DEF Rows

LEMMA NextMessages ==
  TypeOK /\ Places /\ Causes /\ Rows /\ Messages /\ [Next]_vars => Messages'
<1> SUFFICES ASSUME TypeOK, Places, Causes, Rows, Messages, [Next]_vars, NEW q \in Runs,
                    NEW k \in Proposals, <<q, k>> \in told' \cup started'
             PROVE  MessageOK(q, k)'
  BY DEF Messages
<1>0. setup' = setup
  BY SetupStays
<1>1. CASE <<q, k>> \in told \cup started
  <2>0. MessageOK(q, k) /\ proposal[q][k] \in Candidates /\ made[q][k] \in Candidates
    BY <1>1 DEF Messages, TypeOK
  <2>1. CASE TaskStep \/ UNCHANGED vars
    BY <1>0, <2>0, <2>1 DEF MessageOK, Publishes, Kept, TaskStep, ClockReaches, DispatchDue, Pause,
                            Resume, runVars, processVars, vars
  <2>2. CASE Cleanup
    <3>1. proposal'[q][k].blocked = proposal[q][k].blocked \/ ~proposal'[q][k].blocked
      <4>1. \/ proposal'[q][k] = proposal[q][k] \/ proposal'[q][k] = Nothing
            \/ proposal'[q][k] = [proposal[q][k] EXCEPT !.compact = TRUE]
        BY <2>2, CleanupRows
      <4> QED
        BY <2>0, <4>1, NothingIsCandidate DEF Candidates
    <3>2. made' = made /\ pc' = pc /\ (run'[q] = run[q] \/ run'[q] = "deleted")
      BY <2>2 DEF TypeOK, Cleanup, processVars
    <3> QED
      BY <1>0, <2>0, <3>1, <3>2 DEF MessageOK, Publishes, Kept
  <2>3. ASSUME NEW r \in Runs, RunStep(r) PROVE MessageOK(q, k)'
    <3>1. CASE q # r
      <4>1. Quiet(q) /\ OnlyApproved(r, q)
        BY <2>3, <3>1, RunFrame
      <4>2. proposal'[q][k].blocked = proposal[q][k].blocked
        BY <2>0, <4>1 DEF OnlyApproved, Candidates
      <4> QED
        BY <1>0, <2>0, <4>1, <4>2 DEF MessageOK, Publishes, Kept, Quiet
    <3>2. CASE q = r
      <4>0. proposal[q] \in [Proposals -> Candidates] /\ made[q] \in [Proposals -> Candidates]
        BY DEF TypeOK
      <4>1. ~Starts(r) /\ ~CallStep(r)
        BY <2>0, <3>2 DEF MessageOK, Starts, StartTask, StartRequest, ApproveSources, Begin, CallStep,
                          Sources, RecordStart, CallProvider, RecordReceipt, Submitted
      <4>2. CASE SaveCandidate(r)
        <5>1. PICK j \in Proposals, c \in Outcomes :
                made[r][j] = Nothing /\ made' = [made EXCEPT ![r][j] = c]
          BY <4>2 DEF SaveCandidate
        <5>2. pc[r] = "write" /\ pc' = pc /\ run' = run /\ proposal' = proposal
          BY <4>2 DEF SaveCandidate, runVars
        <5>3. j # k
          BY <2>0, <3>2, <5>1, <5>2 DEF MessageOK
        <5>4. made'[r][k] = made[r][k]
          BY <3>2, <4>0, <5>1, <5>3 DEF TypeOK
        <5> QED
          BY <1>0, <2>0, <3>2, <5>2, <5>4 DEF MessageOK, Publishes, Kept
      <4>3. CASE AllSaved(r)
        BY <1>0, <2>0, <3>2, <4>3 DEF MessageOK, Publishes, Kept, AllSaved, Goto, runVars, TypeOK
      <4>4. CASE EndStep(r)
        <5>1. /\ pc'[r] = "idle" /\ made'[r][k] = Nothing
              /\ run'[r] # "none"
          BY <2>0, <3>2, <4>4 DEF MessageOK, EndStep, Complete, Fail, Crash, Goto, runVars, TypeOK
        <5>2. proposal'[r][k] \in {proposal[r][k], made[r][k]}
          BY <2>3, RowMoves
        <5> QED
          BY <1>0, <2>0, <3>2, <5>1, <5>2, NothingIsCandidate DEF MessageOK, Publishes, Kept
      <4>5. CASE TimePasses(r) \/ \E j \in Proposals : TakeTarget(r, j)
        BY <1>0, <2>0, <4>5 DEF MessageOK, Publishes, Kept, TimePasses, TakeTarget, runVars, processVars
      <4> QED
        BY <2>3, <4>1, <4>2, <4>3, <4>4, <4>5 DEF RunStep, WriteStep
    <3> QED
      BY <3>1, <3>2
  <2>4. ASSUME NEW u \in Reviewers, ReviewStep(u) PROVE MessageOK(q, k)'
    <3>1. proposal'[q][k].blocked = proposal[q][k].blocked /\ UNCHANGED <<run, pc, made>>
      BY <2>4, ReviewFrame DEF processVars
    <3> QED
      BY <1>0, <2>0, <3>1 DEF MessageOK, Publishes, Kept
  <2> QED
    BY <2>1, <2>2, <2>3, <2>4, NextCases
<1>2. CASE <<q, k>> \notin told \cup started
  <2>1. ~(TaskStep \/ UNCHANGED vars \/ Cleanup)
    BY <1>2 DEF TaskStep, ClockReaches, DispatchDue, Pause, Resume, Cleanup, brokerVars, vars
  <2>2. ASSUME NEW u \in Reviewers, ReviewStep(u) PROVE FALSE
    BY <1>2, <2>2, ReviewFrame
  <2>3. PICK r \in Runs : RunStep(r)
    BY <2>1, <2>2, NextCases
  <2>4. ~Starts(r) /\ ~CallStep(r) /\ ~AllSaved(r) /\ ~EndStep(r) /\ ~TimePasses(r)
    BY <1>2 DEF Starts, StartTask, StartRequest, ApproveSources, CallStep, Sources, RecordStart,
                CallProvider, RecordReceipt, Submitted, AllSaved, EndStep, Complete, Fail, Crash,
                TimePasses, brokerVars
  <2>5. ASSUME NEW j \in Proposals, TakeTarget(r, j) PROVE FALSE
    BY <1>2, <2>5 DEF TakeTarget
  <2>6. SaveCandidate(r)
    BY <2>3, <2>4, <2>5 DEF RunStep, WriteStep
  <2>7. PICK j \in Proposals, c \in Outcomes :
          /\ made' = [made EXCEPT ![r][j] = c]
          /\ told' = IF c.post = "dispatched" THEN told \cup {<<r, j>>} ELSE told
    BY <2>6 DEF SaveCandidate
  <2>8. pc[r] = "write" /\ pc' = pc /\ run' = run /\ proposal' = proposal /\ started' = started
    BY <2>6 DEF SaveCandidate, runVars
  <2>9. r = q /\ j = k /\ c.post = "dispatched"
    BY <1>2, <2>7, <2>8
  <2>10. c \in Candidates /\ c # Nothing /\ RowOK(c)
    BY OutcomesAllowed DEF TypeOK
  <2>11. made'[q][k] = c
    BY <2>7, <2>9 DEF TypeOK
  <2>12. run[q] = "running" /\ proposal[q][k] = Nothing
    BY <2>8, <2>9 DEF Places, PlaceOK, Empty
  <2> QED
    BY <1>0, <2>8, <2>9, <2>10, <2>11, <2>12, NothingIsCandidate
       DEF MessageOK, Publishes, Kept, RowOK
<1> QED
  BY <1>1, <1>2

-----------------------------------------------------------------------------
(* Theorems *)

LEMMA InitIInv == Init => IInv
<1> SUFFICES ASSUME Init PROVE IInv
  OBVIOUS
<1>1. TypeOK
  BY InitTypeOK
<1>2. Places
  BY DEF Init, Places, PlaceOK, Empty
<1>3. Causes /\ Messages
  BY NoCause DEF Init, Causes, Messages
<1>4. Calls
  BY DEF Init, Calls, CallsOK
<1>5. Rows
  BY NothingIsCandidate DEF Init, Rows, RowOK
<1> QED
  BY <1>1, <1>2, <1>3, <1>4, <1>5 DEF IInv

LEMMA NextIInv == IInv /\ [Next]_vars => IInv'
  BY NextTypeOK, NextPlaces, NextCauses, NextCalls, NextRows, NextMessages DEF IInv

LEMMA Invariance == Spec => []IInv
<1>1. Init => IInv
  BY InitIInv
<1>2. IInv /\ [Next]_vars => IInv'
  BY NextIInv
<1> QED
  BY <1>1, <1>2, PTL DEF Spec

\* Every reachable state of the runs, their calls, proposals, reviews and
\* messages is well typed: a review that a request has read is one of a run.
THEOREM TypeCorrect == Spec => []TypeOK
<1>1. IInv => TypeOK
  BY DEF IInv
<1> QED
  BY <1>1, Invariance, PTL

\* Nothing reaches process_target that the autonomy policy of the task keeps for
\* people, and no topic that the guardrails have blocked: whoever approves what,
\* how often, and whatever cleanup has left of the review item.
THEOREM DispatchFollowsPolicy == Spec => []DispatchIsAllowed
<1>1. IInv => DispatchIsAllowed
  <2> SUFFICES ASSUME IInv, NEW m \in told \cup started
               PROVE  /\ setup.policy = "guarded_auto_publish" /\ ~setup.editorial
                      /\ setup.mode = "topic_scout" =>
                           ~proposal[m[1]][m[2]].blocked /\ ~made[m[1]][m[2]].blocked
    BY DEF DispatchIsAllowed
  <2>1. PICK r \in Runs, k \in Proposals : m = <<r, k>>
    BY DEF IInv, TypeOK
  <2>2. MessageOK(r, k)
    BY <2>1 DEF IInv, Messages
  <2> QED
    BY <2>1, <2>2 DEF MessageOK, Publishes, Kept
<1> QED
  BY <1>1, Invariance, PTL

\* The provider never has a call of which run_trace_json has no committed step,
\* and a run that has ended knows what became of each of its calls.
THEOREM EveryCallIsRecorded == Spec => []CallsAreRecorded
<1>1. IInv => CallsAreRecorded
  <2> SUFFICES ASSUME IInv, NEW r \in Runs
               PROVE  /\ sent[r] <= Len(calls[r])
                      /\ run[r] \in {"completed", "failed", "awaiting_review"} =>
                           \A i \in DOMAIN calls[r] : calls[r][i] # "pending"
    BY DEF CallsAreRecorded
  <2>1. CallsOK(r) /\ calls[r] \in Seq(Steps)
    BY DEF IInv, Calls, TypeOK
  <2>2. DOMAIN calls[r] = 1..Len(calls[r])
    BY <2>1
  <2> QED
    BY <2>1, <2>2 DEF CallsOK
<1> QED
  BY <1>1, Invariance, PTL

\* A run that failed has left no candidate, review or post: its savepoint is
\* rolled back, and nobody reviews what is not there.
THEOREM FailureLeavesNothing == Spec => []FailedLeavesNothing
<1>1. IInv => FailedLeavesNothing
  BY DEF IInv, Places, PlaceOK, Empty, FailedLeavesNothing
<1> QED
  BY <1>1, Invariance, PTL

\* next_run_at of an active task moves on only with a run of the task that
\* completes, not with a failure, a crash or a run of somebody else.
THEOREM DueOccurrencesAreKept == Spec => DueIsNotLost
<1>1. IInv /\ [Next]_vars =>
        [active /\ next = "due" /\ next' = "later" =>
           \E r \in Runs : /\ byTask[r] /\ run[r] # run'[r]
                           /\ run'[r] \in {"completed", "awaiting_review"}]_vars
  <2> SUFFICES ASSUME IInv, Next, active, next = "due", next' = "later"
               PROVE  \E r \in Runs : /\ byTask[r] /\ run[r] # run'[r]
                                      /\ run'[r] \in {"completed", "awaiting_review"}
    OBVIOUS
  <2>1. PICK r \in Runs : Complete(r) /\ byTask[r]
    <3>1. next' # next
      OBVIOUS
    <3> QED
      BY <3>1 DEF Next, Work, ClockReaches, DispatchDue, Pause, Resume, StartTask, StartRequest,
         Sources, RecordStart, CallProvider, RecordReceipt, Submitted, SaveCandidate, AllSaved, Complete,
         Fail, Crash, TakeTarget, LookAt, Resolve, GiveUp, ApproveSources, TimePasses, Cleanup, taskVars
  <2>2. run[r] \in {"none", "running"}
    BY <2>1 DEF IInv, Places, PlaceOK, Complete
  <2>3. run'[r] \in {"completed", "awaiting_review"}
    BY <2>1 DEF IInv, TypeOK, Complete
  <2> QED
    BY <2>1, <2>2, <2>3
<1> QED
  BY <1>1, Invariance, PTL DEF Spec, DueIsNotLost

=============================================================================

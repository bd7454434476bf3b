------------------------------ MODULE AgentRuns ------------------------------
(***************************************************************************)
(* Runs of the editorial agent, from the due task or the request to the    *)
(* posts they leave, and the people who review what they propose.          *)
(*                                                                         *)
(* A run asks the model in paid calls, each of which is committed before   *)
(* it is made and again when its receipt is in; what the run proposes is   *)
(* then written in one savepoint of one transaction, which the caller      *)
(* commits.  The autonomy policy says what becomes of a proposal: it waits *)
(* for a review, becomes a draft, a plan, or is sent to the publication    *)
(* worker.  Cleanup deletes what is old.                                   *)
(*                                                                         *)
(* Proposal 0 of a run is its source package, which is reviewed before     *)
(* anything is written.                                                    *)
(***************************************************************************)
EXTENDS Naturals, Sequences, FiniteSets

CONSTANTS
  Runs,         \* agent_runs
  NoRun,
  Reviewers,    \* requests that resolve a review item
  MaxProposals, \* candidates of a run
  MaxCalls,     \* paid calls of a run: agent_sdk_max_turns
  MaxAge        \* how many of the three cutoffs time passes

ASSUME LimitsAssumption == MaxProposals \in Nat \ {0} /\ MaxCalls \in Nat \ {0} /\ MaxAge \in 0..3
ASSUME NoRunAssumption == NoRun \notin Runs

Modes == {"topic_scout", "post_copilot"}
Policies == {"full_manual", "draft_approval", "plan_approval", "guarded_auto_publish"}

\* The task: whether it edits a post that exists, has its sources approved, and
\* belongs to a Postbridge channel, whose posts stay drafts.
Setups == [mode : Modes, policy : Policies, attached : BOOLEAN, ask : BOOLEAN, editorial : BOOLEAN]

Package == 0
Proposals == Package..MaxProposals
Posts == {"none", "draft", "plan", "dispatched", "updated"}
Reviews == {"none", "pending", "approved", "rejected"}

\* A candidate with its review item, and the post that was made of it.
Candidates == [review : Reviews, post : Posts, blocked : BOOLEAN, compact : BOOLEAN]
Nothing == [review |-> "none", post |-> "none", blocked |-> FALSE, compact |-> FALSE]

VARIABLES
  setup,     \* what the task is
  next,      \* its next_run_at: "none", "later" or "due"
  active,    \* its status is active
  queue,     \* run_task messages
  run,       \* agent_runs.status
  calls,     \* the provider steps of a run
  sent,      \* how many calls the provider has got
  proposal,  \* candidates, reviews and posts of a run
  age,       \* cutoffs a run is older than: 1 trace, 2 run, 3 review
  told,      \* publication messages under way: <<run, proposal>>
  started,   \* posts that a publication worker has found
  pc,        \* where the process of a run is
  byTask,    \* the run is one of the task
  made,      \* what its transaction has written
  cause,     \* the review whose approval it follows, not committed yet: <<run>> or <<>>
  parent,    \* the run whose sources were approved for it
  seen       \* what a reviewer has read: <<run, proposal, row>> or <<>>

taskVars == <<setup, next, active, queue>>
runVars == <<run, calls, sent, proposal>>
brokerVars == <<told, started>>
processVars == <<pc, byTask, made, cause, parent>>
vars == <<setup, next, active, queue, run, calls, sent, proposal, age, told, started,
          pc, byTask, made, cause, parent, seen>>

Steps == {"pending", "ok", "error", "warning"}

TypeOK ==
  /\ setup \in Setups
  /\ next \in {"none", "later", "due"}
  /\ active \in BOOLEAN
  /\ queue \in Nat
  /\ run \in [Runs -> {"none", "running", "awaiting_review", "completed", "failed", "deleted"}]
  /\ calls \in [Runs -> Seq(Steps)]
  /\ sent \in [Runs -> Nat]
  /\ proposal \in [Runs -> [Proposals -> Candidates]]
  /\ age \in [Runs -> 0..3]
  /\ told \subseteq Runs \X Proposals
  /\ started \subseteq Runs \X Proposals
  /\ pc \in [Runs -> {"idle", "sources", "turn", "dispatch", "wait", "write", "done"}]
  /\ byTask \in [Runs -> BOOLEAN]
  /\ made \in [Runs -> [Proposals -> Candidates]]
  /\ cause \in [Runs -> {<<>>} \cup {<<r>> : r \in Runs}]
  /\ parent \in [Runs -> Runs \cup {NoRun}]
  /\ seen \in [Reviewers -> {<<>>} \cup (Runs \X Proposals \X Candidates)]

\* Only the editor has a post and sources to approve; it makes one proposal.
Sensible(s) == s.mode = "topic_scout" => ~s.attached /\ ~s.ask

Init ==
  /\ setup \in {s \in Setups : Sensible(s)}
  /\ next = "later"
  /\ active = TRUE
  /\ queue = 0
  /\ run = [r \in Runs |-> "none"]
  /\ calls = [r \in Runs |-> <<>>]
  /\ sent = [r \in Runs |-> 0]
  /\ proposal = [r \in Runs |-> [k \in Proposals |-> Nothing]]
  /\ age = [r \in Runs |-> 0]
  /\ told = {} /\ started = {}
  /\ pc = [r \in Runs |-> "idle"]
  /\ byTask = [r \in Runs |-> FALSE]
  /\ made = [r \in Runs |-> [k \in Proposals |-> Nothing]]
  /\ cause = [r \in Runs |-> <<>>]
  /\ parent = [r \in Runs |-> NoRun]
  /\ seen = [u \in Reviewers |-> <<>>]

-----------------------------------------------------------------------------
(* The task *)

ClockReaches ==
  /\ next = "later"
  /\ next' = "due"
  /\ UNCHANGED <<setup, active, queue, runVars, age, brokerVars, processVars, seen>>

\* The beat sends every due task, also one whose run is under way.
DispatchDue ==
  /\ active /\ next = "due"
  /\ queue = 0
  /\ queue' = 1
  /\ UNCHANGED <<setup, next, active, runVars, age, brokerVars, processVars, seen>>

Pause ==
  /\ active
  /\ active' = FALSE
  /\ next' = "none"
  /\ UNCHANGED <<setup, queue, runVars, age, brokerVars, processVars, seen>>

Resume ==
  /\ ~active
  /\ active' = TRUE
  /\ next' = "later"
  /\ UNCHANGED <<setup, queue, runVars, age, brokerVars, processVars, seen>>

-----------------------------------------------------------------------------
(* A run *)

Goto(r, step) == pc' = [pc EXCEPT ![r] = step]

\* create_agent_run: not committed before the first call, or the end.
Begin(r, step, task, reviewed) ==
  /\ run[r] = "none" /\ pc[r] = "idle"
  /\ Goto(r, step)
  /\ byTask' = [byTask EXCEPT ![r] = task]
  /\ cause' = [cause EXCEPT ![r] = reviewed]
  /\ UNCHANGED made

StartTask(r) ==
  /\ queue > 0
  /\ queue' = queue - 1
  /\ Begin(r, "sources", TRUE, <<>>)
  /\ UNCHANGED <<setup, next, active, runVars, age, brokerVars, parent, seen>>

\* Of a task on request, or of nobody's task.
StartRequest(r) ==
  /\ \E task \in BOOLEAN : Begin(r, "sources", task, <<>>)
  /\ UNCHANGED <<taskVars, runVars, age, brokerVars, parent, seen>>

\* What any commit of the run's session brings along: the run's row, and the
\* approval of its sources.
Decided(r, to) ==
  LET with == [q \in Runs |-> IF <<q>> = cause[r]
                              THEN [proposal[q] EXCEPT ![Package].review = "approved"]
                              ELSE proposal[q]]
  IN /\ proposal' = [with EXCEPT ![r] = to]
     /\ cause' = [cause EXCEPT ![r] = <<>>]
     /\ parent' = IF cause[r] = <<>> THEN parent ELSE [parent EXCEPT ![r] = cause[r][1]]

\* Context and sources are read.  Sources that need approval end the run before
\* its first paid call.
Sources(r) ==
  /\ pc[r] = "sources"
  /\ \/ /\ setup.ask
        /\ made' = [made EXCEPT ![r][Package].review = "pending"]
        /\ Goto(r, "done")
     \/ /\ Goto(r, "turn")
        /\ UNCHANGED made
  /\ UNCHANGED <<taskVars, runVars, age, brokerVars, byTask, cause, parent, seen>>

\* Variant: the step is flushed, and committed with the receipt.
RecordStartLater(r) ==
  /\ pc[r] = "turn"
  /\ Len(calls[r]) < MaxCalls
  /\ Goto(r, "dispatch")
  /\ UNCHANGED <<taskVars, runVars, age, brokerVars, byTask, made, cause, parent, seen>>

\* "Publish the running record and pending call before dispatch."
RecordStart(r) ==
  /\ pc[r] = "turn"
  /\ Len(calls[r]) < MaxCalls
  /\ calls' = [calls EXCEPT ![r] = Append(@, "pending")]
  /\ run' = [run EXCEPT ![r] = "running"]
  /\ Decided(r, proposal[r])
  /\ Goto(r, "dispatch")
  /\ UNCHANGED <<taskVars, sent, age, brokerVars, byTask, made, seen>>

CallProvider(r) ==
  /\ pc[r] = "dispatch"
  /\ sent' = [sent EXCEPT ![r] = @ + 1]
  /\ Goto(r, "wait")
  /\ UNCHANGED <<taskVars, run, calls, proposal, age, brokerVars, byTask, made, cause, parent, seen>>

\* The answer, or in the end "unknown" for a call that got none.
RecordReceipt(r) ==
  /\ pc[r] = "wait"
  /\ calls[r] # <<>>
  /\ \E status \in Steps \ {"pending"} :
       calls' = [calls EXCEPT ![r][Len(calls[r])] = status]
  /\ Goto(r, "turn")
  /\ UNCHANGED <<taskVars, run, sent, proposal, age, brokerVars, byTask, made, cause, parent, seen>>

\* The model has submitted what was asked for.
Submitted(r) ==
  /\ pc[r] = "turn"
  /\ \E i \in DOMAIN calls[r] : calls[r][i] \in {"ok", "warning"}
  /\ Goto(r, "write")
  /\ UNCHANGED <<taskVars, runVars, age, brokerVars, byTask, made, cause, parent, seen>>

-----------------------------------------------------------------------------
(* What becomes of a proposal *)

\* materialization_level and auto_dispatch.
Level(policy) ==
  CASE policy = "full_manual" -> "none"
    [] policy = "draft_approval" -> "draft"
    [] policy = "plan_approval" -> "plan"
    [] policy = "guarded_auto_publish" -> "dispatched"

\* A post that exists is changed, and one of a Postbridge channel stays a draft.
Materialized(level, exists) ==
  CASE exists -> "updated"
    [] ~exists /\ setup.editorial -> "draft"
    [] OTHER -> level

\* The outcomes of a proposal that the policy has reviewed; workflow presets may
\* resolve its review at once.
Reviewed ==
  IF setup.attached /\ setup.policy = "draft_approval"
  THEN {[Nothing EXCEPT !.post = "updated"]}
  ELSE {[Nothing EXCEPT !.review = "pending"],
        [Nothing EXCEPT !.review = "rejected"],
        [Nothing EXCEPT !.review = "approved",
                        !.post = IF setup.policy = "full_manual" THEN "none"
                                 ELSE Materialized(Level(setup.policy), setup.attached)]}

\* Guardrails keep a topic for review; for a post they are noted only.
Guarded ==
  {IF b /\ setup.mode = "topic_scout"
   THEN [Nothing EXCEPT !.review = "pending", !.blocked = TRUE]
   ELSE [Nothing EXCEPT !.post = Materialized("dispatched", setup.attached), !.blocked = b] :
     b \in BOOLEAN}

Outcomes == IF setup.policy = "guarded_auto_publish" THEN Guarded ELSE Reviewed

\* Candidate, embedding, review or post; the message of a post that is to be
\* published goes out before the commit.
SaveCandidate(r) ==
  /\ pc[r] = "write"
  /\ \E k \in Proposals \ {Package}, c \in Outcomes :
       /\ made[r][k] = Nothing
       /\ \A j \in 1..k - 1 : made[r][j] # Nothing
       /\ setup.mode = "post_copilot" => k = 1
       /\ made' = [made EXCEPT ![r][k] = c]
       /\ told' = IF c.post = "dispatched" THEN told \cup {<<r, k>>} ELSE told
  /\ UNCHANGED <<taskVars, runVars, age, started, pc, byTask, cause, parent, seen>>

AllSaved(r) ==
  /\ pc[r] = "write"
  /\ setup.mode = "post_copilot" => made[r][1] # Nothing
  /\ Goto(r, "done")
  /\ UNCHANGED <<taskVars, runVars, age, brokerVars, byTask, made, cause, parent, seen>>

\* The caller commits: run, proposals and the task's next_run_at, also of a task
\* that was paused in between.
Complete(r) ==
  /\ pc[r] = "done"
  /\ run' = [run EXCEPT ![r] =
       IF \E k \in Proposals : made[r][k].review # "none" THEN "awaiting_review" ELSE "completed"]
  /\ Decided(r, made[r])
  /\ next' = IF byTask[r] THEN "later" ELSE next
  /\ made' = [made EXCEPT ![r] = [k \in Proposals |-> Nothing]]
  /\ Goto(r, "idle")
  /\ UNCHANGED <<setup, active, queue, calls, sent, age, brokerVars, byTask, seen>>

\* Variant: the savepoint stays.
FailKeeping(r) ==
  /\ pc[r] \in {"sources", "turn", "write"}
  /\ run' = [run EXCEPT ![r] = "failed"]
  /\ Decided(r, made[r])
  /\ made' = [made EXCEPT ![r] = [k \in Proposals |-> Nothing]]
  /\ Goto(r, "idle")
  /\ UNCHANGED <<taskVars, calls, sent, age, brokerVars, byTask, seen>>

\* Variant: a failed run counts for the schedule.
FailAdvancing(r) ==
  /\ pc[r] \in {"sources", "turn", "write"}
  /\ run' = [run EXCEPT ![r] = "failed"]
  /\ Decided(r, proposal[r])
  /\ next' = IF byTask[r] THEN "later" ELSE next
  /\ made' = [made EXCEPT ![r] = [k \in Proposals |-> Nothing]]
  /\ Goto(r, "idle")
  /\ UNCHANGED <<setup, active, queue, calls, sent, age, brokerVars, byTask, seen>>

\* A source, the model, a tool, an embedding: the savepoint is rolled back.
Fail(r) ==
  /\ pc[r] \in {"sources", "turn", "write"}
  /\ run' = [run EXCEPT ![r] = "failed"]
  /\ Decided(r, proposal[r])
  /\ made' = [made EXCEPT ![r] = [k \in Proposals |-> Nothing]]
  /\ Goto(r, "idle")
  /\ UNCHANGED <<taskVars, calls, sent, age, brokerVars, byTask, seen>>

\* What was not committed is lost, a run that was stays running.
Crash(r) ==
  /\ pc[r] # "idle"
  /\ made' = [made EXCEPT ![r] = [k \in Proposals |-> Nothing]]
  /\ cause' = [cause EXCEPT ![r] = <<>>]
  /\ Goto(r, "idle")
  /\ UNCHANGED <<taskVars, runVars, age, brokerVars, byTask, parent, seen>>

\* A target that is not committed yet is "missing", and its message is gone.
TakeTarget(r, k) ==
  /\ <<r, k>> \in told
  /\ told' = told \ {<<r, k>>}
  /\ started' = IF proposal[r][k].post = "dispatched" THEN started \cup {<<r, k>>} ELSE started
  /\ UNCHANGED <<taskVars, runVars, age, processVars, seen>>

-----------------------------------------------------------------------------
(* The review queue *)

\* Whatever its status: an item that was resolved may be resolved again.
LookAt(u, r, k) ==
  /\ seen[u] = <<>>
  /\ proposal[r][k].review # "none"
  /\ seen' = [seen EXCEPT ![u] = <<r, k, proposal[r][k]>>]
  /\ UNCHANGED <<taskVars, runVars, age, brokerVars, processVars>>

\* An approval of sources that is not committed holds the row.
Held(r) == \E q \in Runs : cause[q] = <<r>>

\* What is left of the item's kind and policy: compaction keeps neither, and the
\* default policy is draft_approval.
IsPackage(k, row) == k = Package /\ ~row.compact
PolicyOf(row) == IF row.compact THEN "draft_approval" ELSE setup.policy

\* Variant: the review of a blocked topic approves its publication.
ApprovedAsAsked(row) ==
  IF PolicyOf(row) = "full_manual" THEN row.post
  ELSE Materialized(Level(PolicyOf(row)), setup.attached \/ row.post # "none")

\* The post after an approval: what was blocked becomes a draft at most.
Approved(row) ==
  CASE PolicyOf(row) = "full_manual" -> row.post
    [] PolicyOf(row) = "guarded_auto_publish" -> Materialized("draft", setup.attached \/ row.post # "none")
    [] OTHER -> Materialized(Level(PolicyOf(row)), setup.attached \/ row.post # "none")

\* The row was deleted, or the request died.
GiveUp(u) ==
  /\ seen[u] # <<>>
  /\ seen' = [seen EXCEPT ![u] = <<>>]
  /\ UNCHANGED <<taskVars, runVars, age, brokerVars, processVars>>

Resolve(u, decision) ==
  /\ seen[u] # <<>>
  /\ LET r == seen[u][1]
         k == seen[u][2]
         row == seen[u][3]
         post == IF decision = "approved" /\ ~IsPackage(k, row) THEN Approved(row) ELSE proposal[r][k].post
     IN /\ proposal[r][k].review # "none"
        /\ k = Package => ~Held(r)
        /\ IsPackage(k, row) => decision = "rejected"
        /\ proposal' = [proposal EXCEPT ![r][k].review = decision, ![r][k].post = post]
        /\ told' = IF post = "dispatched" /\ decision = "approved" THEN told \cup {<<r, k>>} ELSE told
  /\ seen' = [seen EXCEPT ![u] = <<>>]
  /\ UNCHANGED <<taskVars, run, calls, sent, age, started, processVars>>

\* The follow-up run q starts in the request's session: a package is made of sources, so
\* that its approval has a seed for it (one whose sources have no URL starts no run).
ApproveSources(u, q) ==
  /\ seen[u] # <<>>
  /\ LET r == seen[u][1] IN
       /\ IsPackage(seen[u][2], seen[u][3])
       /\ proposal[r][Package].review # "none"
       /\ ~Held(r)
       /\ Begin(q, "turn", FALSE, <<r>>)
  /\ seen' = [seen EXCEPT ![u] = <<>>]
  /\ UNCHANGED <<taskVars, runVars, age, brokerVars, parent>>

-----------------------------------------------------------------------------
(* Cleanup *)

\* The run's process is long gone.  A review is younger than its run.
TimePasses(r) ==
  /\ run[r] \notin {"none", "deleted"} /\ pc[r] = "idle"
  /\ age[r] < MaxAge
  /\ \A u \in Reviewers : seen[u] # <<>> => seen[u][1] # r
  /\ ~Held(r)
  /\ age' = [age EXCEPT ![r] = @ + 1]
  /\ UNCHANGED <<taskVars, runVars, brokerVars, processVars, seen>>

Compacted(c) == IF c.review = "none" THEN c ELSE [c EXCEPT !.compact = TRUE]

\* Only reviews that are old themselves keep their run.
Deletable(r) ==
  /\ age[r] >= 2
  /\ \/ run[r] \in {"completed", "failed"}
     \/ age[r] = 2
     \/ \A k \in Proposals : proposal[r][k].review # "pending"

Cleanup ==
  /\ \E r \in Runs : age[r] >= 1 /\ run[r] # "deleted"
  /\ calls' = [r \in Runs |-> IF age[r] >= 1 THEN <<>> ELSE calls[r]]
  /\ sent' = [r \in Runs |-> IF age[r] >= 1 THEN 0 ELSE sent[r]]
  /\ run' = [r \in Runs |-> IF Deletable(r) THEN "deleted" ELSE run[r]]
  /\ proposal' = [r \in Runs |->
       CASE Deletable(r) -> [k \in Proposals |-> Nothing]
         [] age[r] = 3 /\ ~Deletable(r) -> [k \in Proposals |-> Compacted(proposal[r][k])]
         [] OTHER -> proposal[r]]
  /\ \A r \in Runs : age[r] >= 1 => ~Held(r)
  /\ UNCHANGED <<taskVars, age, brokerVars, processVars, seen>>

-----------------------------------------------------------------------------
Work(r) ==
  \/ Sources(r) \/ RecordStart(r) \/ CallProvider(r) \/ RecordReceipt(r) \/ Submitted(r)
  \/ SaveCandidate(r) \/ AllSaved(r) \/ Complete(r) \/ Fail(r)

Next ==
  \/ ClockReaches \/ DispatchDue \/ Pause \/ Resume \/ Cleanup
  \/ \E r \in Runs : StartTask(r) \/ StartRequest(r) \/ Work(r) \/ Crash(r) \/ TimePasses(r)
  \/ \E r \in Runs, k \in Proposals : TakeTarget(r, k)
  \/ \E u \in Reviewers, r \in Runs, k \in Proposals : LookAt(u, r, k)
  \/ \E u \in Reviewers, d \in {"approved", "rejected"} : Resolve(u, d)
  \/ \E u \in Reviewers, q \in Runs : ApproveSources(u, q)
  \/ \E u \in Reviewers : GiveUp(u)

Spec == Init /\ [][Next]_vars

-----------------------------------------------------------------------------
(* Properties *)

\* "A lost response must remain distinguishable from a free request": the
\* provider never has a call that no committed step is about, and a run that
\* has ended knows how each of its calls did.
CallsAreRecorded ==
  \A r \in Runs :
    /\ sent[r] <= Len(calls[r])
    /\ run[r] \in {"completed", "failed", "awaiting_review"} =>
         \A i \in DOMAIN calls[r] : calls[r][i] # "pending"

\* A run that failed, at whatever step, has left no candidate, review or post.
FailedLeavesNothing ==
  \A r \in Runs : run[r] = "failed" => \A k \in Proposals : proposal[r][k] = Nothing

\* Nothing goes to the publication worker that the policy keeps for people: not
\* by a review, by a second one, or by one of an item that was compacted.
DispatchIsAllowed ==
  \A m \in told \cup started :
    /\ setup.policy = "guarded_auto_publish" /\ ~setup.editorial
    /\ setup.mode = "topic_scout" => ~proposal[m[1]][m[2]].blocked /\ ~made[m[1]][m[2]].blocked

\* A due occurrence of an active task is through when a run of the task has
\* been, and is not lost by a failure or by a run of somebody else.
DueIsNotLost ==
  [][active /\ next = "due" /\ next' = "later" =>
       \E r \in Runs : /\ byTask[r] /\ run[r] # run'[r]
                       /\ run'[r] \in {"completed", "awaiting_review"}]_vars

\* "approving source package review item triggers follow-up run": sources that
\* were approved have had their run, which may have failed.
ApprovedSourcesResume ==
  \A r \in Runs : proposal[r][Package].review = "approved" => \E q \in Runs : parent[q] = r

=============================================================================

----------------------------- MODULE MCAgentRuns -----------------------------
(* Small instances of AgentRuns for TLC. *)
EXTENDS AgentRuns, TLC

Symmetry == Permutations(Runs) \cup Permutations(Reviewers)

\* The setups that differ in what can happen: a Postbridge channel matters where
\* posts would be published; drafts and plans are made alike.
MCScout(s) ==
  /\ s.mode = "topic_scout" /\ s.policy # "draft_approval"
  /\ s.editorial => s.policy = "guarded_auto_publish"
MCEditor(s) ==
  /\ s.mode = "post_copilot" /\ ~s.editorial
  /\ s.ask = s.attached
  /\ s.policy = IF s.attached THEN "draft_approval" ELSE "guarded_auto_publish"

MCInit == Init /\ (MCScout(setup) \/ MCEditor(setup))
MCSpec == MCInit /\ [][Next]_vars
=============================================================================

SPECIFICATION Spec
CONSTANTS
  Runs = {r1, r2}
  NoRun = NoRun
  Reviewers = {u1}
  MaxProposals = 1
  MaxCalls = 1
  MaxAge = 3
CHECK_DEADLOCK FALSE
SYMMETRY Symmetry
INVARIANT ApprovedSourcesResume

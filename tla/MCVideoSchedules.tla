--------------------------- MODULE MCVideoSchedules ---------------------------
(* Two components of the video pipeline that have no state in common, checked *)
(* in one run: VideoBatches and VideoSchedules.  An initial state chooses the *)
(* one that runs.                                                             *)
EXTENDS VideoBatches

CONSTANTS MaxTime, Keys, Videos, Consents, NoConsent, MaxAttempts, PerRun, Month, MaxEdits, MaxFaults

VARIABLES part,
  now, outputs, task, run, saved, attempts, leased, token, linked, acked, video, bill, approved,
  pc, at, left, edits, faults

schedulesVars == <<now, outputs, task, run, saved, attempts, leased, token, linked, acked, video,
                   bill, approved, pc, at, left, edits, faults>>

Schedules == INSTANCE VideoSchedules WITH lease <- leased

ASSUME ConstantsAssumption == ConstantsOK /\ Schedules!ConstantsOK

\* The owner has given a consent: Edit takes it back.
MCInit ==
  /\ Init /\ Schedules!Init
  /\ \/ part = "schedules" /\ task.consent # NoConsent
     \/ part = "batches" /\ task.consent = NoConsent /\ outputs = Videos

\* An edit or a fault comes between, not both.
MCNext ==
  /\ \/ part = "batches" /\ Next /\ UNCHANGED schedulesVars
     \/ part = "schedules" /\ Schedules!Next /\ edits' + faults' <= 1 /\ UNCHANGED vars
  /\ UNCHANGED part
MCSpec ==
  MCInit /\ [][MCNext]_<<vars, schedulesVars, part>>
  /\ WF_schedulesVars(part = "schedules" /\ Schedules!Goes)

WithinMonth == Schedules!WithinMonth
ApprovedUnderConsent == Schedules!ApprovedUnderConsent
RunIsReported == Schedules!RunIsReported
=============================================================================

----------------------------- MODULE PublishCall ------------------------------
(***************************************************************************)
(* What the publication of a target takes for granted about publish_post   *)
(* of any platform: one call shows the post once and is answered, or shows *)
(* nothing and fails, or shows it once and the answer is lost.  A call     *)
(* follows another only if that one failed in a way that may pass.  A call *)
(* that repeats a request by itself counts it with the lost answers.       *)
(***************************************************************************)
EXTENDS Naturals

VARIABLES
  outcome,  \* "none", "calling", "accepted", "rejected" or "transient"
  posted,   \* posts that are shown to readers
  lost      \* of them, those whose answer was lost

Failures == {"rejected", "transient"}

Init == outcome = "none" /\ posted = 0 /\ lost = 0

Begin ==
  /\ outcome \in {"none", "transient"}
  /\ outcome' = "calling"
  /\ UNCHANGED <<posted, lost>>

Accepted == outcome = "calling" /\ outcome' = "accepted" /\ posted' = posted + 1 /\ UNCHANGED lost

Failed == outcome = "calling" /\ outcome' \in Failures /\ UNCHANGED <<posted, lost>>

ReplyLost ==
  /\ outcome = "calling" /\ outcome' \in Failures
  /\ posted' = posted + 1 /\ lost' = lost + 1

Repeats == outcome = "calling" /\ posted' = posted + 1 /\ lost' = lost + 1 /\ UNCHANGED outcome

Next == Begin \/ Accepted \/ Failed \/ ReplyLost \/ Repeats

Spec == Init /\ [][Next]_<<outcome, posted, lost>>
=============================================================================

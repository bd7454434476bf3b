------------------------ MODULE VideoDeliveryPromise ------------------------
(***************************************************************************)
(* What an approved video promises to the person who approved it.          *)
(*                                                                         *)
(* Every destination gets the video at most once.  A delivery starts only  *)
(* after the approved time, never after it was cancelled or expired, and   *)
(* is called published only if the destination has the video.  When nobody *)
(* can say whether the destination has it, the delivery is unknown and     *)
(* only taking the same attempt up again leads on.                         *)
(*                                                                         *)
(* VideoDelivery, with workers, saved provider sessions, lost answers and  *)
(* deaths, implements this.                                                *)
(***************************************************************************)
EXTENDS Naturals

CONSTANT Targets    \* the destinations of one approval

VARIABLES
  stage,   \* what the card shows for a destination
  sent,    \* how many times the destination got the video
  open,    \* destinations where an attempt may still end in a video
  due      \* the approved time has come

promiseVars == <<stage, sent, open, due>>

Stages == {"absent", "waiting", "withdrawn", "sending", "published", "failed", "unknown"}
Unsent == {"waiting", "withdrawn", "failed"}

Init ==
  /\ stage = [t \in Targets |-> "absent"]
  /\ sent = [t \in Targets |-> 0]
  /\ open = {}
  /\ due = FALSE

Approve ==
  /\ \A t \in Targets : stage[t] = "absent"
  /\ stage' = [t \in Targets |-> "waiting"]
  /\ due' \in BOOLEAN
  /\ UNCHANGED <<sent, open>>

TimeComes == ~due /\ due' = TRUE /\ UNCHANGED <<stage, sent, open>>

\* Cancelled, or the start window was missed.
Withdraw(S) ==
  /\ S # {}
  /\ \A t \in S : stage[t] = "waiting"
  /\ stage' = [t \in Targets |-> IF t \in S THEN "withdrawn" ELSE stage[t]]
  /\ UNCHANGED <<sent, open, due>>

\* A new time for everything unsent, while nothing is on its way or unknown.
Reschedule ==
  /\ \A t \in Targets : stage[t] \in Unsent \cup {"published"}
  /\ \E t \in Targets : stage[t] \in Unsent
  /\ stage' = [t \in Targets |-> IF stage[t] \in Unsent THEN "waiting" ELSE stage[t]]
  /\ due' \in BOOLEAN
  /\ UNCHANGED <<sent, open>>

Move(t, from, to) ==
  /\ stage[t] \in from
  /\ stage' = [stage EXCEPT ![t] = to]
  /\ UNCHANGED <<sent, open, due>>

Start(t)   == due /\ Move(t, {"waiting"}, "sending")
Retry(t)   == Move(t, {"failed"}, "waiting")
Resume(t)  == due /\ Move(t, {"unknown", "failed"}, "sending")
Fail(t)    == Move(t, {"sending"}, "failed")
GiveUp(t)  == Move(t, {"sending"}, "unknown")
Succeed(t) == sent[t] = 1 /\ Move(t, {"sending"}, "published")

\* An attempt is opened once, and again only after the provider said no.
Open(t) ==
  /\ due
  /\ stage[t] = "sending"
  /\ t \notin open
  /\ sent[t] = 0
  /\ open' = open \cup {t}
  /\ UNCHANGED <<stage, sent, due>>

Refuse(t) ==
  /\ t \in open
  /\ sent[t] = 0
  /\ open' = open \ {t}
  /\ UNCHANGED <<stage, sent, due>>

\* The destination gets the video, maybe after the sender gave up: an attempt
\* that the provider accepted is carried out by the provider.
Receive(t) ==
  /\ stage[t] = "sending" \/ t \in open
  /\ sent[t] = 0
  /\ sent' = [sent EXCEPT ![t] = 1]
  /\ UNCHANGED <<stage, open, due>>

Next ==
  \/ Approve \/ TimeComes \/ Reschedule
  \/ \E S \in SUBSET Targets : Withdraw(S)
  \/ \E t \in Targets :
       \/ Start(t) \/ Retry(t) \/ Resume(t) \/ Fail(t) \/ GiveUp(t) \/ Succeed(t)
       \/ Open(t) \/ Refuse(t) \/ Receive(t)

Spec == Init /\ [][Next]_promiseVars
=============================================================================

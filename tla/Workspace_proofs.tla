------------------------- MODULE Workspace_proofs -------------------------
(***************************************************************************)
(* Proofs about StatusOutbox, for any sets of subjects and dispatchers,    *)
(* any number of events, any batch size and any limit of attempts; and     *)
(* about AgentMemory, for any runs, posts, texts and tasks.                *)
(***************************************************************************)
EXTENDS MCWorkspace, FiniteSetTheorems, SequenceTheorems, WellFoundedInduction, TLAPS

\* A set of natural numbers that is not empty has a least element, and Min is it.
LEMMA MinIsLeast ==
  ASSUME NEW S \in SUBSET Nat, S # {}
  PROVE  /\ Min(S) \in S
         /\ \A x \in S : Min(S) <= x
<1>1. PICK x \in S : \A y \in S : <<y, x>> \notin OpToRel(<, Nat)
  BY NatLessThanWellFounded, WFMin
<1>2. \A y \in S : x <= y
  <2> TAKE y \in S
  <2>1. ~(y < x)
    BY <1>1 DEF OpToRel
  <2> QED
    BY <2>1
<1> QED
  BY <1>2 DEF Min

\* The first row of a dispatcher's list is one of its rows.
LEMMA CurrentIsListed ==
  ASSUME TypeOK, NEW d \in Dispatchers, dpc[d] # "idle"
  PROVE  /\ Current(d) \in dtodo[d]
         /\ Current(d) \in Events /\ Current(d) <= last
         /\ \A e \in dtodo[d] : Current(d) <= e
<1>1. dtodo[d] \in SUBSET Nat /\ dtodo[d] # {} /\ dtodo[d] \subseteq 1..last
  BY DEF TypeOK
<1>2. Current(d) \in dtodo[d] /\ \A e \in dtodo[d] : Current(d) <= e
  BY <1>1, MinIsLeast DEF Current
<1> QED
  BY <1>1, <1>2, BoundsAssumption DEF TypeOK, Events

\* A batch is a part of the due rows.
LEMMA ListIsDue == ASSUME NEW S PROVE List(S) \subseteq S
  BY DEF List

LEMMA DueExists == ASSUME TypeOK PROVE due \subseteq 1..last
<1> SUFFICES ASSUME NEW e \in due PROVE e \in 1..last
  OBVIOUS
<1>1. e \in 1..MaxEvents /\ state[e] # "absent"
  BY DEF TypeOK, Events
<1> QED
  BY <1>1, BoundsAssumption DEF TypeOK, Events

-----------------------------------------------------------------------------
(* Types *)

LEMMA InitTypeOK == Init => TypeOK
  BY BoundsAssumption, FaultsAssumption DEF Init, TypeOK, Events, States, Steps

LEMMA AdvanceType ==
  ASSUME TypeOK, NEW d \in Dispatchers, dpc[d] # "idle", Advance(d)
  PROVE  /\ dpc' \in [Dispatchers -> Steps]
         /\ dtodo' \in [Dispatchers -> SUBSET (1..last)]
         /\ \A c \in Dispatchers : dpc'[c] # "idle" <=> dtodo'[c] # {}
         /\ dcount' \in [Dispatchers -> Nat]
<1>1. Current(d) \in dtodo[d]
  BY CurrentIsListed
<1>2. dtodo[d] \ {Current(d)} = {} <=> dtodo[d] = {Current(d)}
  BY <1>1
<1> QED
  BY <1>2 DEF Advance, TypeOK, Steps

LEMMA NextTypeOK == TypeOK /\ [Next]_vars => TypeOK'
<1> SUFFICES ASSUME TypeOK, [Next]_vars PROVE TypeOK'
  OBVIOUS
<1> USE BoundsAssumption, FaultsAssumption
    DEF TypeOK, Events, States, Steps, rowVars, sourceVars, dispatcherVars
<1>1. ASSUME NEW s \in Subjects, Change(s) PROVE TypeOK'
  <2>1. last + 1 \in Events /\ last' = last + 1 /\ last' \in 0..MaxEvents
    BY <1>1 DEF Change
  <2>2. 1..last \subseteq 1..last'
    BY <2>1
  <2>3. \A e \in Events : state'[e] # "absent" <=> e <= last'
    BY <1>1, <2>1 DEF Change
  <2>4. due' \in SUBSET {e \in Events : state'[e] \in {"pending", "failed"}}
    BY <1>1, <2>1 DEF Change
  <2> QED
    BY <1>1, <2>1, <2>2, <2>3, <2>4 DEF Change
<1>2. ASSUME NEW s \in Subjects, ChangeSilently(s) PROVE TypeOK'
  BY <1>2 DEF ChangeSilently, Fault
<1>3. ASSUME NEW e \in Events, BecomeDue(e) PROVE TypeOK'
  BY <1>3 DEF BecomeDue
<1>4. ASSUME NEW d \in Dispatchers, Start(d) PROVE TypeOK'
  <2> DEFINE S == List(due)
  <2>1. S \subseteq due /\ S # {}
    BY <1>4, ListIsDue DEF Start
  <2>2. S \in SUBSET (1..last)
    BY <2>1, DueExists
  <2>3. Min(S) \in Events
    <3>1. S \in SUBSET Nat
      BY <2>2
    <3>2. Min(S) \in S
      BY <2>1, <3>1, MinIsLeast
    <3> QED
      BY <2>1, <3>2
  <2>4. attempts[Min(S)] \in Nat
    BY <2>3
  <2> HIDE DEF S
  <2> QED
    BY <1>4, <2>1, <2>2, <2>4 DEF Start, S
<1>5. ASSUME NEW d \in Dispatchers, Load(d) PROVE TypeOK'
  <2>1. Current(d) \in Events
    BY <1>5, CurrentIsListed DEF Load
  <2> QED
    BY <1>5, <2>1 DEF Load
<1>6. ASSUME NEW d \in Dispatchers, Publish(d) PROVE TypeOK'
  <2>1. dpc[d] # "idle" /\ dtodo' = dtodo
    BY <1>6 DEF Publish
  <2>2. outcome' \in [Events -> {"unsent", "refused", "received"}]
    BY <1>6 DEF Publish
  <2>3. /\ dpc' = [dpc EXCEPT ![d] = "sent"] \/ dpc' = [dpc EXCEPT ![d] = "failed"]
        /\ dcount' = [dcount EXCEPT ![d] = 0] \/ dcount' = dcount
    BY <1>6 DEF Publish
  <2>4. dpc' \in [Dispatchers -> Steps] /\ dcount' \in [Dispatchers -> Nat]
    <3>1. dpc \in [Dispatchers -> Steps] /\ dcount \in [Dispatchers -> Nat]
      OBVIOUS
    <3> HIDE DEF TypeOK
    <3>2. dpc' \in [Dispatchers -> Steps]
      BY <2>3, <3>1
    <3>3. dcount' \in [Dispatchers -> Nat]
      BY <2>3, <3>1
    <3> QED
      BY <3>2, <3>3
  <2>5. \A c \in Dispatchers : dpc'[c] # "idle" <=> dpc[c] # "idle"
    BY <2>1, <2>3
  <2> QED
    BY <1>6, <2>1, <2>2, <2>4, <2>5 DEF Publish
<1>7. ASSUME NEW d \in Dispatchers, MarkSent(d) PROVE TypeOK'
  <2>1. Current(d) \in Events /\ Current(d) <= last
    BY <1>7, CurrentIsListed DEF MarkSent
  <2>2. dpc[d] # "idle" /\ Advance(d)
    BY <1>7 DEF MarkSent
  <2> HIDE DEF Steps
  <2> QED
    BY <1>7, <2>1, <2>2, AdvanceType DEF MarkSent
<1>8. ASSUME NEW d \in Dispatchers, MarkFailed(d) PROVE TypeOK'
  <2>1. Current(d) \in Events /\ Current(d) <= last
    BY <1>8, CurrentIsListed DEF MarkFailed
  <2>2. dpc[d] # "idle" /\ Advance(d)
    BY <1>8 DEF MarkFailed
  <2>3. dcount[d] + 1 \in Nat /\ state[Current(d)] # "absent"
    BY <2>1
  <2>4. attempts' \in [Events -> Nat]
    BY <1>8, <2>1, <2>3 DEF MarkFailed
  <2>5. state' = [state EXCEPT ![Current(d)] = "exhausted"]
        \/ state' = [state EXCEPT ![Current(d)] = "failed"]
    BY <1>8 DEF MarkFailed
  <2>6. state' \in [Events -> States] /\ \A e \in Events : state'[e] # "absent" <=> e <= last
    BY <2>1, <2>5
  <2>7. due' \in SUBSET {e \in Events : state'[e] \in {"pending", "failed"}}
    BY <1>8, <2>1, <2>5 DEF MarkFailed
  <2>8. TypeOK
    OBVIOUS
  <2> HIDE DEF TypeOK
  <2>9. /\ dpc' \in [Dispatchers -> Steps]
        /\ dtodo' \in [Dispatchers -> SUBSET (1..last)]
        /\ \A c \in Dispatchers : dpc'[c] # "idle" <=> dtodo'[c] # {}
        /\ dcount' \in [Dispatchers -> Nat]
    BY <2>2, <2>8, AdvanceType
  <2> QED
    BY <1>8, <2>4, <2>6, <2>7, <2>8, <2>9 DEF MarkFailed, TypeOK
<1>9. ASSUME NEW d \in Dispatchers, Crash(d) PROVE TypeOK'
  BY <1>9 DEF Crash, Fault
<1>10. CASE UNCHANGED vars
  BY <1>10 DEF vars
<1> QED
  BY <1>1, <1>2, <1>3, <1>4, <1>5, <1>6, <1>7, <1>8, <1>9, <1>10 DEF Next, Dispatch

\* Every reachable state is well typed: a dispatcher that is at work has a row
\* to work on, and only rows that wait for a delivery are due.
THEOREM TypeCorrect == Spec => []TypeOK
<1>1. Init => TypeOK
  BY InitTypeOK
<1>2. TypeOK /\ [Next]_vars => TypeOK'
  BY NextTypeOK
<1> QED
  BY <1>1, <1>2, PTL DEF Spec

-----------------------------------------------------------------------------
(* What a step does to lists and outcomes *)

\* A dispatcher other than the one that takes a step keeps its place.
LEMMA OthersKeepPlace ==
  ASSUME NEW d \in Dispatchers, TypeOK, Dispatch(d) \/ Crash(d)
  PROVE  \A c \in Dispatchers \ {d} : dpc'[c] = dpc[c] /\ dtodo'[c] = dtodo[c]
  BY DEF Dispatch, Start, Load, Publish, MarkSent, MarkFailed, Crash, Advance, TypeOK

\* What has reached the receiver stays there, and a refusal is not forgotten.
LEMMA OutcomeGrows ==
  ASSUME TypeOK, [Next]_vars, NEW e \in Events
  PROVE  /\ outcome[e] = "received" => outcome'[e] = "received"
         /\ outcome'[e] = "unsent" => outcome[e] = "unsent"
<1>1. ASSUME NEW d \in Dispatchers, Publish(d)
      PROVE  /\ outcome[e] = "received" => outcome'[e] = "received"
             /\ outcome'[e] = "unsent" => outcome[e] = "unsent"
  BY <1>1 DEF Publish, TypeOK
<1>2. CASE UNCHANGED outcome
  BY <1>2
<1> QED
  BY <1>1, <1>2
  DEF Next, Dispatch, vars, Change, ChangeSilently, BecomeDue, Start, Load, MarkSent, MarkFailed, Crash

-----------------------------------------------------------------------------
(* Sent rows *)

\* A dispatcher marks a row as sent after the receiver got it; that another one
\* marks the row meanwhile changes nothing about that.
SentIsReceived ==
  /\ SentWasReceived
  /\ \A d \in Dispatchers : dpc[d] = "sent" => outcome[Current(d)] = "received"

LEMMA NextSentIsReceived ==
  ASSUME TypeOK, SentIsReceived, [Next]_vars
  PROVE  SentIsReceived'
<1> DEFINE Pending(d) == dpc[d] = "sent" => outcome[Current(d)] = "received"
<1>1. ASSUME NEW d \in Dispatchers, dpc'[d] = dpc[d], dtodo'[d] = dtodo[d] PROVE Pending(d)'
  <2> SUFFICES ASSUME dpc[d] = "sent" PROVE outcome'[Min(dtodo[d])] = "received"
    BY <1>1 DEF Current
  <2>1. Min(dtodo[d]) \in Events /\ outcome[Min(dtodo[d])] = "received"
    BY CurrentIsListed DEF SentIsReceived, Current
  <2> QED
    BY <2>1, OutcomeGrows
<1>2. ASSUME NEW d \in Dispatchers, dpc'[d] # "sent" PROVE Pending(d)'
  BY <1>2
<1>3. ASSUME state' = state PROVE SentWasReceived'
  BY <1>3, OutcomeGrows DEF SentIsReceived, SentWasReceived
<1> HIDE DEF Pending
<1>4. ASSUME NEW s \in Subjects, Change(s) PROVE SentIsReceived'
  <2>1. state' = [state EXCEPT ![last + 1] = "pending"] /\ outcome' = outcome
        /\ dpc' = dpc /\ dtodo' = dtodo
    BY <1>4 DEF Change, dispatcherVars
  <2>2. SentWasReceived'
    BY <2>1 DEF SentIsReceived, SentWasReceived, TypeOK
  <2> QED
    BY <2>1, <2>2, <1>1 DEF SentIsReceived, Pending
<1>5. ASSUME NEW s \in Subjects, ChangeSilently(s) PROVE SentIsReceived'
  BY <1>5, <1>1, <1>3 DEF ChangeSilently, rowVars, dispatcherVars, SentIsReceived, Pending
<1>6. ASSUME NEW e \in Events, BecomeDue(e) PROVE SentIsReceived'
  BY <1>6, <1>1, <1>3 DEF BecomeDue, dispatcherVars, SentIsReceived, Pending
<1>7. ASSUME NEW d \in Dispatchers, Dispatch(d) \/ Crash(d), Pending(d)', SentWasReceived'
      PROVE  SentIsReceived'
  <2>1. \A c \in Dispatchers \ {d} : Pending(c)'
    BY <1>7, <1>1, OthersKeepPlace
  <2> QED
    BY <1>7, <2>1 DEF SentIsReceived, Pending
<1>8. ASSUME NEW d \in Dispatchers, Start(d) PROVE SentIsReceived'
  <2>1. dpc'[d] = "publish" /\ state' = state
    BY <1>8 DEF Start, rowVars, TypeOK
  <2> QED
    BY <1>8, <2>1, <1>2, <1>3, <1>7 DEF Dispatch
<1>9. ASSUME NEW d \in Dispatchers, Load(d) PROVE SentIsReceived'
  <2>1. dpc'[d] = "publish" /\ state' = state
    BY <1>9 DEF Load, rowVars, TypeOK
  <2> QED
    BY <1>9, <2>1, <1>2, <1>3, <1>7 DEF Dispatch
<1>10. ASSUME NEW d \in Dispatchers, Publish(d) PROVE SentIsReceived'
  <2>1. state' = state /\ dtodo' = dtodo
    BY <1>10 DEF Publish, rowVars
  <2>2. Current(d) \in Events
    BY <1>10, CurrentIsListed DEF Publish
  <2>3. CASE dpc'[d] = "sent"
    <3>1. outcome'[Current(d)] = "received"
      BY <1>10, <2>2, <2>3 DEF Publish, TypeOK
    <3>2. Pending(d)'
      BY <2>1, <3>1 DEF Pending, Current
    <3> QED
      BY <1>10, <2>1, <3>2, <1>3, <1>7 DEF Dispatch
  <2>4. CASE dpc'[d] # "sent"
    BY <1>10, <2>1, <2>4, <1>2, <1>3, <1>7 DEF Dispatch
  <2> QED
    BY <2>3, <2>4
<1>11. ASSUME NEW d \in Dispatchers, MarkSent(d) PROVE SentIsReceived'
  <2>1. dpc'[d] # "sent"
    BY <1>11 DEF MarkSent, Advance, TypeOK
  <2>2. outcome' = outcome /\ state' = [state EXCEPT ![Current(d)] = "sent"]
    BY <1>11 DEF MarkSent
  <2>3. outcome[Current(d)] = "received"
    BY <1>11 DEF MarkSent, SentIsReceived
  <2>4. SentWasReceived'
    BY <2>2, <2>3 DEF SentIsReceived, SentWasReceived, TypeOK
  <2> QED
    BY <1>11, <2>1, <2>4, <1>2, <1>7 DEF Dispatch
<1>12. ASSUME NEW d \in Dispatchers, MarkFailed(d) PROVE SentIsReceived'
  <2>1. dpc'[d] # "sent"
    BY <1>12 DEF MarkFailed, Advance, TypeOK
  <2>2. /\ outcome' = outcome
        /\ \/ state' = [state EXCEPT ![Current(d)] = "exhausted"]
           \/ state' = [state EXCEPT ![Current(d)] = "failed"]
    BY <1>12 DEF MarkFailed
  <2>3. SentWasReceived'
    BY <2>2 DEF SentIsReceived, SentWasReceived, TypeOK
  <2> QED
    BY <1>12, <2>1, <2>3, <1>2, <1>7 DEF Dispatch
<1>13. ASSUME NEW d \in Dispatchers, Crash(d) PROVE SentIsReceived'
  <2>1. dpc'[d] # "sent" /\ state' = state
    BY <1>13 DEF Crash, rowVars, TypeOK
  <2> QED
    BY <1>13, <2>1, <1>2, <1>3, <1>7
<1>14. CASE UNCHANGED vars
  BY <1>14, <1>1, <1>3 DEF vars, rowVars, dispatcherVars, SentIsReceived, Pending
<1> QED
  BY <1>4, <1>5, <1>6, <1>8, <1>9, <1>10, <1>11, <1>12, <1>13, <1>14 DEF Next, Dispatch

\* A row that says sent was received, whatever overlaps, dies or answers late.
THEOREM SentRowsWereReceived == Spec => []SentWasReceived
<1>1. Init => SentIsReceived
  BY DEF Init, SentIsReceived, SentWasReceived
<1>2. TypeOK /\ SentIsReceived /\ [Next]_vars => SentIsReceived'
  BY NextSentIsReceived
<1>3. SentIsReceived => SentWasReceived
  BY DEF SentIsReceived
<1> QED
  BY <1>1, <1>2, <1>3, TypeCorrect, PTL DEF Spec

-----------------------------------------------------------------------------
(* Order *)

\* A batch is closed: with a row it has every due row before it.
LEMMA ListIsClosed ==
  ASSUME NEW n \in Nat, NEW S \in SUBSET (1..n),
         NEW f \in List(S), NEW e \in S, e < f
  PROVE  e \in List(S)
<1> DEFINE before(g) == {h \in S : h < g}
<1>1. IsFiniteSet(before(f))
  <2>1. IsFiniteSet(1..n)
    BY FS_Interval
  <2>2. before(f) \in SUBSET (1..n)
    OBVIOUS
  <2> QED
    BY <2>1, <2>2, FS_Subset
<1>2. before(e) \in SUBSET before(f)
  <2>1. f \in S
    BY ListIsDue
  <2>2. ASSUME NEW h \in S, h < e PROVE h < f
    <3>1. h \in Nat /\ e \in Nat /\ f \in Nat
      BY <2>1
    <3> QED
      BY <2>2, <3>1
  <2> QED
    BY <2>2
<1>3. /\ Cardinality(before(e)) <= Cardinality(before(f))
      /\ Cardinality(before(e)) \in Nat /\ Cardinality(before(f)) \in Nat
  BY <1>1, <1>2, FS_Subset, FS_CardinalityType
<1>4. Cardinality(before(f)) < Limit
  BY DEF List
<1>5. Cardinality(before(e)) < Limit
  BY <1>3, <1>4, BoundsAssumption
<1> QED
  BY <1>5 DEF List

\* An event that was never tried is due, and it is in every list that has a
\* later event: so no list can reach the later one first.
Untried ==
  \A e \in Events : (outcome[e] = "unsent" /\ e <= last) => e \in due

ListsClosed ==
  \A d \in Dispatchers : \A e \in Events, f \in dtodo[d] :
    (outcome[e] = "unsent" /\ e < f) => e \in dtodo[d]

Tried ==
  \A d \in Dispatchers : dpc[d] \in {"sent", "failed"} => outcome[Current(d)] # "unsent"

NoOvertaking ==
  \A e, f \in Events : (e < f /\ outcome[f] = "received") => outcome[e] # "unsent"

Ordered == Untried /\ ListsClosed /\ Tried /\ NoOvertaking

\* Steps that leave the receiver and the lists alone keep the order, if they
\* take no row out of due.
LEMMA QuietOrdered ==
  ASSUME TypeOK, Ordered, UNCHANGED <<outcome, dtodo, dpc>>,
         due \subseteq due', last' = last \/ (last' = last + 1 /\ last' \in due')
  PROVE  Ordered'
<1>1. Untried'
  <2> SUFFICES ASSUME NEW e \in Events, outcome[e] = "unsent", e <= last'
               PROVE  e \in due'
    BY DEF Untried
  <2>1. CASE e <= last
    BY <2>1 DEF Ordered, Untried
  <2>2. CASE last' = last + 1 /\ last' \in due' /\ ~(e <= last)
    <3>1. e \in Nat /\ last \in Nat
      BY BoundsAssumption DEF TypeOK, Events
    <3>2. e = last'
      BY <2>2, <3>1
    <3> QED
      BY <2>2, <3>2
  <2> QED
    BY <2>1, <2>2
<1>2. ListsClosed' /\ Tried' /\ NoOvertaking'
  BY DEF Ordered, ListsClosed, Tried, NoOvertaking, Current
<1> QED
  BY <1>1, <1>2 DEF Ordered

\* So do marks: what a dispatcher takes out of due and of its list was tried.
LEMMA MarkOrdered ==
  ASSUME TypeOK, Ordered, NEW d \in Dispatchers, dpc[d] \in {"sent", "failed"},
         Dispatch(d), Advance(d), due' = due \ {Current(d)}, UNCHANGED <<outcome, last>>
  PROVE  Ordered'
<1>1. outcome[Current(d)] # "unsent"
  BY DEF Ordered, Tried
<1>2. \A c \in Dispatchers \ {d} : dpc'[c] = dpc[c] /\ dtodo'[c] = dtodo[c]
  BY OthersKeepPlace
<1>3. Untried'
  BY <1>1 DEF Ordered, Untried
<1>4. ListsClosed'
  <2> SUFFICES ASSUME NEW c \in Dispatchers, NEW e \in Events, NEW f \in dtodo'[c],
                      outcome[e] = "unsent", e < f
               PROVE  e \in dtodo'[c]
    BY DEF ListsClosed
  <2>1. CASE c = d
    <3>1. dtodo'[d] = dtodo[d] \ {Current(d)}
      BY DEF Advance, TypeOK
    <3> QED
      BY <1>1, <2>1, <3>1 DEF Ordered, ListsClosed
  <2>2. CASE c # d
    BY <1>2, <2>2 DEF Ordered, ListsClosed
  <2> QED
    BY <2>1, <2>2
<1>5. Tried'
  <2> SUFFICES ASSUME NEW c \in Dispatchers, dpc'[c] \in {"sent", "failed"}
               PROVE  outcome[Min(dtodo'[c])] # "unsent"
    BY DEF Tried, Current
  <2>1. c # d
    BY DEF Advance, TypeOK
  <2> QED
    BY <1>2, <2>1 DEF Ordered, Tried, Current
<1>6. NoOvertaking'
  BY DEF Ordered, NoOvertaking
<1> QED
  BY <1>3, <1>4, <1>5, <1>6 DEF Ordered

LEMMA NextOrdered ==
  ASSUME TypeOK, Ordered, [Next]_vars
  PROVE  Ordered'
<1>1. ASSUME NEW s \in Subjects, Change(s) PROVE Ordered'
  BY <1>1, QuietOrdered DEF Change, dispatcherVars
<1>2. ASSUME NEW s \in Subjects, ChangeSilently(s) PROVE Ordered'
  BY <1>2, QuietOrdered DEF ChangeSilently, rowVars, dispatcherVars
<1>3. ASSUME NEW e \in Events, BecomeDue(e) PROVE Ordered'
  BY <1>3, QuietOrdered DEF BecomeDue, sourceVars, dispatcherVars
<1>4. ASSUME NEW d \in Dispatchers, Start(d) PROVE Ordered'
  <2>1. /\ dtodo' = [dtodo EXCEPT ![d] = List(due)]
        /\ dpc' = [dpc EXCEPT ![d] = "publish"]
        /\ UNCHANGED <<due, last, outcome>>
    BY <1>4 DEF Start, rowVars, sourceVars
  <2>2. due \in SUBSET (1..last) /\ last \in Nat
    BY DueExists, BoundsAssumption DEF TypeOK
  <2>3. ListsClosed'
    <3> SUFFICES ASSUME NEW c \in Dispatchers, NEW e \in Events, NEW f \in dtodo'[c],
                        outcome[e] = "unsent", e < f
                 PROVE  e \in dtodo'[c]
      BY <2>1 DEF ListsClosed
    <3>1. CASE c = d
      <4>1. dtodo'[c] = List(due)
        BY <2>1, <3>1 DEF TypeOK
      <4>2. f \in due
        BY <4>1, ListIsDue
      <4>3. e <= last
        BY <2>2, <4>2 DEF Events
      <4>4. e \in due
        BY <4>3 DEF Ordered, Untried
      <4> QED
        BY <2>2, <4>1, <4>4, ListIsClosed
    <3>2. CASE c # d
      BY <2>1, <3>2 DEF Ordered, ListsClosed, TypeOK
    <3> QED
      BY <3>1, <3>2
  <2>4. Tried'
    <3> SUFFICES ASSUME NEW c \in Dispatchers, dpc'[c] \in {"sent", "failed"}
                 PROVE  outcome[Min(dtodo'[c])] # "unsent"
      BY <2>1 DEF Tried, Current
    <3>1. c # d
      BY <2>1 DEF TypeOK
    <3> QED
      BY <2>1, <3>1 DEF Ordered, Tried, Current, TypeOK
  <2>5. Untried' /\ NoOvertaking'
    BY <2>1 DEF Ordered, Untried, NoOvertaking
  <2> QED
    BY <2>3, <2>4, <2>5 DEF Ordered
<1>5. ASSUME NEW d \in Dispatchers, Load(d) PROVE Ordered'
  <2>1. dpc' = [dpc EXCEPT ![d] = "publish"] /\ UNCHANGED <<dtodo, due, last, outcome>>
    BY <1>5 DEF Load, rowVars, sourceVars
  <2>2. Tried'
    BY <2>1 DEF Ordered, Tried, Current, TypeOK
  <2> QED
    BY <2>1, <2>2 DEF Ordered, Untried, ListsClosed, NoOvertaking
<1>6. ASSUME NEW d \in Dispatchers, Publish(d) PROVE Ordered'
  <2>1. /\ Current(d) \in dtodo[d] /\ Current(d) \in Events
        /\ \A e \in dtodo[d] : Current(d) <= e
    BY <1>6, CurrentIsListed DEF Publish
  <2>2. UNCHANGED <<dtodo, due, last>>
    BY <1>6 DEF Publish, rowVars, sourceVars
  <2>3. /\ outcome'[Current(d)] # "unsent"
        /\ \A e \in Events \ {Current(d)} : outcome'[e] = outcome[e]
    BY <1>6, <2>1 DEF Publish, TypeOK
  <2>4. \A e \in Events : outcome'[e] = "unsent" => outcome[e] = "unsent"
    BY OutcomeGrows
  <2>5. Untried' /\ ListsClosed'
    BY <2>2, <2>4 DEF Ordered, Untried, ListsClosed
  <2>6. Tried'
    <3> SUFFICES ASSUME NEW c \in Dispatchers, dpc'[c] \in {"sent", "failed"}
                 PROVE  outcome'[Min(dtodo[c])] # "unsent"
      BY <2>2 DEF Tried, Current
    <3>1. CASE c = d
      BY <2>3, <3>1 DEF Current
    <3>2. CASE c # d
      <4>1. dpc[c] = dpc'[c]
        BY <1>6, <3>2 DEF Publish, TypeOK
      <4>2. Min(dtodo[c]) \in Events /\ outcome[Min(dtodo[c])] # "unsent"
        BY <4>1, CurrentIsListed DEF Ordered, Tried, Current
      <4> QED
        BY <2>4, <4>2
    <3> QED
      BY <3>1, <3>2
  <2>7. NoOvertaking'
    <3> SUFFICES ASSUME NEW e \in Events, NEW f \in Events, e < f,
                        outcome'[f] = "received", outcome'[e] = "unsent"
                 PROVE  FALSE
      BY DEF NoOvertaking
    <3>1. outcome[e] = "unsent"
      BY <2>4
    <3>2. CASE f = Current(d)
      <4>1. e \in dtodo[d]
        BY <2>1, <3>1, <3>2 DEF Ordered, ListsClosed
      <4> QED
        BY <2>1, <3>2, <4>1 DEF Events
    <3>3. CASE f # Current(d)
      BY <2>3, <3>1, <3>3 DEF Ordered, NoOvertaking
    <3> QED
      BY <3>2, <3>3
  <2> QED
    BY <2>5, <2>6, <2>7 DEF Ordered
<1>7. ASSUME NEW d \in Dispatchers, MarkSent(d) PROVE Ordered'
  BY <1>7, MarkOrdered DEF MarkSent, Dispatch, sourceVars
<1>8. ASSUME NEW d \in Dispatchers, MarkFailed(d) PROVE Ordered'
  BY <1>8, MarkOrdered DEF MarkFailed, Dispatch, sourceVars
<1>9. ASSUME NEW d \in Dispatchers, Crash(d) PROVE Ordered'
  <2>1. /\ dpc' = [dpc EXCEPT ![d] = "idle"] /\ dtodo' = [dtodo EXCEPT ![d] = {}]
        /\ UNCHANGED <<due, last, outcome>>
    BY <1>9 DEF Crash, rowVars, sourceVars
  <2>2. ListsClosed' /\ Tried'
    BY <2>1 DEF Ordered, ListsClosed, Tried, Current, TypeOK
  <2> QED
    BY <2>1, <2>2 DEF Ordered, Untried, NoOvertaking
<1>10. CASE UNCHANGED vars
  BY <1>10, QuietOrdered DEF vars, rowVars, sourceVars, dispatcherVars
<1> QED
  BY <1>1, <1>2, <1>3, <1>4, <1>5, <1>6, <1>7, <1>8, <1>9, <1>10 DEF Next, Dispatch

\* The first deliveries of a subject's events come in the order of the events,
\* but for refused ones, for any batch size and any number of overlapping tasks.
THEOREM EventsArriveInOrder == Spec => []FirstDeliveriesInOrder
<1>1. Init => Ordered
  BY BoundsAssumption DEF Init, Ordered, Untried, ListsClosed, Tried, NoOvertaking, Events
<1>2. TypeOK /\ Ordered /\ [Next]_vars => Ordered'
  BY NextOrdered
<1>3. Ordered => FirstDeliveriesInOrder
  BY DEF Ordered, NoOvertaking, FirstDeliveriesInOrder
<1> QED
  BY <1>1, <1>2, <1>3, TypeCorrect, PTL DEF Spec

-----------------------------------------------------------------------------
(* The memory of agents *)

\* The post or candidate has been written: it never gets rid of its text.
Written(e) == IF e \in Items THEN text[e] # 0 ELSE draft[e] # 0

\* A row that holds numbers has the hash of the text they are of, with what texts have
\* in common as m says.
Names(m, x) == x.vector # 0 => x.hash = m[x.vector].kept

RowsNamed == \A e \in Memory!Entities : row[e] # NoRow => Names(mark, row[e]) /\ Written(e)

\* What a task has written, has still to do, has read and has in its hands.
Fine(t) ==
  /\ \A e \in Memory!Entities : t.pending[e] # NoRow => Names(mark, t.pending[e]) /\ Written(e)
  /\ \A i \in DOMAIN t.todo : Written(t.todo[i].item)
  /\ \A e \in t.rows : Written(e)
  /\ t.pc \in {"store", "wait"} => t.todo # <<>> /\ t.vector \in {0, Head(t.todo).text}

TasksFine == \A w \in Workers : Fine(task[w])

ContentTypes ==
  /\ mark \in [Memory!Texts -> [full : Memory!Texts, kept : 0..MaxTexts]]
  /\ text \in [Items -> 0..MaxTexts] /\ place \in [Items -> Memory!Places] /\ draft \in [Candidates -> 0..MaxTexts]
  /\ cstatus \in [Candidates -> {"pending", "resolved", "old"}]
  /\ gone \subseteq Memory!Entities
  /\ texts \in 0..MaxTexts /\ model \in 1..MaxModels /\ misses \in 0..MaxMisses
RowTypes == row \in [Memory!Entities -> Memory!Rows \cup {NoRow}]
TaskTypes == task \in [Workers -> Memory!Tasks]

MemoryTypes == ContentTypes /\ RowTypes /\ TaskTypes

MemoryInv == MemoryTypes /\ RowsNamed /\ TasksFine

LEMMA MemoryTypeParts == Memory!TypeOK <=> MemoryTypes
  BY DEF Memory!TypeOK, MemoryTypes, ContentTypes, RowTypes, TaskTypes

LEMMA Numbers ==
  ASSUME Memory!ConstantsOK
  PROVE  MaxTexts \in Nat /\ MaxMisses \in Nat /\ MaxModels \in Nat /\ 1 \in 1..MaxModels
  BY DEF Memory!ConstantsOK

\* What a task has still to do.
Posts == [item : Items, text : Memory!Texts]

LEMMA FunctionIsSeq == ASSUME NEW S, NEW n \in Nat, NEW f \in [1..n -> S] PROVE f \in Seq(S)
  OBVIOUS

LEMMA TodoPosts ==
  ASSUME NEW t \in Memory!Tasks
  PROVE  /\ t.todo \in Seq(Posts) /\ \A i \in DOMAIN t.todo : t.todo[i] \in Posts /\ t.todo[i].item \in Items
         /\ t.todo # <<>> =>
              /\ Head(t.todo) \in Posts /\ Head(t.todo) = t.todo[1] /\ 1 \in DOMAIN t.todo
              /\ Tail(t.todo) \in Seq(Posts)
              /\ \A i \in DOMAIN Tail(t.todo) : i + 1 \in DOMAIN t.todo /\ Tail(t.todo)[i] = t.todo[i + 1]
<1>1. t.todo \in Seq(Posts)
  BY DEF Memory!Tasks, Posts
<1>2. ASSUME NEW s \in Seq(Posts)
      PROVE  /\ \A i \in DOMAIN s : s[i] \in Posts /\ s[i].item \in Items
             /\ s # <<>> =>
                  /\ Head(s) \in Posts /\ Head(s) = s[1] /\ 1 \in DOMAIN s
                  /\ Tail(s) \in Seq(Posts)
                  /\ \A i \in DOMAIN Tail(s) : i + 1 \in DOMAIN s /\ Tail(s)[i] = s[i + 1]
  <2>1. \A i \in DOMAIN s : s[i] \in Posts
    OBVIOUS
  <2>2. \A x \in Posts : x.item \in Items
    BY DEF Posts
  <2> HIDE DEF Posts
  <2>3. s # <<>> =>
          /\ Head(s) \in Posts /\ Head(s) = s[1] /\ 1 \in DOMAIN s
          /\ Tail(s) \in Seq(Posts)
          /\ \A i \in DOMAIN Tail(s) : i + 1 \in DOMAIN s /\ Tail(s)[i] = s[i + 1]
    OBVIOUS
  <2> QED
    BY <2>1, <2>2, <2>3
<1> QED
  BY <1>1, <1>2

LEMMA IdleIsTask == ASSUME Memory!ConstantsOK PROVE Memory!Idle \in Memory!Tasks
<1>1. (CHOOSE h \in Channels : TRUE) \in Channels
  BY DEF Memory!ConstantsOK
<1>2. Memory!Nothing \in [Memory!Entities -> Memory!Rows \cup {NoRow}]
  BY DEF Memory!Nothing
<1>3. <<>> \in Seq([item : Items, text : Memory!Texts])
  OBVIOUS
<1>4. 0 \in 0..MaxTexts
  BY Numbers
<1> QED
  BY <1>1, <1>2, <1>3, <1>4, Numbers DEF Memory!Idle, Memory!Tasks

LEMMA IdleIsFine == Fine(Memory!Idle)
  BY DEF Fine, Memory!Idle, Memory!Nothing

\* Nothing happens to other tasks when one takes a step, or to any when their
\* posts are written.
LEMMA TaskSteps ==
  ASSUME TaskTypes, TasksFine, UNCHANGED <<mark, text, draft>>, NEW w \in Workers, NEW t \in Memory!Tasks, Fine(t),
         task' = [task EXCEPT ![w] = t]
  PROVE  TaskTypes' /\ TasksFine'
  BY DEF TaskTypes, TasksFine, Fine, Written

LEMMA StillWritten ==
  ASSUME \A e \in Memory!Entities : Written(e) => Written(e)', TaskTypes, TasksFine, task' = task, mark' = mark
  PROVE  TaskTypes' /\ TasksFine'
<1>1. TaskTypes'
  BY DEF TaskTypes
<1>2. ASSUME NEW w \in Workers PROVE Fine(task[w])'
  <2>1. task[w] \in Memory!Tasks /\ Fine(task[w])
    BY DEF TaskTypes, TasksFine
  <2>2. \A i \in DOMAIN task[w].todo : task[w].todo[i].item \in Memory!Entities
    BY <2>1, TodoPosts DEF Memory!Entities
  <2>3. task[w].rows \subseteq Memory!Entities
    BY <2>1 DEF Memory!Tasks
  <2> QED
    BY <2>1, <2>2, <2>3 DEF Fine
<1> QED
  BY <1>1, <1>2 DEF TasksFine

LEMMA InitMemory == Memory!ConstantsOK /\ Memory!Init => MemoryInv
<1> SUFFICES ASSUME Memory!ConstantsOK, Memory!Init PROVE MemoryInv
  OBVIOUS
<1>1. TaskTypes /\ TasksFine
  BY IdleIsTask, IdleIsFine DEF Memory!Init, TaskTypes, TasksFine
<1>2. ContentTypes /\ RowTypes /\ RowsNamed
  BY Numbers DEF Memory!Init, Memory!Marks, ContentTypes, RowTypes, RowsNamed
<1> QED
  BY <1>1, <1>2 DEF MemoryInv, MemoryTypes

-----------------------------------------------------------------------------
(* People, runs and the retention *)

\* The post comes to the front, those that were before it move back by one.
LEMMA TouchType ==
  ASSUME Memory!ConstantsOK, ContentTypes, NEW c \in Items, Memory!Touch(c)
  PROVE  place' \in [Items -> Memory!Places]
<1>1. Cardinality(Items) \in Nat
  BY FS_CardinalityType DEF Memory!ConstantsOK, Memory!IsFiniteSet, IsFiniteSet
<1>2. Memory!Places = 0..(Cardinality(Items) - 1)
  BY DEF Memory!Places, Memory!Cardinality, Cardinality
<1> DEFINE n == Cardinality(Items)
<1> HIDE DEF n
<1>3. ASSUME NEW x \in Items
      PROVE  (IF x = c THEN 0 ELSE IF place[x] < place[c] THEN place[x] + 1 ELSE place[x]) \in 0..(n - 1)
  <2>1. place[x] \in 0..(n - 1) /\ place[c] \in 0..(n - 1)
    BY <1>2 DEF ContentTypes, n
  <2> QED
    BY <1>1, <2>1 DEF n
<1>4. Memory!Places = 0..(n - 1)
  BY <1>2 DEF n
<1> QED
  BY <1>3, <1>4 DEF Memory!Touch

\* What a row keeps of the hash of a text.
LEMMA MarkType == ASSUME ContentTypes, NEW t \in Memory!Texts PROVE mark[t].kept \in 0..MaxTexts
  BY DEF ContentTypes

LEMMA SavedRow ==
  ASSUME Memory!ConstantsOK, ContentTypes, NEW d \in Candidates, NEW h \in Channels, Memory!SaveCandidate(d, h)
  PROVE  \E new \in Memory!Rows : Names(mark, new) /\ row' = [row EXCEPT ![d] = new]
<1> DEFINE new == [channel |-> h, model |-> model, hash |-> Memory!Hash(texts + 1), vector |-> texts + 1]
<1>1. texts + 1 \in 1..MaxTexts /\ texts + 1 \in 0..MaxTexts
  BY Numbers DEF Memory!SaveCandidate, ContentTypes
<1>2. Memory!Hash(texts + 1) = mark[texts + 1].kept /\ mark[texts + 1].kept \in 0..MaxTexts
  BY <1>1, MarkType DEF Memory!Hash, Memory!Texts
<1>3. model \in 1..MaxModels
  BY DEF ContentTypes
<1>4. new \in Memory!Rows /\ Names(mark, new)
  BY <1>1, <1>2, <1>3 DEF Memory!Rows, Names
<1>5. row' = [row EXCEPT ![d] = new]
  BY DEF Memory!SaveCandidate
<1> HIDE DEF new
<1> QED
  BY <1>4, <1>5

LEMMA ApprovedRow ==
  ASSUME RowTypes, RowsNamed, NEW d \in Candidates, NEW c \in Items, Memory!Approve(d, c)
  PROVE  \/ row' = row
         \/ \E new \in Memory!Rows : Names(mark, new) /\ row' = [row EXCEPT ![c] = new]
<1>1. CASE row[d] = NoRow
  BY <1>1 DEF Memory!Approve
<1>2. CASE row[d] # NoRow
  <2>1. row[d] \in Memory!Rows /\ Names(mark, row[d])
    BY <1>2 DEF RowTypes, RowsNamed, Memory!Entities
  <2>2. CASE row[c] = NoRow
    BY <1>2, <2>1, <2>2 DEF Memory!Approve
  <2>3. CASE row[c] # NoRow
    <3> DEFINE new == [row[d] EXCEPT !.channel = row[c].channel]
    <3>1. row[c].channel \in Channels
      BY <2>3 DEF RowTypes, Memory!Rows, Memory!Entities
    <3>2. new \in Memory!Rows /\ Names(mark, new)
      BY <2>1, <3>1 DEF Memory!Rows, Names
    <3>3. row' = [row EXCEPT ![c] = new]
      BY <1>2, <2>3 DEF Memory!Approve
    <3> HIDE DEF new
    <3> QED
      BY <3>2, <3>3
  <2> QED
    BY <2>2, <2>3
<1> QED
  BY <1>1, <1>2

LEMMA OutsideKeeps ==
  ASSUME Memory!ConstantsOK, MemoryInv, Memory!Outside
  PROVE  MemoryInv'
<1> USE DEF Memory!Texts
<1>1. /\ task' = task /\ mark' = mark
      /\ TaskTypes /\ TasksFine /\ RowsNamed /\ RowTypes /\ ContentTypes
  BY DEF MemoryInv, MemoryTypes, Memory!Outside, Memory!Edit, Memory!DeletePost, Memory!SaveCandidate, Memory!Approve,
    Memory!Reject, Memory!RetentionPasses, Memory!CleanUp, Memory!ChangeModel
<1> SUFFICES ContentTypes' /\ RowTypes' /\ (\A e \in Memory!Entities : Written(e) => Written(e)') /\ RowsNamed'
  BY <1>1, StillWritten DEF MemoryInv, MemoryTypes
<1>2. ASSUME NEW c \in Items, Memory!Edit(c)
      PROVE  ContentTypes' /\ RowTypes' /\ (\A e \in Memory!Entities : Written(e) => Written(e)') /\ RowsNamed'
  <2>1. ContentTypes'
    BY <1>1, <1>2, TouchType, Numbers DEF Memory!Edit, ContentTypes
  <2>2. \A e \in Memory!Entities : Written(e) => Written(e)'
    BY <1>1, <1>2, Numbers DEF Memory!Edit, ContentTypes, Written
  <2> QED
    BY <1>1, <1>2, <2>1, <2>2 DEF Memory!Edit, RowTypes, RowsNamed
<1>3. ASSUME NEW c \in Items, Memory!DeletePost(c)
      PROVE  ContentTypes' /\ RowTypes' /\ (\A e \in Memory!Entities : Written(e) => Written(e)') /\ RowsNamed'
  BY <1>1, <1>3 DEF Memory!DeletePost, ContentTypes, Written, RowTypes, RowsNamed, Memory!Entities
<1>4. ASSUME NEW d \in Candidates, NEW h \in Channels, Memory!SaveCandidate(d, h)
      PROVE  ContentTypes' /\ RowTypes' /\ (\A e \in Memory!Entities : Written(e) => Written(e)') /\ RowsNamed'
  <2>1. ContentTypes'
    BY <1>1, <1>4, Numbers DEF Memory!SaveCandidate, ContentTypes
  <2>2. /\ texts + 1 \in Memory!Texts /\ texts + 1 \in 0..MaxTexts /\ texts + 1 # 0
        /\ d \notin Items /\ d \in Memory!Entities
    BY <1>1, <1>4, Numbers DEF Memory!SaveCandidate, ContentTypes, Memory!ConstantsOK, Memory!Entities
  <2>3. \A e \in Memory!Entities : Written(e) => Written(e)'
    BY <1>1, <1>4, <2>2 DEF Memory!SaveCandidate, ContentTypes, Written, Memory!Entities
  <2>4. PICK new \in Memory!Rows : Names(mark, new) /\ row' = [row EXCEPT ![d] = new]
    BY <1>1, <1>4, SavedRow
  <2>5. Written(d)'
    BY <1>1, <1>4, <2>2 DEF Memory!SaveCandidate, Written, ContentTypes
  <2> QED
    BY <1>1, <2>1, <2>3, <2>4, <2>5 DEF RowTypes, RowsNamed
<1>5. ASSUME NEW d \in Candidates, NEW c \in Items, Memory!Approve(d, c)
      PROVE  ContentTypes' /\ RowTypes' /\ (\A e \in Memory!Entities : Written(e) => Written(e)') /\ RowsNamed'
  <2>1. texts < MaxTexts => texts + 1 \in 0..MaxTexts /\ texts + 1 # 0
    BY <1>1, Numbers DEF ContentTypes
  <2>2. draft[d] # 0 /\ draft[d] \in 0..MaxTexts /\ c \in Memory!Entities /\ d \in Memory!Entities
    BY <1>1, <1>5 DEF Memory!Approve, Memory!Exists, Memory!ConstantsOK, ContentTypes, Memory!Entities
  <2>3. PICK n \in 0..MaxTexts : n # 0 /\ text' = [text EXCEPT ![c] = n]
    BY <1>5, <2>1, <2>2 DEF Memory!Approve
  <2>4. ContentTypes'
    BY <1>1, <1>5, <2>1, <2>3, TouchType DEF Memory!Approve, ContentTypes
  <2>5. Written(c)' /\ \A e \in Memory!Entities : Written(e) => Written(e)'
    BY <1>1, <1>5, <2>3 DEF Memory!Approve, ContentTypes, Written
  <2>6. \/ row' = row
        \/ \E new \in Memory!Rows : Names(mark, new) /\ row' = [row EXCEPT ![c] = new]
    BY <1>1, <1>5, ApprovedRow
  <2> QED
    BY <1>1, <2>4, <2>5, <2>6 DEF RowTypes, RowsNamed
<1>6. ASSUME NEW d \in Candidates, Memory!Reject(d) \/ Memory!RetentionPasses(d) \/ Memory!CleanUp(d)
      PROVE  ContentTypes' /\ RowTypes' /\ (\A e \in Memory!Entities : Written(e) => Written(e)') /\ RowsNamed'
  BY <1>1, <1>6 DEF Memory!Reject, Memory!RetentionPasses, Memory!CleanUp, ContentTypes, Written, RowTypes, RowsNamed,
    Memory!Entities
<1>7. ASSUME Memory!ChangeModel
      PROVE  ContentTypes' /\ RowTypes' /\ (\A e \in Memory!Entities : Written(e) => Written(e)') /\ RowsNamed'
  BY <1>1, <1>7, Numbers DEF Memory!ChangeModel, ContentTypes, Written, RowTypes, RowsNamed
<1> QED
  BY <1>2, <1>3, <1>4, <1>5, <1>6, <1>7 DEF Memory!Outside

-----------------------------------------------------------------------------
(* Tasks *)

Rest == UNCHANGED <<Memory!contentVars, row>>

\* A task that changes nothing else: it suffices that what it becomes is fine.
LEMMA TaskKeeps ==
  ASSUME MemoryInv, Rest, misses' \in 0..MaxMisses, NEW w \in Workers, NEW t \in Memory!Tasks, Fine(t),
         task' = [task EXCEPT ![w] = t]
  PROVE  MemoryInv'
<1>1. TaskTypes' /\ TasksFine'
  BY TaskSteps DEF MemoryInv, MemoryTypes, Rest, Memory!contentVars
<1>2. ContentTypes' /\ RowTypes' /\ RowsNamed'
  BY DEF MemoryInv, MemoryTypes, Rest, Memory!contentVars, ContentTypes, RowTypes, RowsNamed, Written
<1> QED
  BY <1>1, <1>2 DEF MemoryInv, MemoryTypes

LEMMA FaultsBounded ==
  ASSUME Memory!ConstantsOK, MemoryInv
  PROVE  /\ Memory!Fault => misses' \in 0..MaxMisses
         /\ misses' = misses => misses' \in 0..MaxMisses
<1>1. misses \in 0..MaxMisses /\ MaxMisses \in Nat
  BY Numbers DEF MemoryInv, MemoryTypes, ContentTypes
<1> QED
  BY <1>1 DEF Memory!Fault

LEMMA BeginKeeps ==
  ASSUME Memory!ConstantsOK, MemoryInv, NEW w \in Workers, NEW rotates \in BOOLEAN, NEW h \in Channels,
         NEW prune \in SUBSET Channels, NEW posts \in SUBSET Memory!Live, Memory!Begin(w, rotates, h, prune, posts)
  PROVE  MemoryInv'
<1>1. PICK order \in [1..Memory!Cardinality(posts) -> posts] :
        task' = [task EXCEPT ![w] =
          [Memory!Idle EXCEPT !.pc = "embed", !.rotates = rotates, !.channel = h, !.prune = prune,
                                 !.model = model,
             !.todo = [i \in DOMAIN order |-> [item |-> order[i], text |-> text[order[i]]]]]]
  BY DEF Memory!Begin
<1>2. Memory!Cardinality(posts) \in Nat
  <2>1. IsFiniteSet(Items)
    BY DEF Memory!ConstantsOK, Memory!IsFiniteSet, IsFiniteSet
  <2>2. posts \subseteq Items
    BY DEF Memory!Live
  <2>3. Memory!Cardinality(posts) = Cardinality(posts)
    BY DEF Memory!Cardinality, Cardinality
  <2> QED
    BY <2>1, <2>2, <2>3, FS_Subset, FS_CardinalityType
<1> DEFINE todo == [i \in 1..Memory!Cardinality(posts) |-> [item |-> order[i], text |-> text[order[i]]]]
           t == [Memory!Idle EXCEPT !.pc = "embed", !.rotates = rotates, !.channel = h, !.prune = prune,
                                 !.model = model,
                                    !.todo = todo]
<1>3. \A c \in posts : c \in Items /\ text[c] \in Memory!Texts /\ Written(c)
  BY Numbers DEF Memory!Live, Memory!Exists, Written, Memory!Texts, MemoryInv, MemoryTypes, ContentTypes
<1>4. todo \in Seq(Posts) /\ \A i \in DOMAIN todo : Written(todo[i].item)
  <2>1. \A i \in 1..Memory!Cardinality(posts) : order[i] \in posts
    OBVIOUS
  <2>2. \A i \in 1..Memory!Cardinality(posts) : [item |-> order[i], text |-> text[order[i]]] \in Posts
    BY <1>3, <2>1 DEF Posts
  <2>3. \A i \in DOMAIN todo : Written(todo[i].item)
    BY <1>3, <2>1
  <2> HIDE DEF Posts
  <2>4. todo \in [1..Memory!Cardinality(posts) -> Posts]
    BY <2>2
  <2> QED
    BY <1>2, <2>3, <2>4, FunctionIsSeq
<1>5. task' = [task EXCEPT ![w] = t]
  BY <1>1
<1> HIDE DEF todo
<1>6. t \in Memory!Tasks
  <2>1. model \in 1..MaxModels
    BY DEF MemoryInv, MemoryTypes, ContentTypes
  <2> QED
    BY <1>4, <2>1, IdleIsTask DEF Memory!Tasks, Posts
<1>7. Fine(t)
  <2>1. t.pending = Memory!Idle.pending /\ t.rows = Memory!Idle.rows /\ t.todo = todo /\ t.pc = "embed"
    BY IdleIsTask DEF Memory!Tasks
  <2> HIDE DEF t
  <2> QED
    BY <1>4, <2>1, IdleIsFine DEF Fine
<1>8. Rest /\ misses' = misses
  BY DEF Memory!Begin, Rest
<1> HIDE DEF t
<1> QED
  BY <1>5, <1>6, <1>7, <1>8, TaskKeeps, FaultsBounded

LEMMA TasksBegin ==
  ASSUME Memory!ConstantsOK, MemoryInv, NEW w \in Workers,
         \/ \E h \in Channels, posts \in SUBSET Items : Memory!Reindex(w, h, posts)
         \/ \E h \in Channels : Memory!Rotate(w, h)
         \/ Memory!Drift(w)
  PROVE  MemoryInv'
<1>1. CASE \E h \in Channels, posts \in SUBSET Items : Memory!Reindex(w, h, posts)
  BY <1>1, BeginKeeps DEF Memory!Reindex
<1>2. CASE \E h \in Channels : Memory!Rotate(w, h)
  <2>1. \E h \in Channels, posts \in SUBSET Memory!Live : Memory!Begin(w, TRUE, h, {h}, posts)
    <3>1. Memory!Stale \in SUBSET Memory!Live
      BY DEF Memory!Stale
    <3> QED
      BY <1>2, <3>1 DEF Memory!Rotate, Memory!Begin
  <2> QED
    BY <2>1, BeginKeeps
<1>3. CASE Memory!Drift(w)
  <2>1. \E h \in Channels, prune \in SUBSET Channels, posts \in SUBSET Memory!Live :
          Memory!Begin(w, TRUE, h, prune, posts)
    <3> DEFINE drifted == {h \in Channels : Memory!Drifted(h)}
               first == CHOOSE h \in drifted : TRUE
    <3>1. drifted # {} /\ Memory!Begin(w, TRUE, first, drifted, Memory!Stale)
      BY <1>3 DEF Memory!Drift
    <3>2. first \in Channels /\ drifted \in SUBSET Channels /\ Memory!Stale \in SUBSET Memory!Live
      BY <3>1 DEF Memory!Stale
    <3> HIDE DEF drifted, first
    <3> QED
      BY <3>1, <3>2 DEF Memory!Begin
  <2> QED
    BY <2>1, BeginKeeps
<1> QED
  BY <1>1, <1>2, <1>3

LEMMA IdleKeeps ==
  ASSUME Memory!ConstantsOK, MemoryInv, NEW w \in Workers, Memory!Collide(w) \/ Memory!Deadlock(w) \/ Memory!Abort(w)
  PROVE  MemoryInv'
<1>1. Rest /\ task' = [task EXCEPT ![w] = Memory!Idle] /\ misses' \in 0..MaxMisses
  BY FaultsBounded DEF Memory!Collide, Memory!Deadlock, Memory!Abort, Memory!Rollback, Rest
<1> QED
  BY <1>1, TaskKeeps, IdleIsTask, IdleIsFine

LEMMA MaintainKeeps ==
  ASSUME Memory!ConstantsOK, MemoryInv, NEW w \in Workers, Memory!Maintain(w)
  PROVE  MemoryInv'
<1> DEFINE t == [Memory!Idle EXCEPT !.pc = "rows", !.maintains = TRUE, !.prune = Channels]
<1>1. t \in Memory!Tasks
  BY IdleIsTask DEF Memory!Tasks
<1>2. Fine(t)
  BY IdleIsTask, IdleIsFine DEF Memory!Tasks, Fine
<1>3. Rest /\ misses' = misses /\ task' = [task EXCEPT ![w] = t]
  BY DEF Memory!Maintain, Rest
<1> QED
  BY <1>1, <1>2, <1>3, TaskKeeps, FaultsBounded

LEMMA TaskFacts ==
  ASSUME MemoryInv, NEW w \in Workers
  PROVE  task[w] \in Memory!Tasks /\ Fine(task[w])
  BY DEF MemoryInv, MemoryTypes, TaskTypes, TasksFine

LEMMA EmbedKeeps ==
  ASSUME Memory!ConstantsOK, MemoryInv, NEW w \in Workers, Memory!Embed(w)
  PROVE  MemoryInv'
<1>1. PICK v \in {Memory!Post(w).text, 0} : task' = [task EXCEPT ![w].pc = "store", ![w].vector = v]
  BY DEF Memory!Embed
<1>2. Rest /\ misses' \in 0..MaxMisses /\ task[w].todo # <<>>
  BY FaultsBounded DEF Memory!Embed, Rest
<1> DEFINE t == [task[w] EXCEPT !.pc = "store", !.vector = v]
<1>3. task' = [task EXCEPT ![w] = t]
  BY <1>1 DEF MemoryInv, MemoryTypes, TaskTypes
<1>4. v \in 0..MaxTexts
  BY <1>2, TaskFacts, TodoPosts, Numbers DEF Memory!Post, Posts, Memory!Texts
<1>5. t \in Memory!Tasks
  BY <1>4, TaskFacts DEF Memory!Tasks
<1>6. Fine(t)
  <2>1. t.pending = task[w].pending /\ t.rows = task[w].rows /\ t.todo = task[w].todo /\ t.vector = v
    BY TaskFacts DEF Memory!Tasks
  <2> HIDE DEF t
  <2> QED
    BY <1>2, <2>1, TaskFacts DEF Fine, Memory!Post
<1> HIDE DEF t
<1> QED
  BY <1>2, <1>3, <1>5, <1>6, TaskKeeps

LEMMA WaitKeeps ==
  ASSUME Memory!ConstantsOK, MemoryInv, NEW w \in Workers, Memory!Wait(w)
  PROVE  MemoryInv'
<1> DEFINE seen == row[Memory!Post(w).item] # NoRow
           t == [task[w] EXCEPT !.pc = "wait", !.seen = seen]
<1>1. Rest /\ misses' = misses /\ task' = [task EXCEPT ![w] = t]
  BY DEF Memory!Wait, Rest, MemoryInv, MemoryTypes, TaskTypes
<1>2. seen \in BOOLEAN
  OBVIOUS
<1> HIDE DEF seen
<1>3. t \in Memory!Tasks
  BY <1>2, TaskFacts DEF Memory!Tasks
<1>4. Fine(t)
  <2>1. t.pending = task[w].pending /\ t.rows = task[w].rows /\ t.todo = task[w].todo /\ t.vector = task[w].vector
    BY TaskFacts DEF Memory!Tasks
  <2> HIDE DEF t
  <2> QED
    BY <2>1, TaskFacts DEF Fine, Memory!Wait
<1> HIDE DEF t
<1> QED
  BY <1>1, <1>3, <1>4, TaskKeeps, FaultsBounded

\* What is written for the post in hand: of its text, and as it was read.
LEMMA NewRowFacts ==
  ASSUME Memory!ConstantsOK, MemoryInv, NEW w \in Workers, task[w].pc \in {"store", "wait"},
         NEW seen \in BOOLEAN, seen => row[Memory!Post(w).item] # NoRow
  PROVE  Memory!NewRow(w, seen) \in Memory!Rows /\ Names(mark, Memory!NewRow(w, seen))
<1>1. task[w].todo # <<>> /\ task[w].vector \in {0, Memory!Post(w).text}
  BY TaskFacts DEF Fine, Memory!Post
<1>2. Memory!Post(w) \in Posts
  BY <1>1, TaskFacts, TodoPosts DEF Memory!Post
<1>3. seen => row[Memory!Post(w).item].channel \in Channels
  BY <1>2 DEF MemoryInv, MemoryTypes, RowTypes, Memory!Rows, Posts, Memory!Entities
<1>4. task[w].channel \in Channels /\ task[w].model \in 1..MaxModels /\ task[w].vector \in 0..MaxTexts
  BY TaskFacts DEF Memory!Tasks
<1>5. Memory!Post(w).text \in Memory!Texts
  BY <1>2 DEF Posts
<1>6. Memory!Hash(Memory!Post(w).text) = mark[Memory!Post(w).text].kept
  BY DEF Memory!Hash
<1>7. mark[Memory!Post(w).text].kept \in 0..MaxTexts
  BY <1>5, MarkType DEF MemoryInv, MemoryTypes
<1> QED
  BY <1>1, <1>3, <1>4, <1>6, <1>7 DEF Memory!NewRow, Memory!Rows, Names

LEMMA GoesKeeps ==
  ASSUME Memory!ConstantsOK, MemoryInv, Rest, misses' = misses, NEW w \in Workers, task[w].pc \in {"store", "wait"},
         NEW new \in Memory!Rows \cup {NoRow}, new # NoRow => Names(mark, new), Memory!Goes(w, new)
  PROVE  MemoryInv'
<1>1. task[w].todo # <<>>
  BY TaskFacts DEF Fine
<1> DEFINE c == Memory!Post(w).item
           pending == [task[w].pending EXCEPT ![c] = new]
           todo == Tail(task[w].todo)
           t == [task[w] EXCEPT !.pc = "embed", !.vector = 0, !.seen = FALSE, !.todo = todo, !.pending = pending]
<1>2. c \in Items /\ Written(c)
  BY <1>1, TaskFacts, TodoPosts DEF Memory!Post, Posts, Fine
<1>3. task' = [task EXCEPT ![w] = t]
  BY DEF Memory!Goes
<1>4. todo \in Seq(Posts) /\ \A i \in DOMAIN todo : Written(todo[i].item)
  BY <1>1, TaskFacts, TodoPosts DEF Fine
<1>5. pending \in [Memory!Entities -> Memory!Rows \cup {NoRow}]
  BY TaskFacts DEF Memory!Tasks
<1>6. \A e \in Memory!Entities : pending[e] # NoRow => Names(mark, pending[e]) /\ Written(e)
  BY <1>2, TaskFacts DEF Memory!Tasks, Fine
<1> HIDE DEF pending, todo
<1>7. t \in Memory!Tasks
  <2>1. 0 \in 0..MaxTexts /\ task[w] \in Memory!Tasks
    BY Numbers, TaskFacts
  <2> QED
    BY <1>4, <1>5, <2>1 DEF Memory!Tasks, Posts
<1>8. Fine(t)
  <2>1. t.pending = pending /\ t.rows = task[w].rows /\ t.todo = todo /\ t.pc = "embed"
    BY TaskFacts DEF Memory!Tasks
  <2> HIDE DEF t
  <2> QED
    BY <1>4, <1>6, <2>1, TaskFacts DEF Fine
<1> HIDE DEF t
<1> QED
  BY <1>3, <1>7, <1>8, TaskKeeps, FaultsBounded

LEMMA StoreKeeps ==
  ASSUME Memory!ConstantsOK, MemoryInv, NEW w \in Workers, Memory!Store(w) \/ Memory!WriteLate(w)
  PROVE  MemoryInv'
<1>1. Rest /\ misses' = misses /\ task[w].pc \in {"store", "wait"}
  BY DEF Memory!Store, Memory!WriteLate, Rest
<1>2. \E new \in Memory!Rows \cup {NoRow} : (new # NoRow => Names(mark, new)) /\ Memory!Goes(w, new)
  <2>1. CASE Memory!Store(w)
    <3> DEFINE seen == row[Memory!Post(w).item] # NoRow
               new == Memory!NewRow(w, seen)
    <3>1. seen \in BOOLEAN /\ (seen => row[Memory!Post(w).item] # NoRow) /\ Memory!Goes(w, new)
      BY <2>1 DEF Memory!Store
    <3> HIDE DEF seen
    <3>2. new \in Memory!Rows /\ Names(mark, new)
      BY <1>1, <3>1, NewRowFacts
    <3> HIDE DEF new
    <3> QED
      BY <3>1, <3>2 DEF Memory!Goes
  <2>2. CASE Memory!WriteLate(w)
    <3> DEFINE seen == task[w].seen
               lost == seen /\ row[Memory!Post(w).item] = NoRow
               new == IF lost THEN NoRow ELSE Memory!NewRow(w, seen)
    <3>1. Memory!Goes(w, new) /\ seen \in BOOLEAN
      BY <2>2, TaskFacts DEF Memory!WriteLate, Memory!Tasks
    <3>2. ~lost => Memory!NewRow(w, seen) \in Memory!Rows /\ Names(mark, Memory!NewRow(w, seen))
      BY <1>1, <3>1, NewRowFacts
    <3>3. new \in Memory!Rows \cup {NoRow} /\ (new # NoRow => Names(mark, new))
      BY <3>2
    <3> HIDE DEF new
    <3> QED
      BY <3>1, <3>3 DEF Memory!Goes
  <2> QED
    BY <2>1, <2>2 DEF Memory!Store, Memory!WriteLate
<1> QED
  BY <1>1, <1>2, GoesKeeps

LEMMA CommittedRows ==
  ASSUME Memory!ConstantsOK, MemoryInv, NEW w \in Workers
  PROVE  /\ Memory!Committed(w) \in [Memory!Entities -> Memory!Rows \cup {NoRow}]
         /\ \A e \in Memory!Entities :
              /\ row[e] # NoRow => Memory!Committed(w)[e] # NoRow
              /\ Memory!Committed(w)[e] # NoRow => Names(mark, Memory!Committed(w)[e]) /\ Written(e)
  BY TaskFacts DEF Memory!Committed, Memory!Wrote, Memory!Tasks, Fine, MemoryInv, MemoryTypes, RowTypes, RowsNamed

\* A task that ends, with rows that are as they should be.
LEMMA EndKeeps ==
  ASSUME Memory!ConstantsOK, MemoryInv, UNCHANGED <<Memory!contentVars, misses>>, RowTypes', RowsNamed',
         NEW w \in Workers, task' = [task EXCEPT ![w] = Memory!Idle]
  PROVE  MemoryInv'
<1>1. TaskTypes' /\ TasksFine'
  BY TaskSteps, IdleIsTask, IdleIsFine DEF MemoryInv, MemoryTypes, Memory!contentVars
<1>2. ContentTypes'
  BY DEF MemoryInv, MemoryTypes, Memory!contentVars, ContentTypes
<1> QED
  BY <1>1, <1>2 DEF MemoryInv, MemoryTypes

LEMMA EmbeddedKeeps ==
  ASSUME Memory!ConstantsOK, MemoryInv, NEW w \in Workers, Memory!Embedded(w)
  PROVE  MemoryInv'
<1>1. UNCHANGED <<Memory!contentVars, misses>>
  BY DEF Memory!Embedded
<1>2. CASE row' = Memory!Committed(w) /\ task' = [task EXCEPT ![w] = Memory!Idle]
  <2>1. RowTypes'
    BY <1>2, CommittedRows DEF RowTypes
  <2>2. RowsNamed'
    BY <1>1, <1>2, CommittedRows DEF RowsNamed, Written, Memory!contentVars
  <2> QED
    BY <1>1, <1>2, <2>1, <2>2, EndKeeps
<1>3. CASE /\ row' = row
           /\ task' = [task EXCEPT ![w] = [Memory!Idle EXCEPT !.pc = "rows", !.prune = task[w].prune,
                                                              !.pending = task[w].pending]]
  <2> DEFINE t == [Memory!Idle EXCEPT !.pc = "rows", !.prune = task[w].prune, !.pending = task[w].pending]
  <2>1. t \in Memory!Tasks
    BY IdleIsTask, TaskFacts DEF Memory!Tasks
  <2>2. Fine(t)
    <3>1. t.pending = task[w].pending /\ t.rows = Memory!Idle.rows /\ t.todo = Memory!Idle.todo /\ t.pc = "rows"
      BY IdleIsTask DEF Memory!Tasks
    <3> HIDE DEF t
    <3> QED
      BY <3>1, TaskFacts, IdleIsFine DEF Fine
  <2>3. Rest /\ misses' = misses /\ task' = [task EXCEPT ![w] = t]
    BY <1>1, <1>3 DEF Rest
  <2> HIDE DEF t
  <2> QED
    BY <2>1, <2>2, <2>3, TaskKeeps, FaultsBounded
<1> QED
  BY <1>2, <1>3 DEF Memory!Embedded

LEMMA ReadRowsKeeps ==
  ASSUME Memory!ConstantsOK, MemoryInv, NEW w \in Workers, Memory!ReadRows(w)
  PROVE  MemoryInv'
<1> DEFINE read == {e \in Memory!Entities : row[e] # NoRow /\ row[e].channel \in task[w].prune}
           bad == {e \in read : task[w].maintains /\ Memory!Unusable(e)}
           t == [Memory!Idle EXCEPT !.pc = "ids", !.rows = read, !.pending = task[w].pending, !.bad = bad]
<1>1. read \subseteq Memory!Entities /\ bad \subseteq Memory!Entities /\ \A e \in read : Written(e)
  BY DEF MemoryInv, RowsNamed
<1>2. Rest /\ misses' = misses /\ task' = [task EXCEPT ![w] = t]
  BY DEF Memory!ReadRows, Rest
<1> HIDE DEF read, bad
<1>3. t \in Memory!Tasks
  BY <1>1, IdleIsTask, TaskFacts DEF Memory!Tasks
<1>4. Fine(t)
  <2>1. t.pending = task[w].pending /\ t.rows = read /\ t.todo = Memory!Idle.todo /\ t.pc = "ids"
    BY IdleIsTask DEF Memory!Tasks
  <2> HIDE DEF t
  <2> QED
    BY <1>1, <2>1, TaskFacts, IdleIsFine DEF Fine
<1> HIDE DEF t
<1> QED
  BY <1>2, <1>3, <1>4, TaskKeeps, FaultsBounded

LEMMA PruneKeeps ==
  ASSUME Memory!ConstantsOK, MemoryInv, NEW w \in Workers, Memory!Prune(w)
  PROVE  MemoryInv'
<1>1. /\ UNCHANGED <<Memory!contentVars, misses>> /\ task' = [task EXCEPT ![w] = Memory!Idle]
      /\ row' = [e \in Memory!Entities |-> IF e \in Memory!Dead(w) THEN NoRow ELSE Memory!Committed(w)[e]]
  BY DEF Memory!Prune
<1>2. RowTypes'
  BY <1>1, CommittedRows DEF RowTypes
<1>3. RowsNamed'
  BY <1>1, CommittedRows DEF RowsNamed, Written, Memory!contentVars
<1> QED
  BY <1>1, <1>2, <1>3, EndKeeps

LEMMA CompactKeeps ==
  ASSUME MemoryInv, Memory!Compact
  PROVE  MemoryInv'
<1>1. /\ UNCHANGED <<Memory!contentVars, task, misses>>
      /\ row' = [e \in Memory!Entities |-> IF Memory!Compactable(e) THEN NoRow ELSE row[e]]
  BY DEF Memory!Compact
<1>2. RowTypes' /\ RowsNamed'
  BY <1>1 DEF MemoryInv, MemoryTypes, RowTypes, RowsNamed, Written, Memory!contentVars
<1>3. TaskTypes' /\ TasksFine'
  BY <1>1, StillWritten DEF MemoryInv, MemoryTypes, Written, Memory!contentVars
<1>4. ContentTypes'
  BY <1>1 DEF MemoryInv, MemoryTypes, Memory!contentVars, ContentTypes
<1> QED
  BY <1>2, <1>3, <1>4 DEF MemoryInv, MemoryTypes

LEMMA NextMemory == Memory!ConstantsOK /\ MemoryInv /\ [Memory!Next]_(Memory!vars) => MemoryInv'
<1> SUFFICES ASSUME Memory!ConstantsOK, MemoryInv, [Memory!Next]_(Memory!vars) PROVE MemoryInv'
  OBVIOUS
<1>1. CASE UNCHANGED Memory!vars
  <2>1. TaskTypes' /\ TasksFine'
    BY <1>1, StillWritten DEF MemoryInv, MemoryTypes, Memory!vars, Written
  <2>2. ContentTypes' /\ RowTypes' /\ RowsNamed'
    BY <1>1 DEF MemoryInv, MemoryTypes, Memory!vars, ContentTypes, RowTypes, RowsNamed, Written
  <2> QED
    BY <2>1, <2>2 DEF MemoryInv, MemoryTypes
<1>2. CASE \E w \in Workers : Memory!Step(w)
  BY <1>2, EmbedKeeps, StoreKeeps, WaitKeeps, IdleKeeps, EmbeddedKeeps, ReadRowsKeeps, PruneKeeps DEF Memory!Step
<1> QED
  BY <1>1, <1>2, OutsideKeeps, CompactKeeps, TasksBegin, MaintainKeeps, IdleKeeps DEF Memory!Next

LEMMA AlwaysMemory == ASSUME Memory!ConstantsOK PROVE Memory!Spec => []MemoryInv
<1>1. Memory!Init => MemoryInv
  BY InitMemory
<1>2. MemoryInv /\ [Memory!Next]_(Memory!vars) => MemoryInv'
  BY NextMemory
<1> QED
  BY <1>1, <1>2, PTL DEF Memory!Spec

\* Every reachable state of posts, candidates, rows and tasks is well typed.
THEOREM MemoryTypeCorrect == ASSUME Memory!ConstantsOK PROVE Memory!Spec => []Memory!TypeOK
<1>1. MemoryInv => Memory!TypeOK
  BY MemoryTypeParts DEF MemoryInv
<1> QED
  BY <1>1, AlwaysMemory, PTL

\* content_hash (upsert_embedding): the numbers of a row are those of the text that its hash
\* names, for any number of tasks and edits, whichever transaction comes last or is undone.
THEOREM VectorsFitHashes == ASSUME Memory!ConstantsOK PROVE Memory!Spec => []HashNamesVector
<1>1. MemoryInv => HashNamesVector
  BY DEF MemoryInv, RowsNamed, Names, HashNamesVector, Memory!HashNamesVector, Memory!Hash
<1> QED
  BY <1>1, AlwaysMemory, PTL

\* The steps that may change rows.
LEMMA RowSteps ==
  ASSUME [Memory!Next]_(Memory!vars)
  PROVE  \/ row' = row \/ Memory!Compact
         \/ \E w \in Workers : Memory!Embedded(w) \/ Memory!Prune(w)
         \/ \E d \in Candidates :
              Memory!CleanUp(d) \/ (\E h \in Channels : Memory!SaveCandidate(d, h))
              \/ \E c \in Items : Memory!Approve(d, c)
<1> USE DEF Memory!Begin, Memory!Rollback, Memory!contentVars
<1>1. Memory!Outside =>
        \/ row' = row
        \/ \E d \in Candidates :
              Memory!CleanUp(d) \/ (\E h \in Channels : Memory!SaveCandidate(d, h))
              \/ \E c \in Items : Memory!Approve(d, c)
  BY DEF Memory!Outside, Memory!Edit, Memory!DeletePost, Memory!Reject, Memory!RetentionPasses, Memory!ChangeModel
<1>2. ASSUME NEW w \in Workers, Memory!Step(w) PROVE row' = row \/ Memory!Embedded(w) \/ Memory!Prune(w)
  BY <1>2 DEF Memory!Step, Memory!Embed, Memory!Store, Memory!Wait, Memory!WriteLate, Memory!Collide, Memory!Deadlock,
    Memory!ReadRows
<1>3. ASSUME NEW w \in Workers,
             \/ \E h \in Channels, posts \in SUBSET Items : Memory!Reindex(w, h, posts)
             \/ \E h \in Channels : Memory!Rotate(w, h)
             \/ Memory!Drift(w) \/ Memory!Maintain(w) \/ Memory!Abort(w)
      PROVE  row' = row
  BY <1>3 DEF Memory!Reindex, Memory!Rotate, Memory!Drift, Memory!Maintain, Memory!Abort
<1> QED
  BY <1>1, <1>2, <1>3 DEF Memory!Next, Memory!vars

\* A row that goes is one of a post that is gone, of a candidate that is old, or one that
\* the task had listed.
LEMMA OnlyDeadIsPruned ==
  ASSUME Memory!ConstantsOK, MemoryInv, [Memory!Next]_(Memory!vars),
         NEW e \in Memory!Entities, row[e] # NoRow, row'[e] = NoRow
  PROVE  e \in gone' \/ Memory!Compactable(e) \/ \E w \in Workers : task[w].pc = "ids" /\ e \in task[w].bad
<1> USE DEF MemoryInv, MemoryTypes
<1>1. CASE \E w \in Workers : Memory!Prune(w)
  <2>1. PICK w \in Workers : Memory!Prune(w)
    BY <1>1
  <2>2. e \in Memory!Dead(w)
    BY <2>1, CommittedRows DEF Memory!Prune
  <2>3. CASE e \in task[w].bad
    BY <2>1, <2>3 DEF Memory!Prune
  <2>4. CASE e \in task[w].rows /\ ~Memory!Exists(e)
    <3>1. Written(e)
      BY <2>4, TaskFacts DEF Fine
    <3> QED
      BY <2>1, <2>4, <3>1 DEF Memory!Exists, Written, Memory!Prune, Memory!contentVars
  <2> QED
    BY <2>2, <2>3, <2>4 DEF Memory!Dead
<1>2. CASE Memory!Compact
  BY <1>2 DEF Memory!Compact
<1>3. CASE \E d \in Candidates : Memory!CleanUp(d)
  BY <1>3 DEF Memory!CleanUp
<1>4. CASE \E x \in Memory!Entities, new \in Memory!Rows : row' = [row EXCEPT ![x] = new]
  BY <1>4 DEF RowTypes, Memory!ConstantsOK
<1>5. CASE \E w \in Workers : Memory!Embedded(w)
  BY <1>5, CommittedRows DEF Memory!Embedded
<1>6. CASE \E d \in Candidates : \/ \E h \in Channels : Memory!SaveCandidate(d, h)
                                \/ \E c \in Items : Memory!Approve(d, c)
  BY <1>4, <1>6, SavedRow, ApprovedRow DEF Memory!Entities
<1> QED
  BY <1>1, <1>2, <1>3, <1>5, <1>6, RowSteps

\* The pruning takes rows of posts that are gone, of old candidates, or rows it had found bad.
THEOREM PrunedRowsAreDead == ASSUME Memory!ConstantsOK PROVE Memory!Spec => PrunedIsDead
<1> DEFINE Pruned ==
      \A e \in Memory!Entities : row[e] # NoRow /\ row'[e] = NoRow =>
        e \in gone' \/ Memory!Compactable(e) \/ \E w \in Workers : task[w].pc = "ids" /\ e \in task[w].bad
<1>1. MemoryInv /\ [Memory!Next]_(Memory!vars) => [Pruned]_(Memory!vars)
  BY OnlyDeadIsPruned
<1> QED
  BY <1>1, AlwaysMemory, PTL DEF Memory!Spec, PrunedIsDead, Memory!PrunedIsDead
===========================================================================

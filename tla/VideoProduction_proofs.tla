------------------------- MODULE VideoProduction_proofs -------------------------
(***************************************************************************)
(* Proofs about VideoBatches, for any number of workers, originals and     *)
(* variants, any budget and any cancellations and deaths: of the whole     *)
(* tree of batches one job at most is under way, and all of them together  *)
(* stay within the budget of the root.                                     *)
(*                                                                         *)
(* And about VideoSchedules, for any occurrences, workers and consents and *)
(* any budget: the occurrences of a month stay within it, and a video is   *)
(* approved under the consent and the settings that hold then.             *)
(***************************************************************************)
EXTENDS MCVideoSchedules, FiniteSetTheorems, WellFoundedInduction, TLAPS

-----------------------------------------------------------------------------
(* The inductive invariant *)

\* What a worker and a batch are at; the amounts come below.
Types ==
  /\ batch \in [Batches -> {"absent"} \cup Active \cup Ended]
  /\ lease \in [Batches -> BOOLEAN] /\ owner \in [Batches -> Workers \cup {NoWorker}]
  /\ item \in [Items -> {"absent"} \cup Active \cup Ended]
  /\ job \in [Items -> {"none", "active"} \cup Ended]
  /\ wpc \in [Workers -> {"idle", "look", "grant", "admit", "defer", "stop"}]
  /\ wbatch \in [Workers -> Batches] /\ witem \in [Workers -> Nat]
  /\ \A w \in Workers : wpc[w] \in {"grant", "admit"} => <<wbatch[w], witem[w]>> \in Items

\* A worker that looks at a batch holds its lease, and the token is its own.
Held ==
  \A w \in Workers : wpc[w] # "idle" => lease[wbatch[w]] /\ owner[wbatch[w]] = w

\* An item follows its batch, and its job follows the item.
ItemOK(x) ==
  /\ job[x] = "active" => item[x] = "running"
  /\ item[x] \in {"absent", "queued"} => job[x] = "none"
  /\ batch[x[1]] = "absent" => item[x] = "absent"
  /\ batch[x[1]] \in Active => item[x] \in {"queued", "running", "succeeded"}

Followed == \A x \in Items : ItemOK(x)

\* Of each batch one item is running.
OneRunning ==
  \A x, y \in Items : x[1] = y[1] /\ item[x] = "running" /\ item[y] = "running" => x = y

\* Variants are made while their original, of which the job is through, is running.
InTurn ==
  /\ \A c \in Batches \ {Root} : batch[c] \in Active =>
       Variants > 0 /\ item[<<Root, c>>] = "running" /\ job[<<Root, c>>] = "succeeded"
  /\ \A x \in Items : x[1] # Root /\ job[x] = "active" => batch[x[1]] \in Active

\* Nothing runs in the batch that a worker is about to admit an item of, and
\* the item is still queued unless the batch was cancelled.
NoneRunning(b) == \A x \in ItemsOf(b) : item[x] # "running"

WorkerOK(w) ==
  /\ wpc[w] \in {"grant", "admit"} =>
       /\ NoneRunning(wbatch[w])
       /\ batch[wbatch[w]] \in Active => item[<<wbatch[w], witem[w]>>] = "queued"
  /\ wpc[w] = "stop" /\ wbatch[w] # Root => NoneRunning(wbatch[w])

Clear == \A w \in Workers : WorkerOK(w)

IInv == Types /\ Held /\ Followed /\ OneRunning /\ InTurn /\ Clear

-----------------------------------------------------------------------------
(* Items and natural numbers *)

LEMMA ItemFacts ==
  ASSUME ConstantsOK
  PROVE  /\ Root \in Batches /\ Count \in Nat /\ Variants \in Nat
         /\ \A x \in Items : x = <<x[1], x[2]>> /\ x[1] \in Batches /\ x[2] \in Nat
         /\ \A c \in Batches \ {Root} : <<Root, c>> \in Items
         /\ \A b, k : <<b, k>> \in Items => k \in 1..Size(b)
<1>1. Count \in Nat /\ Variants \in Nat
  BY DEF ConstantsOK
<1>2. Root \in Batches
  BY <1>1 DEF Root, Batches
<1>3. \A x \in Items : x = <<x[1], x[2]>> /\ x[1] \in Batches /\ x[2] \in 1..Count + Variants
  BY DEF Items
<1>4. \A x \in Items : x[2] \in Nat /\ x[2] <= Size(x[1]) /\ 1 <= x[2]
  BY <1>1, <1>3 DEF Items
<1>5. \A c \in Batches \ {Root} : <<Root, c>> \in Items
  BY <1>1, <1>2 DEF Items, Batches, Size, Root
<1>6. \A b, k : <<b, k>> \in Items => k \in 1..Size(b)
  <2> SUFFICES ASSUME NEW b, NEW k, <<b, k>> \in Items PROVE k \in 1..Size(b)
    OBVIOUS
  <2>1. Size(b) \in Nat
    BY <1>1 DEF Size
  <2> QED
    BY <1>4, <2>1
<1> QED
  BY <1>1, <1>2, <1>3, <1>4, <1>5, <1>6

LEMMA HasLeast ==
  ASSUME NEW S, S \subseteq Nat, S # {}
  PROVE  \E k \in S : \A m \in S : k <= m
<1> DEFINE Below == OpToRel(<, Nat)
<1>1. IsWellFoundedOn(Below, Nat)
  BY NatLessThanWellFounded
<1>2. \A m, k \in Nat : m < k => <<m, k>> \in Below
  BY DEF OpToRel
<1> HIDE DEF Below
<1>3. PICK k \in S : \A m \in S : ~(<<m, k>> \in Below)
  BY <1>1, WFMin
<1>4. ASSUME NEW m \in S PROVE k <= m
  <2>1. k \in Nat /\ m \in Nat
    OBVIOUS
  <2>2. ~(m < k)
    BY <1>2, <1>3, <2>1, Zenon
  <2> QED
    BY <2>1, <2>2
<1> QED
  BY <1>4

\* The first queued item, in the words of Look.
FirstQueued(b) ==
  CHOOSE k \in 1..Size(b) : /\ <<b, k>> \in QueuedAfter(b)
                            /\ \A x \in QueuedAfter(b) : k <= x[2]

LEMMA FirstIsQueued ==
  ASSUME ConstantsOK, NEW b \in Batches, QueuedAfter(b) # {}
  PROVE  FirstQueued(b) \in Nat /\ <<b, FirstQueued(b)>> \in QueuedAfter(b)
<1> DEFINE S == {x[2] : x \in QueuedAfter(b)}
<1>1. \A x \in QueuedAfter(b) : x \in Items /\ x = <<b, x[2]>> /\ x[2] \in 1..Size(b)
  <2>1. \A x \in QueuedAfter(b) : x \in Items /\ x[1] = b
    BY DEF QueuedAfter, ItemsOf
  <2> QED
    BY <2>1, ItemFacts
<1>2. S \subseteq Nat /\ S # {}
  <2>1. Size(b) \in Nat
    BY ItemFacts DEF Size
  <2> QED
    BY <1>1, <2>1
<1>3. PICK k \in S : \A m \in S : k <= m
  <2> HIDE DEF S
  <2> QED
    BY <1>2, HasLeast
<1>4. k \in 1..Size(b) /\ <<b, k>> \in QueuedAfter(b) /\ \A x \in QueuedAfter(b) : k <= x[2]
  BY <1>1, <1>3
<1>5. FirstQueued(b) \in 1..Size(b) /\ <<b, FirstQueued(b)>> \in QueuedAfter(b)
  BY <1>4 DEF FirstQueued
<1> QED
  BY <1>1, <1>2, <1>5

-----------------------------------------------------------------------------
(* Refresh *)

\* The status a batch may get, by what its items come to.
Outcome(b, to) ==
  /\ to \in {"failed", "succeeded"} \cup Active
  /\ to \in Active => ~Failed(b)
  /\ to \notin Active => Failed(b) \/ \A x \in ItemsOf(b) : Refreshed(x) = "succeeded"

LEMMA OutcomeOfLook ==
  ASSUME NEW b \in Batches, batch[b] \in Active
  PROVE  Outcome(b, BatchAfter(b)) /\ (MayAdmit(b) => Outcome(b, "running"))
<1>1. Outcome(b, BatchAfter(b))
  BY DEF Outcome, BatchAfter, Active
<1>2. BatchAfter(b) \in Active => ~Failed(b)
  BY DEF BatchAfter, Active
<1> QED
  BY <1>1, <1>2 DEF Outcome, MayAdmit, Active

\* An item keeps its status, or ends with its job.
LEMMA RefreshedItem ==
  ASSUME Types, Followed, NEW x \in Items
  PROVE  Refreshed(x) = item[x] \/ (item[x] = "running" /\ job[x] \in Ended /\ Refreshed(x) \in Ended)
<1>1. item[x] \in Active /\ job[x] \notin {"none", "active"} => item[x] = "running" /\ job[x] \in Ended
  BY DEF Types, Followed, ItemOK, Active
<1> QED
  BY <1>1 DEF Refreshed, Ended

\* What one look at a batch does to the items and the batches.
LEMMA RefreshCases ==
  ASSUME ConstantsOK, Types, Followed, NEW b \in Batches, NEW to, Refresh(b, to)
  PROVE  /\ \A x \in Items : x[1] = b => item'[x] = ItemAfter(b, x)
         /\ \A x \in Items : x[1] # b =>
              \/ item'[x] = item[x] /\ batch'[x[1]] = batch[x[1]]
              \/ /\ batch[x[1]] = "absent" /\ item[x] = "absent"
                 /\ item'[x] = "queued" /\ batch'[x[1]] = "queued"
         /\ batch'[b] = to
         /\ \A c \in Batches \ {b} :
              \/ batch'[c] = batch[c]
              \/ batch'[c] = "queued" /\ c # Root /\ <<Root, c>> \in ToVary(b)
<1>1. \A x \in Items : x[1] = b => item'[x] = ItemAfter(b, x)
  BY DEF Refresh
<1>2. batch'[b] = to /\ \A c \in Batches \ {b} :
        batch'[c] = IF c # Root /\ <<Root, c>> \in ToVary(b) THEN "queued" ELSE batch[c]
  BY DEF Refresh
<1>3. \A c \in Batches : <<Root, c>> \in ToVary(b) => batch[c] = "absent"
  BY DEF ToVary, Nested
<1>4. ASSUME NEW x \in Items, x[1] # b
      PROVE  \/ item'[x] = item[x] /\ batch'[x[1]] = batch[x[1]]
             \/ /\ batch[x[1]] = "absent" /\ item[x] = "absent"
                /\ item'[x] = "queued" /\ batch'[x[1]] = "queued"
  <2>1. x[1] \in Batches
    BY ItemFacts
  <2>2. item'[x] = IF x[1] # Root /\ <<Root, x[1]>> \in ToVary(b) THEN "queued" ELSE item[x]
    BY <1>4 DEF Refresh
  <2>3. batch[x[1]] = "absent" => item[x] = "absent"
    BY DEF Followed, ItemOK
  <2> QED
    BY <1>2, <1>3, <1>4, <2>1, <2>2, <2>3
<1> QED
  BY <1>1, <1>2, <1>4

\* A batch that is done with a look has no item that would go on without it.
LEMMA RefreshKeeps ==
  ASSUME ConstantsOK, Types, Followed, OneRunning, InTurn,
         NEW b \in Batches, batch[b] \in Active, NEW to, Outcome(b, to), Refresh(b, to), job' = job
  PROVE  Followed' /\ OneRunning' /\ InTurn'
<1>a. /\ \A x \in Items : x[1] = b => item'[x] = ItemAfter(b, x)
      /\ \A x \in Items : x[1] # b =>
           \/ item'[x] = item[x] /\ batch'[x[1]] = batch[x[1]]
           \/ /\ batch[x[1]] = "absent" /\ item[x] = "absent"
              /\ item'[x] = "queued" /\ batch'[x[1]] = "queued"
      /\ batch'[b] = to
      /\ \A c \in Batches \ {b} :
           \/ batch'[c] = batch[c]
           \/ batch'[c] = "queued" /\ c # Root /\ <<Root, c>> \in ToVary(b)
  BY RefreshCases
<1>b. /\ \A x \in Items : x = <<x[1], x[2]>> /\ x[1] \in Batches
      /\ \A c \in Batches \ {Root} : <<Root, c>> \in Items
  BY ItemFacts
<1>c. \A x \in Items : Refreshed(x) = item[x] \/ (item[x] = "running" /\ job[x] \in Ended /\ Refreshed(x) \in Ended)
  BY RefreshedItem
<1>d. /\ to \in {"failed", "succeeded"} \cup Active
      /\ to \in Active => ~Failed(b)
      /\ to \notin Active => Failed(b) \/ \A x \in ItemsOf(b) : Refreshed(x) = "succeeded"
  BY DEF Outcome
<1>e. \A x \in Items : x[1] = b => item[x] \in {"queued", "running", "succeeded"}
  BY DEF Followed, ItemOK
<1>1. ASSUME NEW x \in Items, x[1] = b
      PROVE  /\ item'[x] = item[x] \/ (item[x] = "running" /\ job[x] \in Ended /\ item'[x] \in Ended)
                                   \/ (item[x] = "queued" /\ item'[x] = "cancelled")
             /\ to \in Active => item'[x] \in {"queued", "running", "succeeded"}
  <2>1. item'[x] = ItemAfter(b, x) /\ x \in ItemsOf(b)
    BY <1>1, <1>a DEF ItemsOf
  <2>2. item'[x] = Refreshed(x) \/ (Refreshed(x) = "queued" /\ item'[x] = "cancelled" /\ Failed(b))
    BY <2>1 DEF ItemAfter
  <2>3. ~Failed(b) => Refreshed(x) \notin {"failed", "cancelled"}
    BY <2>1 DEF Failed
  <2> QED
    BY <1>1, <1>c, <1>d, <1>e, <2>2, <2>3 DEF Ended
<1>2. ASSUME NEW x \in Items PROVE ItemOK(x)'
  <2>1. ItemOK(x)
    BY DEF Followed
  <2>2. CASE x[1] = b
    <3>1. batch'[x[1]] = to /\ to # "absent"
      BY <1>a, <1>d, <2>2 DEF Active
    <3>2. job'[x] = job[x]
      OBVIOUS
    <3> QED
      BY <1>1, <1>d, <1>e, <2>1, <2>2, <3>1, <3>2 DEF ItemOK, Ended
  <2>3. CASE x[1] # b
    <3>1. \/ item'[x] = item[x] /\ batch'[x[1]] = batch[x[1]]
          \/ /\ batch[x[1]] = "absent" /\ item[x] = "absent"
             /\ item'[x] = "queued" /\ batch'[x[1]] = "queued"
      BY <1>a, <2>3
    <3> QED
      BY <2>1, <3>1 DEF ItemOK
  <2> QED
    BY <2>2, <2>3
<1>3. \A x \in Items : item'[x] = "running" => item[x] = "running"
  <2> SUFFICES ASSUME NEW x \in Items, item'[x] = "running" PROVE item[x] = "running"
    OBVIOUS
  <2> QED
    BY <1>1, <1>a DEF Ended
<1>4. OneRunning'
  BY <1>3 DEF OneRunning
<1>5. ASSUME NEW c \in Batches \ {Root}, batch'[c] \in Active
      PROVE  Variants > 0 /\ item'[<<Root, c>>] = "running" /\ job'[<<Root, c>>] = "succeeded"
  <2> DEFINE x == <<Root, c>>
  <2>0. x \in Items /\ x[1] = Root /\ x[2] = c
    BY <1>b
  <2>1. HasVariants(x) /\ job[x] = "succeeded" /\ item[x] = "running" /\ (b = Root => batch[c] \notin Ended)
    <3>1. CASE batch[c] \in Active
      BY <2>0, <3>1 DEF InTurn, HasVariants, Active, Ended
    <3>2. CASE batch[c] \notin Active
      <4>1. x \in ToVary(b) /\ (b # c)
        BY <1>5, <1>a, <3>2
      <4>2. item[x] \in Active /\ job[x] = "succeeded" /\ HasVariants(x) /\ batch[c] = "absent"
        BY <2>0, <4>1 DEF ToVary, Nested
      <4>3. item[x] # "queued"
        BY <2>0, <4>2 DEF Followed, ItemOK
      <4> QED
        BY <4>2, <4>3 DEF Active, Ended
    <3> QED
      BY <3>1, <3>2
  <2>2. CASE b = Root
    <3>1. Refreshed(x) = "running"
      BY <2>0, <2>1, <2>2 DEF Refreshed, Nested
    <3>2. item'[x] = "running"
      BY <1>a, <2>0, <2>2, <3>1 DEF ItemAfter
    <3> QED
      BY <2>1, <3>2 DEF HasVariants
  <2>3. CASE b # Root
    <3>1. item'[x] = "running"
      BY <1>a, <2>0, <2>1, <2>3
    <3> QED
      BY <2>1, <3>1 DEF HasVariants
  <2> QED
    BY <2>2, <2>3
<1>6. ASSUME NEW x \in Items, x[1] # Root, job[x] = "active" PROVE batch'[x[1]] \in Active
  <2>1. batch[x[1]] \in Active /\ item[x] = "running" /\ x[1] \in Batches
    BY <1>6, <1>b DEF InTurn, Followed, ItemOK
  <2>2. CASE x[1] = b
    <3> SUFFICES ASSUME to \notin Active PROVE FALSE
      BY <1>a, <2>2
    <3>1. Refreshed(x) = "running" /\ x \in ItemsOf(b)
      BY <1>6, <2>2 , <2>1 DEF Refreshed, ItemsOf
    <3>2. PICK y \in ItemsOf(b) : Refreshed(y) \in {"failed", "cancelled"}
      BY <1>d, <3>1 DEF Failed
    <3>3. y \in Items /\ y[1] = b
      BY DEF ItemsOf
    <3>4. item[y] = "running" /\ job[y] \in Ended
      BY <1>c, <1>e, <3>2, <3>3
    <3>5. y = x
      BY <2>1, <2>2, <3>3, <3>4 DEF OneRunning
    <3> QED
      BY <1>6, <3>4, <3>5 DEF Ended
  <2>3. CASE x[1] # b
    BY <1>a, <2>1, <2>3 DEF Active
  <2> QED
    BY <2>2, <2>3
<1> QED
  BY <1>2, <1>4, <1>5, <1>6 DEF Followed, InTurn

-----------------------------------------------------------------------------
(* The kinds of actions *)

\* A worker's steps that change no item.
Waits(w) ==
  \/ Leave(w) \/ LookRefused(w) \/ Grant(w) \/ AdmitFails(w) \/ Defer(w) \/ Crash(w)
  \/ \E b \in Batches : Take(w, b)

OtherJob == OtherJobStarts \/ OtherJobEnds \/ UNCHANGED vars

LEMMA NextCases ==
  ASSUME [Next]_vars
  PROVE  \/ \E w \in Workers : Waits(w) \/ Look(w) \/ Admit(w) \/ Stop(w)
         \/ \E b \in Batches : LeaseEnds(b) \/ Cancel(b)
         \/ \E x \in Items : JobEnds(x)
         \/ OtherJob
  BY DEF Next, Advance, Waits, OtherJob

LEMMA LookCases ==
  ASSUME Types, NEW w \in Workers, Look(w)
  PROVE  /\ wbatch[w] \in Batches /\ batch[wbatch[w]] \in Active /\ wpc[w] = "look" /\ job' = job /\ owner' = owner
         /\ wbatch' = [wbatch EXCEPT ![w] = IF MayAdmit(wbatch[w]) THEN @ ELSE Root]
         /\ wpc' = [wpc EXCEPT ![w] = IF MayAdmit(wbatch[w]) THEN "grant" ELSE "idle"]
         /\ witem' = [witem EXCEPT ![w] = IF MayAdmit(wbatch[w]) THEN FirstQueued(wbatch[w]) ELSE 0]
         /\ lease' = IF MayAdmit(wbatch[w]) THEN lease ELSE [lease EXCEPT ![wbatch[w]] = FALSE]
         /\ Refresh(wbatch[w], IF MayAdmit(wbatch[w]) THEN "running" ELSE BatchAfter(wbatch[w]))
<1>1. wbatch[w] \in Batches /\ batch[wbatch[w]] \in Active /\ wpc[w] = "look" /\ job' = job /\ owner' = owner
  BY DEF Types, Look, Mine, jobVars
<1>2. CASE MayAdmit(wbatch[w])
  BY <1>1, <1>2 DEF Types, Look, FirstQueued
<1>3. CASE ~MayAdmit(wbatch[w])
  BY <1>1, <1>3 DEF Look, Finish
<1> QED
  BY <1>1, <1>2, <1>3

\* What a look makes of the batch: the parts that do not depend on the worker.
LEMMA LookOutcome ==
  ASSUME Types, NEW w \in Workers, Look(w)
  PROVE  \E to : Outcome(wbatch[w], to) /\ Refresh(wbatch[w], to) /\ (MayAdmit(wbatch[w]) => to = "running")
  BY LookCases, OutcomeOfLook

-----------------------------------------------------------------------------
(* Types *)

BatchTypes ==
  /\ batch \in [Batches -> {"absent"} \cup Active \cup Ended]
  /\ item \in [Items -> {"absent"} \cup Active \cup Ended]
  /\ job \in [Items -> {"none", "active"} \cup Ended]

LeaseTypes == lease \in [Batches -> BOOLEAN] /\ owner \in [Batches -> Workers \cup {NoWorker}]

WorkerTypes ==
  /\ wpc \in [Workers -> {"idle", "look", "grant", "admit", "defer", "stop"}]
  /\ wbatch \in [Workers -> Batches] /\ witem \in [Workers -> Nat]
  /\ \A w \in Workers : wpc[w] \in {"grant", "admit"} => <<wbatch[w], witem[w]>> \in Items

LEMMA TypeParts == Types <=> BatchTypes /\ LeaseTypes /\ WorkerTypes
  BY DEF Types, BatchTypes, LeaseTypes, WorkerTypes

LEMMA TypePartsNext == Types' <=> BatchTypes' /\ LeaseTypes' /\ WorkerTypes'
  BY DEF Types, BatchTypes, LeaseTypes, WorkerTypes

LEMMA FinishTypes ==
  ASSUME ConstantsOK, WorkerTypes, NEW w \in Workers, Finish(w)
  PROVE  WorkerTypes'
<1>1. Root \in Batches
  BY ItemFacts
<1> QED
  BY <1>1 DEF WorkerTypes, Finish

LEMMA InitTypes == ConstantsOK /\ Init => Types
<1> SUFFICES ASSUME ConstantsOK, Init PROVE Types
  OBVIOUS
<1>1. Root \in Batches
  BY ItemFacts
<1> QED
  BY <1>1 DEF Init, Types, Active, Ended

LEMMA WaitsTypes ==
  ASSUME ConstantsOK, Types, NEW w \in Workers, Waits(w)
  PROVE  Types'
<1>0. BatchTypes /\ LeaseTypes /\ WorkerTypes
  BY TypeParts
<1>1. BatchTypes'
  BY <1>0 DEF Waits, Leave, LookRefused, Grant, AdmitFails, Defer, Crash, Take, batchVars, jobVars, BatchTypes
<1>2. LeaseTypes'
  <2>1. CASE Defer(w)
    BY <1>0, <2>1 DEF Defer, LeaseTypes
  <2>2. ASSUME NEW b \in Batches, Take(w, b) PROVE LeaseTypes'
    BY <1>0, <2>2 DEF Take, LeaseTypes
  <2> QED
    BY <1>0, <2>1, <2>2 DEF Waits, Leave, LookRefused, Grant, AdmitFails, Crash, batchVars, LeaseTypes
<1>3. WorkerTypes'
  <2>1. CASE Finish(w)
    BY <1>0, <2>1, FinishTypes
  <2>2. CASE wpc[w] = "grant" /\ Goto(w, "admit")
    BY <1>0, <2>2 DEF Goto, WorkerTypes
  <2>3. CASE Goto(w, "stop") \/ Goto(w, "defer")
    BY <1>0, <2>3 DEF Goto, WorkerTypes
  <2>4. ASSUME NEW b \in Batches, Take(w, b) PROVE WorkerTypes'
    BY <1>0, <2>4 DEF Take, WorkerTypes
  <2> QED
    BY <2>1, <2>2, <2>3, <2>4 DEF Waits, Leave, LookRefused, Grant, AdmitFails, Defer, Crash
<1> QED
  BY <1>1, <1>2, <1>3, TypePartsNext

LEMMA LookTypes ==
  ASSUME ConstantsOK, Types, Followed, NEW w \in Workers, Look(w)
  PROVE  Types'
<1>0. BatchTypes /\ LeaseTypes /\ WorkerTypes /\ Root \in Batches
  BY TypeParts, ItemFacts
<1>1. PICK to : Outcome(wbatch[w], to) /\ Refresh(wbatch[w], to)
  BY LookOutcome
<1>2. BatchTypes'
  <2>1. \A x \in Items : ItemAfter(wbatch[w], x) \in {"absent"} \cup Active \cup Ended
    BY <1>0, RefreshedItem DEF ItemAfter, BatchTypes, Ended
  <2>2. to \in Active \cup Ended
    BY <1>1 DEF Outcome, Ended
  <2>3. job' = job
    BY LookCases
  <2> QED
    BY <1>0, <1>1, <2>1, <2>2, <2>3 DEF Refresh, BatchTypes, Active
<1>3. LeaseTypes'
  BY <1>0, LookCases DEF LeaseTypes
<1>4. WorkerTypes'
  <2>1. CASE ~MayAdmit(wbatch[w])
    BY <1>0, <2>1, LookCases DEF WorkerTypes
  <2>2. CASE MayAdmit(wbatch[w])
    <3>1. wbatch[w] \in Batches /\ QueuedAfter(wbatch[w]) # {}
      BY <1>0, <2>2 DEF MayAdmit, WorkerTypes
    <3>2. FirstQueued(wbatch[w]) \in Nat /\ <<wbatch[w], FirstQueued(wbatch[w])>> \in Items
      BY <3>1, FirstIsQueued DEF QueuedAfter, ItemsOf
    <3> QED
      BY <1>0, <2>2, <3>2, LookCases DEF WorkerTypes
  <2> QED
    BY <2>1, <2>2
<1> QED
  BY <1>2, <1>3, <1>4, TypePartsNext

LEMMA NextTypes == ConstantsOK /\ Types /\ Followed /\ [Next]_vars => Types'
<1> SUFFICES ASSUME ConstantsOK, Types, Followed, [Next]_vars PROVE Types'
  OBVIOUS
<1>0. BatchTypes /\ LeaseTypes /\ WorkerTypes
  BY TypeParts
<1>1. ASSUME NEW w \in Workers, Admit(w) PROVE Types'
  <2>1. BatchTypes'
    BY <1>0, <1>1 DEF Admit, Admitted, BatchTypes, Active
  <2>2. LeaseTypes'
    BY <1>0, <1>1 DEF Admit, LeaseTypes
  <2>3. WorkerTypes'
    BY <1>0, <1>1, FinishTypes DEF Admit
  <2> QED
    BY <2>1, <2>2, <2>3, TypePartsNext
<1>2. ASSUME NEW w \in Workers, Stop(w) PROVE Types'
  <2>1. BatchTypes'
    BY <1>0, <1>2 DEF Stop, jobVars, BatchTypes, Ended
  <2>2. LeaseTypes'
    BY <1>0, <1>2 DEF Stop, LeaseTypes
  <2>3. WorkerTypes'
    BY <1>0, <1>2, FinishTypes DEF Stop
  <2> QED
    BY <2>1, <2>2, <2>3, TypePartsNext
<1>3. ASSUME NEW b \in Batches, LeaseEnds(b) \/ Cancel(b) PROVE Types'
  <2>1. BatchTypes'
    BY <1>0, <1>3 DEF LeaseEnds, Cancel, jobVars, BatchTypes, Ended
  <2>2. LeaseTypes'
    BY <1>0, <1>3 DEF LeaseEnds, Cancel, LeaseTypes
  <2>3. WorkerTypes'
    BY <1>0, <1>3 DEF LeaseEnds, Cancel, workerVars, WorkerTypes
  <2> QED
    BY <2>1, <2>2, <2>3, TypePartsNext
<1>4. ASSUME NEW x \in Items, JobEnds(x) PROVE Types'
  BY <1>0, <1>4, TypePartsNext DEF JobEnds, batchVars, workerVars, BatchTypes, LeaseTypes, WorkerTypes
<1>5. CASE OtherJob
  BY <1>0, <1>5, TypePartsNext
     DEF OtherJob, OtherJobStarts, OtherJobEnds, vars, batchVars, workerVars, BatchTypes, LeaseTypes, WorkerTypes
<1> QED
  BY <1>1, <1>2, <1>3, <1>4, <1>5, NextCases, WaitsTypes, LookTypes

-----------------------------------------------------------------------------
(* Leases *)

\* Of each batch one worker at most is at work.
LEMMA OneHolder ==
  ASSUME Held, NEW v \in Workers, NEW w \in Workers,
         wpc[v] # "idle", wpc[w] # "idle", wbatch[v] = wbatch[w]
  PROVE  v = w
  BY DEF Held

\* A worker that rests, or stays at its batch, may give up its own lease.
LEMMA HeldKept ==
  ASSUME Types, Held, NEW w \in Workers, wpc[w] # "idle",
         \A v \in Workers \ {w} : wpc'[v] = wpc[v] /\ wbatch'[v] = wbatch[v],
         owner' = owner,
         \A b \in Batches \ {wbatch[w]} : lease'[b] = lease[b],
         \/ wpc'[w] = "idle"
         \/ wbatch'[w] = wbatch[w] /\ lease'[wbatch[w]]
  PROVE  Held'
<1> SUFFICES ASSUME NEW v \in Workers, wpc'[v] # "idle"
             PROVE  lease'[wbatch'[v]] /\ owner'[wbatch'[v]] = v
  BY DEF Held
<1>1. CASE v = w
  BY <1>1 DEF Held
<1>2. CASE v # w
  <2>1. wpc[v] # "idle" /\ wbatch'[v] = wbatch[v] /\ wbatch[v] \in Batches
    BY <1>2 DEF Types
  <2>2. wbatch[v] # wbatch[w]
    BY <1>2, <2>1, OneHolder
  <2> QED
    BY <2>1, <2>2 DEF Held
<1> QED
  BY <1>1, <1>2

LEMMA NextHeld == Types /\ Held /\ [Next]_vars => Held'
<1> SUFFICES ASSUME Types, Held, [Next]_vars PROVE Held'
  OBVIOUS
<1>1. ASSUME NEW w \in Workers, NEW b \in Batches, Take(w, b) PROVE Held'
  <2>1. ASSUME NEW v \in Workers \ {w}, wpc[v] # "idle" PROVE wbatch[v] # b
    BY <1>1, <2>1 DEF Take, Held
  <2> QED
    BY <1>1, <2>1 DEF Take, Held, Types
<1>2. ASSUME NEW w \in Workers, Waits(w), ~\E b \in Batches : Take(w, b) PROVE Held'
  <2>1. wpc[w] # "idle" /\ owner' = owner
    BY <1>2 DEF Waits, Leave, LookRefused, Grant, AdmitFails, Defer, Crash, batchVars
  <2>2. \A v \in Workers \ {w} : wpc'[v] = wpc[v] /\ wbatch'[v] = wbatch[v]
    BY <1>2 DEF Waits, Leave, LookRefused, Grant, AdmitFails, Defer, Crash, Goto, Finish, Types
  <2>3. CASE Defer(w)
    <3>1. \A b \in Batches \ {wbatch[w]} : lease'[b] = lease[b]
      BY <2>3 DEF Defer, Types
    <3>2. wpc'[w] = "idle"
      BY <2>3 DEF Defer, Finish, Types
    <3> QED
      BY <2>1, <2>2, <3>1, <3>2, HeldKept
  <2>4. CASE ~Defer(w)
    <3>1. lease' = lease
      BY <1>2, <2>4 DEF Waits, Leave, LookRefused, Grant, AdmitFails, Crash, batchVars
    <3>2. wpc'[w] = "idle" \/ wbatch'[w] = wbatch[w]
      BY <1>2, <2>4 DEF Waits, Leave, LookRefused, Grant, AdmitFails, Crash, Goto, Finish, Types
    <3>3. lease'[wbatch[w]]
      BY <2>1, <3>1 DEF Held
    <3> QED
      BY <2>1, <2>2, <3>1, <3>2, <3>3, HeldKept
  <2> QED
    BY <2>3, <2>4
<1>3. ASSUME NEW w \in Workers, Look(w) PROVE Held'
  <2>1. /\ wpc[w] # "idle" /\ owner' = owner /\ wbatch[w] \in Batches
        /\ \A v \in Workers \ {w} : wpc'[v] = wpc[v] /\ wbatch'[v] = wbatch[v]
    BY <1>3, LookCases DEF Types
  <2>2. \A b \in Batches \ {wbatch[w]} : lease'[b] = lease[b]
    BY <1>3, LookCases DEF Types
  <2>3. wpc'[w] = "idle" \/ (wbatch'[w] = wbatch[w] /\ lease'[wbatch[w]])
    <3>1. lease[wbatch[w]]
      BY <2>1 DEF Held
    <3> QED
      BY <1>3, <3>1, LookCases DEF Types
  <2> QED
    BY <2>1, <2>2, <2>3, HeldKept
<1>4. ASSUME NEW w \in Workers, Admit(w) \/ Stop(w) PROVE Held'
  <2>1. wpc[w] # "idle" /\ owner' = owner /\ Finish(w)
    BY <1>4 DEF Admit, Stop
  <2>2. \A b \in Batches \ {wbatch[w]} : lease'[b] = lease[b]
    BY <1>4 DEF Admit, Stop, Types
  <2>3. wpc'[w] = "idle" /\ \A v \in Workers \ {w} : wpc'[v] = wpc[v] /\ wbatch'[v] = wbatch[v]
    BY <2>1 DEF Finish, Types
  <2> QED
    BY <2>1, <2>2, <2>3, HeldKept
<1>5. ASSUME NEW b \in Batches, LeaseEnds(b) PROVE Held'
  BY <1>5 DEF LeaseEnds, workerVars, Held, Types
<1>6. ASSUME UNCHANGED <<lease, owner, wpc, wbatch>> PROVE Held'
  BY <1>6 DEF Held
<1>7. CASE (\E b \in Batches : Cancel(b)) \/ (\E x \in Items : JobEnds(x)) \/ OtherJob
  BY <1>6, <1>7 DEF Cancel, JobEnds, OtherJob, OtherJobStarts, OtherJobEnds, batchVars, workerVars, vars
<1> QED
  BY <1>1, <1>2, <1>3, <1>4, <1>5, <1>7, NextCases

-----------------------------------------------------------------------------
(* Steps that change items *)

LEMMA AdmitKeeps ==
  ASSUME ConstantsOK, Types, Held, Followed, OneRunning, InTurn, Clear, NEW w \in Workers, Admit(w)
  PROVE  /\ Followed' /\ OneRunning' /\ InTurn'
         /\ batch' = batch
         /\ \A x \in Items : x[1] # wbatch[w] => item'[x] = item[x]
<1> DEFINE z == <<wbatch[w], witem[w]>>
<1>1. /\ batch' = batch /\ wbatch[w] \in Batches /\ batch[wbatch[w]] \in Active
      /\ z \in Items /\ z[1] = wbatch[w] /\ item[z] = "queued" /\ NoneRunning(wbatch[w])
  BY DEF Admit, Mine, Types, Clear, WorkerOK
<1>2. /\ item' = [item EXCEPT ![z] = "running"] /\ job' = [job EXCEPT ![z] = "active"]
  BY DEF Admit, Admitted
<1> HIDE DEF z
<1>3. item'[z] = "running" /\ job'[z] = "active" /\ \A x \in Items \ {z} : item'[x] = item[x] /\ job'[x] = job[x]
  BY <1>1, <1>2 DEF Types
<1>4. ASSUME NEW x \in Items PROVE ItemOK(x)'
  <2>1. ItemOK(x)
    BY DEF Followed
  <2>2. CASE x = z
    BY <1>1, <1>3, <2>2 DEF ItemOK, Active
  <2>3. CASE x # z
    BY <1>1, <1>3, <2>1, <2>3 DEF ItemOK
  <2> QED
    BY <2>2, <2>3
<1>5. OneRunning'
  <2> SUFFICES ASSUME NEW x \in Items, NEW y \in Items, x[1] = y[1], item'[x] = "running", item'[y] = "running"
               PROVE  x = y
    BY DEF OneRunning
  <2>1. \A u \in Items \ {z} : u[1] = z[1] => item[u] # "running"
    BY <1>1 DEF NoneRunning, ItemsOf
  <2> QED
    BY <1>3, <2>1 DEF OneRunning
<1>6. ASSUME NEW c \in Batches \ {Root}, batch'[c] \in Active
      PROVE  Variants > 0 /\ item'[<<Root, c>>] = "running" /\ job'[<<Root, c>>] = "succeeded"
  <2>1. Variants > 0 /\ item[<<Root, c>>] = "running" /\ job[<<Root, c>>] = "succeeded" /\ <<Root, c>> \in Items
    BY <1>1, <1>6, ItemFacts DEF InTurn
  <2>2. <<Root, c>> # z
    BY <1>1, <2>1
  <2> QED
    BY <1>3, <2>1, <2>2
<1>7. ASSUME NEW x \in Items, x[1] # Root, job'[x] = "active" PROVE batch'[x[1]] \in Active
  BY <1>1, <1>3, <1>7 DEF InTurn
<1> QED
  BY <1>1, <1>3, <1>4, <1>5, <1>6, <1>7 DEF Followed, InTurn

LEMMA StopKeeps ==
  ASSUME ConstantsOK, Types, Held, Followed, OneRunning, InTurn, Clear, NEW w \in Workers, Stop(w)
  PROVE  /\ Followed' /\ OneRunning' /\ InTurn'
         /\ \A b \in Batches \ {wbatch[w]} : batch'[b] = batch[b]
         /\ \A x \in Items : x[1] # wbatch[w] => item'[x] = item[x]
<1>1. CASE ~Mine(w, wbatch[w])
  BY <1>1 DEF Stop, jobVars, Followed, ItemOK, OneRunning, InTurn
<1>2. CASE Mine(w, wbatch[w])
  <2>1. PICK b \in Batches : b = wbatch[w]
    BY DEF Types
  <2>2. /\ job' = job /\ batch'[b] = "failed" /\ \A c \in Batches \ {b} : batch'[c] = batch[c]
        /\ \A x \in Items : item'[x] = IF x[1] = b /\ item[x] = "queued" THEN "failed" ELSE item[x]
    BY <1>2, <2>1 DEF Stop, jobVars, Types
  <2>3. b # Root => NoneRunning(b)
    BY <2>1 DEF Stop, Clear, WorkerOK
  <2>4. \A x \in Items : x[1] \in Batches
    BY ItemFacts
  <2>5. ASSUME NEW x \in Items PROVE ItemOK(x)'
    <3>1. ItemOK(x)
      BY DEF Followed
    <3>2. CASE x[1] = b
      BY <2>2, <3>1, <3>2 DEF ItemOK, Active
    <3>3. CASE x[1] # b
      BY <2>2, <2>4, <3>1, <3>3 DEF ItemOK
    <3> QED
      BY <3>2, <3>3
  <2>6. OneRunning'
    BY <2>2 DEF OneRunning
  <2>7. ASSUME NEW c \in Batches \ {Root}, batch'[c] \in Active
        PROVE  Variants > 0 /\ item'[<<Root, c>>] = "running" /\ job'[<<Root, c>>] = "succeeded"
    <3>1. batch[c] \in Active /\ <<Root, c>> \in Items
      BY <2>2, <2>7, ItemFacts DEF Active
    <3> QED
      BY <2>2, <3>1 DEF InTurn
  <2>8. ASSUME NEW x \in Items, x[1] # Root, job'[x] = "active" PROVE batch'[x[1]] \in Active
    <3>1. job[x] = "active" /\ item[x] = "running" /\ batch[x[1]] \in Active
      BY <2>2, <2>8 DEF InTurn, Followed, ItemOK
    <3>2. x[1] # b
      BY <2>3, <2>8, <3>1 DEF NoneRunning, ItemsOf
    <3> QED
      BY <2>2, <2>4, <3>1, <3>2
  <2> QED
    BY <2>1, <2>2, <2>5, <2>6, <2>7, <2>8 DEF Followed, InTurn
<1> QED
  BY <1>1, <1>2

LEMMA CancelKeeps ==
  ASSUME ConstantsOK, Types, Followed, OneRunning, InTurn, NEW b \in Batches, Cancel(b)
  PROVE  /\ Followed' /\ OneRunning' /\ InTurn'
         /\ \A c \in Batches : batch'[c] = batch[c] \/ batch'[c] = "cancelled"
         /\ \A x \in Items : item'[x] = item[x] \/ (item'[x] = "cancelled" /\ batch'[x[1]] = "cancelled")
<1> DEFINE hit == {x \in Items : x[1] \in Reached(b) /\ item[x] \notin {"succeeded", "failed"}}
<1>1. /\ \A c \in Batches : batch'[c] = IF c \in Reached(b) THEN "cancelled" ELSE batch[c]
      /\ \A x \in Items : item'[x] = IF x \in hit THEN "cancelled" ELSE item[x]
      /\ \A x \in Items : job'[x] = IF x \in hit /\ job[x] = "active" THEN "cancelled" ELSE job[x]
  BY DEF Cancel
<1>2. \A x \in Items : x \in hit <=> x[1] \in Reached(b) /\ item[x] \notin {"succeeded", "failed"}
  OBVIOUS
<1> HIDE DEF hit
<1>3. \A x \in Items : x[1] \in Batches
  BY ItemFacts
<1>4. ASSUME NEW x \in Items PROVE ItemOK(x)'
  <2>1. ItemOK(x)
    BY DEF Followed
  <2>2. CASE x \in hit
    BY <1>1, <1>2, <1>3, <2>1, <2>2 DEF ItemOK, Active
  <2>3. CASE x \notin hit
    <3>1. item'[x] = item[x] /\ job'[x] = job[x]
      BY <1>1, <2>3
    <3>2. batch'[x[1]] = batch[x[1]] \/ batch'[x[1]] = "cancelled"
      BY <1>1, <1>3
    <3> QED
      BY <2>1, <3>1, <3>2 DEF ItemOK, Active
  <2> QED
    BY <2>2, <2>3
<1>5. OneRunning'
  BY <1>1 DEF OneRunning
<1>6. ASSUME NEW c \in Batches \ {Root}, batch'[c] \in Active
      PROVE  Variants > 0 /\ item'[<<Root, c>>] = "running" /\ job'[<<Root, c>>] = "succeeded"
  <2>1. c \notin Reached(b) /\ batch[c] \in Active
    BY <1>1, <1>6 DEF Active
  <2>2. /\ Variants > 0 /\ item[<<Root, c>>] = "running" /\ job[<<Root, c>>] = "succeeded"
        /\ <<Root, c>> \in Items /\ Root \in Batches
    BY <2>1, ItemFacts DEF InTurn
  <2>3. b # Root
    BY <2>1, <2>2 DEF Reached
  <2>4. Root \notin Reached(b)
    BY <2>3 DEF Reached
  <2>5. <<Root, c>> \notin hit
    BY <1>2, <2>2, <2>4
  <2> QED
    BY <1>1, <2>2, <2>5
<1>7. ASSUME NEW x \in Items, x[1] # Root, job'[x] = "active" PROVE batch'[x[1]] \in Active
  <2>1. x \notin hit /\ job[x] = "active"
    BY <1>1, <1>7
  <2>2. item[x] = "running" /\ batch[x[1]] \in Active
    BY <1>7, <2>1 DEF InTurn, Followed, ItemOK
  <2>3. x[1] \notin Reached(b)
    BY <1>2, <2>1, <2>2
  <2> QED
    BY <1>1, <1>3, <2>2, <2>3
<1> QED
  BY <1>1, <1>2, <1>3, <1>4, <1>5, <1>6, <1>7 DEF Followed, InTurn

LEMMA JobEndsKeeps ==
  ASSUME ConstantsOK, Types, Followed, OneRunning, InTurn, NEW z \in Items, JobEnds(z)
  PROVE  Followed' /\ OneRunning' /\ InTurn' /\ UNCHANGED <<batch, item>>
<1>1. /\ UNCHANGED <<batch, item>> /\ job[z] = "active" /\ job'[z] \in Ended
      /\ \A x \in Items \ {z} : job'[x] = job[x]
  BY DEF JobEnds, batchVars, Types
<1>2. ASSUME NEW x \in Items PROVE ItemOK(x)'
  <2>1. ItemOK(x) /\ ItemOK(z)
    BY DEF Followed
  <2> QED
    BY <1>1, <2>1 DEF ItemOK, Ended
<1>3. OneRunning'
  BY <1>1 DEF OneRunning
<1>4. ASSUME NEW c \in Batches \ {Root}, batch[c] \in Active
      PROVE  Variants > 0 /\ item[<<Root, c>>] = "running" /\ job'[<<Root, c>>] = "succeeded"
  BY <1>1, <1>4, ItemFacts DEF InTurn
<1>5. ASSUME NEW x \in Items, x[1] # Root, job'[x] = "active" PROVE batch[x[1]] \in Active
  BY <1>1, <1>5 DEF InTurn, Ended
<1> QED
  BY <1>1, <1>2, <1>3, <1>4, <1>5 DEF Followed, InTurn

\* The invariant of items and batches, for every step.
LEMMA NextItems ==
  ConstantsOK /\ IInv /\ [Next]_vars => Followed' /\ OneRunning' /\ InTurn'
<1> SUFFICES ASSUME ConstantsOK, IInv, [Next]_vars PROVE Followed' /\ OneRunning' /\ InTurn'
  OBVIOUS
<1>0. Types /\ Held /\ Followed /\ OneRunning /\ InTurn /\ Clear
  BY DEF IInv
<1>1. ASSUME NEW w \in Workers, Look(w) PROVE Followed' /\ OneRunning' /\ InTurn'
  <2>1. wbatch[w] \in Batches /\ batch[wbatch[w]] \in Active /\ job' = job
    BY <1>0, <1>1, LookCases
  <2>2. PICK to : Outcome(wbatch[w], to) /\ Refresh(wbatch[w], to)
    BY <1>0, <1>1, LookOutcome
  <2> QED
    BY <1>0, <2>1, <2>2, RefreshKeeps
<1>2. ASSUME UNCHANGED <<batch, item, job>> PROVE Followed' /\ OneRunning' /\ InTurn'
  BY <1>0, <1>2 DEF Followed, ItemOK, OneRunning, InTurn
<1>3. ASSUME NEW w \in Workers, Waits(w) PROVE Followed' /\ OneRunning' /\ InTurn'
  BY <1>2, <1>3 DEF Waits, Leave, LookRefused, Grant, AdmitFails, Defer, Crash, Take, batchVars, jobVars
<1>4. CASE (\E b \in Batches : LeaseEnds(b)) \/ OtherJob
  BY <1>2, <1>4 DEF LeaseEnds, OtherJob, OtherJobStarts, OtherJobEnds, batchVars, jobVars, vars
<1> QED
  BY <1>0, <1>1, <1>3, <1>4, NextCases, AdmitKeeps, StopKeeps, CancelKeeps, JobEndsKeeps

-----------------------------------------------------------------------------
(* What a worker is about to admit *)

\* Nothing starts to run at a worker's batch, and what it is about to admit stays
\* queued while the batch is active.
Undisturbed(b) ==
  /\ \A x \in Items : x[1] = b /\ item'[x] = "running" => item[x] = "running"
  /\ batch'[b] \in Active =>
       \A x \in Items : x[1] = b =>
         item'[x] = "queued" \/ (batch[b] \in Active /\ (item[x] = "queued" => item'[x] = "queued"))

LEMMA WorkerKept ==
  ASSUME Types, NEW v \in Workers, WorkerOK(v), wbatch'[v] = wbatch[v], witem'[v] = witem[v],
         wpc'[v] \in {"grant", "admit"} => wpc[v] \in {"grant", "admit"},
         wpc'[v] = "stop" /\ wbatch[v] # Root => wpc[v] \in {"grant", "admit", "stop"},
         Undisturbed(wbatch[v])
  PROVE  WorkerOK(v)'
<1>1. NoneRunning(wbatch[v]) => NoneRunning(wbatch[v])'
  <2> SUFFICES ASSUME NoneRunning(wbatch[v]), NEW x \in Items, x[1] = wbatch'[v] PROVE item'[x] # "running"
    BY DEF NoneRunning, ItemsOf
  <2> QED
    BY DEF NoneRunning, ItemsOf, Undisturbed
<1>2. ASSUME wpc'[v] \in {"grant", "admit"}
      PROVE  NoneRunning(wbatch[v])' /\ (batch'[wbatch[v]] \in Active => item'[<<wbatch[v], witem[v]>>] = "queued")
  <2>1. <<wbatch[v], witem[v]>> \in Items /\ <<wbatch[v], witem[v]>>[1] = wbatch[v]
    BY <1>2 DEF Types
  <2> QED
    BY <1>1, <1>2, <2>1 DEF WorkerOK, Undisturbed
<1>3. wpc'[v] = "stop" /\ wbatch[v] # Root => NoneRunning(wbatch[v])'
  BY <1>1 DEF WorkerOK
<1> QED
  BY <1>2, <1>3 DEF WorkerOK

\* The workers at other batches, for a worker that looks, admits or stops.
LEMMA OthersKept ==
  ASSUME Types, Held, Clear, NEW w \in Workers, wpc[w] # "idle",
         \A v \in Workers \ {w} : wpc'[v] = wpc[v] /\ wbatch'[v] = wbatch[v] /\ witem'[v] = witem[v],
         \A b \in Batches \ {wbatch[w]} : Undisturbed(b),
         WorkerOK(w)'
  PROVE  Clear'
<1> SUFFICES ASSUME NEW v \in Workers \ {w}, wpc'[v] # "idle" PROVE WorkerOK(v)'
  BY DEF Clear, WorkerOK
<1>1. wbatch[v] \in Batches /\ wbatch[v] # wbatch[w]
  BY OneHolder DEF Types
<1> QED
  BY <1>1, WorkerKept DEF Clear

LEMMA NextClear == ConstantsOK /\ IInv /\ [Next]_vars => Clear'
<1> SUFFICES ASSUME ConstantsOK, IInv, [Next]_vars PROVE Clear'
  OBVIOUS
<1>0. Types /\ Held /\ Followed /\ OneRunning /\ InTurn /\ Clear
  BY DEF IInv
<1>1. ASSUME NEW w \in Workers, Waits(w) PROVE Clear'
  <2>1. UNCHANGED <<batch, item>>
    BY <1>1 DEF Waits, Leave, LookRefused, Grant, AdmitFails, Defer, Crash, Take, batchVars
  <2>2. \A b \in Batches : Undisturbed(b)
    BY <2>1 DEF Undisturbed
  <2>3. \A v \in Workers \ {w} : wpc'[v] = wpc[v] /\ wbatch'[v] = wbatch[v] /\ witem'[v] = witem[v]
    BY <1>0, <1>1 DEF Waits, Leave, LookRefused, Grant, AdmitFails, Defer, Crash, Take, Goto, Finish, Types
  <2>4. ASSUME NEW v \in Workers \ {w} PROVE WorkerOK(v)'
    BY <1>0, <2>2, <2>3, WorkerKept DEF Clear, Types
  <2>5. WorkerOK(w)'
    <3>1. CASE wpc'[w] \in {"idle", "look"}
      BY <3>1 DEF WorkerOK
    <3>2. CASE LookRefused(w)
      <4>1. PICK x \in ToVary(wbatch[w]) : TRUE
        BY <3>2 DEF LookRefused
      <4>2. wbatch[w] = Root
        BY <4>1 DEF ToVary, ItemsOf, HasVariants
      <4>3. wpc'[w] = "stop" /\ wbatch'[w] = Root
        BY <1>0, <3>2, <4>2 DEF LookRefused, Goto, Types
      <4> QED
        BY <4>3 DEF WorkerOK
    <3>3. CASE Grant(w) \/ AdmitFails(w)
      <4>1. /\ wpc[w] \in {"grant", "admit"} /\ wbatch'[w] = wbatch[w] /\ witem'[w] = witem[w]
        BY <3>3 DEF Grant, AdmitFails, Goto
      <4> QED
        BY <1>0, <2>2, <4>1, WorkerKept DEF Clear, Types
    <3>4. CASE Leave(w) \/ Defer(w) \/ Crash(w) \/ \E b \in Batches : Take(w, b)
      BY <1>0, <3>1, <3>4 DEF Leave, Defer, Crash, Take, Finish, Types
    <3> QED
      BY <1>1, <3>2, <3>3, <3>4 DEF Waits
  <2> QED
    BY <2>4, <2>5 DEF Clear
<1>2. ASSUME NEW w \in Workers, Look(w) PROVE Clear'
  <2>0. PICK b \in Batches : b = wbatch[w]
    BY <1>0 DEF Types
  <2>1. /\ wpc[w] # "idle"
        /\ \A v \in Workers \ {w} : wpc'[v] = wpc[v] /\ wbatch'[v] = wbatch[v] /\ witem'[v] = witem[v]
    BY <1>0, <1>2, LookCases DEF Types
  <2>2. PICK to : Outcome(b, to) /\ Refresh(b, to) /\ (MayAdmit(b) => to = "running")
    BY <1>0, <1>2, <2>0, LookOutcome
  <2>3. \A c \in Batches \ {b} : Undisturbed(c)
    BY <1>0, <2>2, RefreshCases DEF Undisturbed
  <2>4. WorkerOK(w)'
    <3>1. CASE ~MayAdmit(b)
      BY <1>0, <1>2, <2>0, <3>1, LookCases DEF WorkerOK, Types
    <3>2. CASE MayAdmit(b)
      <4>1. /\ wpc'[w] = "grant" /\ wbatch'[w] = b /\ witem'[w] = FirstQueued(b)
        BY <1>0, <1>2, <2>0, <3>2, LookCases DEF Types
      <4>2. \A x \in Items : x[1] = b => item'[x] = ItemAfter(b, x) /\ item'[x] # "running"
        BY <1>0, <2>2, <3>2, RefreshCases DEF MayAdmit, RunningAfter, ItemsOf
      <4>3. <<b, FirstQueued(b)>> \in QueuedAfter(b)
        BY <3>2, FirstIsQueued DEF MayAdmit
      <4>4. item'[<<b, FirstQueued(b)>>] = "queued"
        BY <4>2, <4>3 DEF QueuedAfter, ItemsOf
      <4>5. NoneRunning(wbatch[w])'
        BY <4>1, <4>2 DEF NoneRunning, ItemsOf
      <4> QED
        BY <4>1, <4>4, <4>5 DEF WorkerOK
    <3> QED
      BY <3>1, <3>2
  <2> QED
    BY <1>0, <2>0, <2>1, <2>3, <2>4, OthersKept
<1>3. ASSUME NEW w \in Workers, Admit(w) \/ Stop(w) PROVE Clear'
  <2>1. wpc[w] # "idle" /\ Finish(w)
    BY <1>3 DEF Admit, Stop
  <2>2. \A v \in Workers \ {w} : wpc'[v] = wpc[v] /\ wbatch'[v] = wbatch[v] /\ witem'[v] = witem[v]
    BY <1>0, <2>1 DEF Finish, Types
  <2>3. WorkerOK(w)'
    BY <1>0, <2>1 DEF Finish, WorkerOK, Types
  <2>4. ASSUME NEW b \in Batches \ {wbatch[w]} PROVE Undisturbed(b)
    <3>1. batch'[b] = batch[b] /\ \A x \in Items : x[1] = b => item'[x] = item[x]
      BY <1>0, <1>3, AdmitKeeps, StopKeeps
    <3> QED
      BY <3>1 DEF Undisturbed
  <2> QED
    BY <1>0, <2>1, <2>2, <2>3, <2>4, OthersKept
<1>4. ASSUME UNCHANGED workerVars, \A b \in Batches : Undisturbed(b) PROVE Clear'
  BY <1>0, <1>4, WorkerKept DEF Clear, Types, workerVars
<1>5. ASSUME NEW b \in Batches, Cancel(b) PROVE Clear'
  <2>1. UNCHANGED workerVars
    BY <1>5 DEF Cancel
  <2>2. \A c \in Batches : Undisturbed(c)
    BY <1>0, <1>5, CancelKeeps DEF Undisturbed, Active
  <2> QED
    BY <1>4, <2>1, <2>2
<1>6. CASE (\E b \in Batches : LeaseEnds(b)) \/ (\E x \in Items : JobEnds(x)) \/ OtherJob
  <2>1. UNCHANGED <<workerVars, batch, item>>
    BY <1>6 DEF LeaseEnds, JobEnds, OtherJob, OtherJobStarts, OtherJobEnds, batchVars, workerVars, vars
  <2> QED
    BY <1>4, <2>1 DEF Undisturbed
<1> QED
  BY <1>1, <1>2, <1>3, <1>5, <1>6, NextCases

-----------------------------------------------------------------------------
(* Sums of finite functions *)

\* Induction on the size of a set, and on natural numbers, for a set of good
\* ones in the place of a predicate.
LEMMA UpFromZero ==
  ASSUME NEW Good \in SUBSET Nat, 0 \in Good, \A n \in Good : n + 1 \in Good
  PROVE  Good = Nat
<1> SUFFICES ASSUME Nat \ Good # {} PROVE FALSE
  OBVIOUS
<1>1. PICK k \in Nat \ Good : \A m \in Nat \ Good : k <= m
  BY HasLeast
<1>2. k # 0 /\ k - 1 \in Nat
  OBVIOUS
<1>3. k - 1 \in Good
  BY <1>1, <1>2
<1> QED
  BY <1>2, <1>3

LEMMA UpFromEmpty ==
  ASSUME NEW S, IsFiniteSet(S), NEW Good \in SUBSET SUBSET S, {} \in Good,
         \A s \in SUBSET S : s # {} /\ (\A x \in s : s \ {x} \in Good) => s \in Good
  PROVE  Good = SUBSET S
<1> SUFFICES ASSUME NEW bad \in SUBSET S, bad \notin Good PROVE FALSE
  OBVIOUS
<1> DEFINE Sizes == {Cardinality(s) : s \in (SUBSET S) \ Good}
<1>1. \A s \in SUBSET S : IsFiniteSet(s) /\ Cardinality(s) \in Nat
  BY FS_Subset, FS_CardinalityType
<1>2. Sizes \subseteq Nat /\ Sizes # {}
  BY <1>1
<1>3. PICK k \in Sizes : \A m \in Sizes : k <= m
  <2> HIDE DEF Sizes
  <2> QED
    BY <1>2, HasLeast
<1>4. PICK s \in (SUBSET S) \ Good : Cardinality(s) = k
  OBVIOUS
<1>5. ASSUME NEW x \in s PROVE s \ {x} \in Good
  <2>1. Cardinality(s \ {x}) = Cardinality(s) - 1
    BY <1>1, FS_RemoveElement
  <2>2. Cardinality(s \ {x}) \in Nat /\ Cardinality(s) \in Nat
    BY <1>1
  <2> QED
    BY <1>3, <1>4, <2>1, <2>2
<1> QED
  BY <1>4, <1>5

First(s) == CHOOSE y \in s : TRUE

SumStep(f, g, s) == IF s = {} THEN 0 ELSE f[First(s)] + g[s \ {First(s)}]

IsPartial(f, g, D) == g = [s \in D |-> SumStep(f, g, s)]

\* What the fold of f evaluates: the sums of f over the subsets of its domain.
Partial(f) == CHOOSE g : IsPartial(f, g, SUBSET DOMAIN f)

LEMMA FoldIsPartial == ASSUME NEW f PROVE FoldFunction(+, 0, f) = Partial(f)[DOMAIN f]
BY DEF FoldFunction, FoldFunctionOnSet, MapThenFoldSet, Partial, IsPartial, SumStep, First

LEMMA FirstOf == \A s : s # {} => First(s) \in s
BY DEF First

\* There is such a function: it grows with the size of the sets.
LEMMA PartialExists ==
  ASSUME NEW f, IsFiniteSet(DOMAIN f)
  PROVE  IsPartial(f, Partial(f), SUBSET DOMAIN f)
<1> DEFINE S == DOMAIN f
           UpTo(n) == {s \in SUBSET S : Cardinality(s) <= n}
           Good == {n \in Nat : \E g : IsPartial(f, g, UpTo(n))}
<1>1. \A s \in SUBSET S : IsFiniteSet(s) /\ Cardinality(s) \in Nat /\ (Cardinality(s) = 0 <=> s = {})
  BY FS_Subset, FS_CardinalityType, FS_EmptySet
<1>2. 0 \in Good
  <2> DEFINE g == [s \in UpTo(0) |-> 0]
  <2>1. \A s \in UpTo(0) : s = {}
    BY <1>1
  <2>2. IsPartial(f, g, UpTo(0))
    BY <2>1 DEF IsPartial, SumStep
  <2> QED
    BY <2>2
<1>3. ASSUME NEW n \in Good PROVE n + 1 \in Good
  <2>1. PICK g : IsPartial(f, g, UpTo(n))
    OBVIOUS
  <2> DEFINE h == [s \in UpTo(n + 1) |-> SumStep(f, g, s)]
  <2>2. ASSUME NEW s \in UpTo(n + 1) PROVE SumStep(f, h, s) = SumStep(f, g, s)
    <3>1. CASE s = {}
      BY <3>1 DEF SumStep
    <3>2. CASE s # {}
      <4> DEFINE r == s \ {First(s)}
      <4>1. First(s) \in s
        BY <3>2, FirstOf
      <4>2. Cardinality(r) = Cardinality(s) - 1 /\ r \in SUBSET S
        BY <1>1, <4>1, FS_RemoveElement
      <4>3. r \in UpTo(n) /\ r \in UpTo(n + 1)
        BY <1>1, <4>2
      <4>4. g[r] = SumStep(f, g, r)
        BY <2>1, <4>3 DEF IsPartial
      <4>5. h[r] = SumStep(f, g, r)
        BY <4>3
      <4> QED
        BY <4>4, <4>5 DEF SumStep
    <3> QED
      BY <3>1, <3>2
  <2>3. IsPartial(f, h, UpTo(n + 1))
    BY <2>2 DEF IsPartial
  <2> QED
    BY <2>3
<1>4. Good = Nat
  <2> HIDE DEF Good
  <2>1. Good \in SUBSET Nat
    BY DEF Good
  <2> QED
    BY <1>2, <1>3, <2>1, UpFromZero
<1>5. Cardinality(S) \in Good
  BY <1>1, <1>4
<1>6. UpTo(Cardinality(S)) = SUBSET S
  BY FS_Subset
<1>7. \E g : IsPartial(f, g, SUBSET S)
  BY <1>5, <1>6
<1> QED
  BY <1>7 DEF Partial

LEMMA PartialEquation ==
  ASSUME NEW f, IsFiniteSet(DOMAIN f), NEW s \in SUBSET DOMAIN f
  PROVE  Partial(f)[s] = SumStep(f, Partial(f), s)
BY PartialExists DEF IsPartial

LEMMA PartialIsNat ==
  ASSUME NEW S, IsFiniteSet(S), NEW f \in [S -> Nat]
  PROVE  \A s \in SUBSET S : Partial(f)[s] \in Nat
<1> DEFINE Good == {s \in SUBSET S : Partial(f)[s] \in Nat}
<1>1. \A s \in SUBSET S : Partial(f)[s] = SumStep(f, Partial(f), s)
  <2>1. DOMAIN f = S
    OBVIOUS
  <2> QED
    BY <2>1, PartialEquation
<1>2. {} \in Good
  BY <1>1 DEF SumStep
<1>3. ASSUME NEW s \in SUBSET S, s # {}, \A x \in s : s \ {x} \in Good PROVE s \in Good
  <2>1. First(s) \in S /\ Partial(f)[s \ {First(s)}] \in Nat
    BY <1>3, FirstOf
  <2>2. Partial(f)[s] = f[First(s)] + Partial(f)[s \ {First(s)}]
    BY <1>1, <1>3 DEF SumStep
  <2>3. f[First(s)] \in Nat
    BY <2>1
  <2>4. Partial(f)[s] \in Nat
    BY <2>1, <2>2, <2>3
  <2> QED
    BY <2>4
<1>4. Good = SUBSET S
  <2>1. Good \in SUBSET SUBSET S
    OBVIOUS
  <2> HIDE DEF Good
  <2> QED
    BY <1>2, <1>3, <2>1, UpFromEmpty
<1> QED
  BY <1>4

LEMMA PartialOfZeros ==
  ASSUME NEW S, IsFiniteSet(S), NEW f \in [S -> Nat], \A x \in S : f[x] = 0
  PROVE  \A s \in SUBSET S : Partial(f)[s] = 0
<1> DEFINE Good == {s \in SUBSET S : Partial(f)[s] = 0}
<1>1. \A s \in SUBSET S : Partial(f)[s] = SumStep(f, Partial(f), s)
  <2>1. DOMAIN f = S
    OBVIOUS
  <2> QED
    BY <2>1, PartialEquation
<1>2. {} \in Good
  BY <1>1 DEF SumStep
<1>3. ASSUME NEW s \in SUBSET S, s # {}, \A x \in s : s \ {x} \in Good PROVE s \in Good
  <2>1. First(s) \in S /\ Partial(f)[s \ {First(s)}] = 0
    BY <1>3, FirstOf
  <2>2. Partial(f)[s] = f[First(s)] + Partial(f)[s \ {First(s)}]
    BY <1>1, <1>3 DEF SumStep
  <2>3. Partial(f)[s] = 0
    BY <2>1, <2>2
  <2> QED
    BY <2>3
<1>4. Good = SUBSET S
  <2>1. Good \in SUBSET SUBSET S
    OBVIOUS
  <2> HIDE DEF Good
  <2> QED
    BY <1>2, <1>3, <2>1, UpFromEmpty
<1> QED
  BY <1>4

\* Smaller numbers, smaller sums.
LEMMA PartialGrows ==
  ASSUME NEW S, IsFiniteSet(S), NEW f \in [S -> Nat], NEW g \in [S -> Nat], \A x \in S : f[x] <= g[x]
  PROVE  \A s \in SUBSET S : Partial(f)[s] <= Partial(g)[s]
<1> DEFINE Good == {s \in SUBSET S : Partial(f)[s] <= Partial(g)[s]}
<1>1. \A s \in SUBSET S : /\ Partial(f)[s] = SumStep(f, Partial(f), s)
                          /\ Partial(g)[s] = SumStep(g, Partial(g), s)
                          /\ Partial(f)[s] \in Nat /\ Partial(g)[s] \in Nat
  BY PartialEquation, PartialIsNat
<1>2. {} \in Good
  <2>1. Partial(f)[{}] = 0 /\ Partial(g)[{}] = 0
    BY <1>1 DEF SumStep
  <2> QED
    BY <2>1
<1>3. ASSUME NEW s \in SUBSET S, s # {}, \A x \in s : s \ {x} \in Good PROVE s \in Good
  <2>1. First(s) \in s /\ First(s) \in S /\ s \ {First(s)} \in SUBSET S
    BY <1>3, FirstOf
  <2>2. Partial(f)[s \ {First(s)}] <= Partial(g)[s \ {First(s)}]
    BY <1>3, <2>1
  <2>3. /\ Partial(f)[s] = f[First(s)] + Partial(f)[s \ {First(s)}]
        /\ Partial(g)[s] = g[First(s)] + Partial(g)[s \ {First(s)}]
    BY <1>1, <1>3 DEF SumStep
  <2>4. f[First(s)] \in Nat /\ g[First(s)] \in Nat /\ f[First(s)] <= g[First(s)]
    BY <2>1
  <2> QED
    BY <1>1, <2>1, <2>2, <2>3, <2>4
<1>4. Good = SUBSET S
  <2>1. Good \in SUBSET SUBSET S
    OBVIOUS
  <2> HIDE DEF Good
  <2> QED
    BY <1>2, <1>3, <2>1, UpFromEmpty
<1> QED
  BY <1>4

\* A sum changes by as much as one of its numbers.
LEMMA PartialMoves ==
  ASSUME NEW S, IsFiniteSet(S), NEW f \in [S -> Nat], NEW g \in [S -> Nat],
         NEW a \in S, \A x \in S : x # a => g[x] = f[x]
  PROVE  \A s \in SUBSET S :
           Partial(g)[s] + (IF a \in s THEN f[a] ELSE 0) = Partial(f)[s] + (IF a \in s THEN g[a] ELSE 0)
<1> DEFINE Old(s) == IF a \in s THEN f[a] ELSE 0
           New(s) == IF a \in s THEN g[a] ELSE 0
           Good == {s \in SUBSET S : Partial(g)[s] + Old(s) = Partial(f)[s] + New(s)}
<1>1. \A s \in SUBSET S : /\ Partial(f)[s] = SumStep(f, Partial(f), s)
                          /\ Partial(g)[s] = SumStep(g, Partial(g), s)
                          /\ Partial(f)[s] \in Nat /\ Partial(g)[s] \in Nat
  BY PartialEquation, PartialIsNat
<1>2. {} \in Good
  BY <1>1 DEF SumStep
<1>3. ASSUME NEW s \in SUBSET S, s # {}, \A x \in s : s \ {x} \in Good PROVE s \in Good
  <2> DEFINE x == First(s)
             r == s \ {x}
  <2>1. x \in s /\ x \in S /\ r \in SUBSET S
    BY <1>3, FirstOf
  <2>2. Partial(g)[r] + Old(r) = Partial(f)[r] + New(r)
    BY <1>3, <2>1
  <2>3. Partial(f)[s] = f[x] + Partial(f)[r] /\ Partial(g)[s] = g[x] + Partial(g)[r]
    BY <1>1, <1>3 DEF SumStep
  <2>4. Partial(f)[r] \in Nat /\ Partial(g)[r] \in Nat /\ f[x] \in Nat /\ f[a] \in Nat /\ g[a] \in Nat
    BY <1>1, <2>1
  <2>5. CASE x = a
    <3>1. Old(r) = 0 /\ New(r) = 0 /\ Old(s) = f[a] /\ New(s) = g[a] /\ g[x] = g[a] /\ f[x] = f[a]
      BY <2>1, <2>5
    <3> HIDE DEF Old, New, r, x
    <3>2. Partial(g)[s] + Old(s) = Partial(f)[s] + New(s)
      BY <2>2, <2>3, <2>4, <3>1
    <3> QED
      BY <3>2
  <2>6. CASE x # a
    <3>1. Old(r) = Old(s) /\ New(r) = New(s) /\ g[x] = f[x] /\ Old(s) \in Nat /\ New(s) \in Nat
      BY <2>1, <2>4, <2>6
    <3> HIDE DEF Old, New, r, x
    <3>2. Partial(g)[s] + Old(s) = Partial(f)[s] + New(s)
      BY <2>2, <2>3, <2>4, <3>1
    <3> QED
      BY <3>2
  <2> QED
    BY <2>5, <2>6
<1>4. Good = SUBSET S
  <2>1. Good \in SUBSET SUBSET S
    OBVIOUS
  <2> HIDE DEF Good
  <2> QED
    BY <1>2, <1>3, <2>1, UpFromEmpty
<1> QED
  BY <1>4

Total(f) == FoldFunction(+, 0, f)

\* What a total is, and how it changes.
LEMMA TotalFacts ==
  ASSUME NEW S, IsFiniteSet(S), NEW f \in [S -> Nat]
  PROVE  /\ Total(f) \in Nat
         /\ (\A x \in S : f[x] = 0) => Total(f) = 0
         /\ \A g \in [S -> Nat] : (\A x \in S : f[x] <= g[x]) => Total(f) <= Total(g)
         /\ \A g \in [S -> Nat], a \in S :
              (\A x \in S : x # a => g[x] = f[x]) => Total(g) + f[a] = Total(f) + g[a]
<1>1. \A g \in [S -> Nat] : Total(g) = Partial(g)[S]
  BY FoldIsPartial DEF Total
<1>2. Total(f) \in Nat
  BY <1>1, PartialIsNat
<1>3. ASSUME \A x \in S : f[x] = 0 PROVE Total(f) = 0
  <2>1. \A s \in SUBSET S : Partial(f)[s] = 0
    BY <1>3, PartialOfZeros
  <2> QED
    BY <1>1, <2>1
<1>4. ASSUME NEW g \in [S -> Nat], \A x \in S : f[x] <= g[x] PROVE Total(f) <= Total(g)
  <2>1. \A s \in SUBSET S : Partial(f)[s] <= Partial(g)[s]
    BY <1>4, PartialGrows
  <2> QED
    BY <1>1, <2>1
<1>5. ASSUME NEW g \in [S -> Nat], NEW a \in S, \A x \in S : x # a => g[x] = f[x]
      PROVE  Total(g) + f[a] = Total(f) + g[a]
  <2>1. \A s \in SUBSET S :
          Partial(g)[s] + (IF a \in s THEN f[a] ELSE 0) = Partial(f)[s] + (IF a \in s THEN g[a] ELSE 0)
    BY <1>5, PartialMoves
  <2> QED
    BY <1>1, <2>1
<1> QED
  BY <1>2, <1>3, <1>4, <1>5

-----------------------------------------------------------------------------
(* Amounts *)

AmountTypes ==
  /\ hold \in [Items -> 0..PerJob] /\ charge \in [Items -> 0..PerJob]
  /\ others \in 0..MaxActive

\* What the tree has used, by item.
Use == [x \in Items |-> IF job[x] = "active" THEN hold[x] ELSE charge[x]]
NewUse == [x \in Items |-> IF job'[x] = "active" THEN hold'[x] ELSE charge'[x]]

\* A job is charged when it ends, and the tree has used what the budget holds at most.
Amounts ==
  /\ AmountTypes
  /\ \A x \in Items : job[x] \in {"none", "active"} => charge[x] = 0
  /\ Used <= Budget

LEMMA FiniteItems == ConstantsOK => IsFiniteSet(Items)
<1> SUFFICES ASSUME ConstantsOK PROVE IsFiniteSet(Items)
  OBVIOUS
<1>1. Count \in Int /\ Count + Variants \in Int /\ 0 \in Int /\ 1 \in Int
  BY DEF ConstantsOK
<1>2. IsFiniteSet(Batches) /\ IsFiniteSet(1..Count + Variants)
  BY <1>1, FS_Interval DEF Batches
<1>3. IsFiniteSet(Batches \X (1..Count + Variants))
  BY <1>2, FS_Product
<1>4. Items \in SUBSET (Batches \X (1..Count + Variants))
  BY DEF Items
<1> QED
  BY <1>3, <1>4, FS_Subset

LEMMA UseIsNat ==
  ASSUME ConstantsOK, AmountTypes
  PROVE  Use \in [Items -> Nat] /\ charge \in [Items -> Nat] /\ Used = Total(Use) /\ Used \in Nat
<1>1. PerJob \in Nat
  BY DEF ConstantsOK
<1>2. Use \in [Items -> Nat] /\ charge \in [Items -> Nat]
  BY <1>1 DEF AmountTypes, Use
<1>3. Used = Total(Use)
  BY DEF Used, Use, Total
<1> QED
  BY <1>2, <1>3, FiniteItems, TotalFacts

\* A prime goes through the definition of the fold only.
LEMMA NewTotal == Used' = Total(NewUse)
  BY DEF Used, NewUse, Total, FoldFunction, FoldFunctionOnSet, MapThenFoldSet

LEMMA UsedIsNatNext ==
  ASSUME ConstantsOK, AmountTypes'
  PROVE  Used' \in Nat
<1>1. PerJob \in Nat
  BY DEF ConstantsOK
<1>2. NewUse \in [Items -> Nat]
  BY <1>1 DEF AmountTypes, NewUse
<1>3. Used' = Total(NewUse)
  BY NewTotal
<1> QED
  BY <1>2, <1>3, FiniteItems, TotalFacts

\* When a job ends or is cancelled, what it held is given back but for its charge.
LEMMA Lighter ==
  ASSUME ConstantsOK, AmountTypes, AmountTypes', \A x \in Items : NewUse[x] <= Use[x]
  PROVE  Used' <= Used
<1>1. Use \in [Items -> Nat] /\ Used = Total(Use)
  BY UseIsNat
<1>2. PerJob \in Nat
  BY DEF ConstantsOK
<1>3. NewUse \in [Items -> Nat]
  BY <1>2 DEF AmountTypes, NewUse
<1>4. Used' = Total(NewUse)
  BY NewTotal
<1>6. Total(NewUse) <= Total(Use)
  <2> DEFINE f == NewUse
  <2>1. f \in [Items -> Nat] /\ \A x \in Items : f[x] <= Use[x]
    BY <1>3
  <2> HIDE DEF f
  <2>2. Total(f) <= Total(Use)
    BY <1>1, <2>1, FiniteItems, TotalFacts
  <2> QED
    BY <2>2 DEF f
<1> QED
  BY <1>1, <1>4, <1>6

\* An admission takes no more than what is left, for an item that used nothing.
LEMMA AdmitAmounts ==
  ASSUME ConstantsOK, IInv, Amounts, NEW w \in Workers, Admit(w)
  PROVE  Amounts'
<1> DEFINE rest == Budget - Used
           units == IF PerJob < rest THEN PerJob ELSE rest
           a == <<wbatch[w], witem[w]>>
<1>1. a \in Items /\ batch[wbatch[w]] \in Active /\ wpc[w] = "admit"
  BY DEF IInv, Types, Admit, Mine
<1>2. item[a] = "queued" /\ job[a] = "none"
  BY <1>1 DEF IInv, Clear, WorkerOK, Followed, ItemOK
<1>3. PerJob \in Nat /\ Budget \in Nat
  BY DEF ConstantsOK
<1>4. Used \in Nat /\ Used <= Budget /\ Use \in [Items -> Nat] /\ Used = Total(Use)
  BY UseIsNat DEF Amounts
<1>5. rest > 0
  BY DEF Admit
<1>6. units \in 0..PerJob /\ units <= rest /\ Used + units <= Budget
  BY <1>3, <1>4, <1>5
<1>7. job' = [job EXCEPT ![a] = "active"] /\ hold' = [hold EXCEPT ![a] = units]
      /\ charge' = charge /\ others' = others
  BY DEF Admit, Admitted
<1> HIDE DEF rest, units
<1>8. AmountTypes'
  BY <1>1, <1>6, <1>7 DEF Amounts, AmountTypes
<1>9. job \in [Items -> {"none", "active"} \cup Ended] /\ hold \in [Items -> 0..PerJob] /\ charge[a] = 0
  BY <1>1, <1>2 DEF IInv, Types, Amounts, AmountTypes
<1> HIDE DEF a
<1>10. \A x \in Items : job'[x] \in {"none", "active"} => charge'[x] = 0
  BY <1>1, <1>7, <1>9 DEF Amounts
<1>11. /\ Use[a] = 0 /\ NewUse[a] = units
       /\ \A x \in Items : x # a => NewUse[x] = Use[x]
  BY <1>1, <1>2, <1>7, <1>9 DEF Use, NewUse
<1>12. NewUse \in [Items -> Nat]
  BY <1>3, <1>8 DEF AmountTypes, NewUse
<1>13. Used' = Total(NewUse)
  BY NewTotal
<1>14. Total(NewUse) = Used + units
  <2> DEFINE f == NewUse
  <2>1. f \in [Items -> Nat] /\ f[a] = units /\ \A x \in Items : x # a => f[x] = Use[x]
    BY <1>11, <1>12
  <2> HIDE DEF f
  <2>2. Total(f) + Use[a] = Total(Use) + f[a]
    BY <1>1, <1>4, <2>1, FiniteItems, TotalFacts
  <2>3. Total(f) \in Nat
    BY <2>1, FiniteItems, TotalFacts
  <2>4. Total(f) = Used + units
    BY <1>4, <1>6, <1>11, <2>1, <2>2, <2>3
  <2> QED
    BY <2>4 DEF f
<1> QED
  BY <1>6, <1>8, <1>10, <1>13, <1>14 DEF Amounts

LEMMA CancelAmounts ==
  ASSUME ConstantsOK, Types, Amounts, NEW b \in Batches, Cancel(b)
  PROVE  Amounts'
<1> DEFINE hit == {x \in Items : x[1] \in Reached(b) /\ item[x] \notin {"succeeded", "failed"}}
           ended == {x \in hit : job[x] = "active"}
<1>1. /\ job' = [x \in Items |-> IF x \in ended THEN "cancelled" ELSE job[x]]
      /\ hold' = hold /\ others' = others
  BY DEF Cancel
<1>2. PICK c \in [ended -> 0..PerJob] :
        /\ \A x \in ended : c[x] <= hold[x]
        /\ charge' = [x \in Items |-> IF x \in ended THEN c[x] ELSE charge[x]]
  BY DEF Cancel
<1>3. ended \subseteq Items /\ \A x \in ended : job[x] = "active"
  OBVIOUS
<1> HIDE DEF ended
<1>4. AmountTypes'
  BY <1>1, <1>2, <1>3 DEF Amounts, AmountTypes
<1>5. \A x \in Items : job'[x] \in {"none", "active"} => charge'[x] = 0
  BY <1>1, <1>2 DEF Amounts
<1>6. ASSUME NEW x \in Items PROVE NewUse[x] <= Use[x]
  <2>1. Use \in [Items -> Nat]
    BY UseIsNat DEF Amounts
  <2>2. NewUse[x] = IF job'[x] = "active" THEN hold'[x] ELSE charge'[x]
    BY DEF NewUse
  <2>3. CASE x \in ended
    BY <1>1, <1>2, <1>3, <2>2, <2>3 DEF Use
  <2>4. CASE x \notin ended
    <3>1. NewUse[x] = Use[x]
      BY <1>1, <1>2, <2>2, <2>4 DEF Use
    <3> QED
      BY <2>1, <3>1
  <2> QED
    BY <2>3, <2>4
<1>7. Used' <= Used
  BY <1>4, <1>6, Lighter DEF Amounts
<1>8. Used \in Nat /\ Used' \in Nat /\ Budget \in Nat
  <2>1. Used \in Nat /\ Budget \in Nat
    BY UseIsNat DEF Amounts, ConstantsOK
  <2>2. Used' \in Nat
    BY <1>4, UsedIsNatNext
  <2> QED
    BY <2>1, <2>2
<1> QED
  BY <1>4, <1>5, <1>7, <1>8 DEF Amounts

LEMMA JobEndsAmounts ==
  ASSUME ConstantsOK, Types, Amounts, NEW a \in Items, JobEnds(a)
  PROVE  Amounts'
<1>1. PICK end \in Ended, c \in 0..hold[a] :
        job' = [job EXCEPT ![a] = end] /\ charge' = [charge EXCEPT ![a] = c]
  BY DEF JobEnds
<1>2. job[a] = "active" /\ hold' = hold /\ others' = others
  BY DEF JobEnds
<1>3. /\ job \in [Items -> {"none", "active"} \cup Ended] /\ PerJob \in Nat
      /\ hold \in [Items -> 0..PerJob] /\ charge \in [Items -> 0..PerJob]
  BY DEF Types, Amounts, AmountTypes, ConstantsOK
<1>4. c \in 0..PerJob /\ c <= hold[a]
  BY <1>1, <1>3
<1>5. AmountTypes'
  BY <1>1, <1>2, <1>3, <1>4 DEF Amounts, AmountTypes
<1>6. \A x \in Items : job'[x] \in {"none", "active"} => charge'[x] = 0
  BY <1>1, <1>3 DEF Amounts, Ended
<1>7. ASSUME NEW x \in Items PROVE NewUse[x] <= Use[x]
  <2>1. Use \in [Items -> Nat]
    BY UseIsNat DEF Amounts
  <2>2. NewUse[x] = IF job'[x] = "active" THEN hold'[x] ELSE charge'[x]
    BY DEF NewUse
  <2>3. CASE x = a
    BY <1>1, <1>2, <1>3, <1>4, <2>2, <2>3 DEF Use, Ended
  <2>4. CASE x # a
    <3>1. NewUse[x] = Use[x]
      BY <1>1, <1>2, <1>3, <2>2, <2>4 DEF Use
    <3> QED
      BY <2>1, <3>1
  <2> QED
    BY <2>3, <2>4
<1>8. Used' <= Used
  BY <1>5, <1>7, Lighter DEF Amounts
<1>9. Used \in Nat /\ Used' \in Nat /\ Budget \in Nat
  <2>1. Used \in Nat /\ Budget \in Nat
    BY UseIsNat DEF Amounts, ConstantsOK
  <2>2. Used' \in Nat
    BY <1>5, UsedIsNatNext
  <2> QED
    BY <2>1, <2>2
<1> QED
  BY <1>5, <1>6, <1>8, <1>9 DEF Amounts

LEMMA NextAmounts == ConstantsOK /\ IInv /\ Amounts /\ [Next]_vars => Amounts'
<1> SUFFICES ASSUME ConstantsOK, IInv, Amounts, [Next]_vars PROVE Amounts'
  OBVIOUS
<1>0. Types
  BY DEF IInv
<1>1. ASSUME job' = job, hold' = hold, charge' = charge, others' \in 0..MaxActive PROVE Amounts'
  <2>1. Used' = Used
    BY <1>1 DEF Used, FoldFunction, FoldFunctionOnSet, MapThenFoldSet
  <2> QED
    BY <1>1, <2>1 DEF Amounts, AmountTypes
<1>2. ASSUME NEW w \in Workers, Waits(w) \/ Look(w) \/ Stop(w) PROVE Amounts'
  <2>1. job' = job /\ hold' = hold /\ charge' = charge /\ others' = others
    BY <1>2 DEF Waits, Leave, LookRefused, Grant, AdmitFails, Defer, Crash, Take, Look, Stop, jobVars
  <2> QED
    BY <1>1, <2>1 DEF Amounts, AmountTypes
<1>3. ASSUME NEW b \in Batches, LeaseEnds(b) PROVE Amounts'
  <2>1. job' = job /\ hold' = hold /\ charge' = charge /\ others' = others
    BY <1>3 DEF LeaseEnds, jobVars
  <2> QED
    BY <1>1, <2>1 DEF Amounts, AmountTypes
<1>4. CASE OtherJob
  <2>1. job' = job /\ hold' = hold /\ charge' = charge
    BY <1>4 DEF OtherJob, OtherJobStarts, OtherJobEnds, vars
  <2>2. others \in 0..MaxActive /\ MaxActive \in Nat
    BY DEF Amounts, AmountTypes, ConstantsOK
  <2>3. Cardinality({x \in Items : job[x] = "active"}) \in Nat
    <3>1. {x \in Items : job[x] = "active"} \in SUBSET Items
      OBVIOUS
    <3> QED
      BY <3>1, FiniteItems, FS_Subset, FS_CardinalityType
  <2>4. others' \in 0..MaxActive
    BY <1>4, <2>2, <2>3 DEF OtherJob, OtherJobStarts, OtherJobEnds, ActiveJobs, vars
  <2> QED
    BY <1>1, <2>1, <2>4
<1> QED
  BY <1>0, <1>2, <1>3, <1>4, NextCases, AdmitAmounts, CancelAmounts, JobEndsAmounts

-----------------------------------------------------------------------------
(* Theorems *)

LEMMA InitIInv == ConstantsOK /\ Init => IInv
<1> SUFFICES ASSUME ConstantsOK, Init PROVE IInv
  OBVIOUS
<1>1. Types
  BY InitTypes
<1>2. Followed
  <2> SUFFICES ASSUME NEW x \in Items PROVE ItemOK(x)
    BY DEF Followed
  <2>1. x[1] \in Batches
    BY ItemFacts
  <2> QED
    BY <2>1 DEF Init, ItemOK, Active
<1>3. Held /\ OneRunning /\ InTurn /\ Clear
  BY DEF Init, Held, OneRunning, InTurn, Clear, WorkerOK, Active
<1> QED
  BY <1>1, <1>2, <1>3 DEF IInv

LEMMA OneIsActive ==
  ASSUME ConstantsOK, IInv, NEW x \in Items, NEW y \in Items, job[x] = "active", job[y] = "active"
  PROVE  x = y
<1>1. item[x] = "running" /\ item[y] = "running"
  BY DEF IInv, Followed, ItemOK
<1>2. x[1] = y[1] => x = y
  BY <1>1 DEF IInv, OneRunning
<1>3. \A u \in Items : u[1] # Root /\ job[u] = "active" =>
        /\ u[1] \in Batches /\ <<Root, u[1]>> \in Items
        /\ item[<<Root, u[1]>>] = "running" /\ job[<<Root, u[1]>>] = "succeeded"
  BY ItemFacts DEF IInv, InTurn
<1>4. \A u, v \in Items : u[1] = Root /\ v[1] # Root /\ job[u] = "active" /\ job[v] = "active" => FALSE
  <2> SUFFICES ASSUME NEW u \in Items, NEW v \in Items, u[1] = Root, v[1] # Root,
                      job[u] = "active", job[v] = "active"
               PROVE  FALSE
    OBVIOUS
  <2>1. item[u] = "running"
    BY DEF IInv, Followed, ItemOK
  <2>2. u = <<Root, v[1]>>
    BY <1>3, <2>1 DEF IInv, OneRunning
  <2> QED
    BY <1>3, <2>2
<1>5. x[1] # Root /\ y[1] # Root => x[1] = y[1]
  <2> SUFFICES ASSUME x[1] # Root, y[1] # Root PROVE x[1] = y[1]
    OBVIOUS
  <2>1. <<Root, x[1]>> = <<Root, y[1]>>
    BY <1>3 DEF IInv, OneRunning
  <2> QED
    BY <2>1
<1> QED
  BY <1>2, <1>4, <1>5

LEMMA InitAmounts == ConstantsOK /\ Init => Amounts
<1> SUFFICES ASSUME ConstantsOK, Init PROVE Amounts
  OBVIOUS
<1>1. PerJob \in Nat /\ Budget \in Nat /\ MaxActive \in Nat
  BY DEF ConstantsOK
<1>2. AmountTypes
  BY <1>1 DEF Init, AmountTypes
<1>3. \A x \in Items : charge[x] = 0 /\ Use[x] = 0
  BY DEF Init, Use
<1>4. Used = 0
  <2>1. Use \in [Items -> Nat] /\ Used = Total(Use)
    BY <1>2, UseIsNat
  <2> QED
    BY <1>3, <2>1, FiniteItems, TotalFacts
<1> QED
  BY <1>1, <1>2, <1>3, <1>4 DEF Amounts

LEMMA AlwaysAmounts == ASSUME ConstantsOK PROVE Spec => [](IInv /\ Amounts)
<1>1. Init => IInv /\ Amounts
  BY InitIInv, InitAmounts
<1>2. IInv /\ Amounts /\ [Next]_vars => (IInv /\ Amounts)'
  BY NextTypes, NextHeld, NextItems, NextClear, NextAmounts DEF IInv
<1> QED
  BY <1>1, <1>2, PTL DEF Spec

\* "one active child per batch" (advance_video_batch, the locks and the leases): of a
\* root and all batches of its variants one job at most is under way, however many
\* workers advance them, die or are refused, and whatever the person cancels.
THEOREM OneChildPerTree == ASSUME ConstantsOK PROVE Spec => []OneChild
<1>1. Init => IInv
  BY InitIInv
<1>2. IInv /\ [Next]_vars => IInv'
  BY NextTypes, NextHeld, NextItems, NextClear DEF IInv
<1>3. IInv => OneChild
  <2> DEFINE S == {x \in Items : job[x] = "active"}
  <2> SUFFICES ASSUME IInv PROVE Cardinality(S) <= 1
    BY DEF OneChild
  <2>1. \A x, y \in S : x = y
    BY OneIsActive
  <2>2. CASE S = {}
    BY <2>2, FS_EmptySet
  <2>3. ASSUME NEW x \in S PROVE Cardinality(S) = 1
    <3>1. S = {x}
      BY <2>1, <2>3
    <3> QED
      BY <3>1, FS_Singleton
  <2> QED
    BY <2>2, <2>3
<1> QED
  BY <1>1, <1>2, <1>3, PTL DEF Spec

\* TypeOK: limits, charges and the tenant's other jobs stay in their ranges as well,
\* and a worker admits an item only that there is.
THEOREM TypeCorrect == ASSUME ConstantsOK PROVE Spec => []TypeOK
<1>1. IInv /\ Amounts => TypeOK
  BY DEF IInv, Types, Amounts, AmountTypes, TypeOK
<1> QED
  BY <1>1, AlwaysAmounts, PTL

\* max_units_total (prepare_child_revision under the locks of batch and tenant): what
\* all jobs of a tree are charged in the end is within the budget of its root, because
\* a job is admitted with what the limits under way and the charges leave of it.
THEOREM TreeStaysWithinBudget == ASSUME ConstantsOK PROVE Spec => []WithinBudget
<1>1. IInv /\ Amounts => WithinBudget
  <2> SUFFICES ASSUME IInv, Amounts PROVE WithinBudget
    OBVIOUS
  <2>1. /\ Use \in [Items -> Nat] /\ charge \in [Items -> Nat] /\ Budget \in Nat
        /\ Used = Total(Use) /\ Used \in Nat /\ Used <= Budget
    BY UseIsNat DEF Amounts, ConstantsOK
  <2>2. \A x \in Items : charge[x] <= Use[x]
    BY <2>1 DEF Amounts, Use
  <2>3. Total(charge) \in Nat /\ Total(charge) <= Total(Use)
    BY <2>1, <2>2, FiniteItems, TotalFacts
  <2>4. Total(charge) <= Budget
    BY <2>1, <2>3
  <2> QED
    BY <2>4 DEF WithinBudget, Total
<1> QED
  BY <1>1, AlwaysAmounts, PTL

-----------------------------------------------------------------------------
(* Schedules: where workers and occurrences are *)

\* Where a worker is: it prepares an occurrence under a lease, or reports one.
Preparing(w) == pc[w] \in {"create", "link"}
Reporting(w) == pc[w] \in {"look", "approve", "commit", "conclude"}

Ongoing(r) == run[r] \in {"queued", "running"}

\* Of a task one occurrence at most is on its way.
Alone == \A r, s \in Schedules!Runs : Ongoing(r) /\ Ongoing(s) => r = s

\* Who prepares an occurrence holds its lease under its own token, and has not linked a video to it.
Prepared ==
  \A w \in Workers : Preparing(w) =>
    /\ Ongoing(at[w]) /\ leased[at[w]] /\ token[at[w]] = w /\ ~linked[at[w]]
    /\ pc[w] = "create" => video[at[w]] = "none"

\* An occurrence is reported when its video has been made.
Reported == \A w \in Workers : Reporting(w) => run[at[w]] \in {"awaiting_review", "completed"}

\* A video that is not linked yet belongs to an occurrence on its way: there is one at most.
Loose == \A r \in Schedules!Runs : video[r] # "none" /\ ~linked[r] => Ongoing(r)

\* Nothing is charged for a video that was not begun.
Blank == \A r \in Schedules!Runs : video[r] = "none" => bill[r] = 0

Orderly == Alone /\ Prepared /\ Reported /\ Loose /\ Blank

Tasks == [status : {"active", "paused"}, next : 0..MaxTime, consent : Consents \cup {NoConsent}]

ScheduleTypes ==
  /\ now \in 0..MaxTime /\ outputs \subseteq Videos
  /\ task \in Tasks
  /\ edits \in 0..MaxEdits /\ faults \in 0..MaxFaults
RunTypes ==
  /\ run \in [Schedules!Runs -> {"none", "queued", "running", "awaiting_review", "completed",
                       "failed", "cancelled"}]
  /\ saved \in [Schedules!Runs -> Consents \cup {NoConsent}]
  /\ attempts \in [Schedules!Runs -> 0..MaxAttempts]
  /\ leased \in [Schedules!Runs -> BOOLEAN] /\ token \in [Schedules!Runs -> Workers \cup {NoWorker}]
  /\ linked \in [Schedules!Runs -> BOOLEAN] /\ acked \in [Schedules!Runs -> BOOLEAN]
ProductionTypes ==
  /\ video \in [Schedules!Runs -> {"none", "underway"} \cup Schedules!Ends]
  /\ bill \in [Schedules!Runs -> 0..PerRun]
  /\ approved \in [Schedules!Runs -> SUBSET Videos]
PlaceTypes ==
  /\ pc \in [Workers -> {"idle", "create", "link", "look", "approve", "commit", "conclude"}]
  /\ at \in [Workers -> Schedules!Runs] /\ left \in [Workers -> SUBSET Videos]

SchedulesTypes == ScheduleTypes /\ RunTypes /\ ProductionTypes /\ PlaceTypes

LEMMA SchedulesTypeParts == Schedules!TypeOK <=> SchedulesTypes
  BY DEF Schedules!TypeOK, SchedulesTypes, ScheduleTypes, RunTypes, ProductionTypes, PlaceTypes, Tasks

LEMMA InitOrderly == Schedules!ConstantsOK /\ Schedules!Init => SchedulesTypes /\ Orderly
<1> SUFFICES ASSUME Schedules!ConstantsOK, Schedules!Init PROVE SchedulesTypes /\ Orderly
  OBVIOUS
<1>1. Schedules!Nowhere \in Schedules!Runs
  BY DEF Schedules!Nowhere, Schedules!Runs, Schedules!Slots, Schedules!ConstantsOK
<1>2. SchedulesTypes
  BY <1>1 DEF Schedules!Init, SchedulesTypes, ScheduleTypes, RunTypes, ProductionTypes, PlaceTypes,
    Schedules!ConstantsOK, Schedules!NextSlot, Tasks
<1>3. Orderly
  BY DEF Schedules!Init, Orderly, Alone, Prepared, Reported, Loose, Blank, Ongoing, Preparing, Reporting
<1> QED
  BY <1>2, <1>3

-----------------------------------------------------------------------------
(* Types *)

\* Steps of a worker that picks an occurrence, of one that has one, of the owner, of time.
Starts(w, r) == Schedules!Prepare(w, r) \/ Schedules!Report(w, r)

Moves(w) ==
  \/ Schedules!Create(w) \/ Schedules!Refuse(w) \/ Schedules!Link(w)
  \/ Schedules!Look(w) \/ Schedules!Lock(w) \/ Schedules!NeedsReview(w) \/ Schedules!Conclude(w)
  \/ \E v \in Videos : Schedules!Approve(w, v)
  \/ Schedules!Defer(w) \/ Schedules!Crash(w)

Owner ==
  \/ Schedules!TimePasses \/ Schedules!Pause \/ Schedules!Resume
  \/ \E consent \in Consents \cup {NoConsent} : Schedules!Edit(consent)

Passes(r) == Schedules!Relink(r) \/ Schedules!GiveUp(r) \/ Schedules!LeaseEnds(r) \/ Schedules!VideoEnds(r)

LEMMA SchedulesNextCases ==
  ASSUME [Schedules!Next]_(Schedules!vars)
  PROVE  \/ UNCHANGED Schedules!vars \/ Owner
         \/ Schedules!AdmitDue \/ \E k \in Keys : Schedules!RunNow(k)
         \/ Schedules!Synchronize
         \/ \E r \in Schedules!Runs : Passes(r)
         \/ \E w \in Workers, r \in Schedules!Runs : Starts(w, r)
         \/ \E w \in Workers : Moves(w)
  BY DEF Schedules!Next, Schedules!Goes, Schedules!Continue, Owner, Starts, Moves, Passes

\* A task stays one when a field changes to another of its values.
LEMMA TaskFields ==
  ASSUME ScheduleTypes
  PROVE  \A next \in 0..MaxTime, status \in {"active", "paused"}, consent \in Consents \cup {NoConsent} :
           /\ [task EXCEPT !.next = next] \in Tasks
           /\ [task EXCEPT !.status = status, !.next = next] \in Tasks
           /\ [task EXCEPT !.consent = consent, !.next = next] \in Tasks
  BY DEF ScheduleTypes, Tasks

LEMMA OwnerKeeps == ASSUME Schedules!ConstantsOK, SchedulesTypes, Orderly, Owner PROVE SchedulesTypes' /\ Orderly'
<1>1. ScheduleTypes'
  <2>1. MaxTime \in Nat /\ MaxEdits \in Nat
    BY DEF Schedules!ConstantsOK
  <2>2. CASE Schedules!TimePasses
    BY <2>1, <2>2 DEF Schedules!TimePasses, SchedulesTypes, ScheduleTypes
  <2>3. CASE Schedules!Pause
    <3>1. task' \in Tasks
      <4>1. 0 \in 0..MaxTime /\ "paused" \in {"active", "paused"}
        BY <2>1
      <4> QED
        BY <2>3, <4>1, TaskFields DEF Schedules!Pause, Schedules!Schedule, SchedulesTypes
    <3> QED
      BY <2>1, <2>3, <3>1 DEF Schedules!Pause, Schedules!Schedule, SchedulesTypes, ScheduleTypes
  <2>4. CASE Schedules!Resume
    <3>1. Schedules!NextSlot(now) \in 0..MaxTime
      BY <2>1 DEF Schedules!NextSlot, SchedulesTypes, ScheduleTypes
    <3>2. task' \in Tasks
      BY <2>4, <3>1, TaskFields DEF Schedules!Resume, Schedules!Schedule, SchedulesTypes
    <3> QED
      BY <2>1, <2>4, <3>2 DEF Schedules!Resume, Schedules!Schedule, SchedulesTypes, ScheduleTypes
  <2>5. CASE \E consent \in Consents \cup {NoConsent} : Schedules!Edit(consent)
    <3>1. Schedules!NextSlot(now) \in 0..MaxTime /\ 0 \in 0..MaxTime
      BY <2>1 DEF Schedules!NextSlot, SchedulesTypes, ScheduleTypes
    <3>2. task' \in Tasks
      <4>1. PICK consent \in Consents \cup {NoConsent} : Schedules!Edit(consent)
        BY <2>5
      <4>2. \E next \in 0..MaxTime : task' = [task EXCEPT !.consent = consent, !.next = next]
        BY <3>1, <4>1 DEF Schedules!Edit, Schedules!Schedule
      <4> QED
        BY <4>2, TaskFields DEF SchedulesTypes
    <3> QED
      BY <2>1, <2>5, <3>2 DEF Schedules!Edit, Schedules!Schedule, SchedulesTypes, ScheduleTypes
  <2> QED
    BY <2>2, <2>3, <2>4, <2>5 DEF Owner
<1>2. UNCHANGED <<run, Schedules!execVars, acked, Schedules!videoVars, approved, Schedules!workerVars>>
  BY DEF Owner, Schedules!TimePasses, Schedules!Pause, Schedules!Resume, Schedules!Edit, Schedules!Schedule
<1> QED
  BY <1>1, <1>2 DEF SchedulesTypes, ScheduleTypes, RunTypes, ProductionTypes, PlaceTypes, Orderly, Alone,
    Prepared, Reported, Loose, Blank, Ongoing, Preparing, Reporting, Schedules!execVars, Schedules!videoVars,
    Schedules!workerVars

LEMMA AdmitKeepsOrder ==
  ASSUME Schedules!ConstantsOK, SchedulesTypes, Orderly,
         NEW r \in Schedules!Runs, NEW next \in 0..MaxTime, Schedules!Admitted(r, next)
  PROVE  SchedulesTypes' /\ Orderly'
<1>1. ScheduleTypes' /\ PlaceTypes'
  <2>1. task' \in Tasks
    BY TaskFields DEF Schedules!Admitted, Schedules!Set, Schedules!videoVars, Schedules!workerVars,
      SchedulesTypes
  <2> QED
    BY <2>1 DEF Schedules!Admitted, Schedules!Set, Schedules!videoVars, Schedules!workerVars, SchedulesTypes,
      ScheduleTypes, PlaceTypes
<1>2. RunTypes' /\ ProductionTypes'
  <2>1. task.consent \in Consents \cup {NoConsent}
    BY DEF Schedules!Admitted, Schedules!Set, Schedules!videoVars, Schedules!workerVars, SchedulesTypes,
      ScheduleTypes, Tasks
  <2>2. run'[r] \in {"none", "queued", "running", "awaiting_review", "completed", "failed", "cancelled"}
    BY DEF Schedules!Admitted, Schedules!Set, Schedules!videoVars, Schedules!workerVars, SchedulesTypes,
      RunTypes
  <2> QED
    BY <2>1, <2>2 DEF Schedules!Admitted, Schedules!Set, Schedules!videoVars, Schedules!workerVars,
      SchedulesTypes, RunTypes, ProductionTypes
<1>3. Alone' /\ Blank'
  BY DEF Schedules!Admitted, Schedules!Set, Schedules!videoVars, Schedules!workerVars, Orderly, Alone, Prepared,
    Reported, Loose, Blank, Ongoing, Preparing, Reporting, Schedules!Active, RunTypes, SchedulesTypes
<1>4. Prepared' /\ Reported' 
  BY DEF Schedules!Admitted, Schedules!Set, Schedules!videoVars, Schedules!workerVars, Orderly, Alone, Prepared,
    Reported, Loose, Blank, Ongoing, Preparing, Reporting, Schedules!Active, RunTypes, PlaceTypes, SchedulesTypes
<1>5. Loose'
  BY DEF Schedules!Admitted, Schedules!Set, Schedules!videoVars, Schedules!workerVars, Orderly, Alone, Prepared,
    Reported, Loose, Blank, Ongoing, Preparing, Reporting, Schedules!Active, RunTypes, SchedulesTypes
<1> QED
  BY <1>1, <1>2, <1>3, <1>4, <1>5 DEF SchedulesTypes, Orderly

LEMMA SynchronizeKeeps ==
  ASSUME SchedulesTypes, Orderly, Schedules!Synchronize
  PROVE  SchedulesTypes' /\ Orderly'
<1>1. ScheduleTypes' /\ PlaceTypes' /\ ProductionTypes' /\ RunTypes'
  BY DEF Schedules!Synchronize, Schedules!Active, Schedules!taskVars, Schedules!execVars, Schedules!videoVars,
    Schedules!workerVars, SchedulesTypes, ScheduleTypes, RunTypes, ProductionTypes, PlaceTypes, Schedules!Ends
<1>2. \A r \in Schedules!Runs : Ongoing(r)' => Ongoing(r)
  BY DEF Schedules!Synchronize, Schedules!Active, Schedules!taskVars, Schedules!execVars, Schedules!videoVars,
    Schedules!workerVars, SchedulesTypes, RunTypes, Ongoing, Schedules!Ends
<1>3. \A r \in Schedules!Runs : ~Ongoing(r) \/ ~linked[r] => run'[r] = run[r]
  BY DEF Schedules!Synchronize, Schedules!Active, Schedules!taskVars, Schedules!execVars, Schedules!videoVars,
    Schedules!workerVars, SchedulesTypes, RunTypes, Ongoing
<1>4. Alone' /\ Blank'
  BY <1>2 DEF Schedules!Synchronize, Schedules!Active, Schedules!taskVars, Schedules!execVars,
    Schedules!videoVars, Schedules!workerVars, Orderly, Alone, Blank
<1>5. Prepared' /\ Reported'
  BY <1>3 DEF Schedules!Synchronize, Schedules!Active, Schedules!taskVars, Schedules!execVars,
    Schedules!videoVars, Schedules!workerVars, Orderly, Alone, Prepared, Reported, Loose, Blank, Ongoing,
    Preparing, Reporting, PlaceTypes, SchedulesTypes
<1>6. Loose'
  BY <1>3 DEF Schedules!Synchronize, Schedules!Active, Schedules!taskVars, Schedules!execVars,
    Schedules!videoVars, Schedules!workerVars, Orderly, Loose, Ongoing
<1> QED
  BY <1>1, <1>4, <1>5, <1>6 DEF Schedules!Synchronize, Schedules!Active, Schedules!taskVars, Schedules!execVars,
    Schedules!videoVars, Schedules!workerVars, SchedulesTypes, Orderly

LEMMA RelinkKeeps ==
  ASSUME Schedules!ConstantsOK, SchedulesTypes, Orderly, NEW r \in Schedules!Runs, Schedules!Relink(r)
  PROVE  SchedulesTypes' /\ Orderly'
<1>1. ScheduleTypes' /\ PlaceTypes' /\ ProductionTypes' /\ RunTypes'
  BY DEF Schedules!Relink, Schedules!Preparable, Schedules!Active, Schedules!Set, Schedules!taskVars,
    Schedules!videoVars, Schedules!workerVars, SchedulesTypes, ScheduleTypes, RunTypes, ProductionTypes,
    PlaceTypes, Schedules!Ends, Schedules!ConstantsOK
<1>2. Alone' /\ Blank'
  BY DEF Schedules!Relink, Schedules!Preparable, Schedules!Active, Schedules!Set, Schedules!taskVars,
    Schedules!videoVars, Schedules!workerVars, Orderly, Alone, Blank, Ongoing, SchedulesTypes, RunTypes,
    ProductionTypes
<1>3. Prepared' /\ Reported'
  BY DEF Schedules!Relink, Schedules!Preparable, Schedules!Active, Schedules!Set, Schedules!taskVars,
    Schedules!videoVars, Schedules!workerVars, Orderly, Alone, Prepared, Reported, Loose, Blank, Ongoing,
    Preparing, Reporting, RunTypes, PlaceTypes, ProductionTypes, SchedulesTypes, Schedules!Ends
<1>4. Loose'
  BY DEF Schedules!Relink, Schedules!Preparable, Schedules!Active, Schedules!Set, Schedules!taskVars,
    Schedules!videoVars, Schedules!workerVars, Orderly, Loose, Ongoing, SchedulesTypes, RunTypes, ProductionTypes
<1> QED
  BY <1>1, <1>2, <1>3, <1>4 DEF SchedulesTypes, Orderly

LEMMA GiveUpKeeps ==
  ASSUME Schedules!ConstantsOK, SchedulesTypes, Orderly, NEW r \in Schedules!Runs, Schedules!GiveUp(r)
  PROVE  SchedulesTypes' /\ Orderly'
<1>1. ScheduleTypes' /\ PlaceTypes' /\ ProductionTypes' /\ RunTypes'
  BY DEF Schedules!GiveUp, Schedules!Preparable, Schedules!Active, Schedules!Set, Schedules!taskVars,
    Schedules!execVars, Schedules!videoVars, Schedules!workerVars, SchedulesTypes, ScheduleTypes, RunTypes,
    ProductionTypes, PlaceTypes, Schedules!Ends, Schedules!ConstantsOK
<1>2. Alone' /\ Blank'
  BY DEF Schedules!GiveUp, Schedules!Preparable, Schedules!Active, Schedules!Set, Schedules!taskVars,
    Schedules!execVars, Schedules!videoVars, Schedules!workerVars, Orderly, Alone, Blank, Ongoing, SchedulesTypes,
    RunTypes, ProductionTypes
<1>3. Prepared' /\ Reported'
  BY DEF Schedules!GiveUp, Schedules!Preparable, Schedules!Active, Schedules!Set, Schedules!taskVars,
    Schedules!execVars, Schedules!videoVars, Schedules!workerVars, Orderly, Alone, Prepared, Reported, Loose,
    Blank, Ongoing, Preparing, Reporting, RunTypes, PlaceTypes, ProductionTypes, SchedulesTypes, Schedules!Ends
<1>4. Loose'
  BY DEF Schedules!GiveUp, Schedules!Preparable, Schedules!Active, Schedules!Set, Schedules!taskVars,
    Schedules!execVars, Schedules!videoVars, Schedules!workerVars, Orderly, Loose, Ongoing, SchedulesTypes,
    RunTypes, ProductionTypes
<1> QED
  BY <1>1, <1>2, <1>3, <1>4 DEF SchedulesTypes, Orderly

LEMMA LeaseEndsKeeps ==
  ASSUME Schedules!ConstantsOK, SchedulesTypes, Orderly, NEW r \in Schedules!Runs, Schedules!LeaseEnds(r)
  PROVE  SchedulesTypes' /\ Orderly'
<1>1. ScheduleTypes' /\ PlaceTypes' /\ ProductionTypes' /\ RunTypes'
  BY DEF Schedules!LeaseEnds, Schedules!Set, Schedules!taskVars, Schedules!videoVars, Schedules!workerVars,
    SchedulesTypes, ScheduleTypes, RunTypes, ProductionTypes, PlaceTypes, Schedules!Ends, Schedules!ConstantsOK
<1>2. Alone' /\ Blank'
  BY DEF Schedules!LeaseEnds, Schedules!Set, Schedules!taskVars, Schedules!videoVars, Schedules!workerVars,
    Orderly, Alone, Blank, Ongoing, SchedulesTypes, RunTypes, ProductionTypes
<1>3. Prepared' /\ Reported'
  BY DEF Schedules!LeaseEnds, Schedules!Set, Schedules!taskVars, Schedules!videoVars, Schedules!workerVars,
    Orderly, Alone, Prepared, Reported, Loose, Blank, Ongoing, Preparing, Reporting, RunTypes, PlaceTypes,
    ProductionTypes, SchedulesTypes, Schedules!Ends
<1>4. Loose'
  BY DEF Schedules!LeaseEnds, Schedules!Set, Schedules!taskVars, Schedules!videoVars, Schedules!workerVars,
    Orderly, Loose, Ongoing, SchedulesTypes, RunTypes, ProductionTypes
<1> QED
  BY <1>1, <1>2, <1>3, <1>4 DEF SchedulesTypes, Orderly

LEMMA VideoEndsKeeps ==
  ASSUME Schedules!ConstantsOK, SchedulesTypes, Orderly, NEW r \in Schedules!Runs, Schedules!VideoEnds(r)
  PROVE  SchedulesTypes' /\ Orderly'
<1>1. ScheduleTypes' /\ PlaceTypes' /\ ProductionTypes' /\ RunTypes'
  BY DEF Schedules!VideoEnds, Schedules!Set, Schedules!taskVars, Schedules!execVars, Schedules!workerVars,
    SchedulesTypes, ScheduleTypes, RunTypes, ProductionTypes, PlaceTypes, Schedules!Ends, Schedules!ConstantsOK
<1>2. Alone' /\ Blank'
  <2>1. Alone'
    BY DEF Schedules!VideoEnds, Schedules!Set, Schedules!taskVars, Schedules!execVars, Schedules!workerVars,
      Orderly, Alone, Ongoing
  <2>2. \A s \in Schedules!Runs : video'[s] = "none" => video[s] = "none" /\ bill'[s] = bill[s]
    BY DEF Schedules!VideoEnds, Schedules!Set, Schedules!taskVars, Schedules!execVars, Schedules!workerVars,
      SchedulesTypes, ProductionTypes, Schedules!Ends
  <2> QED
    BY <2>1, <2>2 DEF Schedules!VideoEnds, Schedules!Set, Schedules!taskVars, Schedules!execVars,
      Schedules!workerVars, Orderly, Blank
<1>3. Prepared' /\ Reported'
  BY DEF Schedules!VideoEnds, Schedules!Set, Schedules!taskVars, Schedules!execVars, Schedules!workerVars,
    Orderly, Alone, Prepared, Reported, Loose, Blank, Ongoing, Preparing, Reporting, RunTypes, PlaceTypes,
    ProductionTypes, SchedulesTypes, Schedules!Ends
<1>4. Loose'
  BY DEF Schedules!VideoEnds, Schedules!Set, Schedules!taskVars, Schedules!execVars, Schedules!workerVars,
    Orderly, Loose, Ongoing, SchedulesTypes, RunTypes, ProductionTypes
<1> QED
  BY <1>1, <1>2, <1>3, <1>4 DEF SchedulesTypes, Orderly

LEMMA PrepareKeeps ==
  ASSUME Schedules!ConstantsOK, SchedulesTypes, Orderly,
         NEW w \in Workers, NEW r \in Schedules!Runs, Schedules!Prepare(w, r)
  PROVE  SchedulesTypes' /\ Orderly'
<1>0. Schedules!Nowhere \in Schedules!Runs
  BY DEF Schedules!Prepare, Schedules!Preparable, Schedules!Active, Schedules!Set, Schedules!taskVars,
    Schedules!videoVars, Schedules!Go, Schedules!Nowhere, Schedules!Runs, Schedules!Slots, Schedules!ConstantsOK
<1>1. ScheduleTypes' /\ PlaceTypes' /\ ProductionTypes' /\ RunTypes'
  BY <1>0 DEF Schedules!Prepare, Schedules!Preparable, Schedules!Active, Schedules!Set, Schedules!taskVars,
    Schedules!videoVars, Schedules!Go, SchedulesTypes, ScheduleTypes, RunTypes, ProductionTypes, PlaceTypes,
    Schedules!Ends, Schedules!ConstantsOK
<1>2. Alone' /\ Blank'
  BY DEF Schedules!Prepare, Schedules!Preparable, Schedules!Active, Schedules!Set, Schedules!taskVars,
    Schedules!videoVars, Schedules!Go, Orderly, Alone, Blank, Ongoing, SchedulesTypes, RunTypes, ProductionTypes,
    PlaceTypes, Prepared, Preparing, Reported, Reporting
<1>3. Prepared'
  BY <1>0 DEF Schedules!Prepare, Schedules!Preparable, Schedules!Active, Schedules!Set, Schedules!taskVars,
    Schedules!videoVars, Schedules!Go, Orderly, Prepared, Preparing, Reported, Reporting, Ongoing, RunTypes,
    PlaceTypes, ProductionTypes, SchedulesTypes
<1>4. Reported'
  BY <1>0 DEF Schedules!Prepare, Schedules!Preparable, Schedules!Active, Schedules!Set, Schedules!taskVars,
    Schedules!videoVars, Schedules!Go, Orderly, Prepared, Preparing, Reported, Reporting, Ongoing, RunTypes,
    PlaceTypes, SchedulesTypes
<1>5. Loose'
  BY DEF Schedules!Prepare, Schedules!Preparable, Schedules!Active, Schedules!Set, Schedules!taskVars,
    Schedules!videoVars, Schedules!Go, Orderly, Loose, Prepared, Preparing, Reported, Reporting, Ongoing,
    SchedulesTypes, RunTypes, ProductionTypes, PlaceTypes
<1> QED
  BY <1>1, <1>2, <1>3, <1>4, <1>5 DEF SchedulesTypes, Orderly

LEMMA ReportKeeps ==
  ASSUME Schedules!ConstantsOK, SchedulesTypes, Orderly,
         NEW w \in Workers, NEW r \in Schedules!Runs, Schedules!Report(w, r)
  PROVE  SchedulesTypes' /\ Orderly'
<1>0. Schedules!Nowhere \in Schedules!Runs
  BY DEF Schedules!Report, Schedules!Reportable, Schedules!Acknowledge, Schedules!Set, Schedules!taskVars,
    Schedules!execVars, Schedules!videoVars, Schedules!workerVars, Schedules!Go, Schedules!Nowhere,
    Schedules!Runs, Schedules!Slots, Schedules!ConstantsOK
<1>1. ScheduleTypes' /\ PlaceTypes' /\ ProductionTypes' /\ RunTypes'
  <2>1. ScheduleTypes'
    BY DEF Schedules!Report, Schedules!Reportable, Schedules!Acknowledge, Schedules!Set, Schedules!taskVars,
      Schedules!execVars, Schedules!videoVars, Schedules!workerVars, Schedules!Go, SchedulesTypes, ScheduleTypes,
      Schedules!ConstantsOK
  <2>2. PlaceTypes'
    BY <1>0 DEF Schedules!Report, Schedules!Reportable, Schedules!Acknowledge, Schedules!Set,
      Schedules!taskVars, Schedules!execVars, Schedules!videoVars, Schedules!workerVars, Schedules!Go,
      SchedulesTypes, PlaceTypes, RunTypes
  <2>3. ProductionTypes'
    BY DEF Schedules!Report, Schedules!Reportable, Schedules!Acknowledge, Schedules!Set, Schedules!taskVars,
      Schedules!execVars, Schedules!videoVars, Schedules!workerVars, Schedules!Go, SchedulesTypes,
      ProductionTypes, PlaceTypes
  <2>4. RunTypes'
    BY DEF Schedules!Report, Schedules!Reportable, Schedules!Acknowledge, Schedules!Set, Schedules!taskVars,
      Schedules!execVars, Schedules!videoVars, Schedules!workerVars, Schedules!Go, SchedulesTypes, RunTypes,
      PlaceTypes
  <2> QED
    BY <2>1, <2>2, <2>3, <2>4 DEF Schedules!Report, Schedules!Reportable, Schedules!Acknowledge, Schedules!Set,
      Schedules!taskVars, Schedules!execVars, Schedules!videoVars, Schedules!workerVars, Schedules!Go
<1>2. Alone' /\ Blank'
  BY DEF Schedules!Report, Schedules!Reportable, Schedules!Acknowledge, Schedules!Set, Schedules!taskVars,
    Schedules!execVars, Schedules!videoVars, Schedules!workerVars, Schedules!Go, Orderly, Alone, Blank, Ongoing,
    SchedulesTypes, RunTypes, ProductionTypes, PlaceTypes, Prepared, Preparing, Reported, Reporting
<1>3. Prepared'
  BY <1>0 DEF Schedules!Report, Schedules!Reportable, Schedules!Acknowledge, Schedules!Set, Schedules!taskVars,
    Schedules!execVars, Schedules!videoVars, Schedules!workerVars, Schedules!Go, Orderly, Prepared, Preparing,
    Reported, Reporting, Ongoing, RunTypes, PlaceTypes, ProductionTypes, SchedulesTypes
<1>4. Reported'
  BY <1>0 DEF Schedules!Report, Schedules!Reportable, Schedules!Acknowledge, Schedules!Set, Schedules!taskVars,
    Schedules!execVars, Schedules!videoVars, Schedules!workerVars, Schedules!Go, Orderly, Prepared, Preparing,
    Reported, Reporting, Ongoing, RunTypes, PlaceTypes, SchedulesTypes
<1>5. Loose'
  BY DEF Schedules!Report, Schedules!Reportable, Schedules!Acknowledge, Schedules!Set, Schedules!taskVars,
    Schedules!execVars, Schedules!videoVars, Schedules!workerVars, Schedules!Go, Orderly, Loose, Prepared,
    Preparing, Reported, Reporting, Ongoing, SchedulesTypes, RunTypes, ProductionTypes, PlaceTypes
<1> QED
  BY <1>1, <1>2, <1>3, <1>4, <1>5 DEF SchedulesTypes, Orderly

LEMMA CreateKeeps ==
  ASSUME Schedules!ConstantsOK, SchedulesTypes, Orderly, NEW w \in Workers, Schedules!Create(w)
  PROVE  SchedulesTypes' /\ Orderly'
<1>0. Schedules!Nowhere \in Schedules!Runs
  BY DEF Schedules!Create, Schedules!Set, Schedules!taskVars, Schedules!Go, Schedules!Rest, Schedules!Nowhere,
    Schedules!Runs, Schedules!Slots, Schedules!ConstantsOK
<1>1. ScheduleTypes' /\ PlaceTypes' /\ ProductionTypes' /\ RunTypes'
  <2>1. ScheduleTypes'
    BY DEF Schedules!Create, Schedules!Set, Schedules!taskVars, Schedules!Go, Schedules!Rest, SchedulesTypes,
      ScheduleTypes, Schedules!ConstantsOK
  <2>2. PlaceTypes'
    BY <1>0 DEF Schedules!Create, Schedules!Set, Schedules!taskVars, Schedules!Go, Schedules!Rest,
      SchedulesTypes, PlaceTypes, RunTypes
  <2>3. ProductionTypes'
    BY DEF Schedules!Create, Schedules!Set, Schedules!taskVars, Schedules!Go, Schedules!Rest, SchedulesTypes,
      ProductionTypes, PlaceTypes
  <2>4. RunTypes'
    BY DEF Schedules!Create, Schedules!Set, Schedules!taskVars, Schedules!Go, Schedules!Rest, SchedulesTypes,
      RunTypes, PlaceTypes
  <2> QED
    BY <2>1, <2>2, <2>3, <2>4 DEF Schedules!Create, Schedules!Set, Schedules!taskVars, Schedules!Go,
      Schedules!Rest
<1>2. Alone' /\ Blank'
  BY DEF Schedules!Create, Schedules!Set, Schedules!taskVars, Schedules!Go, Schedules!Rest, Orderly, Alone,
    Blank, Ongoing, SchedulesTypes, RunTypes, ProductionTypes, PlaceTypes, Prepared, Preparing, Reported,
    Reporting
<1>3. Prepared'
  BY <1>0 DEF Schedules!Create, Schedules!Set, Schedules!taskVars, Schedules!Go, Schedules!Rest, Orderly,
    Prepared, Preparing, Reported, Reporting, Ongoing, RunTypes, PlaceTypes, ProductionTypes, SchedulesTypes
<1>4. Reported'
  BY <1>0 DEF Schedules!Create, Schedules!Set, Schedules!taskVars, Schedules!Go, Schedules!Rest, Orderly,
    Prepared, Preparing, Reported, Reporting, Ongoing, RunTypes, PlaceTypes, SchedulesTypes
<1>5. Loose'
  BY DEF Schedules!Create, Schedules!Set, Schedules!taskVars, Schedules!Go, Schedules!Rest, Orderly, Loose,
    Prepared, Preparing, Reported, Reporting, Ongoing, SchedulesTypes, RunTypes, ProductionTypes, PlaceTypes
<1> QED
  BY <1>1, <1>2, <1>3, <1>4, <1>5 DEF SchedulesTypes, Orderly

LEMMA RefuseKeeps ==
  ASSUME Schedules!ConstantsOK, SchedulesTypes, Orderly, NEW w \in Workers, Schedules!Refuse(w)
  PROVE  SchedulesTypes' /\ Orderly'
<1>0. Schedules!Nowhere \in Schedules!Runs
  BY DEF Schedules!Refuse, Schedules!Set, Schedules!execVars, Schedules!videoVars, Schedules!Go, Schedules!Rest,
    Schedules!Nowhere, Schedules!Runs, Schedules!Slots, Schedules!ConstantsOK
<1>1. ScheduleTypes' /\ PlaceTypes' /\ ProductionTypes' /\ RunTypes'
  <2>1. ScheduleTypes'
    <3>1. 0 \in 0..MaxTime
      BY DEF Schedules!Refuse, Schedules!Set, Schedules!execVars, Schedules!videoVars, Schedules!Go,
        Schedules!Rest, Schedules!ConstantsOK
    <3>2. task' \in Tasks
      BY <3>1, TaskFields DEF Schedules!Refuse, Schedules!Set, Schedules!execVars, Schedules!videoVars,
        Schedules!Go, Schedules!Rest, SchedulesTypes, ScheduleTypes
    <3> QED
      BY <3>2 DEF Schedules!Refuse, Schedules!Set, Schedules!execVars, Schedules!videoVars, Schedules!Go,
        Schedules!Rest, SchedulesTypes, ScheduleTypes
  <2>2. PlaceTypes'
    BY <1>0 DEF Schedules!Refuse, Schedules!Set, Schedules!execVars, Schedules!videoVars, Schedules!Go,
      Schedules!Rest, SchedulesTypes, PlaceTypes, RunTypes
  <2>3. ProductionTypes'
    BY DEF Schedules!Refuse, Schedules!Set, Schedules!execVars, Schedules!videoVars, Schedules!Go,
      Schedules!Rest, SchedulesTypes, ProductionTypes, PlaceTypes
  <2>4. RunTypes'
    BY DEF Schedules!Refuse, Schedules!Set, Schedules!execVars, Schedules!videoVars, Schedules!Go,
      Schedules!Rest, SchedulesTypes, RunTypes, PlaceTypes
  <2> QED
    BY <2>1, <2>2, <2>3, <2>4 DEF Schedules!Refuse, Schedules!Set, Schedules!execVars, Schedules!videoVars,
      Schedules!Go, Schedules!Rest
<1>2. Alone' /\ Blank'
  BY DEF Schedules!Refuse, Schedules!Set, Schedules!execVars, Schedules!videoVars, Schedules!Go, Schedules!Rest,
    Orderly, Alone, Blank, Ongoing, SchedulesTypes, RunTypes, ProductionTypes, PlaceTypes, Prepared, Preparing,
    Reported, Reporting
<1>3. Prepared'
  BY <1>0 DEF Schedules!Refuse, Schedules!Set, Schedules!execVars, Schedules!videoVars, Schedules!Go,
    Schedules!Rest, Orderly, Prepared, Preparing, Reported, Reporting, Ongoing, RunTypes, PlaceTypes,
    ProductionTypes, SchedulesTypes
<1>4. Reported'
  BY <1>0 DEF Schedules!Refuse, Schedules!Set, Schedules!execVars, Schedules!videoVars, Schedules!Go,
    Schedules!Rest, Orderly, Prepared, Preparing, Reported, Reporting, Ongoing, RunTypes, PlaceTypes,
    SchedulesTypes
<1>5. Loose'
  BY DEF Schedules!Refuse, Schedules!Set, Schedules!execVars, Schedules!videoVars, Schedules!Go, Schedules!Rest,
    Orderly, Loose, Prepared, Preparing, Reported, Reporting, Ongoing, SchedulesTypes, RunTypes, ProductionTypes,
    PlaceTypes
<1> QED
  BY <1>1, <1>2, <1>3, <1>4, <1>5 DEF SchedulesTypes, Orderly

LEMMA LinkKeeps ==
  ASSUME Schedules!ConstantsOK, SchedulesTypes, Orderly, NEW w \in Workers, Schedules!Link(w)
  PROVE  SchedulesTypes' /\ Orderly'
<1>0. Schedules!Nowhere \in Schedules!Runs
  BY DEF Schedules!Link, Schedules!Set, Schedules!taskVars, Schedules!videoVars, Schedules!Go, Schedules!Rest,
    Schedules!Nowhere, Schedules!Runs, Schedules!Slots, Schedules!ConstantsOK
<1>1. ScheduleTypes' /\ PlaceTypes' /\ ProductionTypes' /\ RunTypes'
  BY <1>0 DEF Schedules!Link, Schedules!Set, Schedules!taskVars, Schedules!videoVars, Schedules!Go,
    Schedules!Rest, SchedulesTypes, ScheduleTypes, RunTypes, ProductionTypes, PlaceTypes, Schedules!Ends,
    Schedules!ConstantsOK
<1>2. Alone' /\ Blank'
  BY DEF Schedules!Link, Schedules!Set, Schedules!taskVars, Schedules!videoVars, Schedules!Go, Schedules!Rest,
    Orderly, Alone, Blank, Ongoing, SchedulesTypes, RunTypes, ProductionTypes, PlaceTypes, Prepared, Preparing,
    Reported, Reporting
<1>3. Prepared'
  BY <1>0 DEF Schedules!Link, Schedules!Set, Schedules!taskVars, Schedules!videoVars, Schedules!Go,
    Schedules!Rest, Orderly, Prepared, Preparing, Reported, Reporting, Ongoing, RunTypes, PlaceTypes,
    ProductionTypes, SchedulesTypes
<1>4. Reported'
  BY <1>0 DEF Schedules!Link, Schedules!Set, Schedules!taskVars, Schedules!videoVars, Schedules!Go,
    Schedules!Rest, Orderly, Prepared, Preparing, Reported, Reporting, Ongoing, RunTypes, PlaceTypes,
    SchedulesTypes
<1>5. Loose'
  BY DEF Schedules!Link, Schedules!Set, Schedules!taskVars, Schedules!videoVars, Schedules!Go, Schedules!Rest,
    Orderly, Loose, Prepared, Preparing, Reported, Reporting, Ongoing, SchedulesTypes, RunTypes, ProductionTypes,
    PlaceTypes
<1> QED
  BY <1>1, <1>2, <1>3, <1>4, <1>5 DEF SchedulesTypes, Orderly

LEMMA LookKeeps ==
  ASSUME Schedules!ConstantsOK, SchedulesTypes, Orderly, NEW w \in Workers, Schedules!Look(w)
  PROVE  SchedulesTypes' /\ Orderly'
<1>0. Schedules!Nowhere \in Schedules!Runs
  BY DEF Schedules!Look, Schedules!Consented, Schedules!Set, Schedules!taskVars, Schedules!execVars,
    Schedules!videoVars, Schedules!Go, Schedules!Nowhere, Schedules!Runs, Schedules!Slots, Schedules!ConstantsOK
<1>1. ScheduleTypes' /\ PlaceTypes' /\ ProductionTypes' /\ RunTypes'
  BY <1>0 DEF Schedules!Look, Schedules!Consented, Schedules!Set, Schedules!taskVars, Schedules!execVars,
    Schedules!videoVars, Schedules!Go, SchedulesTypes, ScheduleTypes, RunTypes, ProductionTypes, PlaceTypes,
    Schedules!Ends, Schedules!ConstantsOK
<1>2. Alone' /\ Blank'
  BY DEF Schedules!Look, Schedules!Consented, Schedules!Set, Schedules!taskVars, Schedules!execVars,
    Schedules!videoVars, Schedules!Go, Orderly, Alone, Blank, Ongoing, SchedulesTypes, RunTypes, ProductionTypes,
    PlaceTypes, Prepared, Preparing, Reported, Reporting
<1>3. Prepared'
  BY <1>0 DEF Schedules!Look, Schedules!Consented, Schedules!Set, Schedules!taskVars, Schedules!execVars,
    Schedules!videoVars, Schedules!Go, Orderly, Prepared, Preparing, Reported, Reporting, Ongoing, RunTypes,
    PlaceTypes, ProductionTypes, SchedulesTypes
<1>4. Reported'
  BY <1>0 DEF Schedules!Look, Schedules!Consented, Schedules!Set, Schedules!taskVars, Schedules!execVars,
    Schedules!videoVars, Schedules!Go, Orderly, Prepared, Preparing, Reported, Reporting, Ongoing, RunTypes,
    PlaceTypes, SchedulesTypes
<1>5. Loose'
  BY DEF Schedules!Look, Schedules!Consented, Schedules!Set, Schedules!taskVars, Schedules!execVars,
    Schedules!videoVars, Schedules!Go, Orderly, Loose, Prepared, Preparing, Reported, Reporting, Ongoing,
    SchedulesTypes, RunTypes, ProductionTypes, PlaceTypes
<1> QED
  BY <1>1, <1>2, <1>3, <1>4, <1>5 DEF SchedulesTypes, Orderly

LEMMA LockKeeps ==
  ASSUME Schedules!ConstantsOK, SchedulesTypes, Orderly, NEW w \in Workers, Schedules!Lock(w)
  PROVE  SchedulesTypes' /\ Orderly'
<1>0. Schedules!Nowhere \in Schedules!Runs
  BY DEF Schedules!Lock, Schedules!Consented, Schedules!Set, Schedules!taskVars, Schedules!execVars,
    Schedules!videoVars, Schedules!Go, Schedules!Nowhere, Schedules!Runs, Schedules!Slots, Schedules!ConstantsOK
<1>1. ScheduleTypes' /\ PlaceTypes' /\ ProductionTypes' /\ RunTypes'
  BY <1>0 DEF Schedules!Lock, Schedules!Consented, Schedules!Set, Schedules!taskVars, Schedules!execVars,
    Schedules!videoVars, Schedules!Go, SchedulesTypes, ScheduleTypes, RunTypes, ProductionTypes, PlaceTypes,
    Schedules!Ends, Schedules!ConstantsOK
<1>2. Alone' /\ Blank'
  BY DEF Schedules!Lock, Schedules!Consented, Schedules!Set, Schedules!taskVars, Schedules!execVars,
    Schedules!videoVars, Schedules!Go, Orderly, Alone, Blank, Ongoing, SchedulesTypes, RunTypes, ProductionTypes,
    PlaceTypes, Prepared, Preparing, Reported, Reporting
<1>3. Prepared'
  BY <1>0 DEF Schedules!Lock, Schedules!Consented, Schedules!Set, Schedules!taskVars, Schedules!execVars,
    Schedules!videoVars, Schedules!Go, Orderly, Prepared, Preparing, Reported, Reporting, Ongoing, RunTypes,
    PlaceTypes, ProductionTypes, SchedulesTypes
<1>4. Reported'
  BY <1>0 DEF Schedules!Lock, Schedules!Consented, Schedules!Set, Schedules!taskVars, Schedules!execVars,
    Schedules!videoVars, Schedules!Go, Orderly, Prepared, Preparing, Reported, Reporting, Ongoing, RunTypes,
    PlaceTypes, SchedulesTypes
<1>5. Loose'
  BY DEF Schedules!Lock, Schedules!Consented, Schedules!Set, Schedules!taskVars, Schedules!execVars,
    Schedules!videoVars, Schedules!Go, Orderly, Loose, Prepared, Preparing, Reported, Reporting, Ongoing,
    SchedulesTypes, RunTypes, ProductionTypes, PlaceTypes
<1> QED
  BY <1>1, <1>2, <1>3, <1>4, <1>5 DEF SchedulesTypes, Orderly

LEMMA NeedsReviewKeeps ==
  ASSUME Schedules!ConstantsOK, SchedulesTypes, Orderly, NEW w \in Workers, Schedules!NeedsReview(w)
  PROVE  SchedulesTypes' /\ Orderly'
<1>0. Schedules!Nowhere \in Schedules!Runs
  BY DEF Schedules!NeedsReview, Schedules!Acknowledge, Schedules!Set, Schedules!taskVars, Schedules!execVars,
    Schedules!videoVars, Schedules!Go, Schedules!Rest, Schedules!Nowhere, Schedules!Runs, Schedules!Slots,
    Schedules!ConstantsOK
<1>1. ScheduleTypes' /\ PlaceTypes' /\ ProductionTypes' /\ RunTypes'
  BY <1>0 DEF Schedules!NeedsReview, Schedules!Acknowledge, Schedules!Set, Schedules!taskVars,
    Schedules!execVars, Schedules!videoVars, Schedules!Go, Schedules!Rest, SchedulesTypes, ScheduleTypes,
    RunTypes, ProductionTypes, PlaceTypes, Schedules!Ends, Schedules!ConstantsOK
<1>2. Alone' /\ Blank'
  BY DEF Schedules!NeedsReview, Schedules!Acknowledge, Schedules!Set, Schedules!taskVars, Schedules!execVars,
    Schedules!videoVars, Schedules!Go, Schedules!Rest, Orderly, Alone, Blank, Ongoing, SchedulesTypes, RunTypes,
    ProductionTypes, PlaceTypes, Prepared, Preparing, Reported, Reporting
<1>3. Prepared'
  BY <1>0 DEF Schedules!NeedsReview, Schedules!Acknowledge, Schedules!Set, Schedules!taskVars,
    Schedules!execVars, Schedules!videoVars, Schedules!Go, Schedules!Rest, Orderly, Prepared, Preparing, Reported,
    Reporting, Ongoing, RunTypes, PlaceTypes, ProductionTypes, SchedulesTypes
<1>4. Reported'
  BY <1>0 DEF Schedules!NeedsReview, Schedules!Acknowledge, Schedules!Set, Schedules!taskVars,
    Schedules!execVars, Schedules!videoVars, Schedules!Go, Schedules!Rest, Orderly, Prepared, Preparing, Reported,
    Reporting, Ongoing, RunTypes, PlaceTypes, SchedulesTypes
<1>5. Loose'
  BY DEF Schedules!NeedsReview, Schedules!Acknowledge, Schedules!Set, Schedules!taskVars, Schedules!execVars,
    Schedules!videoVars, Schedules!Go, Schedules!Rest, Orderly, Loose, Prepared, Preparing, Reported, Reporting,
    Ongoing, SchedulesTypes, RunTypes, ProductionTypes, PlaceTypes
<1> QED
  BY <1>1, <1>2, <1>3, <1>4, <1>5 DEF SchedulesTypes, Orderly

LEMMA ConcludeKeeps ==
  ASSUME Schedules!ConstantsOK, SchedulesTypes, Orderly, NEW w \in Workers, Schedules!Conclude(w)
  PROVE  SchedulesTypes' /\ Orderly'
<1>0. Schedules!Nowhere \in Schedules!Runs
  BY DEF Schedules!Conclude, Schedules!Acknowledge, Schedules!Set, Schedules!taskVars, Schedules!execVars,
    Schedules!videoVars, Schedules!Go, Schedules!Rest, Schedules!Nowhere, Schedules!Runs, Schedules!Slots,
    Schedules!ConstantsOK
<1>1. ScheduleTypes' /\ PlaceTypes' /\ ProductionTypes' /\ RunTypes'
  BY <1>0 DEF Schedules!Conclude, Schedules!Acknowledge, Schedules!Set, Schedules!taskVars, Schedules!execVars,
    Schedules!videoVars, Schedules!Go, Schedules!Rest, SchedulesTypes, ScheduleTypes, RunTypes, ProductionTypes,
    PlaceTypes, Schedules!Ends, Schedules!ConstantsOK
<1>2. Alone' /\ Blank'
  BY DEF Schedules!Conclude, Schedules!Acknowledge, Schedules!Set, Schedules!taskVars, Schedules!execVars,
    Schedules!videoVars, Schedules!Go, Schedules!Rest, Orderly, Alone, Blank, Ongoing, SchedulesTypes, RunTypes,
    ProductionTypes, PlaceTypes, Prepared, Preparing, Reported, Reporting
<1>3. Prepared'
  BY <1>0 DEF Schedules!Conclude, Schedules!Acknowledge, Schedules!Set, Schedules!taskVars, Schedules!execVars,
    Schedules!videoVars, Schedules!Go, Schedules!Rest, Orderly, Prepared, Preparing, Reported, Reporting, Ongoing,
    RunTypes, PlaceTypes, ProductionTypes, SchedulesTypes
<1>4. Reported'
  BY <1>0 DEF Schedules!Conclude, Schedules!Acknowledge, Schedules!Set, Schedules!taskVars, Schedules!execVars,
    Schedules!videoVars, Schedules!Go, Schedules!Rest, Orderly, Prepared, Preparing, Reported, Reporting, Ongoing,
    RunTypes, PlaceTypes, SchedulesTypes
<1>5. Loose'
  BY DEF Schedules!Conclude, Schedules!Acknowledge, Schedules!Set, Schedules!taskVars, Schedules!execVars,
    Schedules!videoVars, Schedules!Go, Schedules!Rest, Orderly, Loose, Prepared, Preparing, Reported, Reporting,
    Ongoing, SchedulesTypes, RunTypes, ProductionTypes, PlaceTypes
<1> QED
  BY <1>1, <1>2, <1>3, <1>4, <1>5 DEF SchedulesTypes, Orderly

LEMMA DeferKeeps ==
  ASSUME Schedules!ConstantsOK, SchedulesTypes, Orderly, NEW w \in Workers, Schedules!Defer(w)
  PROVE  SchedulesTypes' /\ Orderly'
<1>0. Schedules!Nowhere \in Schedules!Runs
  BY DEF Schedules!Defer, Schedules!Set, Schedules!taskVars, Schedules!execVars, Schedules!videoVars,
    Schedules!Go, Schedules!Rest, Schedules!Breaks, Schedules!Nowhere, Schedules!Runs, Schedules!Slots,
    Schedules!ConstantsOK
<1>1. ScheduleTypes' /\ PlaceTypes' /\ ProductionTypes' /\ RunTypes'
  BY <1>0 DEF Schedules!Defer, Schedules!Set, Schedules!taskVars, Schedules!execVars, Schedules!videoVars,
    Schedules!Go, Schedules!Rest, Schedules!Breaks, SchedulesTypes, ScheduleTypes, RunTypes, ProductionTypes,
    PlaceTypes, Schedules!Ends, Schedules!ConstantsOK
<1>2. Alone' /\ Blank'
  BY DEF Schedules!Defer, Schedules!Set, Schedules!taskVars, Schedules!execVars, Schedules!videoVars,
    Schedules!Go, Schedules!Rest, Schedules!Breaks, Orderly, Alone, Blank, Ongoing, SchedulesTypes, RunTypes,
    ProductionTypes, PlaceTypes, Prepared, Preparing, Reported, Reporting
<1>3. Prepared'
  BY <1>0 DEF Schedules!Defer, Schedules!Set, Schedules!taskVars, Schedules!execVars, Schedules!videoVars,
    Schedules!Go, Schedules!Rest, Schedules!Breaks, Orderly, Prepared, Preparing, Reported, Reporting, Ongoing,
    RunTypes, PlaceTypes, ProductionTypes, SchedulesTypes
<1>4. Reported'
  BY <1>0 DEF Schedules!Defer, Schedules!Set, Schedules!taskVars, Schedules!execVars, Schedules!videoVars,
    Schedules!Go, Schedules!Rest, Schedules!Breaks, Orderly, Prepared, Preparing, Reported, Reporting, Ongoing,
    RunTypes, PlaceTypes, SchedulesTypes
<1>5. Loose'
  BY DEF Schedules!Defer, Schedules!Set, Schedules!taskVars, Schedules!execVars, Schedules!videoVars,
    Schedules!Go, Schedules!Rest, Schedules!Breaks, Orderly, Loose, Prepared, Preparing, Reported, Reporting,
    Ongoing, SchedulesTypes, RunTypes, ProductionTypes, PlaceTypes
<1> QED
  BY <1>1, <1>2, <1>3, <1>4, <1>5 DEF SchedulesTypes, Orderly

LEMMA CrashKeeps ==
  ASSUME Schedules!ConstantsOK, SchedulesTypes, Orderly, NEW w \in Workers, Schedules!Crash(w)
  PROVE  SchedulesTypes' /\ Orderly'
<1>0. Schedules!Nowhere \in Schedules!Runs
  BY DEF Schedules!Crash, Schedules!Set, Schedules!taskVars, Schedules!execVars, Schedules!videoVars,
    Schedules!Go, Schedules!Rest, Schedules!Breaks, Schedules!Nowhere, Schedules!Runs, Schedules!Slots,
    Schedules!ConstantsOK
<1>1. ScheduleTypes' /\ PlaceTypes' /\ ProductionTypes' /\ RunTypes'
  BY <1>0 DEF Schedules!Crash, Schedules!Set, Schedules!taskVars, Schedules!execVars, Schedules!videoVars,
    Schedules!Go, Schedules!Rest, Schedules!Breaks, SchedulesTypes, ScheduleTypes, RunTypes, ProductionTypes,
    PlaceTypes, Schedules!Ends, Schedules!ConstantsOK
<1>2. Alone' /\ Blank'
  BY DEF Schedules!Crash, Schedules!Set, Schedules!taskVars, Schedules!execVars, Schedules!videoVars,
    Schedules!Go, Schedules!Rest, Schedules!Breaks, Orderly, Alone, Blank, Ongoing, SchedulesTypes, RunTypes,
    ProductionTypes, PlaceTypes, Prepared, Preparing, Reported, Reporting
<1>3. Prepared'
  BY <1>0 DEF Schedules!Crash, Schedules!Set, Schedules!taskVars, Schedules!execVars, Schedules!videoVars,
    Schedules!Go, Schedules!Rest, Schedules!Breaks, Orderly, Prepared, Preparing, Reported, Reporting, Ongoing,
    RunTypes, PlaceTypes, ProductionTypes, SchedulesTypes
<1>4. Reported'
  BY <1>0 DEF Schedules!Crash, Schedules!Set, Schedules!taskVars, Schedules!execVars, Schedules!videoVars,
    Schedules!Go, Schedules!Rest, Schedules!Breaks, Orderly, Prepared, Preparing, Reported, Reporting, Ongoing,
    RunTypes, PlaceTypes, SchedulesTypes
<1>5. Loose'
  BY DEF Schedules!Crash, Schedules!Set, Schedules!taskVars, Schedules!execVars, Schedules!videoVars,
    Schedules!Go, Schedules!Rest, Schedules!Breaks, Orderly, Loose, Prepared, Preparing, Reported, Reporting,
    Ongoing, SchedulesTypes, RunTypes, ProductionTypes, PlaceTypes
<1> QED
  BY <1>1, <1>2, <1>3, <1>4, <1>5 DEF SchedulesTypes, Orderly

LEMMA ApproveKeeps ==
  ASSUME Schedules!ConstantsOK, SchedulesTypes, Orderly,
         NEW w \in Workers, NEW v \in Videos, Schedules!Approve(w, v)
  PROVE  SchedulesTypes' /\ Orderly'
<1>0. Schedules!Nowhere \in Schedules!Runs
  BY DEF Schedules!Approve, Schedules!Consented, Schedules!Set, Schedules!taskVars, Schedules!execVars,
    Schedules!videoVars, Schedules!Go, Schedules!Nowhere, Schedules!Runs, Schedules!Slots, Schedules!ConstantsOK
<1>1. ScheduleTypes' /\ PlaceTypes' /\ ProductionTypes' /\ RunTypes'
  BY <1>0 DEF Schedules!Approve, Schedules!Consented, Schedules!Set, Schedules!taskVars, Schedules!execVars,
    Schedules!videoVars, Schedules!Go, SchedulesTypes, ScheduleTypes, RunTypes, ProductionTypes, PlaceTypes,
    Schedules!Ends, Schedules!ConstantsOK
<1>2. Alone' /\ Blank'
  BY DEF Schedules!Approve, Schedules!Consented, Schedules!Set, Schedules!taskVars, Schedules!execVars,
    Schedules!videoVars, Schedules!Go, Orderly, Alone, Blank, Ongoing, SchedulesTypes, RunTypes, ProductionTypes,
    PlaceTypes, Prepared, Preparing, Reported, Reporting
<1>3. Prepared'
  BY <1>0 DEF Schedules!Approve, Schedules!Consented, Schedules!Set, Schedules!taskVars, Schedules!execVars,
    Schedules!videoVars, Schedules!Go, Orderly, Prepared, Preparing, Reported, Reporting, Ongoing, RunTypes,
    PlaceTypes, ProductionTypes, SchedulesTypes
<1>4. Reported'
  BY <1>0 DEF Schedules!Approve, Schedules!Consented, Schedules!Set, Schedules!taskVars, Schedules!execVars,
    Schedules!videoVars, Schedules!Go, Orderly, Prepared, Preparing, Reported, Reporting, Ongoing, RunTypes,
    PlaceTypes, SchedulesTypes
<1>5. Loose'
  BY DEF Schedules!Approve, Schedules!Consented, Schedules!Set, Schedules!taskVars, Schedules!execVars,
    Schedules!videoVars, Schedules!Go, Orderly, Loose, Prepared, Preparing, Reported, Reporting, Ongoing,
    SchedulesTypes, RunTypes, ProductionTypes, PlaceTypes
<1> QED
  BY <1>1, <1>2, <1>3, <1>4, <1>5 DEF SchedulesTypes, Orderly

LEMMA NextOrderly ==
  Schedules!ConstantsOK /\ SchedulesTypes /\ Orderly /\ [Schedules!Next]_(Schedules!vars)
  => SchedulesTypes' /\ Orderly'
<1> SUFFICES ASSUME Schedules!ConstantsOK, SchedulesTypes, Orderly, [Schedules!Next]_(Schedules!vars)
             PROVE  SchedulesTypes' /\ Orderly'
  OBVIOUS
<1>1. CASE UNCHANGED Schedules!vars
  BY <1>1 DEF Schedules!vars, SchedulesTypes, ScheduleTypes, RunTypes, ProductionTypes, PlaceTypes, Orderly,
    Alone, Prepared, Reported, Loose, Blank, Ongoing, Preparing, Reporting
<1>2. CASE Schedules!AdmitDue
  <2>1. /\ now \in 0..MaxTime /\ MaxTime \in Nat
    BY DEF SchedulesTypes, ScheduleTypes, Schedules!ConstantsOK
  <2>2. task.next \in Schedules!Runs /\ Schedules!NextSlot(now) \in 0..MaxTime
    BY <1>2, <2>1 DEF Schedules!AdmitDue, Schedules!Runs, Schedules!Slots, Schedules!NextSlot
  <2>3. \E r \in Schedules!Runs, next \in 0..MaxTime : Schedules!Admitted(r, next)
    BY <1>2, <2>2 DEF Schedules!AdmitDue, Schedules!Admitted
  <2> QED
    BY <2>3, AdmitKeepsOrder
<1>3. CASE \E k \in Keys : Schedules!RunNow(k)
  <2>1. task.next \in 0..MaxTime
    BY DEF SchedulesTypes, ScheduleTypes, Tasks
  <2>2. \E r \in Schedules!Runs, next \in 0..MaxTime : Schedules!Admitted(r, next)
    BY <1>3, <2>1 DEF Schedules!RunNow, Schedules!Admitted, Schedules!Runs
  <2> QED
    BY <2>2, AdmitKeepsOrder
<1>4. CASE \E r \in Schedules!Runs : Passes(r)
  BY <1>4, RelinkKeeps, GiveUpKeeps, LeaseEndsKeeps, VideoEndsKeeps DEF Passes
<1>5. CASE \E w \in Workers, r \in Schedules!Runs : Starts(w, r)
  BY <1>5, PrepareKeeps, ReportKeeps DEF Starts
<1>6. CASE \E w \in Workers : Moves(w)
  BY <1>6, CreateKeeps, RefuseKeeps, LinkKeeps, LookKeeps, LockKeeps, NeedsReviewKeeps, ConcludeKeeps, ApproveKeeps,
    DeferKeeps, CrashKeeps DEF Moves
<1> QED
  BY <1>1, <1>2, <1>3, <1>4, <1>5, <1>6, SchedulesNextCases, OwnerKeeps, SynchronizeKeeps

-----------------------------------------------------------------------------
(* What the productions count for in the month *)

Costs == [r \in Schedules!Runs |-> Schedules!Counted(r)]
NewCosts == [r \in Schedules!Runs |-> IF video'[r] = "underway" THEN PerRun ELSE bill'[r]]
LinkedCosts == [r \in Schedules!Runs |-> IF linked[r] THEN Schedules!Counted(r) ELSE 0]

\* What the occurrences of the month cost, counting what those under way may cost at most. When
\* a batch makes the videos, the batch keeps the budget.
MonthKept == ~Schedules!Batched => Total(Costs) <= Month

\* Both sums of the module are sums over functions, about which TotalFacts is.
LEMMA MonthSums ==
  /\ Schedules!WithinMonth <=> MonthKept
  /\ Schedules!Usage = Total(LinkedCosts)
  BY DEF Schedules!WithinMonth, Schedules!Usage, MonthKept, Costs, LinkedCosts, Total, FoldFunction,
    FoldFunctionOnSet, MapThenFoldSet, Schedules!FoldFunction, Schedules!FoldFunctionOnSet,
    Schedules!MapThenFoldSet

LEMMA NewMonthSum == MonthKept' <=> (~Schedules!Batched' => Total(NewCosts) <= Month)
  BY DEF MonthKept, Costs, NewCosts, Schedules!Counted, Total, FoldFunction, FoldFunctionOnSet, MapThenFoldSet

LEMMA FiniteRuns == ASSUME Schedules!ConstantsOK PROVE IsFiniteSet(Schedules!Runs)
<1>1. MaxTime \in Nat
  BY DEF Schedules!ConstantsOK
<1>2. IsFiniteSet(Keys)
  BY DEF Schedules!ConstantsOK, Schedules!IsFiniteSet, IsFiniteSet
<1>3. IsFiniteSet(1..MaxTime)
  BY <1>1, FS_Interval
<1> QED
  BY <1>2, <1>3, FS_Union DEF Schedules!Runs, Schedules!Slots

LEMMA CostsAreNat ==
  ASSUME Schedules!ConstantsOK, ProductionTypes
  PROVE  Costs \in [Schedules!Runs -> Nat] /\ LinkedCosts \in [Schedules!Runs -> Nat]
<1>1. PerRun \in Nat /\ \A r \in Schedules!Runs : bill[r] \in Nat /\ bill[r] <= PerRun
  BY DEF Schedules!ConstantsOK, ProductionTypes
<1> QED
  BY <1>1 DEF Costs, LinkedCosts, Schedules!Counted

LEMMA NewCostsAreNat ==
  ASSUME Schedules!ConstantsOK, ProductionTypes'
  PROVE  NewCosts \in [Schedules!Runs -> Nat]
<1>1. PerRun \in Nat /\ \A r \in Schedules!Runs : bill'[r] \in Nat
  BY DEF Schedules!ConstantsOK, ProductionTypes
<1> QED
  BY <1>1 DEF NewCosts

\* The usage that is looked at is all there is: what is not linked is the run in
\* hand, and it has no production yet.
LEMMA CreateCosts ==
  ASSUME Schedules!ConstantsOK, SchedulesTypes, Orderly, SchedulesTypes', MonthKept,
         NEW w \in Workers, Schedules!Create(w)
  PROVE  MonthKept'
<1> DEFINE a == at[w]
<1>1. /\ a \in Schedules!Runs /\ Ongoing(a) /\ ~linked[a] /\ video[a] = "none"
      /\ outputs' = outputs /\ bill' = bill /\ video' = [video EXCEPT ![a] = "underway"]
  BY DEF Schedules!Create, Orderly, Prepared, Preparing, SchedulesTypes, PlaceTypes, Schedules!taskVars
<1> SUFFICES ASSUME ~Schedules!Batched PROVE Total(NewCosts) <= Month
  BY <1>1, NewMonthSum DEF Schedules!Batched
<1>2. Total(LinkedCosts) + PerRun <= Month
  BY MonthSums DEF Schedules!Create
<1>3. ASSUME NEW r \in Schedules!Runs, r # a PROVE LinkedCosts[r] = NewCosts[r]
  <2>1. video'[r] = video[r]
    BY <1>1, <1>3
  <2>2. CASE linked[r]
    BY <1>1, <2>1, <2>2 DEF LinkedCosts, NewCosts, Schedules!Counted
  <2>3. CASE ~linked[r]
    <3>1. ~Ongoing(r)
      BY <1>1, <1>3 DEF Orderly, Alone
    <3>2. video[r] = "none" /\ bill[r] = 0
      BY <2>3, <3>1 DEF Orderly, Loose, Blank
    <3> QED
      BY <1>1, <2>1, <2>3, <3>2 DEF LinkedCosts, NewCosts
  <2> QED
    BY <2>2, <2>3
<1>4. LinkedCosts[a] = 0 /\ NewCosts[a] = PerRun
  BY <1>1 DEF LinkedCosts, NewCosts, SchedulesTypes, ProductionTypes
<1>5. /\ LinkedCosts \in [Schedules!Runs -> Nat] /\ NewCosts \in [Schedules!Runs -> Nat]
      /\ IsFiniteSet(Schedules!Runs)
  BY CostsAreNat, NewCostsAreNat, FiniteRuns DEF SchedulesTypes
<1>6. Total(NewCosts) + LinkedCosts[a] = Total(LinkedCosts) + NewCosts[a]
  BY <1>1, <1>3, <1>5, TotalFacts
<1>7. Total(NewCosts) \in Nat /\ Total(LinkedCosts) \in Nat /\ PerRun \in Nat /\ Month \in Nat
  BY <1>5, TotalFacts DEF Schedules!ConstantsOK
<1> QED
  BY <1>2, <1>4, <1>6, <1>7

\* A production ends with no more units than it was counted for.
LEMMA VideoEndsCosts ==
  ASSUME Schedules!ConstantsOK, SchedulesTypes, SchedulesTypes', MonthKept,
         NEW r \in Schedules!Runs, Schedules!VideoEnds(r)
  PROVE  MonthKept'
<1>1. outputs' = outputs
  BY DEF Schedules!VideoEnds, Schedules!taskVars
<1> SUFFICES ASSUME ~Schedules!Batched PROVE Total(NewCosts) <= Month
  BY <1>1, NewMonthSum DEF Schedules!Batched
<1>2. PerRun \in Nat /\ Month \in Nat
  BY DEF Schedules!ConstantsOK
<1>3. ASSUME NEW x \in Schedules!Runs PROVE NewCosts[x] <= Costs[x]
  <2>1. bill'[x] \in 0..PerRun /\ bill[x] \in 0..PerRun
    BY DEF SchedulesTypes, ProductionTypes
  <2>2. CASE x = r
    BY <1>2, <2>1, <2>2 DEF Schedules!VideoEnds, NewCosts, Costs, Schedules!Counted
  <2>3. CASE x # r
    <3>1. video'[x] = video[x] /\ bill'[x] = bill[x]
      BY <2>3 DEF Schedules!VideoEnds, Schedules!Set, SchedulesTypes, ProductionTypes
    <3>2. NewCosts[x] = Costs[x] /\ NewCosts[x] \in Nat
      BY <1>2, <2>1, <3>1 DEF NewCosts, Costs, Schedules!Counted
    <3> QED
      BY <3>2
  <2> QED
    BY <2>2, <2>3
<1>4. /\ Costs \in [Schedules!Runs -> Nat] /\ NewCosts \in [Schedules!Runs -> Nat]
      /\ IsFiniteSet(Schedules!Runs)
  BY CostsAreNat, NewCostsAreNat, FiniteRuns DEF SchedulesTypes
<1>5. Total(NewCosts) <= Total(Costs) /\ Total(NewCosts) \in Nat /\ Total(Costs) \in Nat
  BY <1>3, <1>4, TotalFacts
<1> QED
  BY <1>2, <1>5 DEF MonthKept

LEMMA NoCosts == UNCHANGED <<outputs, Schedules!videoVars>> /\ MonthKept => MonthKept'
<1> SUFFICES ASSUME UNCHANGED <<outputs, Schedules!videoVars>>, MonthKept PROVE MonthKept'
  OBVIOUS
<1>1. NewCosts = Costs /\ (Schedules!Batched' <=> Schedules!Batched)
  BY DEF NewCosts, Costs, Schedules!Counted, Schedules!videoVars, Schedules!Batched
<1> QED
  BY <1>1, NewMonthSum DEF MonthKept

LEMMA NextCosts ==
  /\ Schedules!ConstantsOK /\ SchedulesTypes /\ Orderly /\ SchedulesTypes' /\ MonthKept
  /\ [Schedules!Next]_(Schedules!vars)
  => MonthKept'
<1> SUFFICES ASSUME Schedules!ConstantsOK, SchedulesTypes, Orderly, SchedulesTypes', MonthKept,
                    [Schedules!Next]_(Schedules!vars)
             PROVE  MonthKept'
  OBVIOUS
<1>1. CASE UNCHANGED Schedules!vars
  BY <1>1, NoCosts DEF Schedules!videoVars, Schedules!vars
<1>2. CASE Owner \/ Schedules!AdmitDue \/ \E k \in Keys : Schedules!RunNow(k)
  <2>1. UNCHANGED <<outputs, Schedules!videoVars>>
    BY <1>2 DEF Schedules!videoVars, Owner, Schedules!TimePasses, Schedules!Pause, Schedules!Resume,
      Schedules!Edit, Schedules!Schedule, Schedules!AdmitDue, Schedules!RunNow, Schedules!Admitted
  <2> QED
    BY <2>1, NoCosts DEF Schedules!videoVars
<1>3. CASE Schedules!Synchronize
  BY <1>3, NoCosts DEF Schedules!taskVars, Schedules!videoVars, Schedules!Synchronize
<1>4. CASE \E r \in Schedules!Runs : Passes(r)
  BY <1>4, NoCosts, VideoEndsCosts DEF Schedules!taskVars, Schedules!videoVars, Passes, Schedules!Relink,
    Schedules!GiveUp, Schedules!LeaseEnds
<1>5. CASE \E w \in Workers, r \in Schedules!Runs : Starts(w, r)
  BY <1>5, NoCosts DEF Schedules!taskVars, Schedules!videoVars, Starts, Schedules!Prepare, Schedules!Report,
    Schedules!Acknowledge
<1>6. CASE \E w \in Workers : Moves(w)
  BY <1>6, NoCosts, CreateCosts DEF Schedules!taskVars, Schedules!videoVars, Moves, Schedules!Refuse,
    Schedules!Link, Schedules!Look, Schedules!Lock, Schedules!NeedsReview, Schedules!Conclude, Schedules!Approve,
    Schedules!Defer, Schedules!Crash, Schedules!Acknowledge
<1> QED
  BY <1>1, <1>2, <1>3, <1>4, <1>5, <1>6, SchedulesNextCases

LEMMA InitCosts == Schedules!ConstantsOK /\ Schedules!Init => MonthKept
<1> SUFFICES ASSUME Schedules!ConstantsOK, Schedules!Init PROVE Total(Costs) <= Month
  BY DEF MonthKept
<1>1. Costs \in [Schedules!Runs -> Nat] /\ \A r \in Schedules!Runs : Costs[r] = 0
  BY DEF Schedules!Init, Costs, Schedules!Counted
<1>2. Total(Costs) = 0
  BY <1>1, FiniteRuns, TotalFacts
<1> QED
  BY <1>2 DEF Schedules!ConstantsOK

LEMMA AlwaysOrderly ==
  ASSUME Schedules!ConstantsOK PROVE Schedules!Spec => [](SchedulesTypes /\ Orderly /\ MonthKept)
<1>1. Schedules!Init => SchedulesTypes /\ Orderly /\ MonthKept
  BY InitOrderly, InitCosts
<1>2. SchedulesTypes /\ Orderly /\ MonthKept /\ [Schedules!Next]_(Schedules!vars)
      => (SchedulesTypes /\ Orderly /\ MonthKept)'
  BY NextOrderly, NextCosts
<1> QED
  BY <1>1, <1>2, PTL DEF Schedules!Spec

\* Every reachable state of tasks, occurrences, videos and workers is well typed: attempts
\* and charges stay in their ranges, and a worker is at an occurrence that there is.
THEOREM SchedulesTypeCorrect == ASSUME Schedules!ConstantsOK PROVE Schedules!Spec => []Schedules!TypeOK
<1>1. SchedulesTypes /\ Orderly /\ MonthKept => Schedules!TypeOK
  BY SchedulesTypeParts
<1> QED
  BY <1>1, AlwaysOrderly, PTL

\* The month's budget (create_project under the lock of the tenant): what the occurrences of a
\* month are charged stays within it, for any number of them, of workers and of retries.
THEOREM MonthStaysWithinBudget == ASSUME Schedules!ConstantsOK PROVE Schedules!Spec => []WithinMonth
<1>1. SchedulesTypes /\ Orderly /\ MonthKept => WithinMonth
  BY MonthSums DEF WithinMonth
<1> QED
  BY <1>1, AlwaysOrderly, PTL

-----------------------------------------------------------------------------
(* Whoever has locked the schedule's row to approve sees a consent that stands *)

Covered == \A w \in Workers : pc[w] = "commit" => Schedules!Consented(at[w])

\* Nobody writes the schedule, or admits an occurrence of it, while its row is locked.
LEMMA RowIsKept ==
  ASSUME [Schedules!Next]_(Schedules!vars), Schedules!Held
  PROVE  UNCHANGED <<task, saved>>
<1>1. ~Owner \/ UNCHANGED <<task, saved>>
  BY DEF Owner, Schedules!TimePasses, Schedules!taskVars, Schedules!execVars, Schedules!Pause, Schedules!Resume,
    Schedules!Edit, Schedules!Schedule
<1>2. ~Schedules!AdmitDue /\ \A k \in Keys : ~Schedules!RunNow(k)
  BY DEF Schedules!AdmitDue, Schedules!RunNow, Schedules!Admitted
<1>3. Schedules!Synchronize => UNCHANGED <<task, saved>>
  BY DEF Schedules!Synchronize, Schedules!taskVars, Schedules!execVars
<1>4. ASSUME NEW r \in Schedules!Runs, Passes(r) PROVE UNCHANGED <<task, saved>>
  BY <1>4 DEF Passes, Schedules!Relink, Schedules!GiveUp, Schedules!LeaseEnds, Schedules!VideoEnds,
    Schedules!taskVars, Schedules!execVars
<1>5. ASSUME NEW w \in Workers, NEW r \in Schedules!Runs, Starts(w, r) PROVE UNCHANGED <<task, saved>>
  BY <1>5 DEF Starts, Schedules!Prepare, Schedules!Report, Schedules!Acknowledge, Schedules!taskVars,
    Schedules!execVars
<1>6. ASSUME NEW w \in Workers, Moves(w) PROVE UNCHANGED <<task, saved>>
  BY <1>6 DEF Moves, Schedules!Create, Schedules!Refuse, Schedules!Link, Schedules!Look, Schedules!Lock,
    Schedules!NeedsReview, Schedules!Conclude, Schedules!Approve, Schedules!Defer, Schedules!Crash,
    Schedules!Acknowledge, Schedules!taskVars, Schedules!execVars
<1> QED
  BY <1>1, <1>2, <1>3, <1>4, <1>5, <1>6, SchedulesNextCases DEF Schedules!vars

\* A worker comes to commit an approval by locking the row only.
LEMMA OnlyLockCommits ==
  ASSUME SchedulesTypes, [Schedules!Next]_(Schedules!vars), NEW w \in Workers, pc'[w] = "commit"
  PROVE  \/ pc[w] = "commit" /\ at'[w] = at[w]
         \/ Schedules!Lock(w) /\ at'[w] = at[w]
<1> USE DEF Schedules!Go, Schedules!Rest, Schedules!Set, Schedules!workerVars
<1>1. pc \in [Workers -> {"idle", "create", "link", "look", "approve", "commit", "conclude"}]
      /\ at \in [Workers -> Schedules!Runs]
  BY DEF SchedulesTypes, PlaceTypes
<1>2. CASE UNCHANGED Schedules!workerVars
  BY <1>2
<1>3. CASE Owner \/ Schedules!AdmitDue \/ \E k \in Keys : Schedules!RunNow(k)
  BY <1>2, <1>3 DEF Owner, Schedules!TimePasses, Schedules!Pause, Schedules!Resume, Schedules!Edit,
    Schedules!Schedule, Schedules!AdmitDue, Schedules!RunNow, Schedules!Admitted
<1>4. CASE Schedules!Synchronize
  BY <1>2, <1>4 DEF Schedules!Synchronize
<1>5. CASE \E r \in Schedules!Runs : Passes(r)
  BY <1>2, <1>5 DEF Passes, Schedules!Relink, Schedules!GiveUp, Schedules!LeaseEnds, Schedules!VideoEnds
<1>6. ASSUME NEW v \in Workers, NEW r \in Schedules!Runs, Starts(v, r)
      PROVE  pc[w] = "commit" /\ at'[w] = at[w]
  BY <1>1, <1>6 DEF Starts, Schedules!Prepare, Schedules!Report
<1>7. ASSUME NEW v \in Workers, Moves(v), ~Schedules!Lock(v)
      PROVE  pc[w] = "commit" /\ at'[w] = at[w]
  BY <1>1, <1>7 DEF Moves, Schedules!Create, Schedules!Refuse, Schedules!Link, Schedules!Look,
    Schedules!NeedsReview, Schedules!Conclude, Schedules!Approve, Schedules!Defer, Schedules!Crash
<1>8. ASSUME NEW v \in Workers, Schedules!Lock(v)
      PROVE  \/ pc[w] = "commit" /\ at'[w] = at[w]
             \/ Schedules!Lock(w) /\ at'[w] = at[w]
  BY <1>1, <1>8 DEF Schedules!Lock
<1> QED
  BY <1>2, <1>3, <1>4, <1>5, <1>6, <1>7, <1>8, SchedulesNextCases DEF Schedules!vars

LEMMA NextCovered ==
  SchedulesTypes /\ Covered /\ [Schedules!Next]_(Schedules!vars) => Covered'
<1> SUFFICES ASSUME SchedulesTypes, Covered, [Schedules!Next]_(Schedules!vars),
                    NEW w \in Workers, pc'[w] = "commit"
             PROVE  Schedules!Consented(at[w])'
  BY DEF Covered
<1>1. CASE pc[w] = "commit" /\ at'[w] = at[w]
  <2>1. UNCHANGED <<task, saved>>
    BY <1>1, RowIsKept DEF Schedules!Held
  <2> QED
    BY <1>1, <2>1 DEF Covered, Schedules!Consented
<1>2. CASE Schedules!Lock(w) /\ at'[w] = at[w]
  BY <1>2 DEF Schedules!Lock, Schedules!Consented, Schedules!taskVars, Schedules!execVars
<1> QED
  BY <1>1, <1>2, OnlyLockCommits

LEMMA ApprovalNeedsConsent ==
  Covered /\ [Schedules!Next]_(Schedules!vars) =>
    [\A r \in Schedules!Runs : approved'[r] # approved[r] => Schedules!Consented(r)]_(Schedules!vars)
<1> SUFFICES ASSUME Covered, [Schedules!Next]_(Schedules!vars), NEW r \in Schedules!Runs, approved'[r] # approved[r]
             PROVE  Schedules!Consented(r)
  BY DEF Schedules!vars
<1>1. PICK w \in Workers, v \in Videos : Schedules!Approve(w, v)
  BY SchedulesNextCases DEF Schedules!Set, Schedules!vars, Owner, Schedules!TimePasses, Schedules!Pause,
    Schedules!Resume, Schedules!Edit, Schedules!Schedule, Schedules!AdmitDue, Schedules!RunNow,
    Schedules!Admitted, Schedules!Synchronize, Passes, Schedules!Relink, Schedules!GiveUp, Schedules!LeaseEnds,
    Schedules!VideoEnds, Starts, Schedules!Prepare, Schedules!Report, Moves, Schedules!Create, Schedules!Refuse,
    Schedules!Link, Schedules!Look, Schedules!Lock, Schedules!NeedsReview, Schedules!Conclude, Schedules!Defer,
    Schedules!Crash
<1>2. r = at[w]
  BY <1>1 DEF Schedules!Set, Schedules!Approve
<1> QED
  BY <1>1, <1>2 DEF Schedules!Approve, Covered

\* approve_auto_post: a video is approved only while the consent that its occurrence was
\* admitted with holds.  The consent is looked at some steps before the approval is committed;
\* the lock of the schedule's row keeps it for that long, whatever the owner edits or revokes.
THEOREM ApprovalsAreConsented == ASSUME Schedules!ConstantsOK PROVE Schedules!Spec => ApprovedUnderConsent
<1>1. Schedules!Init => Covered
  BY DEF Schedules!Init, Covered
<1>2. SchedulesTypes /\ Covered /\ [Schedules!Next]_(Schedules!vars) => Covered'
  BY NextCovered
<1>3. Schedules!Spec => []SchedulesTypes
  BY AlwaysOrderly, PTL
<1>4. Schedules!Spec => []Covered
  BY <1>1, <1>2, <1>3, PTL DEF Schedules!Spec
<1>5. Covered /\ [Schedules!Next]_(Schedules!vars) =>
        [\A r \in Schedules!Runs : approved'[r] # approved[r] => Schedules!Consented(r)]_(Schedules!vars)
  BY ApprovalNeedsConsent
<1> QED
  BY <1>4, <1>5, PTL DEF Schedules!Spec, ApprovedUnderConsent, Schedules!ApprovedUnderConsent
=================================================================================

----------------------------- MODULE MCWorkspace ------------------------------
(* Services of a workspace that run in the background and have no state in    *)
(* common, checked in one run: StatusOutbox and AgentMemory.  An initial state *)
(* chooses the one that runs, and a setting for it, in place of one larger    *)
(* instance: the bounds that are used up at the start differ.                 *)
EXTENDS StatusOutbox

CONSTANTS Items, Candidates, Channels, Workers, NoRow, MaxTexts, MaxModels, MaxMisses

VARIABLES part, mark, text, place, draft, cstatus, gone, texts, model, row, task, misses

memoryVars == <<mark, text, place, draft, cstatus, gone, texts, model, row, task, misses>>

Memory == INSTANCE AgentMemory WITH faults <- misses, MaxFaults <- MaxMisses

ASSUME MemoryAssumption == Memory!ConstantsOK

\* Who was written last.
First == CHOOSE places \in [Items -> Memory!Places] : \A c, x \in Items : places[c] = places[x] => c = x

\* Texts with words of their own; with the same words; the second with a list of
\* words that is cut, to the words of the first or to those of no text.
Marked(second) == [t \in Memory!Texts |-> IF t = 2 THEN second ELSE [full |-> t, kept |-> t]]
Own == Marked([full |-> 2, kept |-> 2])
Same == Marked([full |-> 1, kept |-> 1])
CutTo(k) == Marked([full |-> 2, kept |-> k])

NoMemory == Memory!Init /\ place = First /\ mark = Own
NoOutbox == Init

\* The first event of three was refused once, or was delivered and a fault is
\* still to come.
OutboxInit ==
  /\ last = 1 /\ silent = {}
  /\ \E s \in Subjects : subject = [e \in Events |-> IF e = 1 THEN s ELSE NoSubject]
  /\ \E old \in {"failed", "sent"} :
       /\ state = [e \in Events |-> IF e = 1 THEN old ELSE "absent"]
       /\ due = IF old = "failed" THEN {1} ELSE {}
       /\ outcome = [e \in Events |-> IF e # 1 THEN "unsent"
                                      ELSE IF old = "failed" THEN "refused" ELSE "received"]
       /\ attempts = [e \in Events |-> IF e = 1 /\ old = "failed" THEN 1 ELSE 0]
       /\ faults = IF old = "failed" THEN MaxFaults ELSE 0
  /\ dpc = [d \in Dispatchers |-> "idle"] /\ dtodo = [d \in Dispatchers |-> {}]
  /\ dcount = [d \in Dispatchers |-> 0]

\* One post is written.  Beside it there is a candidate, or another post; or the
\* post is edited; or the model changes and a fault happens.
MemoryInit ==
  LET c == CHOOSE x \in Items : First[x] = 0 IN
  /\ place = First
  /\ draft = [d \in Candidates |-> 0] /\ cstatus = [d \in Candidates |-> "pending"]
  /\ row = [e \in Memory!Entities |-> NoRow] /\ task = [w \in Workers |-> Memory!Idle]
  /\ \/ gone = Items \ {c} /\ texts = 1 /\ model = MaxModels /\ misses = MaxMisses /\ mark = Own
     \/ gone = Candidates /\ texts = 1 /\ model = MaxModels /\ misses = MaxMisses /\ mark = CutTo(0)
     \/ /\ gone = Candidates \cup (Items \ {c}) /\ texts = 1 /\ model = MaxModels /\ misses = MaxMisses
        /\ mark \in {Same, CutTo(1)}
     \/ gone = Candidates \cup (Items \ {c}) /\ texts = MaxTexts /\ model = 1 /\ misses = 0 /\ mark = Own
  /\ text = [x \in Items |-> IF x = c THEN texts ELSE 0]

MCInit ==
  \/ part = "outbox" /\ OutboxInit /\ NoMemory
  \/ part = "memory" /\ MemoryInit /\ NoOutbox
MCNext ==
  /\ \/ part = "outbox" /\ Next /\ UNCHANGED memoryVars
     \/ part = "memory" /\ Memory!Next /\ UNCHANGED vars
  /\ UNCHANGED part

\* Only what runs owes a step.
MCFairness ==
  /\ Fairness
  /\ \A w \in Workers : SF_memoryVars(part = "memory" /\ Memory!Step(w))
  /\ SF_memoryVars(part = "memory" /\ \E w \in Workers : Memory!Drift(w))
  /\ SF_memoryVars(part = "memory" /\ \E w \in Workers : Memory!Maintain(w))
MCSpec == MCInit /\ [][MCNext]_<<vars, memoryVars, part>> /\ MCFairness

HashNamesVector == Memory!HashNamesVector
PrunedIsDead == Memory!PrunedIsDead
PostsBecomeFindable == Memory!PostsBecomeFindable
=============================================================================

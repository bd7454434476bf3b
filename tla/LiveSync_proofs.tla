---------------------------- MODULE LiveSync_proofs ----------------------------
(***************************************************************************)
(* Proofs about LiveSync, for any number of channels, album items, workers *)
(* and requests: whatever puts a delivery in the queue, and however often, *)
(* the destination gets it once.                                           *)
(***************************************************************************)
EXTENDS LiveSync, TLAPS

-----------------------------------------------------------------------------
(* The inductive invariant *)

\* A worker has claimed delivery d and not made its target yet.
Holds(w, d) == wpc[w] \in {"enqueue", "abort"} /\ wdelivery[w] = d
UnderWay(d) == \E t \in targets : t[1] = d

\* A claimed delivery is in one place: with one worker, in one target, at the
\* destination, or - after a death - nowhere.  One that is not claimed is nowhere.
OnePlace(d) ==
  /\ copies[d] <= 1
  /\ ledger[d] = "free" => copies[d] = 0 /\ ~UnderWay(d) /\ \A w \in Workers : ~Holds(w, d)
  /\ UnderWay(d) => copies[d] = 0
  /\ \A w \in Workers : Holds(w, d) =>
       copies[d] = 0 /\ ~UnderWay(d) /\ \A v \in Workers : Holds(v, d) => v = w
  /\ \A t, u \in targets : t[1] = d /\ u[1] = d => t = u

Places == \A d \in Deliveries : OnePlace(d)

IInv == TypeOK /\ Places

-----------------------------------------------------------------------------
(* The kinds of actions *)

EditorActs(e) ==
  \/ EditorWrite(e) \/ EditorRestore(e) \/ EditorSendFails(e) \/ EditorDies(e)
  \/ \E c \in Channels : EditorSend(e, c)
  \/ \E ask \in Asks : Ask(e, ask)

BotActs ==
  \/ BotPush \/ BotSend \/ BotSingle \/ BufferExpires
  \/ \E i \in Items : BotIncr(i) \/ BotEdit(i)

BeatActs(w) ==
  TickTake(w) \/ TickCommit(w) \/ TickFails(w) \/ \E c \in Channels : TickSend(w, c)

AlbumActs(w) ==
  \/ AlbumRead(w) \/ AlbumForget(w) \/ AlbumReset(w) \/ AlbumFails(w)
  \/ \E g \in DOMAIN tasks : AlbumTake(w, g)

ClaimActs(w) ==
  \/ Ingest(w)
  \/ \E d \in Deliveries : Deliver(w, d)

AfterClaim(w) == Enqueue(w) \/ Abort(w)

WorkerActs(w) ==
  \/ BeatActs(w) \/ AlbumActs(w) \/ ClaimActs(w) \/ AfterClaim(w) \/ Crash(w)
  \/ \E i \in Items : EditTake(w, i)

LEMMA NextCases ==
  ASSUME Next
  PROVE  \/ TimePasses \/ BotActs
         \/ \E e \in Editors : EditorActs(e)
         \/ \E w \in Workers : WorkerActs(w)
         \/ \E d \in Deliveries : DeliverLost(d)
         \/ \E t \in targets : Execute(t)
  BY DEF Next, Goes, WorkerStep, Take, EditorStep, EditorActs, BotActs, BeatActs, AlbumActs, ClaimActs,
         AfterClaim, WorkerActs

-----------------------------------------------------------------------------
(* Types *)

WorkerSteps == {"idle", "fanout", "read", "forget", "reset", "ingest", "enqueue", "abort"}

ContentTypes == row \in Rows /\ lock \in Workers \cup {NoWorker}

LedgerTypes ==
  /\ queue \in [Deliveries -> Nat] /\ edits \in [Items -> {"none", "sent", "done"}]
  /\ ledger \in [Deliveries -> {"free", "claimed", "tracked"}]
  /\ targets \subseteq (Deliveries \X SUBSET Items)
  /\ copies \in [Deliveries -> Nat]
  /\ carried \subseteq Items

AlbumTypes ==
  /\ buf \subseteq Items /\ gen \in Nat /\ fresh \subseteq Items
  /\ tasks \in [1..Cardinality(Items) -> Nat]
  /\ bpc \in {"idle", "push", "send", "single"} /\ bgen \in Nat
  /\ bpc # "idle" => bitem \in Items

WorkerTypes ==
  /\ wpc \in [Workers -> WorkerSteps]
  /\ wdelivery \in [Workers -> Deliveries]
  /\ whand \in [Workers -> SUBSET Items]
  /\ wsent \in [Workers -> SUBSET Channels]

EditorTypes ==
  /\ epc \in [Editors -> {"idle", "write", "send", "restore"}]
  /\ eask \in [Editors -> Asks] /\ eload \in [Editors -> Rows]
  /\ esent \in [Editors -> SUBSET Channels]
  /\ asks \in 0..MaxAsks

FaultTypes == faults \in 0..MaxFaults

LEMMA TypeParts ==
  TypeOK <=> ContentTypes /\ LedgerTypes /\ AlbumTypes /\ WorkerTypes /\ EditorTypes /\ FaultTypes
  BY DEF TypeOK, ContentTypes, LedgerTypes, AlbumTypes, WorkerTypes, EditorTypes, FaultTypes,
         WorkerSteps

LEMMA TypePartsNext ==
  TypeOK' <=> ContentTypes' /\ LedgerTypes' /\ AlbumTypes' /\ WorkerTypes' /\ EditorTypes' /\ FaultTypes'
  BY DEF TypeOK, ContentTypes, LedgerTypes, AlbumTypes, WorkerTypes, EditorTypes, FaultTypes,
         WorkerSteps

LEMMA MoreTypes ==
  ASSUME NEW S, NEW bag \in [S -> Nat], NEW x
  PROVE  More(bag, x) \in [S -> Nat]
<1>1. x \in S => bag[x] + 1 \in Nat
  OBVIOUS
<1> QED
  BY <1>1 DEF More

LEMMA LessTypes ==
  ASSUME NEW S, NEW bag \in [S -> Nat], NEW x \in S, bag[x] > 0
  PROVE  Less(bag, x) \in [S -> Nat]
<1>1. bag[x] - 1 \in Nat
  OBVIOUS
<1> QED
  BY <1>1 DEF Less

LEMMA NoRowTypes == NoRow \in Rows /\ Gone \in Rows
  BY DEF NoRow, Gone, Rows

LEMMA AlbumIsDelivery == Album \in Deliveries /\ Channels \subseteq Deliveries /\ Items \subseteq Deliveries
  BY DEF Deliveries

LEMMA GoWorkerTypes ==
  ASSUME WorkerTypes, NEW w \in Workers, NEW step \in WorkerSteps, NEW d \in Deliveries,
         NEW items \in SUBSET Items, GoWorker(w, step, d, items),
         wsent' \in [Workers -> SUBSET Channels]
  PROVE  WorkerTypes'
  BY DEF WorkerTypes, GoWorker

LEMMA RestTypes ==
  ASSUME WorkerTypes, NEW w \in Workers, Rest(w)
  PROVE  WorkerTypes'
<1>1. wsent' \in [Workers -> SUBSET Channels]
  BY DEF WorkerTypes, Rest
<1> QED
  BY <1>1, AlbumIsDelivery, GoWorkerTypes DEF Rest, WorkerSteps

LEMMA EditorEndTypes ==
  ASSUME EditorTypes, NEW e \in Editors, EndEditor(e)
  PROVE  EditorTypes'
  BY NoRowTypes DEF EditorTypes, EndEditor, Asks

LEMMA BreaksTypes ==
  ASSUME FaultTypes, NEW kind, Breaks(kind)
  PROVE  FaultTypes'
  BY LimitsAssumption DEF FaultTypes, Breaks

LEMMA AskedTypes ==
  ASSUME NEW ask \in Asks, NEW load \in Rows
  PROVE  Asked(ask, load) \in Rows
  BY DEF Asked, Asks, Rows, NoRow, Gone

LEMMA MergedTypes ==
  ASSUME NEW new \in Rows, NEW load \in Rows, row \in Rows
  PROVE  Merged(new, load) \in Rows
  BY DEF Merged, Rows

LEMMA InitTypeOK == Init => TypeOK
<1> SUFFICES ASSUME Init PROVE TypeOK
  OBVIOUS
<1>1. ContentTypes
  BY NoRowTypes DEF Init, ContentTypes
<1>2. LedgerTypes
  BY DEF Init, LedgerTypes
<1>3. AlbumTypes
  BY DEF Init, AlbumTypes
<1>4. WorkerTypes
  BY AlbumIsDelivery DEF Init, WorkerTypes, WorkerSteps
<1>5. EditorTypes
  BY NoRowTypes DEF Init, EditorTypes, Asks
<1>6. FaultTypes
  <2>1. faults = 0
    BY DEF Init
  <2> QED
    BY <2>1, LimitsAssumption DEF FaultTypes
<1> QED
  BY <1>1, <1>2, <1>3, <1>4, <1>5, <1>6, TypeParts

LEMMA EditorActsTypes ==
  ASSUME TypeOK, NEW e \in Editors, EditorActs(e)
  PROVE  TypeOK'
<1>0. ContentTypes /\ LedgerTypes /\ EditorTypes /\ FaultTypes /\ AlbumTypes /\ WorkerTypes
  BY TypeParts
<1>1. AlbumTypes' /\ WorkerTypes'
  <2>1. UNCHANGED <<albumVars, workerVars>>
    BY DEF EditorActs, EditorWrite, EditorRestore, EditorSendFails, EditorDies, EditorSend, Ask
  <2> QED
    BY <1>0, <2>1 DEF AlbumTypes, WorkerTypes, albumVars, workerVars
<1>2. FaultTypes'
  <2>1. UNCHANGED faults \/ \E kind \in Faults : Breaks(kind)
    BY DEF EditorActs, EditorWrite, EditorRestore, EditorSendFails, EditorDies, EditorSend, Ask, Breaks
  <2> QED
    BY <1>0, <2>1, BreaksTypes DEF FaultTypes
<1>3. LedgerTypes'
  <2>1. /\ UNCHANGED <<edits, ledger, targets, copies, carried>>
        /\ queue' = queue \/ \E c \in Channels : queue' = More(queue, c)
    BY DEF EditorActs, EditorWrite, EditorRestore, EditorSendFails, EditorDies, EditorSend, Ask, ledgerVars
  <2>2. queue' \in [Deliveries -> Nat]
    BY <1>0, <2>1, MoreTypes DEF LedgerTypes
  <2> QED
    BY <1>0, <2>1, <2>2 DEF LedgerTypes
<1>4. eload[e] \in Rows /\ row \in Rows /\ eask[e] \in Asks
  BY DEF TypeOK
<1>5. ContentTypes'
  <2>1. CASE EditorWrite(e)
    <3>1. Merged(Asked(eask[e], eload[e]), eload[e]) \in Rows
      BY <1>4, AskedTypes, MergedTypes
    <3> QED
      BY <1>0, <2>1, <3>1 DEF EditorWrite, ContentTypes
  <2>2. CASE EditorRestore(e)
    <3>1. [row EXCEPT !.status = "draft", !.stamped = FALSE] \in Rows
      BY <1>4 DEF Rows
    <3> QED
      BY <1>0, <1>4, <2>2, <3>1 DEF EditorRestore, ContentTypes
  <2>3. CASE ~EditorWrite(e) /\ ~EditorRestore(e)
    BY <1>0, <2>3 DEF EditorActs, EditorSendFails, EditorDies, EditorSend, Ask, contentVars, ContentTypes
  <2> QED
    BY <2>1, <2>2, <2>3
<1>6. EditorTypes'
  <2>1. CASE EndEditor(e)
    BY <1>0, <2>1, EditorEndTypes
  <2>2. ASSUME NEW step \in {"send", "restore"}, GoEditor(e, step) PROVE EditorTypes'
    BY <1>0, <2>2 DEF GoEditor, EditorTypes
  <2>3. ASSUME NEW ask \in Asks, Ask(e, ask) PROVE EditorTypes'
    <3>1. asks' \in 0..MaxAsks
      <4>1. asks < MaxAsks /\ asks' = asks + 1 /\ asks \in 0..MaxAsks
        BY <1>0, <2>3 DEF Ask, EditorTypes
      <4> QED
        BY <4>1, LimitsAssumption
    <3> QED
      BY <1>0, <1>4, <2>3, <3>1 DEF Ask, EditorTypes
  <2>4. ASSUME NEW c \in Channels, EditorSend(e, c), ~EndEditor(e) PROVE EditorTypes'
    BY <1>0, <2>4 DEF EditorSend, EditorTypes
  <2> QED
    BY <2>1, <2>2, <2>3, <2>4 DEF EditorActs, EditorWrite, EditorRestore, EditorSendFails, EditorDies
<1> QED
  BY <1>1, <1>2, <1>3, <1>5, <1>6, TypePartsNext

LEMMA BotActsTypes ==
  ASSUME TypeOK, BotActs
  PROVE  TypeOK'
<1>0. ContentTypes /\ LedgerTypes /\ EditorTypes /\ FaultTypes /\ AlbumTypes /\ WorkerTypes
  BY TypeParts
<1>1. ContentTypes' /\ WorkerTypes' /\ EditorTypes'
  <2>1. UNCHANGED <<contentVars, workerVars, editorVars>>
    BY DEF BotActs, BotPush, BotSend, BotSingle, BufferExpires, BotIncr, BotEdit
  <2> QED
    BY <1>0, <2>1 DEF ContentTypes, WorkerTypes, EditorTypes, contentVars, workerVars, editorVars
<1>2. FaultTypes'
  <2>1. UNCHANGED faults \/ \E kind \in Faults : Breaks(kind)
    BY DEF BotActs, BotPush, BotSend, BotSingle, BufferExpires, BotIncr, BotEdit, Breaks
  <2> QED
    BY <1>0, <2>1, BreaksTypes DEF FaultTypes
<1>3. LedgerTypes'
  <2>1. /\ UNCHANGED <<ledger, targets, copies, carried>>
        /\ queue' = queue \/ queue' = More(queue, bitem)
        /\ edits' = edits \/ \E i \in Items : edits' = [edits EXCEPT ![i] = "sent"]
    BY DEF BotActs, BotPush, BotSend, BotSingle, BufferExpires, BotIncr, BotEdit, ledgerVars
  <2>2. queue' \in [Deliveries -> Nat]
    BY <1>0, <2>1, MoreTypes DEF LedgerTypes
  <2> QED
    BY <1>0, <2>1, <2>2 DEF LedgerTypes
<1>4. AlbumTypes'
  <2>1. ASSUME NEW i \in Items, BotIncr(i) PROVE AlbumTypes'
    <3>1. gen + 1 \in Nat
      BY <1>0 DEF AlbumTypes
    <3> QED
      BY <1>0, <2>1, <3>1 DEF AlbumTypes, BotIncr
  <2>2. CASE BotPush
    BY <1>0, <2>2 DEF AlbumTypes, BotPush, GoBot
  <2>3. CASE BotSend
    <3>1. tasks' = tasks \/ tasks' = More(tasks, bgen)
      BY <2>3 DEF BotSend
    <3>2. tasks' \in [1..Cardinality(Items) -> Nat]
      <4> DEFINE generations == 1..Cardinality(Items)
      <4>1. tasks \in [generations -> Nat]
        BY <1>0 DEF AlbumTypes
      <4> HIDE DEF generations
      <4>2. tasks' \in [generations -> Nat]
        BY <3>1, <4>1, MoreTypes
      <4> QED
        BY <4>2 DEF generations
    <3> QED
      BY <1>0, <2>3, <3>2 DEF AlbumTypes, BotSend, GoBot
  <2>4. CASE BotSingle \/ BufferExpires \/ \E i \in Items : BotEdit(i)
    BY <1>0, <2>4 DEF AlbumTypes, BotSingle, BufferExpires, BotEdit, GoBot, albumVars
  <2> QED
    BY <2>1, <2>2, <2>3, <2>4 DEF BotActs
<1> QED
  BY <1>1, <1>2, <1>3, <1>4, TypePartsNext

LEMMA WorkerActsTypes ==
  ASSUME TypeOK, NEW w \in Workers, WorkerActs(w)
  PROVE  TypeOK'
<1>0. ContentTypes /\ LedgerTypes /\ EditorTypes /\ FaultTypes /\ AlbumTypes /\ WorkerTypes
  BY TypeParts
<1> USE DEF WorkerActs, BeatActs, AlbumActs, ClaimActs, AfterClaim
<1>1. EditorTypes'
  <2>1. UNCHANGED editorVars
    BY DEF TickTake, TickCommit, TickFails, TickSend, AlbumRead, AlbumForget, AlbumReset, AlbumFails,
           AlbumTake, Ingest, Deliver, Claim, Enqueue, Abort, Crash, EditTake
  <2> QED
    BY <1>0, <2>1 DEF EditorTypes, editorVars
<1>2. FaultTypes'
  <2>1. UNCHANGED faults \/ \E kind \in Faults : Breaks(kind)
    BY DEF TickTake, TickCommit, TickFails, TickSend, AlbumRead, AlbumForget, AlbumReset, AlbumFails,
           AlbumTake, Ingest, Deliver, Claim, Enqueue, Abort, Crash, EditTake, Breaks
  <2> QED
    BY <1>0, <2>1, BreaksTypes DEF FaultTypes
<1>3. ContentTypes'
  <2>1. [row EXCEPT !.status = "published", !.sched = "none", !.stamped = TRUE] \in Rows
    BY DEF TypeOK, Rows
  <2>2. /\ \/ row' = row
           \/ row' = [row EXCEPT !.status = "published", !.sched = "none", !.stamped = TRUE]
        /\ lock' \in {lock, w, NoWorker}
    BY DEF TickTake, TickCommit, TickFails, TickSend, AlbumRead, AlbumForget, AlbumReset, AlbumFails,
           AlbumTake, Ingest, Deliver, Claim, Enqueue, Abort, Crash, EditTake, Publish, contentVars
  <2> QED
    BY <1>0, <2>1, <2>2 DEF ContentTypes
<1>4. AlbumTypes'
  <2>1. ASSUME NEW g \in DOMAIN tasks, AlbumTake(w, g) PROVE AlbumTypes'
    <3>1. tasks' \in [1..Cardinality(Items) -> Nat]
      BY <1>0, <2>1, LessTypes DEF AlbumTake, AlbumTypes
    <3> QED
      BY <1>0, <2>1, <3>1 DEF AlbumTypes, AlbumTake
  <2>2. CASE AlbumForget(w) \/ AlbumReset(w)
    BY <1>0, <2>2 DEF AlbumTypes, AlbumForget, AlbumReset
  <2>3. CASE UNCHANGED albumVars
    BY <1>0, <2>3 DEF AlbumTypes, albumVars
  <2> QED
    BY <2>1, <2>2, <2>3 DEF TickTake, TickCommit, TickFails, TickSend, AlbumRead, AlbumFails,
           Ingest, Deliver, Claim, Enqueue, Abort, Crash, EditTake
<1>5. LedgerTypes'
  <2>1. CASE UNCHANGED ledgerVars
    BY <1>0, <2>1 DEF LedgerTypes, ledgerVars
  <2>2. ASSUME NEW c \in Channels, TickSend(w, c) PROVE LedgerTypes'
    <3>1. queue' \in [Deliveries -> Nat]
      BY <1>0, <2>2, MoreTypes DEF TickSend, LedgerTypes
    <3> QED
      BY <1>0, <2>2, <3>1 DEF TickSend, LedgerTypes
  <2>3. ASSUME NEW d \in Deliveries, Deliver(w, d) PROVE LedgerTypes'
    <3>1. queue' \in [Deliveries -> Nat]
      BY <1>0, <2>3, LessTypes DEF Deliver, LedgerTypes
    <3> QED
      BY <1>0, <2>3, <3>1 DEF Deliver, Claim, LedgerTypes
  <2>4. CASE Ingest(w)
    BY <1>0, <2>4 DEF Ingest, Claim, LedgerTypes
  <2>5. ASSUME NEW i \in Items, EditTake(w, i) PROVE LedgerTypes'
    BY <1>0, <2>5 DEF EditTake, LedgerTypes
  <2>6. CASE Enqueue(w)
    <3>1. <<wdelivery[w], whand[w]>> \in Deliveries \X SUBSET Items
      BY <1>0 DEF WorkerTypes
    <3> QED
      BY <1>0, <2>6, <3>1 DEF Enqueue, LedgerTypes
  <2>7. CASE Abort(w)
    BY <1>0, <2>7 DEF Abort, LedgerTypes
  <2> QED
    BY <2>1, <2>2, <2>3, <2>4, <2>5, <2>6, <2>7 DEF TickTake, TickCommit, TickFails, AlbumRead,
       AlbumForget, AlbumReset, AlbumFails, AlbumTake, Crash
<1>6. WorkerTypes'
  <2>0. /\ Album \in Deliveries /\ wdelivery[w] \in Deliveries /\ whand[w] \subseteq Items
        /\ buf \subseteq Items /\ wsent \in [Workers -> SUBSET Channels]
    BY <1>0, AlbumIsDelivery DEF WorkerTypes, AlbumTypes
  <2>1. CASE Rest(w)
    BY <1>0, <2>1, RestTypes
  <2>2. ASSUME NEW step \in WorkerSteps, NEW d \in Deliveries, NEW items \in SUBSET Items,
               GoWorker(w, step, d, items), wsent' = wsent
        PROVE  WorkerTypes'
    BY <1>0, <2>0, <2>2, GoWorkerTypes
  <2>3. CASE UNCHANGED workerVars
    BY <1>0, <2>3 DEF WorkerTypes, workerVars
  <2>4. ASSUME NEW c \in Channels, TickSend(w, c) PROVE WorkerTypes'
    BY <1>0, <2>4 DEF WorkerTypes, TickSend
  <2>5. {"idle", "fanout", "read", "forget", "reset", "ingest", "enqueue", "abort"} = WorkerSteps
    BY DEF WorkerSteps
  <2>6. CASE BeatActs(w)
    BY <2>0, <2>1, <2>2, <2>4, <2>5, <2>6 DEF TickTake, TickCommit, TickFails, Publish
  <2>7. CASE AlbumActs(w)
    BY <2>0, <2>1, <2>2, <2>3, <2>5, <2>7 DEF AlbumRead, AlbumForget, AlbumReset, AlbumFails, AlbumTake,
                                             workerVars
  <2>8. ASSUME NEW d \in Deliveries, NEW items \in SUBSET Items, Claim(w, d, items)
        PROVE  WorkerTypes'
    BY <2>0, <2>2, <2>5, <2>8 DEF Claim
  <2>9. CASE ClaimActs(w)
    BY <2>0, <2>8, <2>9 DEF Ingest, Deliver
  <2>10. CASE AfterClaim(w) \/ Crash(w)
    BY <2>0, <2>1, <2>2, <2>5, <2>10 DEF Enqueue, Abort, Crash
  <2>11. ASSUME NEW i \in Items, EditTake(w, i) PROVE WorkerTypes'
    BY <2>0, <2>2, <2>3, <2>5, <2>11 DEF EditTake, workerVars
  <2> QED
    BY <2>6, <2>7, <2>9, <2>10, <2>11
<1> QED
  BY <1>1, <1>2, <1>3, <1>4, <1>5, <1>6, TypePartsNext

LEMMA NextTypeOK == TypeOK /\ [Next]_vars => TypeOK'
<1> SUFFICES ASSUME TypeOK, [Next]_vars PROVE TypeOK'
  OBVIOUS
<1>0. ContentTypes /\ LedgerTypes /\ EditorTypes /\ FaultTypes /\ AlbumTypes /\ WorkerTypes
  BY TypeParts
<1>1. CASE TimePasses
  <2>1. [row EXCEPT !.sched = "due"] \in Rows
    BY DEF TypeOK, Rows
  <2> QED
    BY <1>1, <2>1 DEF TypeOK, TimePasses, ledgerVars, albumVars, workerVars, editorVars
<1>2. ASSUME NEW d \in Deliveries, DeliverLost(d) PROVE TypeOK'
  <2>1. queue' \in [Deliveries -> Nat]
    BY <1>0, <1>2, LessTypes DEF DeliverLost, LedgerTypes
  <2>2. LedgerTypes'
    BY <1>0, <1>2, <2>1 DEF DeliverLost, LedgerTypes
  <2>3. FaultTypes'
    BY <1>0, <1>2, BreaksTypes DEF DeliverLost
  <2>4. ContentTypes' /\ AlbumTypes' /\ WorkerTypes' /\ EditorTypes'
    BY <1>0, <1>2 DEF DeliverLost, ContentTypes, AlbumTypes, WorkerTypes, EditorTypes, contentVars,
                      albumVars, workerVars, editorVars
  <2> QED
    BY <2>2, <2>3, <2>4, TypePartsNext
<1>3. ASSUME NEW t \in targets, Execute(t) PROVE TypeOK'
  <2>1. t[1] \in Deliveries /\ t[2] \subseteq Items
    BY <1>0 DEF LedgerTypes
  <2>2. copies' \in [Deliveries -> Nat]
    <3>1. copies' = copies \/ copies' = More(copies, t[1])
      BY <1>3 DEF Execute
    <3> QED
      BY <1>0, <3>1, MoreTypes DEF LedgerTypes
  <2>3. LedgerTypes'
    BY <1>0, <1>3, <2>1, <2>2 DEF Execute, LedgerTypes
  <2>4. ContentTypes' /\ AlbumTypes' /\ WorkerTypes' /\ EditorTypes' /\ FaultTypes'
    BY <1>0, <1>3 DEF Execute, ContentTypes, AlbumTypes, WorkerTypes, EditorTypes, FaultTypes,
                      contentVars, albumVars, workerVars, editorVars
  <2> QED
    BY <2>3, <2>4, TypePartsNext
<1>4. CASE UNCHANGED vars
  BY <1>4 DEF TypeOK, vars
<1> QED
  BY <1>1, <1>2, <1>3, <1>4, NextCases, EditorActsTypes, BotActsTypes, WorkerActsTypes

-----------------------------------------------------------------------------
(* A delivery is in one place *)

\* Actions that do not look at the ledger, and leave no worker with a claim.
LEMMA StillOnePlace ==
  ASSUME Places, UNCHANGED <<ledger, targets, copies>>,
         \A v \in Workers, d \in Deliveries : Holds(v, d)' => Holds(v, d)
  PROVE  Places'
  BY DEF Places, OnePlace, UnderWay

LEMMA OneMoves ==
  ASSUME TypeOK, NEW w \in Workers, wpc'[w] \notin {"enqueue", "abort"},
         \A v \in Workers \ {w} : wpc'[v] = wpc[v] /\ wdelivery'[v] = wdelivery[v]
  PROVE  \A v \in Workers, d \in Deliveries : Holds(v, d)' => Holds(v, d) /\ v # w
  BY DEF Holds

\* What moves a worker moves no other.
LEMMA Alone ==
  ASSUME TypeOK, NEW w \in Workers, NEW v \in Workers, v # w, WorkerActs(w)
  PROVE  wpc'[v] = wpc[v] /\ wdelivery'[v] = wdelivery[v]
  BY DEF TypeOK, WorkerActs, BeatActs, AlbumActs, ClaimActs, AfterClaim, TickTake, TickCommit, TickFails,
         TickSend, AlbumRead, AlbumForget, AlbumReset, AlbumFails, AlbumTake, Ingest, Deliver, Claim,
         Enqueue, Abort, Crash, EditTake, Publish, Rest, GoWorker, workerVars

LEMMA ClaimOnePlace ==
  ASSUME TypeOK, Places, NEW w \in Workers, wpc[w] \in {"idle", "ingest"}, NEW d \in Deliveries, NEW items,
         Claim(w, d, items), \A v \in Workers \ {w} : wpc'[v] = wpc[v] /\ wdelivery'[v] = wdelivery[v]
  PROVE  Places'
<1>1. CASE ledger[d] # "free"
  <2>1. wpc'[w] = "idle" /\ UNCHANGED <<ledger, targets, copies>>
    BY <1>1 DEF TypeOK, Claim, GoWorker
  <2> QED
    BY <2>1, OneMoves, StillOnePlace
<1>2. CASE ledger[d] = "free"
  <2>1. /\ wpc'[w] = "enqueue" /\ wdelivery'[w] = d /\ UNCHANGED <<targets, copies>>
        /\ ledger' = [ledger EXCEPT ![d] = "claimed"]
    BY <1>2 DEF TypeOK, Claim, GoWorker
  <2>2. ASSUME NEW e \in Deliveries, e # d PROVE OnePlace(e)'
    <3>1. OnePlace(e) /\ ledger'[e] = ledger[e]
      BY <2>1, <2>2 DEF Places, TypeOK
    <3>2. \A v \in Workers : Holds(v, e)' => Holds(v, e)
      BY <2>1, <2>2 DEF Holds
    <3> QED
      BY <2>1, <3>1, <3>2 DEF OnePlace, UnderWay
  <2>3. OnePlace(d)'
    <3>1. /\ copies[d] = 0 /\ ~UnderWay(d) /\ \A v \in Workers : ~Holds(v, d)
          /\ \A t, u \in targets : t[1] = d /\ u[1] = d => t = u
      BY <1>2 DEF Places, OnePlace
    <3>2. ledger'[d] # "free"
      BY <2>1 DEF TypeOK
    <3>3. \A v \in Workers : Holds(v, d)' => v = w
      BY <3>1 DEF Holds
    <3> QED
      BY <2>1, <3>1, <3>2, <3>3 DEF OnePlace, UnderWay
  <2> QED
    BY <2>2, <2>3 DEF Places
<1> QED
  BY <1>1, <1>2

LEMMA EnqueueOnePlace ==
  ASSUME TypeOK, Places, NEW w \in Workers, Enqueue(w)
  PROVE  Places'
<1>d. PICK d \in Deliveries : d = wdelivery[w]
  BY DEF TypeOK
<1>0. /\ Holds(w, d) /\ ledger' = ledger /\ copies' = copies
      /\ \A v \in Workers \ {w} : wpc'[v] = wpc[v] /\ wdelivery'[v] = wdelivery[v]
  BY <1>d, Alone DEF TypeOK, Enqueue, Holds, WorkerActs, AfterClaim
<1>1. CASE Breaks("broker") /\ GoWorker(w, "abort", wdelivery[w], {}) /\ targets' = targets
  <2>1. wpc'[w] = "abort" /\ wdelivery'[w] = d
    BY <1>d, <1>1 DEF GoWorker, TypeOK
  <2>2. \A v \in Workers, e \in Deliveries : Holds(v, e)' => Holds(v, e)
    BY <1>d, <1>0, <2>1 DEF Holds
  <2> QED
    BY <1>0, <1>1, <2>2, StillOnePlace
<1>2. CASE targets' = targets \cup {<<wdelivery[w], whand[w]>>} /\ Rest(w)
  <2>1. wpc'[w] = "idle"
    BY <1>2 DEF Rest, GoWorker, TypeOK
  <2>2. \A v \in Workers, e \in Deliveries : Holds(v, e)' => Holds(v, e) /\ v # w
    BY <1>0, <2>1, OneMoves
  <2>3. ASSUME NEW e \in Deliveries, e # d PROVE OnePlace(e)'
    <3>1. OnePlace(e)
      BY DEF Places
    <3>2. UnderWay(e)' <=> UnderWay(e)
      BY <1>d, <1>2, <2>3 DEF UnderWay
    <3>3. \A t \in targets' : t[1] = e => t \in targets
      BY <1>d, <1>2, <2>3
    <3> QED
      BY <1>0, <2>2, <3>1, <3>2, <3>3 DEF OnePlace
  <2>4. OnePlace(d)'
    <3>1. /\ copies[d] = 0 /\ ~UnderWay(d) /\ \A v \in Workers : Holds(v, d) => v = w
          /\ ledger[d] # "free"
      BY <1>0 DEF Places, OnePlace
    <3>2. \A t \in targets' : t[1] = d => t = <<wdelivery[w], whand[w]>>
      BY <1>2, <3>1 DEF UnderWay
    <3>3. \A v \in Workers : ~Holds(v, d)'
      BY <1>0, <2>2, <3>1
    <3> QED
      BY <1>0, <3>1, <3>2, <3>3 DEF OnePlace
  <2> QED
    BY <2>3, <2>4 DEF Places
<1> QED
  BY <1>1, <1>2 DEF Enqueue

LEMMA AbortOnePlace ==
  ASSUME TypeOK, Places, NEW w \in Workers, Abort(w)
  PROVE  Places'
<1>d. PICK d \in Deliveries : d = wdelivery[w]
  BY DEF TypeOK
<1>0. /\ Holds(w, d) /\ targets' = targets /\ copies' = copies /\ wpc'[w] = "idle"
      /\ ledger' = [ledger EXCEPT ![d] = "free"]
      /\ \A v \in Workers \ {w} : wpc'[v] = wpc[v] /\ wdelivery'[v] = wdelivery[v]
  BY <1>d, Alone DEF TypeOK, Abort, Rest, GoWorker, Holds, WorkerActs, AfterClaim
<1>1. \A v \in Workers, e \in Deliveries : Holds(v, e)' => Holds(v, e) /\ v # w
  BY <1>0, OneMoves
<1>2. ASSUME NEW e \in Deliveries, e # d PROVE OnePlace(e)'
  <2>1. OnePlace(e) /\ ledger'[e] = ledger[e]
    BY <1>0, <1>2 DEF Places, TypeOK
  <2> QED
    BY <1>0, <1>1, <2>1 DEF OnePlace, UnderWay
<1>3. OnePlace(d)'
  <2>1. /\ copies[d] = 0 /\ ~UnderWay(d) /\ \A v \in Workers : Holds(v, d) => v = w
    BY <1>0 DEF Places, OnePlace
  <2>2. \A v \in Workers : ~Holds(v, d)'
    BY <1>0, <1>1, <2>1
  <2> QED
    BY <1>0, <2>1, <2>2 DEF OnePlace, UnderWay
<1> QED
  BY <1>2, <1>3 DEF Places

LEMMA ExecuteOnePlace ==
  ASSUME TypeOK, Places, NEW t \in targets, Execute(t)
  PROVE  Places'
<1> DEFINE d == t[1]
<1>0. d \in Deliveries /\ targets' = targets \ {t} /\ UNCHANGED <<wpc, wdelivery>>
  BY DEF TypeOK, Execute, workerVars
<1>1. /\ copies[d] = 0 /\ ledger[d] # "free" /\ UnderWay(d)
      /\ \A v \in Workers : ~Holds(v, d)
      /\ \A u \in targets : u[1] = d => u = t
  BY <1>0 DEF Places, OnePlace, UnderWay
<1>2. \A v \in Workers, e \in Deliveries : Holds(v, e)' <=> Holds(v, e)
  BY <1>0 DEF Holds
<1>3. ~UnderWay(d)'
  BY <1>0, <1>1 DEF UnderWay
<1>4. \A e \in Deliveries \ {d} : ledger'[e] = ledger[e] /\ copies'[e] = copies[e]
  BY <1>0 DEF TypeOK, Execute, More
<1>5. \/ copies'[d] = 1 /\ ledger'[d] # "free"
      \/ copies'[d] = 0
  <2>1. copies[d] + 1 = 1
    BY <1>1
  <2> QED
    BY <1>0, <1>1, <2>1 DEF TypeOK, Execute, More
<1>6. ASSUME NEW e \in Deliveries, e # d PROVE OnePlace(e)'
  <2>1. OnePlace(e)
    BY DEF Places
  <2>2. UnderWay(e)' <=> UnderWay(e)
    BY <1>0, <1>6 DEF UnderWay
  <2>3. targets' \subseteq targets
    BY <1>0
  <2> QED
    BY <1>2, <1>4, <1>6, <2>1, <2>2, <2>3 DEF OnePlace
<1>7. OnePlace(d)'
  <2>1. \A v \in Workers : ~Holds(v, d)'
    BY <1>0, <1>1, <1>2
  <2>2. \A u \in targets' : u[1] # d
    BY <1>0, <1>1
  <2> QED
    BY <1>3, <1>5, <2>1, <2>2 DEF OnePlace
<1> QED
  BY <1>6, <1>7 DEF Places

LEMMA NextPlaces == TypeOK /\ Places /\ [Next]_vars => Places'
<1> SUFFICES ASSUME TypeOK, Places, [Next]_vars PROVE Places'
  OBVIOUS
<1>1. ASSUME NEW w \in Workers, WorkerActs(w) PROVE Places'
  <2>0. \A v \in Workers \ {w} : wpc'[v] = wpc[v] /\ wdelivery'[v] = wdelivery[v]
    BY <1>1, Alone
  <2>1. CASE Enqueue(w)
    BY <2>1, EnqueueOnePlace
  <2>2. CASE Abort(w)
    BY <2>2, AbortOnePlace
  <2>3. CASE ClaimActs(w)
    <3>1. CASE Ingest(w)
      <4>1. wpc[w] = "ingest" /\ wdelivery[w] \in Deliveries /\ Claim(w, wdelivery[w], whand[w])
        BY <3>1 DEF Ingest, TypeOK
      <4> QED
        BY <2>0, <4>1, ClaimOnePlace
    <3>2. ASSUME NEW d \in Deliveries, Deliver(w, d) PROVE Places'
      <4>1. wpc[w] = "idle" /\ Claim(w, d, {d} \cap Items)
        BY <3>2 DEF Deliver
      <4> QED
        BY <2>0, <4>1, ClaimOnePlace
    <3> QED
      BY <2>3, <3>1, <3>2 DEF ClaimActs
  <2>4. CASE BeatActs(w) \/ AlbumActs(w) \/ Crash(w) \/ \E i \in Items : EditTake(w, i)
    <3>1. UNCHANGED <<ledger, targets, copies>>
      BY <2>4 DEF BeatActs, AlbumActs, TickTake, TickCommit, TickFails, TickSend, AlbumRead, AlbumForget,
                  AlbumReset, AlbumFails, AlbumTake, Crash, EditTake, ledgerVars
    <3>2. \/ wpc'[w] \notin {"enqueue", "abort"}
          \/ UNCHANGED <<wpc, wdelivery>>
      BY <2>4 DEF TypeOK, BeatActs, AlbumActs, TickTake, TickCommit, TickFails, TickSend, AlbumRead,
                  AlbumForget, AlbumReset, AlbumFails, AlbumTake, Crash, EditTake, Publish, Rest, GoWorker
    <3>3. \A v \in Workers, d \in Deliveries : Holds(v, d)' => Holds(v, d)
      BY <2>0, <3>2, OneMoves DEF Holds
    <3> QED
      BY <3>1, <3>3, StillOnePlace
  <2> QED
    BY <1>1, <2>1, <2>2, <2>3, <2>4 DEF WorkerActs, AfterClaim
<1>2. ASSUME NEW t \in targets, Execute(t) PROVE Places'
  BY <1>2, ExecuteOnePlace
<1>3. CASE TimePasses \/ BotActs \/ (\E e \in Editors : EditorActs(e)) \/ UNCHANGED vars
           \/ \E d \in Deliveries : DeliverLost(d)
  <2>1. UNCHANGED <<ledger, targets, copies, wpc, wdelivery>>
    BY <1>3 DEF TimePasses, BotActs, BotPush, BotSend, BotSingle, BufferExpires, BotIncr, BotEdit,
                EditorActs, EditorWrite, EditorRestore, EditorSendFails, EditorDies, EditorSend, Ask,
                DeliverLost, ledgerVars, workerVars, vars
  <2> QED
    BY <2>1, StillOnePlace DEF Holds
<1> QED
  BY <1>1, <1>2, <1>3, NextCases

-----------------------------------------------------------------------------
(* Theorems *)

LEMMA Invariance == Spec => []IInv
<1>1. Init => IInv
  <2> SUFFICES ASSUME Init PROVE Places
    BY InitTypeOK DEF IInv
  <2>1. 0 <= 1
    OBVIOUS
  <2>2. \A d \in Deliveries : copies[d] = 0 /\ ~UnderWay(d) /\ \A w \in Workers : ~Holds(w, d)
    BY DEF Init, UnderWay, Holds
  <2> QED
    BY <2>1, <2>2 DEF Places, OnePlace, UnderWay
<1>2. IInv /\ [Next]_vars => IInv'
  BY NextTypeOK, NextPlaces DEF IInv
<1> QED
  BY <1>1, <1>2, PTL DEF Spec

\* Every reachable state of the post, the queue, the album's buffer, the workers
\* and the requests is well typed: the bot never buffers what is no item.
THEOREM TypeCorrect == Spec => []TypeOK
<1>1. IInv => TypeOK
  BY DEF IInv
<1> QED
  BY <1>1, Invariance, PTL

\* claim_published_post and the release after a failed dispatch let a channel get a
\* post, an album or an item once, however often ticks, editors, the bot and edits
\* have put it in the queue and wherever workers die.
THEOREM DeliveredOnce == Spec => []OncePerChannel
<1>1. IInv => OncePerChannel
  BY DEF IInv, Places, OnePlace, OncePerChannel
<1> QED
  BY <1>1, Invariance, PTL

=============================================================================

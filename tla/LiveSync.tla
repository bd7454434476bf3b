------------------------------- MODULE LiveSync -------------------------------
(***************************************************************************)
(* What feeds the live-sync queue, and what the queue does with it: a post *)
(* of the editor, which people publish, schedule, change and delete while  *)
(* the beat publishes it when it is due, and an album of Telegram, whose   *)
(* items are buffered in Redis until no further one arrives.  Both end as  *)
(* messages for live-sync workers, who claim a delivery in published_posts *)
(* before they make a publication target of it.                            *)
(*                                                                         *)
(* PublicationTargets has what becomes of a target; here it is delivered   *)
(* or fails for good, in one step.  The destination's messages can be      *)
(* edited (VK's delete-and-publish-again is left out).                     *)
(*                                                                         *)
(* A worker's step is one transaction, Redis command or broker call.       *)
(***************************************************************************)
EXTENDS Naturals, FiniteSets

CONSTANTS
  Channels,   \* targets of the active bridges of the post's source channel
  Items,      \* messages of the album
  Album,      \* the delivery "mg:<media_group_id>"
  Workers,    \* Celery workers
  Editors,    \* requests to the content API
  NoWorker,
  MaxAsks,    \* requests that are made in all
  Faults,     \* what may break: "crash", "broker", "redis", "backlog"
  MaxFaults   \* how often

ASSUME LimitsAssumption == MaxAsks \in Nat /\ MaxFaults \in Nat
ASSUME NamesAssumption ==
  Album \notin Channels \cup Items /\ Channels \cap Items = {} /\ NoWorker \notin Workers

\* (source_post_id, target_channel) of published_posts.
Deliveries == Channels \cup {Album} \cup Items

VARIABLES
  row,        \* the content item
  lock,       \* the worker that holds its row lock
  queue,      \* messages of publish_live_sync_post
  edits,      \* messages of edit_live_sync_post, by item
  ledger,     \* published_posts: its row is free, claimed, or has its max_message_id
  targets,    \* publication targets that were made and are not through
  copies,     \* messages at the destination
  carried,    \* items whose content reached it
  buf, gen,   \* the album's buffer in Redis, and its generation (0: no key)
  tasks,      \* delayed publish_live_sync_media_group tasks, by generation
  fresh,      \* items Telegram has not sent yet
  bpc, bitem, bgen,             \* the bot: step, item, generation it drew
  wpc, wdelivery, whand, wsent, \* workers: step, delivery, items, channels sent
  epc, eask, eload, esent,      \* requests: step, what is asked, the row as read
  asks, faults                  \* counters

contentVars == <<row, lock>>
ledgerVars == <<queue, edits, ledger, targets, copies, carried>>
albumVars == <<buf, gen, tasks, fresh, bpc, bitem, bgen>>
workerVars == <<wpc, wdelivery, whand, wsent>>
editorVars == <<epc, eask, eload, esent, asks>>
vars == <<row, lock, queue, edits, ledger, targets, copies, carried, buf, gen, tasks,
          fresh, bpc, bitem, bgen, wpc, wdelivery, whand, wsent,
          epc, eask, eload, esent, asks, faults>>

\* scheduled_publish_at lies ahead, or is due; stamped: it has a published_at.
Rows == [status : {"absent", "draft", "published", "deleted"},
         sched : {"none", "later", "due"}, stamped : BOOLEAN]
NoRow == [status |-> "absent", sched |-> "none", stamped |-> FALSE]
Gone == [NoRow EXCEPT !.status = "deleted"]

Asks == {"new draft", "new scheduled", "new published",
         "publish", "unpublish", "schedule", "unschedule", "delete"}

TypeOK ==
  /\ row \in Rows
  /\ lock \in Workers \cup {NoWorker}
  /\ queue \in [Deliveries -> Nat] /\ edits \in [Items -> {"none", "sent", "done"}]
  /\ ledger \in [Deliveries -> {"free", "claimed", "tracked"}]
  /\ targets \subseteq (Deliveries \X SUBSET Items)
  /\ copies \in [Deliveries -> Nat]
  /\ carried \subseteq Items
  /\ buf \subseteq Items /\ gen \in Nat /\ fresh \subseteq Items
  /\ tasks \in [1..Cardinality(Items) -> Nat]
  /\ bpc \in {"idle", "push", "send", "single"} /\ bgen \in Nat
  /\ bpc # "idle" => bitem \in Items
  /\ wpc \in [Workers -> {"idle", "fanout", "read", "forget", "reset",
                          "ingest", "enqueue", "abort"}]
  /\ wdelivery \in [Workers -> Deliveries]
  /\ whand \in [Workers -> SUBSET Items]
  /\ wsent \in [Workers -> SUBSET Channels]
  /\ epc \in [Editors -> {"idle", "write", "send", "restore"}]
  /\ eask \in [Editors -> Asks] /\ eload \in [Editors -> Rows]
  /\ esent \in [Editors -> SUBSET Channels]
  /\ asks \in 0..MaxAsks /\ faults \in 0..MaxFaults

Init ==
  /\ row = NoRow /\ lock = NoWorker
  /\ queue = [d \in Deliveries |-> 0] /\ edits = [i \in Items |-> "none"]
  /\ ledger = [d \in Deliveries |-> "free"]
  /\ targets = {} /\ copies = [d \in Deliveries |-> 0] /\ carried = {}
  /\ buf = {} /\ gen = 0 /\ fresh \in SUBSET Items
  /\ tasks = [g \in 1..Cardinality(Items) |-> 0]
  /\ bpc = "idle" /\ bitem = Album /\ bgen = 0
  /\ wpc = [w \in Workers |-> "idle"]
  /\ wdelivery = [w \in Workers |-> Album]
  /\ whand = [w \in Workers |-> {}]
  /\ wsent = [w \in Workers |-> {}]
  /\ epc = [e \in Editors |-> "idle"]
  /\ eask = [e \in Editors |-> "new draft"]
  /\ eload = [e \in Editors |-> NoRow]
  /\ esent = [e \in Editors |-> {}]
  /\ asks \in 0..MaxAsks /\ faults = 0

-----------------------------------------------------------------------------
(* Helpers *)

Breaks(kind) ==
  /\ kind \in Faults /\ faults < MaxFaults
  /\ faults' = faults + 1

More(bag, x) == [bag EXCEPT ![x] = @ + 1]
Less(bag, x) == [bag EXCEPT ![x] = @ - 1]

GoWorker(w, step, d, items) ==
  /\ wpc' = [wpc EXCEPT ![w] = step]
  /\ wdelivery' = [wdelivery EXCEPT ![w] = d]
  /\ whand' = [whand EXCEPT ![w] = items]

Rest(w) == GoWorker(w, "idle", Album, {}) /\ wsent' = [wsent EXCEPT ![w] = {}]

GoEditor(e, step) ==
  /\ epc' = [epc EXCEPT ![e] = step]
  /\ UNCHANGED <<eask, eload, esent, asks>>

EndEditor(e) ==
  /\ epc' = [epc EXCEPT ![e] = "idle"]
  /\ eask' = [eask EXCEPT ![e] = "new draft"]
  /\ eload' = [eload EXCEPT ![e] = NoRow]
  /\ esent' = [esent EXCEPT ![e] = {}]
  /\ UNCHANGED asks

-----------------------------------------------------------------------------
(* The content API *)

\* A request reads the row; nothing is locked.
Ask(e, ask) ==
  /\ epc[e] = "idle" /\ asks < MaxAsks
  /\ row # Gone /\ (row = NoRow) = (ask \in {"new draft", "new scheduled", "new published"})
  /\ epc' = [epc EXCEPT ![e] = "write"]
  /\ eask' = [eask EXCEPT ![e] = ask]
  /\ eload' = [eload EXCEPT ![e] = row]
  /\ asks' = asks + 1
  /\ UNCHANGED <<esent, contentVars, ledgerVars, albumVars, workerVars, faults>>

\* "scheduled_publish_at requires status draft", of the row as it was read.
Accepted(ask, load) == ask = "schedule" => load.status = "draft"

\* What the request makes of the row as it was read.
Asked(ask, load) ==
  CASE ask = "new draft" -> [NoRow EXCEPT !.status = "draft"]
    [] ask = "new scheduled" -> [NoRow EXCEPT !.status = "draft", !.sched = "later"]
    [] ask = "new published" -> [NoRow EXCEPT !.status = "published", !.stamped = TRUE]
    [] ask = "publish" -> [status |-> "published", sched |-> "none", stamped |-> TRUE]
    [] ask = "unpublish" -> [load EXCEPT !.status = "draft"]
    [] ask = "schedule" -> [load EXCEPT !.sched = "later"]
    [] ask = "unschedule" -> [load EXCEPT !.sched = "none"]
    [] ask = "delete" -> Gone

\* The UPDATE sets the columns that differ from what was read: status, and
\* body_structured_json, which holds the schedule and published_at.
Merged(new, load) ==
  [status |-> IF new.status = load.status THEN row.status ELSE new.status,
   sched |-> IF <<new.sched, new.stamped>> = <<load.sched, load.stamped>>
             THEN row.sched ELSE new.sched,
   stamped |-> IF <<new.sched, new.stamped>> = <<load.sched, load.stamped>>
               THEN row.stamped ELSE new.stamped]

\* The write waits for the row lock.  A row that was deleted ends the request.
EditorWrite(e) ==
  LET ask == eask[e] IN
  /\ epc[e] = "write" /\ lock = NoWorker
  /\ IF Accepted(ask, eload[e]) /\ row # Gone /\ (row = NoRow) = (eload[e] = NoRow)
     THEN /\ row' = Merged(Asked(ask, eload[e]), eload[e])
          /\ IF ask \in {"publish", "new published"} /\ Channels # {}
             THEN GoEditor(e, "send") ELSE EndEditor(e)
     ELSE EndEditor(e) /\ UNCHANGED row
  /\ UNCHANGED <<lock, ledgerVars, albumVars, workerVars, faults>>

\* The post is published and committed; its messages follow.
EditorSend(e, c) ==
  /\ epc[e] = "send" /\ c \notin esent[e]
  /\ queue' = More(queue, c)
  /\ IF esent[e] \cup {c} = Channels
     THEN EndEditor(e)
     ELSE /\ esent' = [esent EXCEPT ![e] = @ \cup {c}]
          /\ UNCHANGED <<epc, eask, eload, asks>>
  /\ UNCHANGED <<edits, ledger, targets, copies, carried,
                 contentVars, albumVars, workerVars, faults>>

\* No message at all: the publication is taken back.  Some: a warning.
EditorSendFails(e) ==
  /\ epc[e] = "send" /\ Breaks("broker")
  /\ IF esent[e] = {} THEN GoEditor(e, "restore") ELSE EndEditor(e)
  /\ UNCHANGED <<contentVars, ledgerVars, albumVars, workerVars>>

\* A new post becomes a draft; one that was there gets the columns it was read
\* with, whatever it has become since.
EditorRestore(e) ==
  /\ epc[e] = "restore" /\ lock = NoWorker
  /\ row' = IF row = Gone THEN row
            ELSE IF eask[e] = "new published" THEN [row EXCEPT !.status = "draft", !.stamped = FALSE]
            ELSE eload[e]
  /\ EndEditor(e)
  /\ UNCHANGED <<lock, ledgerVars, albumVars, workerVars, faults>>

EditorDies(e) ==
  /\ epc[e] # "idle" /\ Breaks("crash")
  /\ EndEditor(e)
  /\ UNCHANGED <<contentVars, ledgerVars, albumVars, workerVars>>

-----------------------------------------------------------------------------
(* The beat's task publishes a draft that is due *)

TimePasses ==
  /\ row.sched = "later" /\ lock = NoWorker
  /\ row' = [row EXCEPT !.sched = "due"]
  /\ UNCHANGED <<lock, ledgerVars, albumVars, workerVars, editorVars, faults>>

\* FOR UPDATE SKIP LOCKED; status and time are looked at under the lock.
TickTake(w) ==
  /\ wpc[w] = "idle" /\ lock = NoWorker
  /\ row.status = "draft" /\ row.sched = "due"
  /\ lock' = w
  /\ GoWorker(w, "fanout", Album, {})
  /\ UNCHANGED <<wsent, row, ledgerVars, albumVars, editorVars, faults>>

\* The messages go out before the commit.
TickSend(w, c) ==
  /\ wpc[w] = "fanout" /\ c \notin wsent[w]
  /\ queue' = More(queue, c)
  /\ wsent' = [wsent EXCEPT ![w] = @ \cup {c}]
  /\ UNCHANGED <<wpc, wdelivery, whand, edits, ledger, targets, copies, carried,
                 contentVars, albumVars, editorVars, faults>>

Publish(w) ==
  /\ row' = [row EXCEPT !.status = "published", !.sched = "none", !.stamped = TRUE]
  /\ lock' = NoWorker
  /\ Rest(w)

TickCommit(w) ==
  /\ wpc[w] = "fanout" /\ wsent[w] = Channels
  /\ Publish(w)
  /\ UNCHANGED <<ledgerVars, albumVars, editorVars, faults>>

\* Variant: the row stays locked when nothing could be sent.
TickFailsLocked(w) ==
  /\ wpc[w] = "fanout" /\ wsent[w] # Channels /\ Breaks("broker")
  /\ IF wsent[w] = {} THEN Rest(w) /\ UNCHANGED contentVars ELSE Publish(w)
  /\ UNCHANGED <<ledgerVars, albumVars, editorVars>>

\* No message at all: rolled back, still due.  Some: committed as it is.
TickFails(w) ==
  /\ wpc[w] = "fanout" /\ wsent[w] # Channels /\ Breaks("broker")
  /\ IF wsent[w] = {} THEN Rest(w) /\ lock' = NoWorker /\ UNCHANGED row ELSE Publish(w)
  /\ UNCHANGED <<ledgerVars, albumVars, editorVars>>

-----------------------------------------------------------------------------
(* The bot buffers the items of an album, one update at a time *)

GoBot(step) == bpc' = step /\ UNCHANGED <<bitem, bgen>>

BotIncr(i) ==
  /\ bpc = "idle" /\ i \in fresh
  /\ fresh' = fresh \ {i}
  /\ bitem' = i
  /\ \/ /\ bpc' = "push" /\ gen' = gen + 1 /\ bgen' = gen + 1
        /\ UNCHANGED faults
     \/ /\ Breaks("redis")
        /\ gen' \in {gen, gen + 1}
        /\ bpc' = "single" /\ UNCHANGED bgen
  /\ UNCHANGED <<buf, tasks, contentVars, ledgerVars, workerVars, editorVars>>

\* RPUSH, EXPIRE: the item may be in the buffer when the call fails.
BotPush ==
  /\ bpc = "push"
  /\ \/ buf' = buf \cup {bitem} /\ GoBot("send") /\ UNCHANGED faults
     \/ buf' \in {buf, buf \cup {bitem}} /\ Breaks("redis") /\ GoBot("single")
  /\ UNCHANGED <<gen, tasks, fresh, contentVars, ledgerVars, workerVars, editorVars>>

BotSend ==
  /\ bpc = "send"
  /\ \/ tasks' = More(tasks, bgen) /\ GoBot("idle") /\ UNCHANGED faults
     \/ Breaks("broker") /\ GoBot("single") /\ UNCHANGED tasks
  /\ UNCHANGED <<buf, gen, fresh, contentVars, ledgerVars, workerVars, editorVars>>

\* The item is published as a post of its own.
BotSingle ==
  /\ bpc = "single"
  /\ \/ queue' = More(queue, bitem) /\ UNCHANGED faults
     \/ Breaks("broker") /\ UNCHANGED queue
  /\ GoBot("idle")
  /\ UNCHANGED <<edits, ledger, targets, copies, carried, buf, gen, tasks, fresh,
                 contentVars, workerVars, editorVars>>

\* The person edits an item that the bot has dealt with; once each.
BotEdit(i) ==
  /\ i \notin fresh /\ bpc = "idle" /\ edits[i] = "none"
  /\ edits' = [edits EXCEPT ![i] = "sent"]
  /\ UNCHANGED <<queue, ledger, targets, copies, carried,
                 contentVars, albumVars, workerVars, editorVars, faults>>

\* The buffer's 30 seconds are over before a worker got to it.
BufferExpires ==
  /\ gen > 0 /\ bpc = "idle" /\ Breaks("backlog")
  /\ buf' = {} /\ gen' = 0
  /\ UNCHANGED <<tasks, fresh, bpc, bitem, bgen, contentVars, ledgerVars, workerVars, editorVars>>

-----------------------------------------------------------------------------
(* Live-sync workers: an album's task *)

\* Variant: the generations are compared the wrong way round.
AlbumTakeSuperseded(w, g) ==
  /\ wpc[w] = "idle" /\ tasks[g] > 0
  /\ tasks' = Less(tasks, g)
  /\ IF gen > g THEN GoWorker(w, "read", Album, {}) ELSE UNCHANGED <<wpc, wdelivery, whand>>
  /\ UNCHANGED <<wsent, buf, gen, fresh, bpc, bitem, bgen,
                 contentVars, ledgerVars, editorVars, faults>>

\* Superseded by the task of a later item, or the buffer is gone.
AlbumTake(w, g) ==
  /\ wpc[w] = "idle" /\ tasks[g] > 0
  /\ tasks' = Less(tasks, g)
  /\ IF gen = g THEN GoWorker(w, "read", Album, {}) ELSE UNCHANGED <<wpc, wdelivery, whand>>
  /\ UNCHANGED <<wsent, buf, gen, fresh, bpc, bitem, bgen,
                 contentVars, ledgerVars, editorVars, faults>>

\* LRANGE, DELETE items, DELETE generation: three commands.
AlbumRead(w) ==
  /\ wpc[w] = "read"
  /\ GoWorker(w, "forget", Album, buf)
  /\ UNCHANGED <<wsent, contentVars, ledgerVars, albumVars, editorVars, faults>>

AlbumForget(w) ==
  /\ wpc[w] = "forget"
  /\ buf' = {}
  /\ GoWorker(w, "reset", Album, whand[w])
  /\ UNCHANGED <<wsent, gen, tasks, fresh, bpc, bitem, bgen,
                 contentVars, ledgerVars, editorVars, faults>>

AlbumReset(w) ==
  /\ wpc[w] = "reset"
  /\ gen' = 0
  /\ IF whand[w] = {} THEN GoWorker(w, "idle", Album, {})
     ELSE GoWorker(w, "ingest", Album, whand[w])
  /\ UNCHANGED <<wsent, buf, tasks, fresh, bpc, bitem, bgen,
                 contentVars, ledgerVars, editorVars, faults>>

\* Redis fails on the way: the task takes the album for empty.
AlbumFails(w) ==
  /\ wpc[w] \in {"read", "forget", "reset"} /\ Breaks("redis")
  /\ Rest(w)
  /\ UNCHANGED <<contentVars, ledgerVars, albumVars, editorVars>>

-----------------------------------------------------------------------------
(* Live-sync workers: publish and edit *)

\* Variant: the post is not looked up in published_posts.
ClaimAgain(w, d, items) ==
  /\ ledger' = [ledger EXCEPT ![d] = "claimed"]
  /\ GoWorker(w, "enqueue", d, items)
  /\ UNCHANGED <<wsent, edits, targets, copies, carried,
                 contentVars, albumVars, editorVars, faults>>

\* Claim and target in one transaction, or skipped.
Claim(w, d, items) ==
  /\ IF ledger[d] = "free"
     THEN /\ ledger' = [ledger EXCEPT ![d] = "claimed"]
          /\ GoWorker(w, "enqueue", d, items)
     ELSE GoWorker(w, "idle", Album, {}) /\ UNCHANGED ledger
  /\ UNCHANGED <<wsent, edits, targets, copies, carried,
                 contentVars, albumVars, editorVars, faults>>

Deliver(w, d) ==
  /\ wpc[w] = "idle" /\ queue[d] > 0
  /\ queue' = Less(queue, d)
  /\ Claim(w, d, {d} \cap Items)

\* A worker dies with the message, or the ingest is refused.
DeliverLost(d) ==
  /\ queue[d] > 0 /\ Breaks("crash")
  /\ queue' = Less(queue, d)
  /\ UNCHANGED <<edits, ledger, targets, copies, carried,
                 contentVars, albumVars, workerVars, editorVars>>

\* The items of an album, or the edited one that core did not know.
Ingest(w) ==
  /\ wpc[w] = "ingest"
  /\ Claim(w, wdelivery[w], whand[w]) /\ UNCHANGED queue

\* An edit of an item is one of its album.  Not known (404): it is published.
\* No message to edit yet (409): nothing.  Or the destination's edit call.
EditTake(w, i) ==
  /\ wpc[w] = "idle" /\ edits[i] = "sent"
  /\ edits' = [edits EXCEPT ![i] = "done"]
  /\ IF ledger[Album] = "free"
     THEN GoWorker(w, "ingest", Album, {i})
     ELSE UNCHANGED <<wpc, wdelivery, whand>>
  /\ carried' \in IF ledger[Album] = "tracked" THEN {carried, carried \cup {i}} ELSE {carried}
  /\ UNCHANGED <<wsent, queue, ledger, targets, copies,
                 contentVars, albumVars, editorVars, faults>>

\* A broker that refuses the message has not taken it.
Enqueue(w) ==
  /\ wpc[w] = "enqueue"
  /\ \/ /\ targets' = targets \cup {<<wdelivery[w], whand[w]>>}
        /\ Rest(w) /\ UNCHANGED faults
     \/ /\ Breaks("broker")
        /\ GoWorker(w, "abort", wdelivery[w], {})
        /\ UNCHANGED <<wsent, targets>>
  /\ UNCHANGED <<queue, edits, ledger, copies, carried, contentVars, albumVars, editorVars>>

\* The claim is released; the target stays behind, pending.
Abort(w) ==
  /\ wpc[w] = "abort"
  /\ ledger' = [ledger EXCEPT ![wdelivery[w]] = "free"]
  /\ Rest(w)
  /\ UNCHANGED <<queue, edits, targets, copies, carried,
                 contentVars, albumVars, editorVars, faults>>

\* A refused ingest looks the same: nothing is kept, the message is gone.
Crash(w) ==
  /\ wpc[w] # "idle" /\ Breaks("crash")
  /\ Rest(w)
  /\ lock' = IF lock = w THEN NoWorker ELSE lock
  /\ UNCHANGED <<row, ledgerVars, albumVars, editorVars>>

\* PublicationTargets: delivered and tracked, or failed for good and released.
Execute(t) ==
  LET d == t[1] IN
  /\ t \in targets
  /\ targets' = targets \ {t}
  /\ \/ /\ copies' = More(copies, d)
        /\ carried' = carried \cup t[2]
        /\ ledger' = [ledger EXCEPT ![d] = IF @ = "free" THEN "free" ELSE "tracked"]
     \/ /\ ledger' = [ledger EXCEPT ![d] = "free"]
        /\ UNCHANGED <<copies, carried>>
  /\ UNCHANGED <<queue, edits, contentVars, albumVars, workerVars, editorVars, faults>>

-----------------------------------------------------------------------------
EditorStep(e) ==
  \/ EditorWrite(e) \/ EditorRestore(e) \/ \E c \in Channels : EditorSend(e, c)

WorkerStep(w) ==
  \/ TickCommit(w) \/ \E c \in Channels : TickSend(w, c)
  \/ AlbumRead(w) \/ AlbumForget(w) \/ AlbumReset(w)
  \/ Ingest(w) \/ Enqueue(w) \/ Abort(w)

Take(w) ==
  \/ \E g \in DOMAIN tasks : AlbumTake(w, g)
  \/ \E d \in Deliveries : Deliver(w, d)
  \/ \E i \in Items : EditTake(w, i)

\* What goes on by itself.  All of it ends - asks, items and faults are bounded -
\* so that it takes no fairness of its parts; requests may stall.
Goes ==
  \/ BotPush \/ BotSend \/ BotSingle
  \/ \E w \in Workers : TickTake(w) \/ Take(w) \/ WorkerStep(w)

Next ==
  \/ TimePasses \/ BufferExpires \/ Goes
  \/ \E e \in Editors : EditorStep(e) \/ EditorSendFails(e) \/ EditorDies(e)
  \/ \E e \in Editors, ask \in Asks : Ask(e, ask)
  \/ \E i \in Items : BotIncr(i) \/ BotEdit(i)
  \/ \E w \in Workers : TickFails(w) \/ AlbumFails(w) \/ Crash(w)
  \/ \E d \in Deliveries : DeliverLost(d)
  \/ \E t \in targets : Execute(t)

Spec == Init /\ [][Next]_vars /\ WF_vars(Goes)

-----------------------------------------------------------------------------
(* Properties *)

\* However often a post, an album or an item is put in the queue - by a tick that
\* was rolled back and the next one, by the editor and the beat, by an edit that
\* came before its post - the destination gets it once.
OncePerChannel == \A d \in Deliveries : copies[d] <= 1

\* A draft that is due does not stay one: a tick that failed is made up for.
DueSettles ==
  row.status = "draft" /\ row.sched = "due" ~> row.status # "draft" \/ row.sched # "due"

\* As long as nothing breaks, an album of which an item was buffered gets to be
\* claimed: no interleaving of items, generations and tasks leaves all of it behind.
AlbumIsClaimed == <>(buf # {}) => <>(ledger[Album] # "free" \/ faults > 0)

=============================================================================

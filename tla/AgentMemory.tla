----------------------------- MODULE AgentMemory -----------------------------
(***************************************************************************)
(* The vectors by which agents find a tenant's posts and candidates: one   *)
(* row for each of them, written by tasks that call the embedding provider *)
(* for every text and commit once at the end, beside people who write,     *)
(* approve and delete, and beside the beat that prunes.                    *)
(*                                                                         *)
(* The database is PostgreSQL with pgvector: a transaction reads what is   *)
(* committed, the row it wrote is locked until it ends.  What a task saw   *)
(* of a post is what it read when it started.                              *)
(*                                                                         *)
(* Texts are numbered as they are written.  The hash of a text is the      *)
(* sorted set of its words, of which the row keeps the first 128           *)
(* characters: texts may share a hash, and what is kept of a long one is   *)
(* not the hash of its text.  Left out: posts without a text, which are     *)
(* skipped, and posts beyond the limit of the drift task, which looks at   *)
(* the newest 100 only.                                                    *)
(***************************************************************************)
EXTENDS Naturals, Sequences, FiniteSets

CONSTANTS
  Items,        \* content_items of the tenant
  Candidates,   \* content_candidates of the tenant
  Channels,     \* its channels
  Workers,      \* Celery workers, or requests that are served at once
  NoRow,        \* no row in content_embeddings
  MaxTexts,     \* bound: texts that are ever written
  MaxModels,    \* bound: embedding models of the default provider
  MaxFaults     \* bound: failed calls, unusable answers and deaths

Entities == Items \cup Candidates
Texts == 1..MaxTexts

\* vector: the text that it is a vector of, 0 for a list without numbers.
Rows == [channel : Channels, model : 1..MaxModels, hash : 0..MaxTexts, vector : 0..MaxTexts]

\* full: the first text with the same words.  kept: what a row keeps of their
\* list, as the text whose list that is, 0 when it is no text's.
Marks ==
  {f \in [Texts -> [full : Texts, kept : 0..MaxTexts]] :
     /\ \A t \in Texts : f[t].full <= t /\ f[f[t].full] = f[t]
     /\ \A t \in Texts : LET k == f[t].kept IN k # 0 => f[k] = [full |-> k, kept |-> k]}

\* What an instance has to give.
ConstantsOK ==
  /\ Items \cap Candidates = {} /\ IsFiniteSet(Items) /\ Channels # {}
  /\ {MaxTexts, MaxFaults} \subseteq Nat /\ MaxModels \in Nat \ {0}
  /\ NoRow \notin Rows

VARIABLES
  mark,     \* what texts have in common, chosen for ever
  text,     \* the text of a post, 0 without the post
  place,    \* of a post by updated_at, the newest in place 0
  draft,    \* the text of a candidate, 0 without the candidate
  cstatus,  \* whether it is decided on: "pending", "resolved", "old" (retention passed)
  gone,     \* deleted posts and candidates
  texts,    \* how many texts were written
  model,    \* the embedding model of the default provider
  row,      \* content_embeddings, by entity
  task,     \* what a worker is at
  faults

contentVars == <<mark, text, place, draft, cstatus, gone, texts, model>>
vars == <<mark, text, place, draft, cstatus, gone, texts, model, row, task, faults>>

Places == 0..(Cardinality(Items) - 1)

Nothing == [e \in Entities |-> NoRow]

\* What a worker is at:
\*   rotates   rotation, or reindex
\*   channel   the channel of the rows it adds
\*   model     the embedding model it resolved
\*   todo      the posts it still has to embed, in order and as it has read them
\*   pending   the rows it has written and not committed
\*   vector, seen   of the post in its hands: the vector, whether it has a row
\*   prune     the channels whose rows it prunes
\*   maintains, rows, bad   maintenance; the rows it has read, those without numbers
Tasks ==
  [pc : {"idle", "embed", "store", "wait", "rows", "ids"},
   rotates : BOOLEAN, channel : Channels, model : 1..MaxModels,
   todo : Seq([item : Items, text : Texts]), pending : [Entities -> Rows \cup {NoRow}],
   vector : 0..MaxTexts, seen : BOOLEAN, prune : SUBSET Channels,
   maintains : BOOLEAN, rows : SUBSET Entities, bad : SUBSET Entities]

Idle ==
  [pc |-> "idle", rotates |-> FALSE, channel |-> CHOOSE h \in Channels : TRUE, model |-> 1,
   todo |-> <<>>, pending |-> Nothing, vector |-> 0, seen |-> FALSE, prune |-> {},
   maintains |-> FALSE, rows |-> {}, bad |-> {}]

Wrote(w, e) == task[w].pending[e] # NoRow
Locked(w, e) == \E v \in Workers \ {w} : Wrote(v, e)

TypeOK ==
  /\ mark \in [Texts -> [full : Texts, kept : 0..MaxTexts]]
  /\ text \in [Items -> 0..MaxTexts] /\ place \in [Items -> Places] /\ draft \in [Candidates -> 0..MaxTexts]
  /\ cstatus \in [Candidates -> {"pending", "resolved", "old"}]
  /\ gone \subseteq Entities
  /\ texts \in 0..MaxTexts /\ model \in 1..MaxModels /\ faults \in 0..MaxFaults
  /\ row \in [Entities -> Rows \cup {NoRow}]
  /\ task \in [Workers -> Tasks]

Init ==
  /\ mark \in Marks
  /\ text = [c \in Items |-> 0] /\ draft = [d \in Candidates |-> 0]
  /\ place \in [Items -> Places] /\ \A c, x \in Items : place[c] = place[x] => c = x
  /\ cstatus = [d \in Candidates |-> "pending"]
  /\ gone = {} /\ texts = 0 /\ model = 1 /\ faults = 0
  /\ row = [e \in Entities |-> NoRow]
  /\ task = [w \in Workers |-> Idle]

\* fingerprint_text, and what the row keeps of it.
Words(t) == mark[t].full
Hash(t) == mark[t].kept

Fault == faults < MaxFaults /\ faults' = faults + 1

Exists(e) == e \notin gone /\ (IF e \in Items THEN text[e] # 0 ELSE draft[e] # 0)
Live == {c \in Items : Exists(c)}

-----------------------------------------------------------------------------
(* People, the agent's runs and what is configured *)

Touch(c) ==
  place' = [x \in Items |-> IF x = c THEN 0 ELSE IF place[x] < place[c] THEN place[x] + 1 ELSE place[x]]

\* A post is written or rewritten.
Edit(c) ==
  /\ c \notin gone /\ texts < MaxTexts
  /\ Touch(c)
  /\ texts' = texts + 1
  /\ text' = [text EXCEPT ![c] = texts + 1]
  /\ UNCHANGED <<mark, draft, cstatus, gone, model, row, task, faults>>

DeletePost(c) ==
  /\ Exists(c)
  /\ gone' = gone \cup {c}
  /\ UNCHANGED <<mark, text, place, draft, cstatus, texts, model, row, task, faults>>

\* A run commits a candidate and its vector.
SaveCandidate(d, h) ==
  /\ d \notin gone /\ draft[d] = 0 /\ texts < MaxTexts
  /\ texts' = texts + 1
  /\ draft' = [draft EXCEPT ![d] = texts + 1]
  /\ row' = [row EXCEPT ![d] = [channel |-> h, model |-> model, hash |-> Hash(texts + 1),
                                vector |-> texts + 1]]
  /\ UNCHANGED <<mark, text, place, cstatus, gone, model, task, faults>>

\* An approval turns the candidate into a post, new or not, and hands its vector
\* on with the hash of the candidate's text, which may be the post's.
Approve(d, c) ==
  /\ Exists(d) /\ cstatus[d] = "pending" /\ c \notin gone
  /\ \A w \in Workers : ~Wrote(w, c)
  /\ cstatus' = [cstatus EXCEPT ![d] = "resolved"]
  /\ \/ text' = [text EXCEPT ![c] = draft[d]] /\ UNCHANGED texts
     \/ texts < MaxTexts /\ texts' = texts + 1 /\ text' = [text EXCEPT ![c] = texts + 1]
  /\ Touch(c)
  /\ row' = IF row[d] = NoRow THEN row
            ELSE [row EXCEPT ![c] = IF row[c] = NoRow THEN row[d]
                                    ELSE [row[d] EXCEPT !.channel = row[c].channel]]
  /\ UNCHANGED <<mark, draft, gone, model, task, faults>>

Reject(d) ==
  /\ Exists(d) /\ cstatus[d] = "pending"
  /\ cstatus' = [cstatus EXCEPT ![d] = "resolved"]
  /\ UNCHANGED <<mark, text, place, draft, gone, texts, model, row, task, faults>>

RetentionPasses(d) ==
  /\ Exists(d) /\ cstatus[d] = "resolved"
  /\ cstatus' = [cstatus EXCEPT ![d] = "old"]
  /\ UNCHANGED <<mark, text, place, draft, gone, texts, model, row, task, faults>>

\* The cleanup of old runs takes candidates and their rows together.
CleanUp(d) ==
  /\ Exists(d) /\ cstatus[d] = "old"
  /\ gone' = gone \cup {d}
  /\ row' = [row EXCEPT ![d] = NoRow]
  /\ UNCHANGED <<mark, text, place, draft, cstatus, texts, model, task, faults>>

ChangeModel ==
  /\ model < MaxModels
  /\ model' = model + 1
  /\ UNCHANGED <<mark, text, place, draft, cstatus, gone, texts, row, task, faults>>

Outside ==
  \/ \E c \in Items : Edit(c) \/ DeletePost(c)
  \/ \E d \in Candidates :
       \/ \E h \in Channels : SaveCandidate(d, h)
       \/ \E c \in Items : Approve(d, c)
       \/ Reject(d) \/ RetentionPasses(d) \/ CleanUp(d)
  \/ ChangeModel

-----------------------------------------------------------------------------
(* Tasks that embed *)

\* What the row kept is compared with the whole list of the text's words: the
\* row of a long text is never current.
Current(c, m) == row[c] # NoRow /\ row[c].model = m /\ row[c].hash = Words(text[c])

\* A channel has drift when a post has no current row there; a row is in one
\* channel only, and so every other channel has drift for ever.
Drifted(h) ==
  \E c \in Live : ~(Current(c, model) /\ row[c].channel = h)

\* The order of a query by updated_at.
InOrder(posts) == \A i, j \in DOMAIN posts : i < j => place[posts[i]] < place[posts[j]]

Begin(w, rotates, h, prune, posts) ==
  /\ task[w].pc = "idle"
  /\ \E order \in [1..Cardinality(posts) -> posts] :
       /\ InOrder(order)
       /\ task' = [task EXCEPT ![w] =
            [Idle EXCEPT !.pc = "embed", !.rotates = rotates, !.channel = h, !.prune = prune, !.model = model,
                         !.todo = [i \in DOMAIN order |-> [item |-> order[i], text |-> text[order[i]]]]]]
  /\ UNCHANGED <<contentVars, row, faults>>

\* reindex_channel_content_embeddings and, for one post, reindex_content_item_embedding
Reindex(w, h, posts) == posts # {} /\ posts \subseteq Live /\ Begin(w, FALSE, h, {}, posts)

\* Variant: what the model was is not looked at.
StaleByHash == {c \in Live : row[c] = NoRow \/ row[c].hash # Words(text[c])}

Stale == {c \in Live : ~Current(c, model)}

Rotate(w, h) == Begin(w, TRUE, h, {h}, Stale)

\* The beat: one transaction rotates every channel that has drift; the second
\* rotation finds the posts done and prunes.
Drift(w) ==
  LET drifted == {h \in Channels : Drifted(h)} IN
  drifted # {} /\ Begin(w, TRUE, CHOOSE h \in drifted : TRUE, drifted, Stale)

Post(w) == Head(task[w].todo)

\* The provider is called for a post; its list may hold no numbers.
Embed(w) ==
  /\ task[w].pc = "embed" /\ task[w].todo # <<>>
  /\ \E v \in {Post(w).text, 0} :
       /\ IF v = 0 THEN Fault ELSE UNCHANGED faults
       /\ task' = [task EXCEPT ![w].pc = "store", ![w].vector = v]
  /\ UNCHANGED <<contentVars, row>>

\* Variant: the hash is of the text as it is after the call of the provider.
NewRowRehashed(w, seen) ==
  LET t == task[w] IN
  [channel |-> IF seen THEN row[Post(w).item].channel ELSE t.channel,
   model |-> t.model, hash |-> Hash(text[Post(w).item]), vector |-> t.vector]

\* A row that is there is updated, in its channel.
NewRow(w, seen) ==
  LET t == task[w] IN
  [channel |-> IF seen THEN row[Post(w).item].channel ELSE t.channel,
   model |-> t.model, hash |-> Hash(Post(w).text), vector |-> t.vector]

\* The worker goes on with the next post, and has written new for this one.
Goes(w, new) ==
  LET t == task[w] IN
  task' = [task EXCEPT ![w] =
    [t EXCEPT !.pc = "embed", !.vector = 0, !.seen = FALSE,
              !.todo = Tail(t.todo), !.pending = [t.pending EXCEPT ![Post(w).item] = new]]]

Store(w) ==
  LET c == Post(w).item IN
  /\ task[w].pc = "store" /\ ~Locked(w, c)
  /\ Goes(w, NewRow(w, row[c] # NoRow))
  /\ UNCHANGED <<contentVars, row, faults>>

\* Another transaction holds the row: whether there is one was looked up before.
Wait(w) ==
  /\ task[w].pc = "store" /\ Locked(w, Post(w).item)
  /\ task' = [task EXCEPT ![w].pc = "wait", ![w].seen = row[Post(w).item] # NoRow]
  /\ UNCHANGED <<contentVars, row, faults>>

\* An update of a row that is gone by now writes nothing.
WriteLate(w) ==
  LET c == Post(w).item IN
  /\ task[w].pc = "wait" /\ ~Locked(w, c)
  /\ task[w].seen \/ row[c] = NoRow
  /\ Goes(w, IF task[w].seen /\ row[c] = NoRow THEN NoRow ELSE NewRow(w, task[w].seen))
  /\ UNCHANGED <<contentVars, row, faults>>

Rollback(w) == task' = [task EXCEPT ![w] = Idle] /\ UNCHANGED <<contentVars, row>>

\* uq_content_embeddings_entity: another transaction has added the row.
Collide(w) ==
  /\ task[w].pc = "wait" /\ ~Locked(w, Post(w).item)
  /\ ~task[w].seen /\ row[Post(w).item] # NoRow
  /\ Rollback(w) /\ UNCHANGED faults

\* A call failed, or the worker died: nothing is kept.
Abort(w) == task[w].pc # "idle" /\ Fault /\ Rollback(w)

\* What a task has written is committed with its last step.
Committed(w) == [e \in Entities |-> IF Wrote(w, e) THEN task[w].pending[e] ELSE row[e]]

-----------------------------------------------------------------------------
(* Pruning *)

\* The rows are read first, the ids of posts and candidates after them.
Unusable(e) == row[e] # NoRow /\ row[e].vector = 0

\* All posts are embedded: a reindex commits, a rotation goes on to prune.
Embedded(w) ==
  /\ task[w].pc = "embed" /\ task[w].todo = <<>>
  /\ \/ /\ ~task[w].rotates
        /\ row' = Committed(w)
        /\ task' = [task EXCEPT ![w] = Idle]
     \/ /\ task[w].rotates
        /\ task' = [task EXCEPT ![w] = [Idle EXCEPT !.pc = "rows", !.prune = task[w].prune,
                                                    !.pending = task[w].pending]]
        /\ UNCHANGED row
  /\ UNCHANGED <<contentVars, faults>>

\* maintain_embeddings, for the whole tenant.
Maintain(w) ==
  /\ task[w].pc = "idle"
  /\ task' = [task EXCEPT ![w] = [Idle EXCEPT !.pc = "rows", !.maintains = TRUE, !.prune = Channels]]
  /\ UNCHANGED <<contentVars, row, faults>>

ReadRows(w) ==
  /\ task[w].pc = "rows"
  /\ LET read == {e \in Entities : row[e] # NoRow /\ row[e].channel \in task[w].prune} IN
       task' = [task EXCEPT ![w] =
         [Idle EXCEPT !.pc = "ids", !.rows = read, !.pending = task[w].pending,
                      !.bad = {e \in read : task[w].maintains /\ Unusable(e)}]]
  /\ UNCHANGED <<contentVars, row, faults>>

\* Variant: only posts are looked up.
DeadPosts(w) == task[w].bad \cup {e \in task[w].rows : e \notin Live}

\* What has no post or candidate any more, and what held no numbers.
Dead(w) == task[w].bad \cup {e \in task[w].rows : ~Exists(e)}

\* The rows go, those that are locked when they are free, and the task commits.
Prune(w) ==
  /\ task[w].pc = "ids"
  /\ \A e \in Dead(w) : ~Locked(w, e)
  /\ row' = [e \in Entities |-> IF e \in Dead(w) THEN NoRow ELSE Committed(w)[e]]
  /\ task' = [task EXCEPT ![w] = Idle]
  /\ UNCHANGED <<contentVars, faults>>

\* PostgreSQL ends one of two transactions that wait for each other's rows.
Awaits(w) ==
  CASE task[w].pc = "wait" -> {Post(w).item}
    [] task[w].pc = "ids" -> Dead(w)
    [] OTHER -> {}

Deadlock(w) ==
  /\ \E v \in Workers \ {w} : /\ \E e \in Awaits(w) : Wrote(v, e)
                            /\ \E e \in Awaits(v) : Wrote(w, e)
  /\ Rollback(w) /\ UNCHANGED faults

\* compact_embeddings: one short transaction.
Compactable(e) == e \in Candidates /\ cstatus[e] = "old"

Compact ==
  /\ \E e \in Entities : Compactable(e) /\ row[e] # NoRow
  /\ row' = [e \in Entities |-> IF Compactable(e) THEN NoRow ELSE row[e]]
  /\ UNCHANGED <<contentVars, task, faults>>

-----------------------------------------------------------------------------
Step(w) ==
  \/ Embed(w) \/ Store(w) \/ Wait(w) \/ WriteLate(w) \/ Collide(w) \/ Deadlock(w)
  \/ Embedded(w) \/ ReadRows(w) \/ Prune(w)

Next ==
  \/ Outside \/ Compact
  \/ \E w \in Workers :
       \/ \E h \in Channels, posts \in SUBSET Items : Reindex(w, h, posts)
       \/ \E h \in Channels : Rotate(w, h)
       \/ Drift(w) \/ Maintain(w) \/ Step(w) \/ Abort(w)

\* Workers go on with what they have begun, whoever holds a row lets it go, and
\* the beat gets a worker for its tasks.
Fairness ==
  /\ \A w \in Workers : SF_vars(Step(w))
  /\ SF_vars(\E w \in Workers : Drift(w))
  /\ SF_vars(\E w \in Workers : Maintain(w))

Spec == Init /\ [][Next]_vars /\ Fairness

-----------------------------------------------------------------------------
(* Properties *)

\* Whoever embeds, copies or overwrites a row, and whatever was edited in
\* between: the hash in a row is the one of the text that its vector is of, and
\* so a row that a rotation leaves alone has the vector of a text with those words.
HashNamesVector ==
  \A e \in Entities : row[e] # NoRow /\ row[e].vector # 0 => row[e].hash = Hash(row[e].vector)

\* Pruning never takes the row of what still exists, except when it held no
\* numbers: not of a post that is created, or a candidate that is saved, while a
\* task looks for orphans.
PrunedIsDead ==
  [][\A e \in Entities : row[e] # NoRow /\ row'[e] = NoRow =>
       e \in gone' \/ Compactable(e) \/ \E w \in Workers : task[w].pc = "ids" /\ e \in task[w].bad]_vars

\* When people have stopped writing, every post gets a usable vector by the
\* current model, of its text or of one whose kept hash is the list of its words:
\* rotation repairs what approvals, edits and a change of the model leave behind,
\* maintenance what the provider spoiled.
PostsBecomeFindable ==
  <>[](\A c \in Live :
         /\ row[c] # NoRow /\ row[c].model = model /\ row[c].vector # 0
         /\ row[c].vector = text[c] \/ Hash(row[c].vector) = Words(text[c]))
=============================================================================

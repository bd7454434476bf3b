# A TLA+ model of postbridge-core

postbridge-core copies posts from source channels (Telegram, RSS, ...) to target
channels (MAX, VK, YouTube, ...), has an editor and agents that write posts, and
produces and delivers videos. An HTTP API and a Telegram bot create work, Celery
workers and Celery beat do it, PostgreSQL keeps the state, Redis carries the
messages. Nearly everything that is hard about it comes from one fact: a row, a
message and a call of a platform or of a model are separate steps of a process that
can die, be slow or be repeated between any two of them.

Source paths below are relative to `src/src/postbridge/` unless they say otherwise.

| module | what it is |
| --- | --- |
| `TargetLifecycle` | abstract: what a publication target promises |
| `PublicationTargets` | producers, queue, workers, watchdog and ledger around a target; implements `TargetLifecycle` |
| `PublishCall` | abstract: what a worker takes one `publish_post` for |
| `Publishers` | `publish_post` of every platform, call by call; implements `PublishCall` |
| `BatchImport` | batch import runs; its targets move by the actions of `TargetLifecycle` |
| `LiveSync` | what feeds the live-sync queue: editor, scheduled publishes, albums; claims and deliveries |
| `StatusOutbox` | delivery of status events |
| `VideoDeliveryPromise` | abstract: what an approved video promises |
| `VideoDelivery` | approval, time window, claims, provider protocols; implements `VideoDeliveryPromise` |
| `VideoJobs` | the production of one video: leases, paid steps, charges, settlement |
| `VideoBatches` | a tree of batches that produce originals and their variants within one budget |
| `VideoSchedules` | schedules that start productions within a budget for the month and approve them under a consent |
| `AgentRuns` | runs of the agents, paid calls, proposals, reviews, policies, cleanup |
| `AgentMemory` | vectors of posts and candidates and their maintenance |
| `AiContent` | requests that have a model write, and their idempotency keys |
| `EditorChat` | the rows of the chat beside a post and their limit |
| `MediaLibrary` | rows and objects of pictures, who shows them, deletion |
| `*_proofs` | theorems: about the module of that name; `Publishing_proofs` about `PublicationTargets`, `Publishers`, `AiContent` and `MediaLibrary`, `VideoProduction_proofs` about `VideoBatches` and `VideoSchedules`, `Workspace_proofs` about `StatusOutbox` and `AgentMemory` |
| `MC*` | instances for TLC. `MCPublishing`, `MCWorkspace` and `MCVideoSchedules` put components without common state into one run; an initial state chooses the part |

Check a run with `tlc -config targets_safety.cfg MCPublishing`, proofs with
`tlapm BatchImport_proofs.tla`. `PROJECT.json` lists the runs, the source lines behind
each definition, the mutants each property is tested with, and the hazards.

## Inventory

**Publication targets** (`services/publication_target_executor.py`, `workers/tasks.py`,
`services/publication_planning.py`). A `publication_targets` row per post and channel, with a
status and a retry count. A producer inserts it `pending` and enqueues
`process_target`; a worker claims it (`pending -> publishing`, a conditional UPDATE),
calls the platform, writes `published` or `failed`; a retryable failure goes back to
`pending` and is enqueued again; beat returns claims older than the stuck timeout to
`pending`. *Hard*: early acknowledgement, blind writes by id, lost answers, publishers that
outlive the timeout. *Correct when*: one worker at a time, no post twice, no target forgotten.

**Platform publishers** (`integrations/*/publisher.py`, `integrations/media_download.py`). One call is
several calls of a platform: sessions, uploads, containers, then the one that readers
see. *Hard*: answers without the id they should bring, uploads left out, repeated requests.
*Correct when*: what is shown is the whole post, and a failure has shown nothing.

**Dedup ledger** (`published_posts`, `storage/batch_import_run_store.py`). A row per (source
channel, post, target channel): claimed before publishing, released after a final failure,
completed with the message id that edits need. Shared by live-sync and all runs. *Correct
when*: a claim has an owner, and a post on its way has a claim.

**Batch import runs** (`sync/service.py`, `storage/batch_import_run_store.py`,
`sync/batch_import_run_reconcile.py`). A run keeps its fetched posts and, per post, the target or
the note that it was skipped. A worker acquires the run, fetches, claims, creates a target per
post and enqueues it; reconcile ends the run by the outcome of its targets; a watchdog fails
old runs; users pause, cancel and retry. *Hard*: five kinds of process write one row by id, and
retries delete the rows reconcile counts. *Correct when*: no post is published twice, a
completed run accounts for every post, every run ends.

**Live-sync and scheduled publishes** (`services/live_sync_*.py`, `workers/live_sync_tasks.py`,
`workers/media_group_buffer.py`, `services/postbridge_scheduled_publish.py`). Single posts, edits
and albums as they appear; drafts when they fall due; posts people publish by hand. *Hard*: messages
are sent before the commit, two Redis commands take an album, edits overtake posts. *Correct when*: each
channel gets a delivery once, what is due is published, no album is left behind.

**Status event outboxes** (`sync/status_events.py`, `sync/publication_status_events.py`,
`storage/publication_status_event_outbox.py`, `integrations/status_event_client.py`). Events are
inserted with a status change and delivered to a webhook by a beat task, with retries. *Hard*:
tasks overlap, nothing locks a row. *Correct when*: sent means received, order is kept, every
event settles.

**Video delivery** (`services/video_publication.py`, `services/video_delivery_time.py`,
`integrations/video_delivery.py`, the YouTube, TikTok, Instagram and Telegram publishers). Every
irreversible step of a provider is preceded by a saved phase; an outcome that is not known
is `unknown` and leaves that status by reconciliation. *Correct when*: each destination gets the video at most
once, not before its time, and the status is true.

**Video production** (`workers/video_tasks.py`, `services/video_batches.py`,
`workers/video_batch_tasks.py`, `services/video_schedules.py`, `workers/video_schedule_tasks.py`,
`services/video_auto_publication.py`). Jobs under leases with tokens and attempts, whose steps are
paid for; batches and batches of variants; schedules with a budget for the month and a standing
consent. *Hard*: deaths around paid calls, leases that move, counts and budgets that workers
read side by side. *Correct when*: no step is paid twice, charges are on the books, budgets hold, every
job and every occurrence ends.

**Agents** (`agent/service.py`, `agent/storage.py`, `agent/editorial.py`, `agent/vector_store.py`, `workers/tasks.py`,
`api/agent_internal.py`). Runs by schedule or request, paid model calls, proposals that an autonomy
policy lets through or keeps for people, reviews, cleanup; vectors of what exists. *Hard*:
partial failure around a savepoint, reviews that meet cleanup, rows embedded from old
texts. *Correct when*: calls are on record, a failed run leaves nothing, nothing is
published past its policy, a due run is not lost, the hash of a row is that of its vector's text.

**AI requests, chat, pictures** (`api/service_internal.py`, `api/app_public.py`,
`services/ai_editor_chat.py`, `services/media_assets.py`, `workers/media_generation_tasks.py`). *Hard*: equal
requests at once, rows counted that others add and delete, objects no transaction covers.
*Correct when*: one effect per key, the chat gets back to its limit, nothing in use is deleted.

**The rest**: bridges and adaptation, the bot kit, configuration, i18n and observability, the
web frontend, and CRUD of workspace content. They format, resolve or keep rows, one
transaction per request; `PROJECT.json` says of each why it is not modelled.

## How the model corresponds to the code

A step is at most one commit, one message, one Redis command or one call of a service, so
anything can happen between two. Where a transaction locks no row, a write by id is a write
whatever the row holds by then; what a process has read and uses later is a
variable of it. `Crash` is the death of a process between two steps. Where a module
says that a handler runs under a lock, the handler is one step.

**PublicationTargets.** `status`, `retries` and `ledger` are columns; `queue` is a bag of messages
with or without the `live_sync` arguments; `creating` and `recovering` are targets that a process
has committed but not enqueued; `wpc`, `wtarget`, `wlive`, `wcount` are a worker's position,
arguments and the retry count it read. `posted` and `lost` are history: what the platform has, and how
much of it nobody could record. `Receive` to `Abort` are `process_publication_target_task` with
`PublicationTargetExecutor.run` in it; `Recover`, `EnqueueRecovered`, `RecoverCrash` are the beat task,
which commits all its targets at once and then enqueues them one by one. `pending` is committed before the message is sent:
when the broker refuses that (`brokerdown`), or the process dies in between, the target stays pending and
nobody will be told of it (`Stranded`). `named` says whether the platform told an id (MAX may not, RSS has none):
only then is there something to record in the ledger.

**Publishers.** The publisher of a platform is a plan: the sequence of its calls for a
payload, each with what becomes of a good answer that lacks what it should have (`blank`) and of
a failure (`fails`). `Next` walks the plan of one platform; `assets`, `dropped` and `shown` are what the
platform took, what was left out, and the posts that readers see; `failed` is what was left out although its upload
failed. What a platform's publisher may leave out differs (`Dispensable`): MAX goes on without a video or file whose
upload fails, Facebook, X, Mastodon and Bluesky without a medium for which a good answer had no id, the others without none.

**BatchImport.** All runs copy the same source to the same target channel, the case in which they
compete. `rows` are `batch_import_enqueued_posts`, `wtodo` the posts a worker has listed. `task` keeps what
a target's Celery task still owes, because reconcile and retries look at targets in between. A
retry request is four commits (`RequestRetry`, `DeleteRows`, `Reopen`, `EnqueueRetry`), a pause two,
a cancel one. Reconcile reads and writes in separate steps. Every run has a target
channel, as `create_run` demands. A target goes back to `pending` before its message is sent, and Celery
takes a run's message off the queue before the worker acquires the run (`LoseJob`): what is left when either goes wrong is
`Forgotten`.

**LiveSync.** `row` is the post of the editor, `lock` its `FOR UPDATE`; `epc`/`eload` is a request with
the copy it loaded, `whand`/`wsent` what a worker of the beat holds and has sent before its commit. `buf`, `gen`,
`tasks` are the Redis list, the generation counter and the countdown tasks of an album; `bpc` the
bot's handler. `ledger`, `targets`, `copies` are claim, target and what the destination has.

**StatusOutbox.** One module for both tables and both tasks, whose code is the same. A
dispatcher's list is loaded with its rows; each commit expires the session, so `attempt_count`
of a later row is read again when its turn comes (`Load`) but its status is not looked at. Ids
follow the order of the commits for one subject, whose changes are serialised by the lock
of its UPDATE. The hosts' clocks agree: a new event is due at once.

**VideoDelivery.** `phase` is what a worker has saved of a provider's session, `job` what the provider
has, `window` the approved time. What the person does, expiry and fresh claims are under the lock of
the post, hence one step each; the protocol is a step per save and call (`Begin`, `Create`,
`SaveAccepted`, `StartUpload`, `Upload`, `PollYouTube`, ...). `approved_payload` may say either at any
time.

**VideoJobs.** `state`, `units`, `artifact` are the checkpoints of `progress_json`, `calls`, `charged`, `op` the
gateway's books; `lease`, `owner`, `attempts` the row. `BeginCall`, `Authorize`, `Call`, `SaveBill`, `Consume`, `Keep` are
`paid_step`, `BeginScene` to `Store` are `generate_scene`, `Settle*` the settlement task.

**VideoBatches.** Batch 0 is the root, batch *b* the one of the variants of item *b*. `Look` is
`advance_video_batch` with its refresh, `Grant` the request between two transactions, `Admit` the transaction that
makes the revision and its job under the locks of batch and tenant, `Cancel` with
all it reaches one step. `hold` and `charge` are a job's limit and what it cost.

**VideoSchedules.** One month. `task` is the row of the schedule, `outputs` the videos its template asks for;
`run`, `attempts`, `lease`, `token`, `linked`, `acked` are columns of an occurrence's run and its execution, `saved` the consent in its
frozen snapshot, `video` and `bill` its production and what that counts for. `Prepare`, `Create`, `Link`, `Report`, `Look`,
`Lock`,
`Approve`, `Conclude` are workers, `AdmitDue`, `Relink`, `GiveUp`, `Synchronize` the dispatcher, `Edit` and `RunNow` its owner. The consent is looked at
twice, without the lock (`Look`) and under the schedule's row lock (`Lock`), and the approval is
committed in a later step (`Approve`), which looks at nothing: whoever writes the row or reads it for an update waits while it
is `Held`.

**AgentRuns.** `calls` are the steps of `run_trace_json`, committed before (`RecordStart`) and after
(`RecordReceipt`) each call; `made` is what the savepoint holds, `proposal` what is committed; `told` are
messages for `process_target`, some sent before the commit. `seen` is what a reviewer's request has read.

**AgentMemory.** A row has a hash, a vector and a model. A task reads, calls the provider and commits
once at the end; people write, approve and delete beside it. `place` is the order of posts by `updated_at`,
in which a task takes them. The hash (`fingerprint_text`) is the sorted set of a text's words, of which
the row keeps 128 characters. The rigid variable `mark` says what texts have in common: `full` is the first text
with the same words, `kept` the text whose words the kept part is, if any; `Words` is the fingerprint that is computed,
`Hash` the one that is kept. A rotation compares the one with the other (`Current`): a text with a long list of words is embedded
again by every rotation, and an edit that leaves the words the same is not embedded at all.

**AiContent, EditorChat, MediaLibrary.** One transaction per write of a request, with what it read before
kept in `req`; in the chat a transaction is a list of steps (`flush`, `savepoint`, `commit`), because the
session does not flush on its own; in the library the storage is no part of any
transaction, and a URL holds the key or, behind the S3 proxy, the bare id.

## Runs

| run | instance | shows |
| --- | --- | --- |
| `targets_safety` (`MCPublishing`) | 2 targets of 1 live post or of the editor, 2 workers, 1 retry, any 3 of: crash, lost answer, dispatch, broken enqueue | `ExclusiveClaim`, `OneTargetPerPost`, `AtMostOnce`, `ImplementsLifecycle` |
| | every platform, payloads of up to 3 media, limit 2, 2 attempts | `PostedIsWhole`, `KeepsPublishCall` |
| | 3 requests for 1 picture that is there, 1 post, 1 fault | `DeletionSparesUsed` |
| | 3 requests to the model, 1 key or none, 1 channel, 1 fault | `OneEffectPerKey` |
| | 2 overlapping transactions of the chat, then one alone, limit 1 | `AloneKeepsLimit` |
| `targets_live` | 1 target, 3 workers, 1 retry, any 3 of all five faults | `QueuedTargetSettles`, `DeliveryRecorded` |
| `import_safety` | 2 runs, 2 posts, 3 targets, 2 workers, 1 request, any 1 of: crash, broken enqueue, overrun, cancel, pause | `PublishedOnce`, `UnderWayIsClaimed` |
| `import_live` | 1 run, 2 posts, 2 targets, 1 worker, 1 request, any 2 of: crash, broken enqueue, overrun, retry, cancel, pause | `CompletedAccountsForAll`, `RunSettles` |
| `live_sync` | a post with 2 channels and 2 requests, or an album of 2; 2 workers, 1 fault (death, broker, Redis, backlog) | `OncePerChannel`, `DueSettles`, `AlbumIsClaimed` |
| `workspace_services` (`MCWorkspace`) | 1 subject, 3 events, 2 dispatchers, batches of 2, 2 attempts, a crash or a silent change | `SentWasReceived`, `FirstDeliveriesInOrder`, `EventsSettle` |
| | 2 items, 1 candidate, 2 workers, 2 texts (with words of their own, the same, or cut), 2 models, 1 fault | `HashNamesVector`, `PrunedIsDead`, `PostsBecomeFindable` |
| `video_delivery` | 1 target on each of the 4 platforms, 2 workers, any number of deaths | `ExclusiveClaim`, `UnderWayIsDue`, `KeepsPromise`, `ClaimedSettles` |
| `video_jobs` | a plan of a text, a medium and a scene, limit 2, 2 workers, any number of deaths | `PaidOnce`, `CallsAccounted`, `JobEnds` |
| `video_schedules` (`MCVideoSchedules`) | 2 originals with a variant each, budget 2, 1 per job, 2 workers, any number of deaths | `OneChild`, `WithinBudget` |
| | 2 videos, a cron slot and a run by hand, 2 workers, a budget for 1 run, an edit or a fault | `WithinMonth`, `ApprovedUnderConsent`, `RunIsReported` |
| `agent_runs` | 2 runs, 1 reviewer, 1 proposal, 1 call per run, every age, any number of deaths, six setups | `CallsAreRecorded`, `FailedLeavesNothing`, `DispatchIsAllowed`, `DueIsNotLost` |

Runs that are expected to be violated, each with a property that quotes the repository:

| run | property | what happens |
| --- | --- | --- |
| `v_import_republished` | `PublishedKeepsClaim` | the second of two manual retries releases the claim of a post whose row the first one deleted, although it is published |
| `v_sources_compacted` | `ApprovedSourcesResume` | cleanup compacts a source package that still waits for its review; its approval makes an empty draft and starts no run |

**Bounds.** Two workers (dispatchers, requests) and one retry are what overlapping claims, stale
writes and limits need; a third is there where a stale one, its successor and a dispatched message must
meet, or where a third request finds what two have done. Two targets of one post are the
least with which the ledger can fail; three let a skipped post of one run, a post of the other
and a refused one coexist. Three events in batches of two are the least with which the limit
cuts a batch while another dispatcher is in it. Two channels are the least with which a fan-out is half
sent, two items the least of an album, three media the least that are cut, dropped and kept. Two originals
with a variant each are the least with which a root, a child and a sibling wait for each other. Fault budgets
bound crashes and requests together, not each process. Symmetry is used where no liveness is checked. No
run checks for deadlock: a system without work stops.

**Initial states** of the MC modules narrow what is tried, not what a step does: `MCPublishing` starts the
picture's requests after an upload and lets two transactions of the chat overlap; `MCWorkspace` starts after
the first event was refused or sent and after one post was written, with one relation of its text to the next; `MCLiveSync` takes the post or the
album; `MCAgentRuns` leaves out setups that differ in nothing that can happen; `MCVideoSchedules` starts with
a consent, which an edit takes back.

**Fairness.** A process that lives goes on (`WF` on its steps), Celery delivers a message that is
queued to an idle worker, beat starts its tasks again and again, a provider ends what it has begun. `SF`
stands where another target's or step's turn can come between: a worker that is free
again and again takes each message some time. Where all work is bounded (`LiveSync`, `VideoSchedules`) one `WF` of
everything that goes by itself is enough. Nothing makes a user act, a platform answer
well or a fault happen. Recovery of ordinary targets and runs is fair only for claims no live worker holds; taking a
live worker's claim is the fault `overrun`.

Conditions in the properties are about faults that *happened*, not about those a configuration
allows: with a worker that outlives the stuck timeout, `ExclusiveClaim` and `AtMostOnce` do
fail in the code (nothing in a row says whose claim it is), after a broken enqueue so does `OneTargetPerPost` (the claim is
given back, the target stays), and with manual retries `PublishedOnce` does. `QueuedTargetSettles` and `RunSettles` hold under
all faults, with the one outcome beside the end that they name: pending without a message, only after a death or a broken
enqueue. Hazards that such a condition excludes are listed in `PROJECT.json` without a property, with the reason.

## Proofs

A theorem holds for every value of the constants that the named ASSUMEs of its module allow
(limits are naturals, the null values are not members, `Posts` is finite): any number of targets, posts,
workers and so on, any faults, any number of deaths. Modules that are instantiated beside others
(`Publishers`, `VideoBatches`, `VideoSchedules`, `AgentMemory`, `AiContent`, `MediaLibrary`,
`EditorChat`) state their assumptions as the operator `ConstantsOK`: their theorems have it as hypothesis, or cite the MC module, which assumes it of its instance so that every
run evaluates it. `EXTENDS MC...` gives a proof module the instances; its theorems are about their specifications
(`Texts!Spec`, `Memory!Spec`, ...), for any constants, and never about the reduced ones that the runs explore.

Each proof has the same shape: an inductive invariant `IInv`, a lemma that sorts the disjuncts of `Next` into
kinds (`NextCases`), one lemma per conjunct and kind of action, and theorems that combine them. The
conjuncts beyond `TypeOK` are what makes the property inductive:

| module | theorems | conjuncts of the invariant, and why |
| --- | --- | --- |
| `Publishing_proofs`: `PublicationTargets` | `TypeCorrect`, `ClaimIsExclusive`, `OneTarget`, `PostedAtMostOnce`, `TargetsImplementLifecycle` | `Occupied`: from the claim to the last look a worker has its target to itself and the row says so; `LedgerGuards`: while a target of a live post is active its ledger row exists, and one target of a post is active (the release by post key would break the first for another target, which the second excludes); `Deliveries`: what the platform has of a target less what was lost is one only if a worker is about to commit it or the row says `published`; `Counted`: a stale retry count is the row's |
| `Publishing_proofs`: `Publishers` | `PublishersKeepTheirPromise`, `PublishedPostsAreWhole` | `ShownInOrder`: what is shown is a sequence; the refinement maps each step to the one of `PublishCall` that its outcome and the length of `shown` name. `OnTheWay`: before each call of a plan, what was attached and what was left out is what the calls so far are for, in the order of the payload |
| `Publishing_proofs`: `AiContent` | `TextsTypeCorrect`, `OneEffectForAKey` | `AnswersKept`, `EffectsAnswered`: a committed request is the one kept under its key, and who has an answer has the kept one; `Numbered`: a version's number is at most one more than the commits so far, which is what bounds it; `Owned`: a new post is there only after the commit that made it |
| `Publishing_proofs`: `MediaLibrary` | `LibraryTypeCorrect`, `DeletionsSpareWhatIsUsed` | `ErasesUnused`: who is about to erase a row holds the tenant's lock since its search, so that what it found still holds of videos, and of posts but for those that were edited |
| `Publishing_proofs`: `EditorChat` | `ChatTypeCorrect`, `OneAloneKeepsLimit` | `OnCourse`: each open transaction has a tally of what it has flushed and added since its last count, with which the rest of its program can go on (`CanGoOn`); whoever is alone has counted no more than the limit and what it flushed since. The second theorem is an action property |
| `BatchImport_proofs` | `TypeCorrect`, `PublishedOncePerPost`, `ClaimsAreHeld`, `CompletedRunsAddUp` | `Hands`, `Tasks`, `Rows`: what a worker has created and not sent, what a task owes, what a row links; `Claims`: a target that was or may be published holds the claim, and a post has one of them, until a retry by hand; `Books` for the accounting, see below |
| `LiveSync_proofs` | `TypeCorrect`, `DeliveredOnce` | `Places`: a claimed delivery is in one place - with one worker, in one target, at the destination, or after a death nowhere - and one that is not claimed is nowhere |
| `Workspace_proofs`: `StatusOutbox` | `TypeCorrect`, `SentRowsWereReceived`, `EventsArriveInOrder` | `SentIsReceived`: a dispatcher in step `sent` holds a received row; `Ordered`: an event that was never tried is due, so a list with a later event holds it too, and the least row goes first |
| `Workspace_proofs`: `AgentMemory` | `MemoryTypeCorrect`, `VectorsFitHashes`, `PrunedRowsAreDead` | `RowsNamed`, `TasksFine`: the rows that are there and those a task has written and not committed hold numbers of a text whose kept hash is theirs (`Names`; what `mark` says never changes), the vector in a task's hands is of the post it is at, and everything a task has read was once written (a post that was written is only ever deleted) |
| `VideoDelivery_proofs` | `TypeCorrect`, `OneWorkerPerTarget`, `PostedSessionIsSaved`, `StartsInTime`, `DeliveryKeepsPromise` | `Claims`; `StartedIsDue`; `Sessions`: what a saved phase says of the provider's side, per platform; `Steady`: what the step a worker has come to says of both. `DeliveryKeepsPromise` is the refinement of `VideoDeliveryPromise`, step by step |
| `VideoJobs_proofs` | `TypeCorrect`, `StepsArePaidOnce`, `ChargesAreAccounted` | `UnderLease`: whoever works holds the lease, alone; `Books`: a call that may still be sent was never paid for; `Places`: what a worker's place says of its step |
| `VideoProduction_proofs`: `VideoBatches` | `TypeCorrect`, `OneChildPerTree`, `TreeStaysWithinBudget` | `Held`, `Followed`, `OneRunning`, `InTurn`, `Clear`: leases, how items follow batches and jobs follow items, one running item per batch, variants only while their original waits for them, nothing running where an admission is under way; `Amounts`: what is not over has no charge, and limits under way and charges together are within the budget |
| `VideoProduction_proofs`: `VideoSchedules` | `SchedulesTypeCorrect`, `MonthStaysWithinBudget`, `ApprovalsAreConsented` | `Alone`: one occurrence at most is on its way; `Prepared`: who prepares one holds its lease under its own token; `Loose`: a production that is not linked belongs to the occurrence on its way, so that what is linked is all there is when the budget is looked at; `Blank`, `Reported`; `MonthKept`: what is linked or under way, each at its limit, is within the month. `Covered`: who is about to commit an approval looked at the consent under the lock, and it still stands, because the row is as it was while one worker has the lock (`RowIsKept`) |
| `AgentRuns_proofs` | `TypeCorrect`, `DispatchFollowsPolicy`, `EveryCallIsRecorded`, `FailureLeavesNothing`, `DueOccurrencesAreKept` | `Places`, `Causes`, `Calls`, `Rows`, `Messages`: where a process can be and what it keeps there, the reviews whose approval is not committed, recorded calls, what a row or a copy of it may dispatch, what a message is about. The last theorem is an action property |

Five arguments deserve a word.

- *Overruns and retries.* Properties with "unless an overrun (a retry) has happened" are proved through invariants with
  the same condition; `happened` only grows, so the implication is inductive where the plain statement is not.
- *`PublishedPostsAreWhole`* has two halves. `PlansTake` is about the plans alone: for each platform, the calls before the
  last one either contain a refusal, or those that take media take exactly `Wanted`, in its order (`Takes`; a
  concatenation takes what its parts take, and `FlattenTakes` follows `FlattenSeq` from part to part). `OnTheWay` is about
  the walk through any such plan; that no URL is wanted twice (`Once`) is what keeps attached and dropped apart.
- *`OneAloneKeepsLimit`* does not follow the transactions step by step: `Course` says that steps lead from one tally to
  another and that each is allowed on the way (a commit only after a count, with at most three rows flushed or added since).
  Courses are put together as the programs are, so that one lemma per part of a program is enough (`ProgramsGoOn`), and a
  failure at any step goes on with a report (`ReportGoesOn`). `ExcessLeavesLimit` is about the count itself: as many oldest
  rows are there as it asks for.
- *`CompletedRunsAddUp`* needs `OneRequest`: the requests of operators do not overlap. (With two at once
  the property fails; this is the limit its comment names.) While nothing was cancelled or overran, `InOrder` says
  of each run whether its rows are complete, who still works on it and what a request in its middle
  has left: a run is dispatched only with a row for each post, rows are deleted only of a run nobody
  works on, and a verdict `completed` was read when every target was published. That `processed` is the number
  of posts is a bijection between rows and posts (`RowsAddUp`).
- *Sums.* `Used`, `WithinBudget`, `Usage` and `WithinMonth` are folds over functions. `VideoProduction_proofs` proves what it needs about
  them from the definition of the fold: the function it evaluates exists (`PartialExists`, growing with the size of
  the sets), its values are naturals, they are monotone, and a change in one place moves the total by
  that much (`TotalFacts`). Induction is over sets of good numbers or sets (`UpFromZero`,
  `UpFromEmpty`), because the provers cannot instantiate a theorem over predicates.

`PostedSessionIsSaved` is proved and no run checks it: `KeepsPromise` of the same run says more to a reader.

**Only model-checked.** Liveness, because fairness and ENABLED are out of the prover's reach:
`QueuedTargetSettles`, `DeliveryRecorded`, `RunSettles`, `DueSettles`, `AlbumIsClaimed`, `EventsSettle`,
`PostsBecomeFindable`, `ClaimedSettles`, `JobEnds`, `RunIsReported`.

## Not modelled

- `delete_batch_import_job`; two workers that store the fetched posts of one run at once; a
  reconcile pass reads the set of running runs once, and the model does not split that read.
- `schedule_retry` of runs, which cannot be reached.
- A broker that raises although it has taken the message; an error that ends a whole tick of the scheduled
  publishes, not one post of it.
- The cap a schedule puts on its batches for the month (`workers/video_batch_tasks.py:118`): `WithinMonth` is about
  schedules of single videos. That a tenant has at most two active jobs, and that a slot has one run, hold by a guard and by
  the shape of the state: no property says so.
- A video that YouTube stops listing is polled for ever (`integrations/youtube/publisher.py:84`): the model's provider ends what
  it has begun.
- Policies stored for a tenant (`agent/policies.py:53`); the call for an embedding while a run saves its candidates,
  which no step records (`agent/service.py:493`); an approved package whose sources have no URL, which starts no
  run (`api/agent_internal.py:829`).
- Crashes of PostgreSQL, and a Redis that loses its queue (a lost message is the fault `crash`).
- A conflict on the unique key of `batch_import_enqueued_posts` leaves the worker's session
  unusable, and its error handler fails as well: in the model the worker stops without a verdict.
- The deletion of a live post, the text of a message, VK's delete-and-publish-again.
- A Telegram gateway that repeats a request shows in `Publishers` only; `PublicationTargets` counts one post per call.
- Stores of vectors other than pgvector; search, ranking and analytics of the agents; what a model answers.
- The limit of 100 schedule versions of a video, the speech cache that jobs share, rendering.

## Seen while modelling

Disagreements and hazards that no run of its own shows:

- *Targets.* The watchdog enqueues a live target without its `live_sync` arguments (`workers/tasks.py:633`, against the
  docstring at `tasks.py:179`): when it then fails for good its claim stays. A target that is `pending` without a
  message - after a death or a refused message between the commit and the broker - is not recovered: the watchdog selects `publishing`.
  A live-sync claim is released when the enqueue fails, and the target it was for stays. `mark_publication_target_failed` says `publishing -> failed` but
  writes `failed` over any status after an overrun.
- *Runs.* A run whose message is lost stays pending, and a dispatched one with a target whose message is lost
  stays running: the watchdog is for runs that are not dispatched. The automatic retry is behind a condition no run meets. Reconcile can fail a run by the `failed` a retry is about
  to turn into `pending`; the claim of a post stays when its target fails after a retry has deleted the row that links
  them; a manual retry releases claims that another run or live-sync holds for the same posts.
- *Outbox.* Pause, cancel and recovery change a status without an event. A stale dispatcher can turn `sent` back to `failed`, and an
  exhausted event back to one that is due; with three overlapping dispatchers `attempt_count` passes the limit.
- *Pictures.* A deletion looks for the marker `/media/{id}.` (`services/media_assets.py:127`); behind the S3 proxy a
  URL ends with the bare id, so a picture in use is deleted. A deduplicated upload between the
  deletion of row and object loses its object. A job whose worker dies stays running.
- *Requests.* Messages for the targets of a new post are sent before the commit: a worker that is faster finds no
  target, which then stays `pending`. Versions of a text have no unique key: two adaptations at once make two, and may leave a
  target behind the latest. The limit of the chat is exceeded by transactions that do not see each other's rows,
  for as long as none is alone.
- *Agents.* A package that was compacted loses its policy as well. Maintenance looks at the newest 100 posts only, so older
  ones can starve; an error of one tenant's provider stops it for the tenants after; with a second channel
  a copied row differs from the one it would write, and drift never ends.

## Plan

Every invariant and action property that a run checks is stated by a theorem. Next, in this order: the leads-to parts of
a liveness property that are safety (a step that helps is never undone), and code that is not modelled yet.

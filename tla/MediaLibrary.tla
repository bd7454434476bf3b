----------------------------- MODULE MediaLibrary -----------------------------
(***************************************************************************)
(* The pictures of a tenant: a row in media_assets and an object in the    *)
(* storage for each, made by uploads, by requests that generate a picture  *)
(* and by generation jobs, shown by posts, used by video projects, and     *)
(* deleted on request.                                                     *)
(*                                                                         *)
(* A picture has the id of the request that made it (uuid4), or, when the  *)
(* upload is deduplicated, an id that is computed from its bytes.  The     *)
(* storage is no part of any transaction.  Deduplicated uploads, deletions *)
(* and video projects lock the row of the tenant; posts and jobs do not.   *)
(*                                                                         *)
(* The URL that a post gets holds the key of the object or, behind the     *)
(* proxy for S3, the bare id; a deletion finds posts by the key only.      *)
(***************************************************************************)
EXTENDS Naturals, FiniteSets

CONSTANTS
  Requests,   \* requests and the tasks they enqueue
  Posts,      \* content_items of the tenant
  Pictures,   \* ids of pictures that may be uploaded with deduplication
  None,       \* no picture, nobody
  MaxFaults   \* bound: refused calls, storage errors, deaths, enqueue errors

VARIABLES
  storage,   \* "local", "s3" (its public URLs), "proxied" (MEDIA_BASE_URL and S3)
  row,       \* pictures with a row in media_assets
  object,    \* pictures with an object in the storage
  video,     \* pictures that video projects name
  post,      \* what a post shows, None for a deleted post
  job,       \* media_generation_jobs.status of a request, "none" without a job
  req,       \* what a request is at
  late,      \* requests that will write the failure of an enqueue
  lock,      \* who holds the row of the tenant
  edited,    \* posts that changed since the last deletion looked at them
  faults

libraryVars == <<row, object, video>>
vars == <<storage, row, object, video, post, job, req, late, lock, edited, faults>>

Assets == Pictures \cup Requests
Places == {"media", "cover"}   \* media_url and media_urls; body_structured_json

\* A URL: the picture and whether the key of its object can be read off.
NoUrl == [asset |-> None, keyed |-> FALSE]
Addresses == [asset : Assets, keyed : BOOLEAN] \cup {NoUrl}
Shown == [Places -> Addresses]

Idle == [kind |-> "idle", pc |-> "idle"]

\* A request that has come in.  asset: the picture it makes or deletes; post and place
\* for the picture it makes, None without a post; again, a row of it was found.
Received ==
  [kind : {"job", "request", "upload", "dedup", "delete"},
   pc : {"enqueue", "queued", "generate", "put", "row", "show", "erase", "clean", "done"},
   asset : Assets, post : Posts \cup {None}, place : Places, again : BOOLEAN]

\* What an instance has to give.
ConstantsOK == None \notin Requests \cup Shown /\ MaxFaults \in Nat

TypeOK ==
  /\ storage \in {"local", "s3", "proxied"}
  /\ row \subseteq Assets /\ object \subseteq Assets /\ video \subseteq Assets
  /\ post \in [Posts -> Shown \cup {None}]
  /\ job \in [Requests -> {"none", "pending", "running", "completed", "failed"}]
  /\ req \in [Requests -> Received \cup {Idle}]
  /\ late \subseteq Requests /\ lock \in Requests \cup {None}
  /\ edited \subseteq Posts /\ faults \in 0..MaxFaults

Init ==
  /\ storage \in {"local", "s3", "proxied"}
  /\ row = {} /\ object = {} /\ video = {}
  /\ post = [p \in Posts |-> [s \in Places |-> NoUrl]]
  /\ job = [r \in Requests |-> "none"]
  /\ req = [r \in Requests |-> Idle]
  /\ late = {} /\ lock = None /\ edited = {} /\ faults = 0

Fault == faults < MaxFaults /\ faults' = faults + 1

At(r, pc) == req[r].pc = pc
Goto(r, pc) == req' = [req EXCEPT ![r].pc = pc]
Free(r) == lock' = IF lock = r THEN None ELSE lock

-----------------------------------------------------------------------------
(* Requests *)

Begin(r, kind, pc, a, p, s) ==
  /\ req[r] = Idle
  /\ req' = [req EXCEPT ![r] = [kind |-> kind, pc |-> pc, asset |-> a, post |-> p,
                                place |-> s, again |-> FALSE]]

\* The job is committed, its message comes after it.
CreateJob(r, p, s) ==
  /\ Begin(r, "job", "enqueue", r, p, s)
  /\ p # None => post[p] # None
  /\ job' = [job EXCEPT ![r] = "pending"]
  /\ UNCHANGED <<storage, libraryVars, post, late, lock, edited, faults>>

Enqueue(r) ==
  /\ At(r, "enqueue") /\ Goto(r, "queued")
  /\ UNCHANGED <<storage, libraryVars, post, job, late, lock, edited, faults>>

\* The broker answers with an error, whether it has the message or not.
EnqueueFails(r) ==
  /\ At(r, "enqueue") /\ Fault
  /\ \E pc \in {"queued", "done"} : Goto(r, pc)
  /\ late' = late \cup {r}
  /\ UNCHANGED <<storage, libraryVars, post, job, lock, edited>>

WriteQueueFailed(r) ==
  /\ r \in late
  /\ late' = late \ {r}
  /\ job' = [job EXCEPT ![r] = "failed"]
  /\ UNCHANGED <<storage, libraryVars, post, req, lock, edited, faults>>

\* A picture for a post, at once.
Generate(r, p, s) ==
  /\ Begin(r, "request", "generate", r, p, s)
  /\ p # None => post[p] # None
  /\ UNCHANGED <<storage, libraryVars, post, job, late, lock, edited, faults>>

Upload(r) ==
  /\ Begin(r, "upload", "put", r, None, "media")
  /\ UNCHANGED <<storage, libraryVars, post, job, late, lock, edited, faults>>

UploadDeduplicated(r, a) ==
  /\ lock = None /\ lock' = r
  /\ req[r] = Idle
  /\ req' = [req EXCEPT ![r] = [kind |-> "dedup", pc |-> "put", asset |-> a, post |-> None,
                                place |-> "media", again |-> a \in row]]
  /\ UNCHANGED <<storage, libraryVars, post, job, late, edited, faults>>

-----------------------------------------------------------------------------
(* The way of a picture *)

\* The task: a job that is neither pending nor running is left alone.
Receive(r) ==
  /\ At(r, "queued")
  /\ IF job[r] \in {"pending", "running"}
     THEN job' = [job EXCEPT ![r] = "running"] /\ Goto(r, "generate")
     ELSE Goto(r, "done") /\ UNCHANGED job
  /\ UNCHANGED <<storage, libraryVars, post, late, lock, edited, faults>>

\* The gateway answers with the picture, or with the address to fetch it from.
Generated(r) ==
  /\ At(r, "generate") /\ Goto(r, "put")
  /\ UNCHANGED <<storage, libraryVars, post, job, late, lock, edited, faults>>

Put(r) ==
  /\ At(r, "put") /\ Goto(r, "row")
  /\ object' = object \cup {req[r].asset}
  /\ UNCHANGED <<storage, row, video, post, job, late, lock, edited, faults>>

\* The row is committed, which ends the transaction and its lock.
AddRow(r) ==
  /\ At(r, "row")
  /\ row' = row \cup {req[r].asset}
  /\ Goto(r, IF req[r].kind \in {"upload", "dedup"} THEN "done" ELSE "show")
  /\ Free(r)
  /\ UNCHANGED <<storage, object, video, post, job, late, edited, faults>>

\* Behind the proxy, and when a row was there, a URL of S3 is the bare id.
UrlOf(r) ==
  [asset |-> req[r].asset,
   keyed |-> storage = "local" \/ (storage = "s3" /\ ~req[r].again)]

Show(p, places, url) ==
  /\ post' = [post EXCEPT ![p] = [s \in Places |-> IF s \in places THEN url ELSE @[s]]]
  /\ edited' = edited \cup {p}

\* The post and the job in one commit.  A job whose post is gone is completed,
\* a request fails; "media" sets the cover as well.
Complete(r) ==
  LET p == req[r].post IN
  /\ At(r, "show") /\ Goto(r, "done")
  /\ IF p # None /\ post[p] # None
     THEN Show(p, {"cover", req[r].place}, UrlOf(r)) ELSE UNCHANGED <<post, edited>>
  /\ job' = IF job[r] = "none" THEN job ELSE [job EXCEPT ![r] = "completed"]
  /\ UNCHANGED <<storage, libraryVars, late, lock, faults>>

\* A call fails: nothing of this transaction stays, what was committed does.
Fail(r) ==
  /\ req[r].pc \in {"generate", "put", "row", "show"} /\ Fault
  /\ Goto(r, "done") /\ Free(r)
  /\ job' = IF job[r] = "none" THEN job ELSE [job EXCEPT ![r] = "failed"]
  /\ UNCHANGED <<storage, libraryVars, post, late, edited>>

\* The process dies, or its message is lost: a job stays as it is, for ever.
Crash(r) ==
  /\ req[r].pc \notin {"idle", "done"} /\ Fault
  /\ Goto(r, "done") /\ Free(r)
  /\ UNCHANGED <<storage, libraryVars, post, job, late, edited>>

-----------------------------------------------------------------------------
(* What uses pictures *)

\* A person puts the address that an upload or a job has answered with, in one
\* place after the other.
EditPost(p, s, r) ==
  /\ post[p] # None
  /\ At(r, "done") /\ req[r].kind # "delete" /\ req[r].asset \in row
  /\ job[r] \in {"none", "completed"}
  /\ Show(p, {s}, UrlOf(r))
  /\ UNCHANGED <<storage, libraryVars, job, req, late, lock, faults>>

ClearPost(p, s) ==
  /\ post[p] # None
  /\ Show(p, {s}, NoUrl)
  /\ UNCHANGED <<storage, libraryVars, job, req, late, lock, faults>>

DeletePost(p) ==
  /\ post[p] # None
  /\ post' = [post EXCEPT ![p] = None]
  /\ UNCHANGED <<storage, libraryVars, job, req, late, lock, edited, faults>>

\* Variant: the tenant is not locked.
UseInVideoUnlocked(a) ==
  /\ a \in row
  /\ video' = video \cup {a}
  /\ UNCHANGED <<storage, row, object, post, job, req, late, lock, edited, faults>>

\* A revision of a video project is saved in one transaction.
UseInVideo(a) ==
  /\ lock = None /\ a \in row
  /\ video' = video \cup {a}
  /\ UNCHANGED <<storage, row, object, post, job, req, late, lock, edited, faults>>

-----------------------------------------------------------------------------
(* Deletion *)

Referenced(a) ==
  \/ a \in video
  \/ \E p \in Posts : post[p] # None /\ \E s \in Places : post[p][s] = [asset |-> a, keyed |-> TRUE]

\* Variant: the object goes before the row.
DeleteObjectFirst(r, a) ==
  /\ lock = None
  /\ IF a \in row /\ ~Referenced(a)
     THEN Begin(r, "delete", "erase", a, None, "media") /\ lock' = r /\ object' = object \ {a}
     ELSE Begin(r, "delete", "done", a, None, "media") /\ UNCHANGED <<lock, object>>
  /\ edited' = {}
  /\ UNCHANGED <<storage, row, video, post, job, late, faults>>

\* The tenant is locked, projects and posts are searched.
Delete(r, a) ==
  /\ lock = None
  /\ IF a \in row /\ ~Referenced(a)
     THEN Begin(r, "delete", "erase", a, None, "media") /\ lock' = r
     ELSE Begin(r, "delete", "done", a, None, "media") /\ UNCHANGED lock
  /\ edited' = {}
  /\ UNCHANGED <<storage, libraryVars, post, job, late, faults>>

EraseRow(r) ==
  /\ At(r, "erase") /\ Goto(r, "clean")
  /\ row' = row \ {req[r].asset}
  /\ Free(r)
  /\ UNCHANGED <<storage, object, video, post, job, late, edited, faults>>

EraseObject(r) ==
  /\ At(r, "clean") /\ Goto(r, "done")
  /\ \/ object' = object \ {req[r].asset} /\ UNCHANGED faults
     \/ Fault /\ UNCHANGED object
  /\ UNCHANGED <<storage, row, video, post, job, late, lock, edited>>

-----------------------------------------------------------------------------
Next ==
  \/ \E r \in Requests :
       \/ \E p \in Posts \cup {None}, s \in Places : CreateJob(r, p, s) \/ Generate(r, p, s)
       \/ \E a \in Pictures : UploadDeduplicated(r, a)
       \/ \E a \in Assets : Delete(r, a)
       \/ Upload(r) \/ Enqueue(r) \/ EnqueueFails(r) \/ WriteQueueFailed(r)
       \/ Receive(r) \/ Generated(r) \/ Put(r) \/ AddRow(r) \/ Complete(r)
       \/ Fail(r) \/ Crash(r) \/ EraseRow(r) \/ EraseObject(r)
  \/ \E p \in Posts, s \in Places : ClearPost(p, s) \/ \E r \in Requests : EditPost(p, s, r)
  \/ \E p \in Posts : DeletePost(p)
  \/ \E a \in Assets : UseInVideo(a)

Spec == Init /\ [][Next]_vars

-----------------------------------------------------------------------------
(* Properties *)

\* A deletion takes nothing that a video project names, and nothing whose key a
\* post shows unless the post changed after the deletion had looked at it.
DeletionSparesUsed ==
  [][\A a \in row \ row' :
       /\ a \notin video'
       /\ \A p \in Posts \ edited : post[p] # None =>
            \A s \in Places : post[p][s] # [asset |-> a, keyed |-> TRUE]]_vars
=============================================================================

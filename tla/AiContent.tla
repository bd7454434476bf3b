------------------------------ MODULE AiContent ------------------------------
(***************************************************************************)
(* Requests that have a language model write: adapt a post for a channel   *)
(* or translate it, which makes a new version of its text for the channel  *)
(* and moves the targets on to it; rewrite a post and all its versions;    *)
(* write a new post, planned for channels and dispatched or not.           *)
(*                                                                         *)
(* A request reads what it needs, waits for the model, and writes in one   *)
(* transaction.  A key that comes with it makes it idempotent: the answer  *)
(* is kept under the key, in the same transaction, and the key is unique.  *)
(* The streamed form and the self-hosted routes take no key.  A            *)
(* transaction that clashes is tried again, up to three times: the second  *)
(* time finds the answer under the key, or no post any more.               *)
(*                                                                         *)
(* Messages for the targets of a new post are sent before the commit: the  *)
(* worker may look for a target that is not there yet, or never will be.   *)
(***************************************************************************)
EXTENDS Naturals, FiniteSets

CONSTANTS
  Requests,
  Drafts,      \* posts that are there, with a first version and a target for every channel
  Channels,
  Keys,        \* values of X-Idempotency-Key
  None,        \* no key, no post, no text
  MaxFaults    \* bound: refused calls and answers that are not the JSON asked for, deaths

VARIABLES
  posts,      \* posts that are committed
  versions,   \* render_variants
  target,     \* publication_targets: the version each points at
  queue,      \* targets that messages were sent for
  answers,    \* ai_service_idempotency
  effects,    \* requests whose transaction was committed
  req,        \* what a request is at
  faults

contentVars == <<posts, versions, target>>
vars == <<posts, versions, target, queue, answers, effects, req, faults>>

\* What a request makes has its name.
AllPosts == Drafts \cup Requests

Versions == [by : Requests \cup {None}, post : AllPosts, channel : Channels,
             version : 1..(Cardinality(Requests) + 1), text : Requests \cup {None}]
Slots == AllPosts \X Channels

Ops == {"adapt", "rewrite", "draft", "plan"}
Idle == [pc |-> "idle"]

\* A request that has come in.  seen: the latest version when the model had answered.
Received ==
  [pc : {"call", "seen", "send", "commit", "done"}, op : Ops, key : Keys \cup {None},
   post : AllPosts \cup {None}, channels : SUBSET Channels, dispatch : BOOLEAN,
   seen : Versions \cup {None}, answer : Requests \cup {None}]

\* What an instance has to give.
ConstantsOK ==
  /\ IsFiniteSet(Requests) /\ Drafts \cap Requests = {} /\ None \notin Requests \cup Versions
  /\ Channels # {} /\ MaxFaults \in Nat

TypeOK ==
  /\ posts \subseteq AllPosts /\ versions \subseteq Versions
  /\ DOMAIN target \subseteq Slots /\ \A t \in DOMAIN target : target[t] \in versions
  /\ queue \subseteq Slots
  /\ answers \in [Keys -> Requests \cup {None}] /\ effects \subseteq Requests
  /\ req \in [Requests -> Received \cup {Idle}]
  /\ faults \in 0..MaxFaults

FirstVersion(c, h) == [by |-> None, post |-> c, channel |-> h, version |-> 1, text |-> None]

Init ==
  /\ posts = Drafts
  /\ versions = {FirstVersion(c, h) : c \in Drafts, h \in Channels}
  /\ target = [t \in Drafts \X Channels |-> FirstVersion(t[1], t[2])]
  /\ queue = {}
  /\ answers = [k \in Keys |-> None] /\ effects = {}
  /\ req = [r \in Requests |-> Idle]
  /\ faults = 0

Fault == faults < MaxFaults /\ faults' = faults + 1
Goto(r, pc) == req' = [req EXCEPT ![r].pc = pc]

-----------------------------------------------------------------------------
\* A request comes in: an answer that is kept under its key is given again.
Receive(r, op, c, hs, dispatch, key) ==
  /\ req[r] = Idle
  /\ LET kept == key # None /\ answers[key] # None IN
     req' = [req EXCEPT ![r] =
       [pc |-> IF kept THEN "done" ELSE "call", op |-> op, key |-> key, post |-> c,
        channels |-> hs, dispatch |-> dispatch, seen |-> None,
        answer |-> IF kept THEN answers[key] ELSE None]]
  /\ UNCHANGED <<contentVars, queue, answers, effects, faults>>

\* adapt and translate: one channel; rewrite: a post; generate: with channels, or not.
Requested(r) ==
  \E key \in Keys \cup {None} :
    \/ \E c \in posts, h \in Channels : Receive(r, "adapt", c, {h}, FALSE, key)
    \/ \E c \in posts : Receive(r, "rewrite", c, {}, FALSE, key)
    \/ Receive(r, "draft", None, {}, FALSE, key)
    \/ \E hs \in SUBSET Channels \ {{}}, dispatch \in BOOLEAN :
         Receive(r, "plan", None, hs, dispatch, key)

\* The model answers.
Call(r) ==
  /\ req[r].pc = "call"
  /\ Goto(r, CASE req[r].op = "adapt" -> "seen"
               [] req[r].op = "plan" /\ req[r].dispatch -> "send"
               [] OTHER -> "commit")
  /\ UNCHANGED <<contentVars, queue, answers, effects, faults>>

\* It does not, or not in the form that was asked for; or the process dies, the
\* reader of a stream leaves: nothing is written.
Fail(r) ==
  /\ req[r].pc \notin {"idle", "done"} /\ Fault
  /\ Goto(r, "done")
  /\ UNCHANGED <<contentVars, queue, answers, effects>>

VersionsOf(c, h) == {v \in versions : v.post = c /\ v.channel = h}
Latest(vs) == CHOOSE v \in vs : \A u \in vs : u.version <= v.version

\* _latest_render_variant: no order is given among versions of one number.
ReadLatest(r) ==
  LET vs == VersionsOf(req[r].post, CHOOSE h \in req[r].channels : TRUE) IN
  /\ req[r].pc = "seen"
  /\ \E v \in IF vs = {} THEN {None} ELSE {u \in vs : u.version = Latest(vs).version} :
       req' = [req EXCEPT ![r].pc = "commit", ![r].seen = v]
  /\ UNCHANGED <<contentVars, queue, answers, effects, faults>>

\* The rows are flushed and the messages sent.
Send(r) ==
  /\ req[r].pc = "send" /\ Goto(r, "commit")
  /\ queue' = queue \cup ({r} \X req[r].channels)
  /\ UNCHANGED <<contentVars, answers, effects, faults>>

-----------------------------------------------------------------------------
\* Variant: nothing makes the key unique.
GoneOnly(r) == req[r].op \in {"adapt", "rewrite"} /\ req[r].post \notin posts

\* IntegrityError: somebody has committed the key, or the post is gone.
Clashes(r) ==
  \/ req[r].key # None /\ answers[req[r].key] # None
  \/ req[r].op \in {"adapt", "rewrite"} /\ req[r].post \notin posts

\* Variant: every target of the channel is moved, whatever it points at.
MovedAll(r, v) ==
  [t \in DOMAIN target |-> IF t = <<v.post, v.channel>> THEN v ELSE target[t]]

\* One row, whatever its text is by now.
SameRow(u, v) == u # None /\ [u EXCEPT !.text = None] = [v EXCEPT !.text = None]

\* The targets that point at the version it has seen go on to the new one.
Moved(r, v) ==
  [t \in DOMAIN target |-> IF SameRow(req[r].seen, target[t]) THEN v ELSE target[t]]

Adapt(r) ==
  LET seen == req[r].seen
      v == [by |-> r, post |-> req[r].post, channel |-> CHOOSE h \in req[r].channels : TRUE,
            version |-> IF seen = None THEN 1 ELSE seen.version + 1, text |-> r] IN
  /\ versions' = versions \cup {v}
  /\ target' = Moved(r, v)
  /\ UNCHANGED posts

\* All versions of the post get the text, those of published targets too.
Rewrite(r) ==
  LET New(v) == IF v.post = req[r].post THEN [v EXCEPT !.text = r] ELSE v IN
  /\ versions' = {New(v) : v \in versions}
  /\ target' = [t \in DOMAIN target |-> New(target[t])]
  /\ UNCHANGED posts

\* A post, and for each channel a version and a target.
Create(r) ==
  LET V(h) == [by |-> r, post |-> r, channel |-> h, version |-> 1, text |-> r] IN
  /\ posts' = posts \cup {r}
  /\ versions' = versions \cup {V(h) : h \in req[r].channels}
  /\ target' = [t \in DOMAIN target \cup ({r} \X req[r].channels) |->
                  IF t[1] = r THEN V(t[2]) ELSE target[t]]

Commit(r) ==
  /\ req[r].pc = "commit" /\ ~Clashes(r)
  /\ \/ req[r].op = "adapt" /\ Adapt(r)
     \/ req[r].op = "rewrite" /\ Rewrite(r)
     \/ req[r].op \in {"draft", "plan"} /\ Create(r)
  /\ answers' = IF req[r].key = None THEN answers ELSE [answers EXCEPT ![req[r].key] = r]
  /\ effects' = effects \cup {r}
  /\ req' = [req EXCEPT ![r].pc = "done", ![r].answer = r]
  /\ UNCHANGED <<queue, faults>>

\* Rolled back: the answer is what is kept under the key, or an error.
Rollback(r) ==
  LET key == req[r].key IN
  /\ req[r].pc = "commit" /\ Clashes(r)
  /\ req' = [req EXCEPT ![r].pc = "done", ![r].answer = IF key = None THEN None ELSE answers[key]]
  /\ UNCHANGED <<contentVars, queue, answers, effects, faults>>

-----------------------------------------------------------------------------
\* The post is deleted, and by cascade what belongs to it.
DeletePost(c) ==
  /\ c \in posts
  /\ posts' = posts \ {c}
  /\ versions' = {v \in versions : v.post # c}
  /\ target' = [t \in {u \in DOMAIN target : u[1] # c} |-> target[t]]
  /\ UNCHANGED <<queue, answers, effects, req, faults>>

Next ==
  \/ \E r \in Requests :
       Requested(r) \/ Call(r) \/ Fail(r) \/ ReadLatest(r) \/ Send(r) \/ Commit(r) \/ Rollback(r)
  \/ \E c \in AllPosts : DeletePost(c)

Spec == Init /\ [][Next]_vars

-----------------------------------------------------------------------------
(* Properties *)

KeyOf(e) == req[e].key

\* Requests that come with one key, at once or one after the other, change the
\* posts once, whatever they ask for, and those that are answered are answered
\* the same.
OneEffectPerKey ==
  /\ \A e1, e2 \in effects : KeyOf(e1) # None /\ KeyOf(e1) = KeyOf(e2) => e1 = e2
  /\ \A r1, r2 \in Requests :
       /\ req[r1] # Idle /\ req[r2] # Idle
       /\ req[r1].key # None /\ req[r1].key = req[r2].key
       /\ req[r1].answer # None /\ req[r2].answer # None
       => req[r1].answer = req[r2].answer

=============================================================================

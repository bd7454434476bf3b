----------------------------- MODULE MCPublishing -----------------------------
(* A post on its way to a platform and what happens around it, checked in one *)
(* run: PublicationTargets (two targets of one post), Publishers (what the    *)
(* targets take for granted; all platforms, three media), MediaLibrary (a     *)
(* picture is there, two requests), AiContent (three requests) and EditorChat *)
(* (two transactions that overlap, then one alone).  They have no state in    *)
(* common; an initial state chooses the one that runs.                        *)
EXTENDS MCPublicationTargets, Sequences, SequencesExt

CONSTANTS Urls, Limit, MaxAttempts, Requests, Pictures, Channels, Keys, None, MaxMisses,
  ChatLimit, MaxOverlap

VARIABLES part,
  platform, payload, options, outcome, attempts, step, direct, assets, dropped, failed,
  shown, unheard,
  storage, row, object, video, post, job, taken, late, lock, edited, mishaps,
  posts, versions, target, sent, answers, effects, asked,
  chat, clock, tx,
  misses

callVars == <<platform, payload, options, outcome, attempts, step, direct,
              assets, dropped, failed, shown, unheard>>
libraryVars == <<storage, row, object, video, post, job, taken, late, lock, edited, mishaps>>
textVars == <<posts, versions, target, sent, answers, effects, asked>>
chatVars == <<chat, clock, tx>>

Calls == INSTANCE Publishers WITH lost <- unheard
Library == INSTANCE MediaLibrary WITH req <- taken, faults <- mishaps, MaxFaults <- MaxMisses
Texts == INSTANCE AiContent WITH Drafts <- Posts, queue <- sent, req <- asked, faults <- misses,
                                 MaxFaults <- MaxMisses
Chat == INSTANCE EditorChat WITH Limit <- ChatLimit, faults <- misses, MaxFaults <- MaxMisses

ASSUME CallsAssumption == Calls!ConstantsOK
ASSUME ChatAssumption == Chat!ConstantsOK
ASSUME TextsAssumption == Texts!ConstantsOK
ASSUME LibraryAssumption == Library!ConstantsOK

\* One payload stands for those that a platform treats alike: what is behind a
\* URL matters where the publisher looks at it.
CallsInit ==
  /\ Calls!Init
  /\ payload.single \in {0, 1}
  /\ \A u \in Urls : payload.kind[u] # "image" =>
       /\ platform \in {"telegram", "max", "linkedin", "facebook", "instagram", "bluesky"}
       /\ u = payload.single \/ u \in ToSet(payload.many)
  /\ options.userToken => platform = "vk"
  /\ options.proxy => platform = "telegram"
  /\ options.around => options.proxy

NoCalls ==
  /\ platform = "rss" /\ payload = [single |-> 0, many |-> <<>>, kind |-> [u \in Urls |-> "image"]]
  /\ options = [userToken |-> FALSE, proxy |-> FALSE, around |-> FALSE]
  /\ outcome = "none" /\ attempts = 0 /\ step = 1 /\ direct = FALSE
  /\ assets = <<>> /\ dropped = {} /\ failed = {} /\ shown = <<>> /\ unheard = 0

\* A request has uploaded the picture.  Faults are tried with one storage: the
\* storage matters for what a post shows in the end, and S3 shows both forms.
LibraryInit ==
  /\ storage \in {"local", "s3"}
  /\ row = Pictures /\ object = Pictures /\ video = {}
  /\ post = [p \in Posts |-> [s \in Library!Places |-> Library!NoUrl]]
  /\ job = [r \in Requests |-> "none"]
  /\ \E u \in Requests, a \in Pictures :
       taken = [r \in Requests |->
         IF r # u THEN Library!Idle
         ELSE [kind |-> "dedup", pc |-> "done", asset |-> a, post |-> None, place |-> "media",
               again |-> FALSE]]
  /\ late = {} /\ lock = None /\ edited = {}
  /\ mishaps = IF storage = "local" THEN 0 ELSE MaxMisses

NoLibrary == Library!Init /\ storage = "local"

\* Transactions of each kind overlap; the last one, of any kind, is alone.  What
\* concerns nobody else happens at once.
Overlapping ==
  {<<"user", "assistant", "commit">>, <<"clear", "commit">>, Chat!Runs(TRUE, "approved"),
   Chat!Decided(TRUE) \o <<"flush", "commit">>}
ChatNext ==
  /\ Chat!Next
  /\ \A r \in Requests : tx[r] = Chat!Idle /\ tx'[r] # Chat!Idle =>
       IF Cardinality({s \in Requests : tx[s] # Chat!Idle}) < 2
       THEN tx'[r].todo \in Overlapping ELSE Chat!Open = {}
  /\ \A r \in Chat!Open :
       tx[r].doomed = {} /\ Chat!Step(r) \in {"flush", "savepoint"} => tx'[r] # tx[r]

MCInit ==
  /\ Init /\ Texts!Init /\ Chat!Init
  /\ \/ part \in {"targets", "texts", "chat"} /\ NoCalls /\ NoLibrary
     \/ part = "calls" /\ CallsInit /\ NoLibrary
     \/ part = "library" /\ NoCalls /\ LibraryInit

MCNext ==
  /\ \/ part = "targets" /\ Next /\ UNCHANGED <<callVars, libraryVars, textVars, chatVars, misses>>
     \/ part = "calls" /\ Calls!Next /\ UNCHANGED <<vars, libraryVars, textVars, chatVars, misses>>
     \/ part = "library" /\ Library!Next /\ UNCHANGED <<vars, callVars, textVars, chatVars, misses>>
     \/ part = "texts" /\ Texts!Next /\ UNCHANGED <<vars, callVars, libraryVars, chatVars>>
     \/ part = "chat" /\ ChatNext /\ UNCHANGED <<vars, callVars, libraryVars, textVars>>
  /\ UNCHANGED part
MCSpec == MCInit /\ [][MCNext]_<<vars, callVars, libraryVars, textVars, chatVars, misses, part>>

\* Requests are interchangeable as well.
MCSymmetry == Symmetry \cup Permutations(Requests)

KeepsPublishCall == Calls!KeepsPublishCall
PostedIsWhole == Calls!PostedIsWhole
DeletionSparesUsed == Library!DeletionSparesUsed
OneEffectPerKey == Texts!OneEffectPerKey
AloneKeepsLimit == Chat!AloneKeepsLimit
=============================================================================

------------------------------ MODULE Publishers ------------------------------
(***************************************************************************)
(* publish_post of every platform: the calls it makes before the one that  *)
(* shows the post to readers, what becomes of each of their answers, and   *)
(* the attempts that follow a failure that may pass.                       *)
(*                                                                         *)
(* A platform's publisher is a plan: the sequence of its calls for the     *)
(* payload.  Videos of YouTube, Instagram reels and TikTok that go through *)
(* the reviewed delivery are in VideoDelivery.                             *)
(*                                                                         *)
(* Media are URLs, numbered; the limits of the platforms (1 to 20 of them) *)
(* are one small Limit.  Left out: how texts are cut to length, how ids    *)
(* and URNs are spelled, edit_message and delete (which nothing calls).    *)
(***************************************************************************)
EXTENDS Naturals, Sequences, SequencesExt, FiniteSets

CONSTANTS
  Urls,         \* 1..n
  Limit,        \* media in a post, of platforms that have a limit
  MaxAttempts   \* first call and retries of a target

ConstantsOK ==
  /\ Urls \subseteq Nat \ {0} /\ IsFiniteSet(Urls)
  /\ Limit \in Nat /\ MaxAttempts \in Nat

VARIABLES
  platform,
  payload,   \* media_url (0: none), media_urls, what is behind each URL
  options,   \* whether VK has a user token; Telegram a proxy, and the way around it
  outcome,   \* of the last publish_post, see PublishCall
  attempts,
  step,      \* the next call of the plan
  direct,    \* Telegram: on the way around the proxy
  assets,    \* what the platform has taken, in order
  dropped,   \* URLs that were left out
  failed,    \* of them, those whose upload failed, in place of an answer without an id
  shown,     \* the posts that readers see: their media
  lost       \* answers to a call that showed a post that never came or were unusable

setupVars == <<platform, payload, options>>
callVars == <<step, direct, assets, dropped, failed>>
vars == <<platform, payload, options, outcome, attempts, step, direct, assets, dropped, failed, shown, lost>>

Platforms == {"telegram", "max", "vk", "linkedin", "facebook", "instagram",
              "x", "mastodon", "bluesky", "rss", "zen"}
Kinds == {"image", "video", "document"}

Payloads == [single : {0} \cup Urls, many : BoundedSeq(Urls, Cardinality(Urls)),
             kind : [Urls -> Kinds]]

Ordered(s) == \A i, j \in DOMAIN s : i < j => s[i] < s[j]

TypeOK ==
  /\ platform \in Platforms /\ payload \in Payloads
  /\ options \in [userToken : BOOLEAN, proxy : BOOLEAN, around : BOOLEAN]
  /\ outcome \in {"none", "calling", "accepted", "rejected", "transient"}
  /\ attempts \in 0..MaxAttempts /\ step \in Nat /\ direct \in BOOLEAN
  /\ assets \in Seq(Urls) /\ dropped \subseteq Urls /\ failed \subseteq dropped
  /\ \A i \in DOMAIN shown : shown[i] \in Seq(Urls)
  /\ lost \in 0..(2 * MaxAttempts)

Init ==
  /\ platform \in Platforms
  /\ payload \in Payloads /\ Ordered(payload.many)
  /\ options \in [userToken : BOOLEAN, proxy : BOOLEAN, around : BOOLEAN]
  /\ outcome = "none" /\ attempts = 0 /\ step = 1 /\ direct = FALSE
  /\ assets = <<>> /\ dropped = {} /\ failed = {} /\ shown = <<>> /\ lost = 0

-----------------------------------------------------------------------------
(* Media of the payload *)

First == IF payload.single = 0 THEN <<>> ELSE <<payload.single>>

\* media_urls of media_download: both fields, each URL once, up to a limit.
Distinct == First \o RemoveFirst(payload.many, payload.single)
UpTo(n, urls) == IF Len(urls) <= n THEN urls ELSE SubSeq(urls, 1, n)
Limited == UpTo(Limit, Distinct)

Kind(u) == payload.kind[u]
Each(urls, Calls(_)) == FlattenSeq([i \in DOMAIN urls |-> Calls(urls[i])])

-----------------------------------------------------------------------------
(* Calls.  blank: what the publisher makes of a good answer that lacks what  *)
(* it needs.  fails: whether an error is raised, or the URL is left out.     *)

Call(does, u, blank, fails) == [does |-> does, url |-> u, blank |-> blank, fails |-> fails]

Refuse == Call("refuse", 0, "reject", "raise")
Attach(u) == Call("attach", u, "none", "raise")       \* by its URL, no call
Get(u) == Call("get", u, "none", "raise")             \* download
Send(u) == Call("send", u, "none", "raise")           \* bytes, no id yet
Ask(blank) == Call("ask", 0, blank, "raise")          \* a session, where to upload to
Put(u, blank, fails) == Call("put", u, blank, fails)  \* gives the id to post with
\* An answer without an id is good enough, except for a video of Telegram.
Show == Call("show", 0, "none", "raise")

SendsVideo == payload.single # 0 /\ Kind(payload.single) = "video"

\* Only the first of several media; a video is sent without the second try.
TelegramPlan ==
  Each(UpTo(1, Distinct), LAMBDA u : <<Attach(u)>>) \o <<Show>>

\* An error in the search for the chat is taken for a chat that is not there.
FindChat == Call("ask", 0, "reject", "reject")

\* An upload that fails leaves its URL out.
MaxUpload(u) == <<Put(u, "skip", "skip")>>

MaxMedia ==
  Each(IF payload.many # <<>> THEN payload.many ELSE First,
       LAMBDA u : IF Kind(u) = "image" THEN <<Attach(u)>> ELSE MaxUpload(u))

MaxPlan == <<FindChat>> \o MaxMedia \o <<Show>>

VKPhoto(u) == <<Get(u), Call("ask", u, "reject", "raise"), Put(u, "reject", "raise")>>

\* Uploads need the token of a user.
VKPhotos(urls) ==
  CASE urls = <<>> -> <<>>
    [] urls # <<>> /\ ~options.userToken -> <<Refuse>>
    [] OTHER -> <<Ask("reject")>> \o Each(urls, VKPhoto)

VKPlan == VKPhotos(Limited) \o <<Show>>

LinkedInVideo(u) == <<Ask("transient"), Send(u), Put(u, "none", "raise")>>
LinkedInFile(u) == <<Ask("transient"), Put(u, "none", "raise")>>

LinkedInDownloads == Each(Distinct, LAMBDA u : <<Get(u)>>)

Mixed ==
  LET kinds == {Kind(u) : u \in ToSet(Distinct)} IN
  Cardinality(kinds) > 1 \/ (Len(Distinct) > 1 /\ kinds # {"image"})

\* All media are downloaded and looked at before the first is uploaded.
LinkedInMedia ==
  CASE Len(Distinct) > Limit -> <<Refuse>>
    [] Len(Distinct) <= Limit /\ Mixed -> LinkedInDownloads \o <<Refuse>>
    [] OTHER -> LinkedInDownloads
                  \o Each(Distinct, LAMBDA u : IF Kind(u) = "video" THEN LinkedInVideo(u)
                                                ELSE LinkedInFile(u))

LinkedInPlan ==
  (IF Distinct = <<>> THEN <<>> ELSE LinkedInMedia) \o <<Show>>

\* Several photos are uploaded unpublished; a video among them comes to light
\* when it is its turn.
FacebookPlan ==
  LET urls == Limited IN
  IF Len(urls) < 2 THEN Each(urls, LAMBDA u : <<Attach(u)>>) \o <<Show>>
  ELSE Each(urls, LAMBDA u : <<IF Kind(u) = "video" THEN Refuse ELSE Put(u, "skip", "raise")>>)
         \o <<Show>>

\* A container for the post, and one for each picture of several; each is waited
\* for (a minute) until it is processed.
Processed == Call("wait", 0, "none", "raise")

Container(u) == <<Put(u, "reject", "raise"), Processed>>

Containers(urls) ==
  CASE urls = <<>> -> <<Refuse>>
    [] Len(urls) = 1 -> Container(urls[1])
    [] OTHER -> Each(urls, LAMBDA u : IF Kind(u) = "video" THEN <<Refuse>> ELSE Container(u))
                  \o <<Ask("reject"), Processed>>

InstagramPlan == Containers(Limited) \o <<Show>>

\* Variant: a failed upload is passed over, as for MAX.
XMediaPassing(u) == <<Get(u), Put(u, "skip", "skip")>>

XMedia(u) == <<Get(u), Put(u, "skip", "raise")>>
XPlan == Each(Limited, XMedia) \o <<Show>>

MastodonMedia(u) == <<Get(u), Put(u, "skip", "raise")>>
MastodonPlan == Each(Limited, MastodonMedia) \o <<Show>>

BlueskyImage(u) == <<Get(u), IF Kind(u) = "image" THEN Put(u, "skip", "raise") ELSE Refuse>>
BlueskyPlan == <<Ask("reject")>> \o Each(Limited, BlueskyImage) \o <<Show>>

\* A row of the feed, unless it has the post; no error of the database is retried.
RSSPlan == Each(Distinct, LAMBDA u : <<Attach(u)>>) \o <<Call("show", 0, "none", "reject")>>

ZenPlan == <<Refuse>>

\* The registry
Plan ==
  CASE platform = "telegram" -> TelegramPlan
    [] platform = "max" -> MaxPlan
    [] platform = "vk" -> VKPlan
    [] platform = "linkedin" -> LinkedInPlan
    [] platform = "facebook" -> FacebookPlan
    [] platform = "instagram" -> InstagramPlan
    [] platform = "x" -> XPlan
    [] platform = "mastodon" -> MastodonPlan
    [] platform = "bluesky" -> BlueskyPlan
    [] platform = "rss" -> RSSPlan
    [] platform = "zen" -> ZenPlan

-----------------------------------------------------------------------------
(* publish_post *)

Current == Plan[step]
Calling(does) == outcome = "calling" /\ Current.does \in does

\* Variant: what an earlier attempt has uploaded is still in the list.
BeginAgain ==
  /\ outcome \in {"none", "transient"} /\ attempts < MaxAttempts
  /\ outcome' = "calling" /\ attempts' = attempts + 1
  /\ step' = 1 /\ direct' = FALSE
  /\ UNCHANGED <<setupVars, assets, dropped, failed, shown, lost>>

\* Variant: errors that will not pass are tried again, too.
BeginWhatever ==
  /\ outcome \in {"none", "transient", "rejected"} /\ attempts < MaxAttempts
  /\ outcome' = "calling" /\ attempts' = attempts + 1
  /\ step' = 1 /\ direct' = FALSE /\ assets' = <<>> /\ dropped' = {} /\ failed' = {}
  /\ UNCHANGED <<setupVars, shown, lost>>

\* A retry starts from nothing.
Begin ==
  /\ outcome \in {"none", "transient"} /\ attempts < MaxAttempts
  /\ outcome' = "calling" /\ attempts' = attempts + 1
  /\ step' = 1 /\ direct' = FALSE /\ assets' = <<>> /\ dropped' = {} /\ failed' = {}
  /\ UNCHANGED <<setupVars, shown, lost>>

Ends(result) == outcome' = result /\ UNCHANGED callVars

Goes == step' = step + 1 /\ UNCHANGED <<outcome, direct>>

\* No credentials, a channel that is not one of the platform's, media that it
\* does not take: found out before any call, or at a later point of the plan.
Refused ==
  /\ outcome = "calling" /\ (step = 1 \/ Current.does = "refuse")
  /\ Ends("rejected")
  /\ UNCHANGED <<setupVars, attempts, shown, lost>>

Answered ==
  /\ Calling({"attach", "get", "send", "ask", "put", "wait"})
  /\ assets' = IF Current.does \in {"attach", "put"} THEN Append(assets, Current.url) ELSE assets
  /\ Goes
  /\ UNCHANGED <<setupVars, attempts, dropped, failed, shown, lost>>

\* A good answer without what it should have, for an upload or a session.
Blank ==
  /\ Calling({"ask", "put"})
  /\ \/ Current.blank = "reject" /\ Ends("rejected")
     \/ Current.blank = "transient" /\ Ends("transient")
     \/ /\ Current.blank = "skip" /\ dropped' = dropped \cup {Current.url} /\ Goes
        /\ UNCHANGED <<assets, failed>>
  /\ UNCHANGED <<setupVars, attempts, shown, lost>>

\* An error of a call that readers do not see, or that had no effect: a status
\* that may pass or not, a transport error, an answer that cannot be read.
Fails ==
  /\ Calling({"get", "send", "ask", "put", "wait", "show"})
  /\ \/ Current.fails \in {"raise", "reject"} /\ Ends("rejected")
     \/ Current.fails = "raise" /\ Ends("transient")
     \/ /\ Current.fails = "skip" /\ dropped' = dropped \cup {Current.url} /\ Goes
        /\ failed' = failed \cup {Current.url} /\ UNCHANGED assets
  /\ UNCHANGED <<setupVars, attempts, shown, lost>>

\* Readers see the post.
Shows ==
  /\ Calling({"show"})
  /\ shown' = Append(shown, assets)
  /\ Ends("accepted")
  /\ UNCHANGED <<setupVars, attempts, lost>>

\* It is there, and its answer is lost or not usable.
ShowsUnheard ==
  /\ Calling({"show"})
  /\ shown' = Append(shown, assets)
  /\ \E failure \in {"rejected", "transient"} :
       (Current.fails = "reject" => failure = "rejected") /\ Ends(failure)
  /\ lost' = lost + 1
  /\ UNCHANGED <<setupVars, attempts>>

\* Telegram was not reached through the proxy, or a gateway gave up on it: once
\* more without the proxy, except for a video.  Behind a gateway error the post
\* may be there.
AroundProxy ==
  /\ platform = "telegram" /\ Calling({"show"}) /\ ~SendsVideo
  /\ options.proxy /\ options.around /\ ~direct
  /\ direct' = TRUE
  /\ \/ UNCHANGED <<shown, lost>>
     \/ shown' = Append(shown, assets) /\ lost' = lost + 1
  /\ UNCHANGED <<setupVars, outcome, attempts, step, assets, dropped, failed>>

Next ==
  \/ Begin \/ Refused \/ Answered \/ Blank \/ Fails \/ Shows \/ ShowsUnheard \/ AroundProxy

Spec == Init /\ [][Next]_vars

-----------------------------------------------------------------------------
(* Properties *)

\* Every publisher is what the publication of targets takes it for: only its
\* last call is seen by readers, and so a retry repeats a post only when the
\* answer to that very call was lost.
Promise == INSTANCE PublishCall WITH posted <- Len(shown)
KeepsPublishCall == Promise!Spec

\* What of the payload a platform takes.
Wanted ==
  CASE platform = "telegram" -> UpTo(1, Distinct)
    [] platform = "max" -> IF payload.many # <<>> THEN payload.many ELSE First
    [] platform \in {"rss", "linkedin"} -> Distinct
    [] OTHER -> Limited

\* What a post may lack: the media of MAX that have to be uploaded, when that fails
\* or brings no token, and of the platforms that go on without an id, the ones
\* whose good answer had none.
Dispensable ==
  CASE platform = "max" -> {u \in Urls : Kind(u) # "image"}
    [] platform \in {"facebook", "x", "mastodon", "bluesky"} -> Urls
    [] OTHER -> {}

\* A post counted as published has each of the payload's media that its platform
\* takes in one post, once and in order, but for those that the platform's
\* publisher may leave out: a failed upload is passed over by MAX alone, other
\* platforms publish without a medium only for an answer without an id, or never,
\* and a retry does not attach anything twice.
PostedIsWhole ==
  outcome = "accepted" =>
    LET post == shown[Len(shown)] IN
    /\ ToSet(post) = ToSet(Wanted) \ dropped
    /\ \A i, j \in DOMAIN post : i < j =>
         \E k, l \in DOMAIN Wanted : k < l /\ Wanted[k] = post[i] /\ Wanted[l] = post[j]
    /\ dropped \subseteq Dispensable /\ (failed # {} => platform = "max")
=============================================================================

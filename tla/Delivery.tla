------------------------------ MODULE Delivery ------------------------------
(***************************************************************************)
(* Manifests and the URLs that stand for a session (streaming service): a  *)
(* manifest is served to a user with an active session for the asset, or   *)
(* to whoever holds a signed URL of an active session.                     *)
(*                                                                         *)
(* A session is here what PlaybackSession makes of it: active, paused and  *)
(* active again, and ended for good.  It expires two hours after its start *)
(* whatever its status is.  A fetch verifies the URL and reads the session *)
(* before the manifest, or, without a URL, after it; sessions end, pause   *)
(* and expire between any two of its steps.                                *)
(***************************************************************************)
EXTENDS Integers, FiniteSets

CONSTANTS
    Sessions, Users,
    Episodes, Titles,
    Protocols,
    Fetches,      \* requests in flight at the same time
    Lifetime,     \* of a session, in clock ticks
    UrlTtls,      \* PLAYBACK_URL_TTL_SECONDS, or the ttl_seconds asked for
    MaxTime       \* bound of the model: the clock stops there

VARIABLES
    session,      \* playback_session: the committed rows
    manifest,     \* video_manifest: the committed rows
    urls,         \* the signed URLs that were issued
    fetch,        \* the requests and their local variables
    time

vars == <<session, manifest, urls, fetch, time>>

-----------------------------------------------------------------------------
(* Types *)

NoEpisode == "no episode"
Nobody == "nobody"

Absent == [status |-> "none"]

SessionRows ==
    [status : {"active", "paused", "ended"}, user : Users, episode : Episodes \union {NoEpisode},
     title : Titles, started : 0 .. MaxTime]

\* The unique key of a manifest, and the title it was made for
Manifests == [episode : Episodes, protocol : Protocols, title : Titles]

\* What the signature is computed of: session_id|episode_id|expires
Urls == [session : Sessions, episode : Episodes, expires : Nat]

Idle == [at |-> "idle"]

\* begun     the URL was verified, or the token of the user
\* checked   the session of the URL was found valid
\* read      a manifest was read for a user without a URL
\* served    the manifest is in the answer
\* playable  history: the sessions that were playable at some moment of the request
FetchStates ==
    {Idle}
    \union [at : {"begun", "checked"}, user : Users \union {Nobody}, url : Urls,
            playable : SUBSET Sessions]
    \union [at : {"begun"}, user : Users, episode : Episodes, playable : SUBSET Sessions]
    \union [at : {"read"}, user : Users, got : Manifests, playable : SUBSET Sessions]
    \union [at : {"served"}, got : Manifests, playable : SUBSET Sessions]

-----------------------------------------------------------------------------
(* Sessions and URLs *)

At(f, place) == fetch[f].at = place

Signed(f) == "url" \in DOMAIN fetch[f]

Expires(s) == session[s].started + Lifetime

Playable(s) == session[s].status = "active" /\ time <= Expires(s)

PlayableNow == {s \in Sessions : Playable(s)}

\* Faulty variant: the status of the session is not looked at.
ValidUnlessExpired(s, user, episode) ==
    /\ session[s] # Absent
    /\ user # Nobody => session[s].user = user
    /\ episode # NoEpisode => session[s].episode = episode
    /\ time <= Expires(s)

\* check_session_valid_for_playback
Valid(s, user, episode) ==
    /\ session[s] # Absent
    /\ user # Nobody => session[s].user = user
    /\ episode # NoEpisode => session[s].episode = episode
    /\ session[s].status = "active"
    /\ time <= Expires(s)

\* What is signed for a session
SignedUrl(s, ttl) ==
    [session |-> s, episode |-> session[s].episode, expires |-> time + ttl]

\* No one makes a signature without the secret.
Verified(url) == time <= url.expires /\ url \in urls

\* The query of the active sessions of a user, and the check of each for the asset
HasSession(user, m) ==
    \E s \in Sessions :
        /\ session[s].status = "active" /\ session[s].user = user
        /\ session[s].title = m.title
        /\ Valid(s, user, m.episode)

Generated(episode, protocol) ==
    \E m \in manifest : m.episode = episode /\ m.protocol = protocol

\* What is playable after a step is noted in the requests under way.
Noted ==
    fetch' = [f \in Fetches |->
        IF At(f, "idle") THEN Idle ELSE [fetch[f] EXCEPT !.playable = @ \union PlayableNow']]

Become(f, state) == fetch' = [fetch EXCEPT ![f] = state]

UnchangedRows == UNCHANGED <<session, manifest, urls, time>>

-----------------------------------------------------------------------------
Init ==
    /\ session = [s \in Sessions |-> Absent]
    /\ manifest = {} /\ urls = {}
    /\ fetch = [f \in Fetches |-> Idle]
    /\ time = 0

(* The sessions, as PlaybackSession has them *)

\* An episode is optional.
StartPlayback(s, user, episode, title) ==
    /\ session[s] = Absent
    /\ session' = [session EXCEPT ![s] =
         [status |-> "active", user |-> user, episode |-> episode, title |-> title,
          started |-> time]]
    /\ UNCHANGED <<manifest, urls, time>>
    /\ Noted

\* A session that has ended stays so: PlaybackSession's EndedIsFinal.
ChangeStatus(s, status) ==
    /\ session[s].status \in {"active", "paused"} \ {status}
    /\ session' = [session EXCEPT ![s].status = status]
    /\ UNCHANGED <<manifest, urls, time>>
    /\ Noted

Tick ==
    /\ time < MaxTime
    /\ time' = time + 1
    /\ UNCHANGED <<session, manifest, urls>>
    /\ Noted

(* URLs and manifests *)

\* create_signed_playback_url: of the user's own session, which must be valid,
\* for its title; the episode is the session's.
CreateSignedUrl(s, user, title, ttl) ==
    /\ session[s] # Absent /\ session[s].user = user
    /\ Valid(s, user, NoEpisode)
    /\ session[s].title = title /\ session[s].episode # NoEpisode
    /\ urls' = urls \union {SignedUrl(s, ttl)}
    /\ UNCHANGED <<session, manifest, fetch, time>>

\* Administrators only.  The manifest of an episode and protocol is made once;
\* another for it is refused by the unique constraint, or is the one there is,
\* whatever its title.
GenerateManifest(episode, protocol, title) ==
    /\ ~Generated(episode, protocol)
    /\ manifest' = manifest \union
         {[episode |-> episode, protocol |-> protocol, title |-> title]}
    /\ UNCHANGED <<session, urls, fetch, time>>

(* get_episode_manifest and get_manifest *)

\* With all three parameters of a signed URL, and a token or none
BeginSigned(f, user, url) ==
    /\ At(f, "idle")
    /\ Verified(url)
    /\ Become(f, [at |-> "begun", user |-> user, url |-> url, playable |-> PlayableNow])
    /\ UnchangedRows

BeginWithToken(f, user, episode) ==
    /\ At(f, "idle")
    /\ Become(f, [at |-> "begun", user |-> user, episode |-> episode,
                  playable |-> PlayableNow])
    /\ UnchangedRows

CheckSession(f) ==
    /\ At(f, "begun") /\ Signed(f)
    /\ Valid(fetch[f].url.session, fetch[f].user, fetch[f].url.episode)
    /\ fetch' = [fetch EXCEPT ![f].at = "checked"]
    /\ UnchangedRows

\* By episode and protocol, or by its id
ReadManifest(f, m) ==
    /\ At(f, "begun") /\ ~Signed(f)
    /\ m \in manifest /\ m.episode = fetch[f].episode
    /\ Become(f, [at |-> "read", user |-> fetch[f].user, got |-> m,
                  playable |-> fetch[f].playable])
    /\ UnchangedRows

Serve(f, m) ==
    Become(f, [at |-> "served", got |-> m, playable |-> fetch[f].playable])

\* The title of the manifest is not compared with the session's.
ServeSigned(f, m) ==
    /\ At(f, "checked")
    /\ m \in manifest /\ m.episode = fetch[f].url.episode
    /\ Serve(f, m)
    /\ UnchangedRows

\* require_manifest_session
ServeWithToken(f) ==
    /\ At(f, "read")
    /\ HasSession(fetch[f].user, fetch[f].got)
    /\ Serve(f, fetch[f].got)
    /\ UnchangedRows

\* The answer is sent: 401, 403, 404, or the manifest, which nobody may cache.
Answer(f) ==
    /\ ~At(f, "idle")
    /\ Become(f, Idle)
    /\ UnchangedRows

Next ==
    \/ \E s \in Sessions, user \in Users, title \in Titles :
        \/ \E episode \in Episodes \union {NoEpisode} : StartPlayback(s, user, episode, title)
        \/ \E ttl \in UrlTtls : CreateSignedUrl(s, user, title, ttl)
    \/ \E s \in Sessions, status \in {"active", "paused", "ended"} : ChangeStatus(s, status)
    \/ Tick
    \/ \E episode \in Episodes, protocol \in Protocols, title \in Titles :
        GenerateManifest(episode, protocol, title)
    \/ \E f \in Fetches :
        \/ \E user \in Users \union {Nobody}, url \in urls : BeginSigned(f, user, url)
        \/ \E user \in Users, episode \in Episodes : BeginWithToken(f, user, episode)
        \/ CheckSession(f) \/ ServeWithToken(f) \/ Answer(f)
        \/ \E m \in manifest : ReadManifest(f, m) \/ ServeSigned(f, m)

Spec == Init /\ [][Next]_vars

-----------------------------------------------------------------------------
(* Properties *)

TypeOK ==
    /\ session \in [Sessions -> SessionRows \union {Absent}]
    /\ manifest \subseteq Manifests
    /\ urls \subseteq Urls
    /\ fetch \in [Fetches -> FetchStates]
    /\ time \in 0 .. MaxTime

\* A manifest is served only for a session that was active and not expired at
\* some moment of the request, of the manifest's episode: a URL that outlives its
\* session serves nothing, "Session expired or revoked".
ServedWhilePlayable ==
    \A f \in Fetches : At(f, "served") =>
        \E s \in fetch[f].playable : session[s].episode = fetch[f].got.episode

=============================================================================

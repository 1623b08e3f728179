----------------------------- MODULE PhonePlayer -----------------------------
(***************************************************************************)
(* The phone's audio player (context/player-context.jsx) and the lease it  *)
(* plays under: loads of a track, from the server or from a file that was  *)
(* downloaded, takeover, stop, the sleep timer, and what it does with the  *)
(* news about the lease, over the socket or by HTTP.                       *)
(*                                                                         *)
(* An action is a callback, an effect with the commit that causes it, or a *)
(* handler of the server.  loadAudio is taken apart at its awaits: the     *)
(* POST, the first byte of the stream, and the seek before it plays.       *)
(* Left out: positions, the queue, videos, the change of quality (it loads *)
(* the current track again, like a resume), and the loss of the network    *)
(* itself, which stops the socket and starts a downloaded track.           *)
(***************************************************************************)
EXTENDS PlayerServer

CONSTANTS
    Turn,        \* loads at a time (a bound)
    Downloaded,  \* tracks with a local file
    MaxWatches   \* media that leaseHandler fetches at a time (a bound)

ASSUME WatchAssumption == MaxWatches \in Nat

VARIABLES
    phone,       \* the refs and the state of PlayerProvider
    loadAudio,   \* the calls of loadAudio between two awaits
    watches,     \* fetches of the holder's medium by leaseHandler
    admin,       \* takeOverExclusiveSession: the track it was called for
    strays       \* history: what made the sound start without a source

phoneVars == <<phone, loadAudio, watches, admin, strays>>

-----------------------------------------------------------------------------
Sound == [media : Clip, from : Ticket \union {NoOne}, playing : BOOLEAN]

Phone == [media : Clip \union {NoOne},       \* currentMediaRef
          source : Ticket \union {NoOne},    \* playbackSourceRef
          service : Ticket \union {NoOne},   \* the session that the socket's service binds
          sound : Sound \union {NoOne},      \* soundRef
          conflict : BOOLEAN,                \* playbackConflict
          revoked : BOOLEAN,                 \* revokedSessionId
          paused : BOOLEAN,
          awaiting : BOOLEAN,                \* awaitingAutoplayRef is the current track
          repeating : BOOLEAN,               \* handleEnded awaits the seek of a repeat
          asleep : BOOLEAN]                  \* sleepTimerCompleted

AudioLoad == [media : Clip, autoplay : BOOLEAN, fresh : BOOLEAN,
            at : {"sent", "made", "refused", "prepare", "seek"}, session : Ticket \union {NoOne}]

PhoneTypeOK ==
    /\ ServerTypeOK
    /\ phone \in Phone /\ loadAudio \in [Turn -> AudioLoad \union {NoOne}]
    /\ watches \in 0..MaxWatches
    /\ admin \in [media : Clip, at : {"sent", "done"}] \union {NoOne}
    /\ strays \subseteq {"seek", "sleep", "repeat"}

PhoneInit ==
    /\ ServerInit
    /\ phone = [media |-> NoOne, source |-> NoOne, service |-> NoOne, sound |-> NoOne,
                conflict |-> FALSE, revoked |-> FALSE, paused |-> TRUE, awaiting |-> FALSE,
                repeating |-> FALSE, asleep |-> FALSE]
    /\ loadAudio = [n \in Turn |-> NoOne] /\ watches = 0 /\ admin = NoOne /\ strays = {}

-----------------------------------------------------------------------------
(* Shared callbacks *)

ServerStays == UNCHANGED <<serverVars, wireVars>>
LoadsStay == UNCHANGED loadAudio
OthersStay == UNCHANGED <<watches, admin, strays>>

\* Mutant: the sequence number is left alone.
SupersededNever == loadAudio

\* audioLoadSequenceRef moves on.
Superseded ==
    [n \in Turn |-> IF loadAudio[n] = NoOne THEN NoOne ELSE [loadAudio[n] EXCEPT !.fresh = FALSE]]

Playing(p, on) == IF p.sound = NoOne THEN p ELSE [p EXCEPT !.sound.playing = on]

\* Mutant: the source is dropped and the sound goes on.
SilencedLater(p) == [p EXCEPT !.source = NoOne, !.paused = TRUE]

\* The refs are cleared of a source that is lost, and the sound is paused.
Silenced(p) == [Playing(p, FALSE) EXCEPT !.source = NoOne, !.paused = TRUE]

\* startMedia for the phone p up to the first await of loadAudio, or with a
\* local file up to its seek.
StartMedia(p, m, autoplay, seeks) ==
    LET q == [p EXCEPT !.revoked = FALSE, !.media = m, !.sound = NoOne,
                       !.paused = ~autoplay, !.awaiting = autoplay]
        local == [q EXCEPT !.source = NoOne, !.conflict = FALSE,
                           !.sound = [media |-> m, from |-> NoOne, playing |-> autoplay /\ ~seeks]]
        at == IF m \in Downloaded THEN "seek" ELSE "sent"
        begun == [media |-> m, autoplay |-> autoplay, fresh |-> TRUE, at |-> at, session |-> NoOne]
    IN /\ phone' = IF m \in Downloaded THEN local ELSE q
       /\ IF m \in Downloaded /\ ~seeks
            THEN loadAudio' = Superseded
            ELSE \E n \in Turn : /\ loadAudio[n] = NoOne
                                 /\ loadAudio' = [Superseded EXCEPT ![n] = begun]

-----------------------------------------------------------------------------
(* Requests at the server *)

ServeAudio(n) ==
    /\ loadAudio[n] # NoOne /\ loadAudio[n].at = "sent"
    /\ \/ \E t \in Ticket : /\ Acquire(t, loadAudio[n].media)
                            /\ loadAudio' = [loadAudio EXCEPT ![n].at = "made", ![n].session = t]
       \/ /\ owner = Rival /\ loadAudio' = [loadAudio EXCEPT ![n].at = "refused"]
          /\ ServerStays
    /\ OthersStay /\ UNCHANGED phone

ServeAdmin ==
    /\ admin # NoOne /\ admin.at = "sent" /\ admin' = [admin EXCEPT !.at = "done"] /\ ForceRelease
    /\ LoadsStay /\ UNCHANGED <<phone, watches, strays>>

-----------------------------------------------------------------------------
(* loadAudio *)

AudioEnds(n) == loadAudio' = [loadAudio EXCEPT ![n] = NoOne]

\* The answer to the POST: preparePlaybackSource follows, whoever waits.
AudioPrepares(n) ==
    /\ loadAudio[n] # NoOne /\ loadAudio[n].at = "made"
    /\ loadAudio' = [loadAudio EXCEPT ![n].at = "prepare"]
    /\ ServerStays /\ OthersStay /\ UNCHANGED phone

\* The first byte has come, for a track that is no longer wanted.
AudioReleases(n) ==
    /\ loadAudio[n] # NoOne /\ loadAudio[n].at = "prepare" /\ ~loadAudio[n].fresh
    /\ loadAudio[n].session \in valid /\ owner = loadAudio[n].session
    /\ Release(loadAudio[n].session) /\ AudioEnds(n)
    /\ OthersStay /\ UNCHANGED phone

\* The first byte has come: the source is bound, and the sound plays at once or
\* after its seek.
AudioOpens(n) ==
    LET l == loadAudio[n] IN
    /\ l # NoOne /\ l.at = "prepare" /\ l.fresh /\ l.session \in valid /\ owner = l.session
    /\ \E seeks \in BOOLEAN :
         /\ phone' = [phone EXCEPT !.source = l.session, !.service = l.session, !.conflict = FALSE,
                          !.sound = [media |-> l.media, from |-> l.session,
                                     playing |-> l.autoplay /\ ~seeks]]
         /\ loadAudio' = [loadAudio EXCEPT ![n] = IF seeks THEN [l EXCEPT !.at = "seek"] ELSE NoOne]
    /\ BoundTo(l.session)
    /\ OthersStay /\ UNCHANGED <<serverVars, online>>

\* seekTo is done.  Whether the source is still there is not asked.
AudioSeeks(n) ==
    LET l == loadAudio[n]
        stray == phone.sound # NoOne /\ phone.sound.from # phone.source
    IN /\ l # NoOne /\ l.at = "seek" /\ AudioEnds(n)
       /\ phone' = IF l.fresh THEN Playing(phone, l.autoplay) ELSE phone
       /\ strays' = strays \union (IF l.fresh /\ l.autoplay /\ stray THEN {"seek"} ELSE {})
       /\ ServerStays /\ UNCHANGED <<watches, admin>>

\* Refused, no longer the holder, or the network failed.
AudioFails(n) ==
    LET l == loadAudio[n]
        denied == l.at = "refused" \/ (l.at = "prepare" /\ l.session \in valid /\ owner # l.session)
    IN /\ l # NoOne /\ l.at # "seek" /\ AudioEnds(n)
       /\ \E conflict \in {denied, FALSE} :
            phone' = IF l.fresh THEN [phone EXCEPT !.conflict = conflict] ELSE phone
       /\ ServerStays /\ OthersStay

-----------------------------------------------------------------------------
(* The user and the sound *)

\* playMedia, whatever the conflict, playOfflineMedia, and what the queue's next
\* track ends in.
PlayTrack(m) ==
    /\ StartMedia(phone, m, TRUE, FALSE)
    /\ ServerStays /\ OthersStay

\* togglePlayback.  Without a source the current track is loaded again.
TogglePlayback ==
    /\ ~phone.conflict /\ ~phone.revoked /\ phone.media # NoOne
    /\ IF phone.source = NoOne
         THEN \E seeks \in BOOLEAN : StartMedia(phone, phone.media, TRUE, seeks)
         ELSE /\ phone' = [Playing(phone, phone.paused) EXCEPT !.awaiting = FALSE, !.paused = ~@]
              /\ LoadsStay
    /\ ServerStays /\ OthersStay

\* playbackStatusUpdate of the sound of the current track.
StatusUpdate ==
    /\ phone.sound # NoOne /\ phone.sound.media = phone.media
    /\ phone.sound.playing \/ ~phone.awaiting
    /\ phone' = [phone EXCEPT !.paused = ~phone.sound.playing, !.awaiting = FALSE]
    /\ ServerStays /\ LoadsStay /\ OthersStay

\* The sound finishes.  handleEnded asks the queue for the next track, leaves
\* this one ended, or repeats it; one repeat seeks at a time (a bound).
TrackEnds ==
    /\ phone.sound # NoOne /\ phone.sound.media = phone.media /\ phone.sound.playing
    /\ LET ended == Playing(phone, FALSE) IN
       \/ phone' = ended
       \/ ~phone.awaiting /\ phone' = [ended EXCEPT !.paused = TRUE]
       \/ /\ ~phone.awaiting /\ ~phone.repeating
          /\ phone' = [ended EXCEPT !.awaiting = TRUE, !.paused = FALSE, !.repeating = TRUE]
    /\ ServerStays /\ LoadsStay /\ OthersStay

\* Its seekTo(0) is done, and the sound there is now plays: neither the source
\* nor the conflict is asked for.
RepeatSeeks ==
    /\ phone.repeating
    /\ phone' = [Playing(phone, TRUE) EXCEPT !.repeating = FALSE]
    /\ strays' = strays \union (IF phone.sound # NoOne /\ phone.sound.from # phone.source
                                  THEN {"repeat"} ELSE {})
    /\ ServerStays /\ LoadsStay /\ UNCHANGED <<watches, admin>>

RepeatFails ==
    /\ phone.repeating /\ phone' = [phone EXCEPT !.repeating = FALSE]
    /\ ServerStays /\ LoadsStay /\ OthersStay

StopTrack ==
    /\ phone.media # NoOne
    /\ phone' = [phone EXCEPT !.media = NoOne, !.source = NoOne, !.sound = NoOne,
                     !.conflict = FALSE, !.paused = TRUE, !.awaiting = FALSE, !.asleep = FALSE]
    /\ loadAudio' = Superseded /\ Release(phone.source)
    /\ OthersStay

\* takeOverExclusiveSession goes on with the track it was called for.
TakeOverAsks ==
    /\ phone.conflict /\ phone.media # NoOne /\ admin = NoOne
    /\ admin' = [media |-> phone.media, at |-> "sent"]
    /\ ServerStays /\ LoadsStay /\ UNCHANGED <<phone, watches, strays>>

TakeOverStarts ==
    /\ admin # NoOne /\ admin.at = "done" /\ admin' = NoOne
    /\ StartMedia([phone EXCEPT !.conflict = FALSE], admin.media, TRUE, TRUE)
    /\ ServerStays /\ UNCHANGED <<watches, strays>>

TakeOverRefused ==
    /\ admin # NoOne /\ admin' = NoOne
    /\ ServerStays /\ LoadsStay /\ UNCHANGED <<phone, watches, strays>>

\* The sleep timer runs out, and its modal asks whether to go on.
SleepTimerEnds ==
    /\ phone.media # NoOne
    /\ phone' = [Playing(phone, FALSE) EXCEPT !.awaiting = FALSE, !.paused = TRUE, !.asleep = TRUE]
    /\ ServerStays /\ LoadsStay /\ OthersStay

ResumeAfterSleep ==
    /\ phone.asleep
    /\ phone' = [Playing(phone, TRUE) EXCEPT !.asleep = FALSE, !.awaiting = FALSE, !.paused = FALSE]
    /\ strays' = strays \union (IF phone.sound # NoOne /\ phone.sound.from # phone.source
                                  THEN {"sleep"} ELSE {})
    /\ ServerStays /\ LoadsStay /\ UNCHANGED <<watches, admin>>

-----------------------------------------------------------------------------
(* The socket *)

\* onError takes whatever source there is for the one that was lost.
RevocationArrives ==
    /\ Arriving("lost") /\ news' = Tail(news)
    /\ phone' = IF phone.source = NoOne THEN phone
                ELSE [Silenced(phone) EXCEPT !.revoked = TRUE, !.service = NoOne]
    /\ LoadsStay /\ OthersStay /\ UNCHANGED <<serverVars, entry, online>>

\* leaseHandler.  The rival plays, and its snapshot is taken over at once when
\* its medium is the current one.
NewsArrive ==
    LET state == Head(news).state
        beaten == IF phone.source = NoOne THEN phone ELSE [Silenced(phone) EXCEPT !.service = NoOne]
        known == phone.media = RivalClip
    IN /\ Arriving("state") /\ news' = Tail(news)
       /\ phone' = CASE state = "available" -> [phone EXCEPT !.conflict = FALSE]
                     [] state = "busy" -> [beaten EXCEPT !.conflict = TRUE, !.paused = @ /\ ~known]
                     [] OTHER -> phone
       /\ watches' = IF state = "busy" /\ ~known THEN watches + 1 ELSE watches
       /\ watches' <= MaxWatches
       /\ LoadsStay /\ UNCHANGED <<serverVars, entry, online, admin, strays>>

\* The holder's medium has been fetched: nothing asks what has come in between.
FetchedArrives ==
    /\ watches > 0 /\ watches' = watches - 1
    /\ phone' = [phone EXCEPT !.sound = NoOne, !.media = RivalClip, !.paused = FALSE]
    /\ loadAudio' = Superseded
    /\ ServerStays /\ UNCHANGED <<admin, strays>>

\* The fetch failed; what follows the try is done all the same.
FetchFails ==
    /\ watches > 0 /\ watches' = watches - 1 /\ phone' = [phone EXCEPT !.paused = FALSE]
    /\ ServerStays /\ LoadsStay /\ UNCHANGED <<admin, strays>>

SocketDrops ==
    /\ online /\ online' = FALSE /\ entry' = Unbound /\ news' = <<>>
    /\ LoadsStay /\ OthersStay /\ UNCHANGED <<serverVars, phone>>

SocketReady ==
    /\ ~online /\ online' = TRUE /\ entry' = Rebound(Unbound, phone.service)
    /\ news' = <<Stated(Unbound, owner)>> \o
                (IF phone.service = NoOne THEN <<>> ELSE <<Stated(entry', owner)>>)
    /\ LoadsStay /\ OthersStay /\ UNCHANGED <<serverVars, phone>>

-----------------------------------------------------------------------------
(* Without the socket *)

\* Refused, or the network failed.
HeartbeatFails ==
    /\ ~online /\ phone.source # NoOne
    /\ \E conflict \in {owner # phone.source /\ phone.source \in valid, FALSE} :
         phone' = [Silenced(phone) EXCEPT !.conflict = conflict]
    /\ ServerStays /\ LoadsStay /\ OthersStay

\* The observer asks every five seconds and takes over what the holder plays.
PollAnswers ==
    /\ ~online /\ phone.conflict
    /\ IF owner # Rival
         THEN phone' = [phone EXCEPT !.conflict = FALSE] /\ LoadsStay
         ELSE IF phone.media = RivalClip
         THEN phone' = [phone EXCEPT !.paused = FALSE] /\ LoadsStay
         ELSE /\ phone' = [phone EXCEPT !.media = RivalClip, !.sound = NoOne, !.source = NoOne,
                                        !.paused = FALSE]
              /\ loadAudio' = Superseded
    /\ ServerStays /\ OthersStay

PhoneNext ==
    \/ (LeaseEnds \/ RivalTakes) /\ UNCHANGED phoneVars
    \/ \E n \in Turn : \/ ServeAudio(n) \/ AudioPrepares(n) \/ AudioReleases(n) \/ AudioOpens(n)
                       \/ AudioSeeks(n) \/ AudioFails(n)
    \/ ServeAdmin
    \/ \E m \in Clip : PlayTrack(m)
    \/ TogglePlayback \/ StatusUpdate \/ StopTrack
    \/ TrackEnds \/ RepeatSeeks \/ RepeatFails
    \/ TakeOverAsks \/ TakeOverStarts \/ TakeOverRefused
    \/ SleepTimerEnds \/ ResumeAfterSleep
    \/ RevocationArrives \/ NewsArrive \/ FetchedArrives \/ FetchFails
    \/ SocketDrops \/ SocketReady \/ HeartbeatFails \/ PollAnswers

-----------------------------------------------------------------------------
(* Properties *)

\* player-context.jsx:561: once its news have arrived, a phone beside another
\* device that holds the lease has no source, and what it streamed before is
\* silent, whatever loads are under way.  Three things do start the sound without
\* a source: a load's seek that outlasts the lease, the sleep timer's modal, and
\* the seek of a track that is repeated.
RivalSilencesPhone ==
    online /\ news = <<>> /\ owner = Rival =>
        /\ phone.source = NoOne
        /\ strays = {} /\ phone.sound # NoOne /\ phone.sound.from # NoOne => ~phone.sound.playing

\* player-context.jsx:369: what sounds is the track that is shown, whichever of
\* two loads opened last and whatever was fetched meanwhile.
SoundIsShown == phone.sound # NoOne => phone.sound.media = phone.media

\* player-context.jsx:399: a source is the holder's session as far as the phone
\* knows, and no sound of an older session goes on beside it.
SoundIsOfSource ==
    phone.source # NoOne /\ phone.sound # NoOne => phone.sound.from = phone.source

PhoneInv == PhoneTypeOK /\ SoundIsShown /\ SoundIsOfSource

PhoneSpec == PhoneInit /\ [][PhoneNext]_<<serverVars, wireVars, phoneVars>>
=============================================================================

------------------------------ MODULE WebPlayer ------------------------------
(***************************************************************************)
(* The web player (GlobalPlayer.jsx) and the lease it plays under: the     *)
(* effect that creates a session for the current medium, the fresh session *)
(* of a resume, takeover, stop, and what it does with the news about the   *)
(* lease, over the socket when it is ready and by HTTP when it is not.     *)
(*                                                                         *)
(* An action is a callback, an effect with the commit that causes it, or a *)
(* handler of the server.  A POST is sent, handled and answered in three   *)
(* steps, and may be handled after its client has aborted it; a release is *)
(* handled at once, and so is a bind (PlaybackFeed takes those apart).     *)
(* Left out: positions, the queue, qualities (a change of quality restarts *)
(* the effect like a change of medium), images, whose sessions need no     *)
(* lease, and the closing of the page.                                     *)
(***************************************************************************)
EXTENDS PlayerServer

VARIABLES
    effect,    \* the session creation effect: its request
    resume,    \* the request of playWithFreshLease
    ghost,     \* the medium of a POST that its client aborted
    force,     \* the administrator's release in takeOverExclusiveSession
    watch,     \* the medium that leaseHandler is fetching
    page       \* the state and the refs of the component

requestVars == <<effect, resume, ghost, force, watch>>
webVars == <<serverVars, wireVars, requestVars, page>>

-----------------------------------------------------------------------------
Element == {"empty", "loading", "paused", "playing"}

Page == [media : Clip \union {NoOne},       \* currentMedia
         observing : BOOLEAN,               \* observingExclusiveSession
         session : Ticket \union {NoOne},   \* playbackSessionIdRef
         service : Ticket \union {NoOne},   \* the session that the socket's service binds
         source : Ticket \union {NoOne},    \* the session whose streamUrl is streamSrc
         element : Element,                 \* the media element
         paused : BOOLEAN,
         stale : BOOLEAN,                   \* leaseStaleRef
         pending : BOOLEAN]                 \* takeoverPendingRef

Ask == [media : Clip, at : {"sent", "made", "refused", "prepare"}, session : Ticket \union {NoOne},
            replacing : Ticket \union {NoOne}]

WebTypeOK ==
    /\ ServerTypeOK
    /\ effect \in Ask \union {NoOne} /\ resume \in Ask \union {NoOne}
    /\ ghost \in Clip \union {NoOne} /\ force \in {"none", "sent", "done"}
    /\ watch \in Clip \union {NoOne} /\ page \in Page
    /\ (page.source = NoOne) = (page.element = "empty")

WebInit ==
    /\ ServerInit
    /\ effect = NoOne /\ resume = NoOne /\ ghost = NoOne /\ force = "none" /\ watch = NoOne
    /\ page = [media |-> NoOne, observing |-> FALSE, session |-> NoOne, service |-> NoOne,
               source |-> NoOne, element |-> "empty", paused |-> TRUE,
               stale |-> FALSE, pending |-> FALSE]

-----------------------------------------------------------------------------
(* Requests at the server *)

ServeEffect ==
    /\ effect # NoOne /\ effect.at = "sent"
    /\ \/ \E t \in Ticket : /\ Acquire(t, effect.media)
                            /\ effect' = [effect EXCEPT !.at = "made", !.session = t]
       \/ /\ owner = Rival /\ effect' = [effect EXCEPT !.at = "refused"]
          /\ UNCHANGED <<serverVars, wireVars>>
    /\ UNCHANGED <<resume, ghost, force, watch, page>>

ServeResume ==
    /\ resume # NoOne /\ resume.at = "sent"
    /\ \/ \E t \in Ticket : /\ Acquire(t, resume.media)
                            /\ resume' = [resume EXCEPT !.at = "made", !.session = t]
       \/ /\ owner = Rival /\ resume' = [resume EXCEPT !.at = "refused"]
          /\ UNCHANGED <<serverVars, wireVars>>
    /\ UNCHANGED <<effect, ghost, force, watch, page>>

\* A request whose client is gone: handled late, refused or lost.
ServeGhost ==
    /\ ghost # NoOne /\ ghost' = NoOne
    /\ \/ \E t \in Ticket : Acquire(t, ghost)
       \/ UNCHANGED <<serverVars, wireVars>>
    /\ UNCHANGED <<effect, resume, force, watch, page>>

ServeForce ==
    /\ force = "sent" /\ force' = "done" /\ ForceRelease
    /\ UNCHANGED <<effect, resume, ghost, watch, page>>

-----------------------------------------------------------------------------
(* Effects and shared callbacks *)

\* What of a request is left when its client aborts it or loses interest.
Ghost(request) == IF request # NoOne /\ request.at = "sent" THEN request.media ELSE ghost

Emptied(p) == [p EXCEPT !.source = NoOne, !.element = "empty"]

\* Mutant: the cleanup aborts the request, but the stream goes on.
CommitStreaming(p) ==
    IF p.media = page.media /\ p.observing = page.observing
      THEN page' = p /\ UNCHANGED <<effect, ghost>>
      ELSE /\ page' = p /\ ghost' = Ghost(effect)
           /\ effect' = IF p.media = NoOne \/ p.observing THEN NoOne
                        ELSE [media |-> p.media, at |-> "sent", session |-> NoOne, replacing |-> p.session]

\* The page becomes p: when the medium or the mode has changed the effect is
\* cleaned up and runs again.
Commit(p) ==
    IF p.media = page.media /\ p.observing = page.observing
      THEN page' = p /\ UNCHANGED <<effect, ghost>>
      ELSE /\ page' = Emptied(p) /\ ghost' = Ghost(effect)
           /\ effect' = IF p.media = NoOne \/ p.observing THEN NoOne
                        ELSE [media |-> p.media, at |-> "sent", session |-> NoOne, replacing |-> p.session]

\* handleLeaseLost, with a conflict or without.
Lost(p, conflict) ==
    [Emptied(p) EXCEPT !.session = NoOne, !.paused = TRUE, !.observing = conflict]

Resuming(m) == [media |-> m, at |-> "sent", session |-> NoOne, replacing |-> NoOne]

\* playWithFreshLease for the page p: what becomes of resume and the element.
Fresh(p) ==
    IF p.stale
      THEN /\ resume' = Resuming(p.media) /\ ghost' = Ghost(resume)
           /\ page' = [p EXCEPT !.stale = FALSE]
      ELSE /\ UNCHANGED <<resume, ghost>>
           /\ page' = IF p.source = NoOne THEN p
                      ELSE [p EXCEPT !.element = "playing", !.paused = FALSE]

\* Without the socket a paused player lets its lease lapse.
Rested(p, ready) == [p EXCEPT !.stale = @ \/ (~ready /\ p.session # NoOne /\ p.media # NoOne /\ p.paused)]

-----------------------------------------------------------------------------
(* The user *)

\* playMedia: resetForMedia with autoplay.  The medium that plays goes on, with
\* a fresh lease when it is stale.
PlayMedia(m) ==
    LET again == m = page.media
        p == [page EXCEPT !.media = m, !.observing = FALSE, !.paused = FALSE]
    IN /\ IF again /\ ~page.observing
            THEN Fresh(p) /\ UNCHANGED effect
            ELSE /\ Commit([p EXCEPT !.stale = @ /\ ~again])
                 /\ resume' = IF again /\ page.stale THEN Resuming(m) ELSE resume
       /\ UNCHANGED <<serverVars, wireVars, force, watch>>

\* playMediaById for the current medium, which does not leave the observer's
\* mode; for another it is playMedia after a fetch.
PlayMediaById ==
    /\ page.media # NoOne /\ Fresh([page EXCEPT !.paused = FALSE])
    /\ UNCHANGED <<serverVars, wireVars, effect, force, watch>>

Toggle ==
    /\ ~page.observing /\ page.media # NoOne
    /\ IF page.element = "playing"
         THEN /\ page' = Rested([page EXCEPT !.element = "paused", !.paused = TRUE], online)
              /\ UNCHANGED <<resume, ghost>>
         ELSE Fresh(page)
    /\ UNCHANGED <<serverVars, wireVars, effect, force, watch>>

\* handleLoadedMetadata.
Loaded ==
    /\ page.element = "loading"
    /\ \/ page' = [page EXCEPT !.element = "playing", !.paused = FALSE]
       \/ page' = [page EXCEPT !.element = "paused"]
    /\ UNCHANGED <<serverVars, wireVars, requestVars>>

\* stopPlayback releases the session it had.
Stop ==
    LET p == [page EXCEPT !.media = NoOne, !.observing = FALSE, !.session = NoOne,
                          !.paused = TRUE]
    IN /\ page.media # NoOne
       /\ Commit(p)
       /\ Release(page.session)
       /\ UNCHANGED <<resume, force, watch>>

\* takeOverExclusiveSession.
TakeOverBegin ==
    /\ page.observing /\ ~page.pending /\ force = "none"
    /\ force' = "sent" /\ page' = [page EXCEPT !.pending = TRUE]
    /\ UNCHANGED <<serverVars, wireVars, effect, resume, ghost, watch>>

\* The lease is free: leaving the observer's mode starts the effect.
TakeOverDone ==
    /\ force = "done" /\ force' = "none"
    /\ Commit([page EXCEPT !.observing = FALSE, !.paused = TRUE])
    /\ UNCHANGED <<serverVars, wireVars, resume, watch>>

TakeOverFails ==
    /\ force # "none" /\ force' = "none" /\ page' = [page EXCEPT !.pending = FALSE]
    /\ UNCHANGED <<serverVars, wireVars, effect, resume, ghost, watch>>

-----------------------------------------------------------------------------
(* Answers *)

EffectPrepares ==
    /\ effect # NoOne /\ effect.at = "made" /\ effect' = [effect EXCEPT !.at = "prepare"]
    /\ UNCHANGED <<serverVars, wireVars, resume, ghost, force, watch, page>>

\* Mutant: the takeover is not settled by the session that it was for.
StreamsPending(p, t) ==
    [p EXCEPT !.session = t, !.service = t, !.source = t, !.element = "loading"]

Streams(p, t) ==
    [p EXCEPT !.pending = FALSE, !.session = t, !.service = t, !.source = t, !.element = "loading"]

\* preparePlaybackStream has got its first byte: only the holder gets it.
EffectPlays ==
    /\ effect # NoOne /\ effect.at = "prepare" /\ effect.session \in valid /\ owner = effect.session
    /\ effect' = NoOne
    /\ page' = Rested(Streams(page, effect.session), online)
    /\ BoundTo(effect.session)
    /\ UNCHANGED <<serverVars, online, resume, ghost, force, watch>>

\* Refused with the holder, the session has gone meanwhile, or the network failed.
EffectFails ==
    LET outOfTurn == effect.at = "prepare" /\ owner # effect.session
        conflict == effect.at = "refused" \/ (outOfTurn /\ effect.session \in valid)
        p == [page EXCEPT !.pending = FALSE, !.paused = TRUE, !.observing = conflict]
    IN /\ effect # NoOne /\ (effect.at = "prepare" => outOfTurn)
       /\ effect' = NoOne /\ ghost' = Ghost(effect)
       /\ page' = IF conflict THEN Emptied(p) ELSE p
       /\ UNCHANGED <<serverVars, wireVars, resume, force, watch>>

\* The answer to playWithFreshLease counts whatever the page shows by now.
ResumePlays ==
    /\ resume # NoOne /\ resume.at = "made" /\ resume' = NoOne
    /\ page' = [page EXCEPT !.session = resume.session, !.service = resume.session,
                            !.element = IF page.source = NoOne THEN @ ELSE "playing",
                            !.paused = @ /\ page.source = NoOne]
    /\ BoundTo(resume.session)
    /\ UNCHANGED <<serverVars, online, effect, ghost, force, watch>>

\* Refused, or the network failed.
ResumeFails ==
    /\ resume # NoOne /\ resume' = NoOne
    /\ Commit(Lost(page, resume.at = "refused"))
    /\ UNCHANGED <<serverVars, wireVars, force, watch>>

-----------------------------------------------------------------------------
(* The socket *)

\* onError: the session in use, unless the effect is replacing it.
LeaseLossArrives ==
    LET replacing == IF effect = NoOne THEN NoOne ELSE effect.replacing IN
    /\ Arriving("lost") /\ news' = Tail(news)
    /\ IF page.session = Head(news).session /\ replacing # page.session
         THEN Commit(Lost(page, TRUE)) ELSE UNCHANGED <<page, effect, ghost>>
    /\ UNCHANGED <<serverVars, entry, online, resume, force, watch>>

\* leaseHandler.  A takeover is not disturbed.
StateArrives ==
    LET state == Head(news).state
        left == [page EXCEPT !.media = IF page.observing THEN NoOne ELSE @, !.observing = FALSE]
        beaten == IF page.session = NoOne THEN page ELSE [Lost(page, TRUE) EXCEPT !.service = NoOne]
    IN /\ Arriving("state") /\ news' = Tail(news)
       /\ watch' = IF state = "busy" /\ ~page.pending /\ page.media # RivalClip THEN RivalClip ELSE NoOne
       /\ CASE page.pending -> UNCHANGED <<page, effect, ghost>>
            [] ~page.pending /\ state = "available" ->
                 Commit([left EXCEPT !.stale = @ \/ page.session # NoOne])
            [] ~page.pending /\ state = "owned" ->
                 IF page.observing /\ page.session = NoOne THEN Commit(left) ELSE UNCHANGED <<page, effect, ghost>>
            [] ~page.pending /\ state = "busy" ->
                 Commit([beaten EXCEPT !.observing = TRUE,
                                       !.paused = IF page.media = RivalClip THEN FALSE ELSE @])
       /\ UNCHANGED <<serverVars, entry, online, resume, force>>

\* The medium of the holder has been fetched, and no later news has come.
WatchArrives ==
    /\ watch # NoOne /\ watch' = NoOne
    /\ Commit([page EXCEPT !.media = watch, !.observing = TRUE, !.paused = TRUE])
    /\ UNCHANGED <<serverVars, wireVars, resume, force>>

-----------------------------------------------------------------------------
(* The loss of the socket *)

SocketCloses ==
    /\ online /\ online' = FALSE
    /\ entry' = Unbound /\ news' = <<>> /\ page' = Rested(page, FALSE)
    /\ UNCHANGED <<serverVars, requestVars>>

\* socket.ready, the state that follows it, and the bind of the service's session.
SocketOpens ==
    /\ ~online /\ online' = TRUE
    /\ entry' = Rebound(Unbound, page.service)
    /\ news' = <<Stated(Unbound, owner)>> \o
                (IF page.service = NoOne THEN <<>> ELSE <<Stated(entry', owner)>>)
    /\ UNCHANGED <<serverVars, requestVars, page>>


\* A heartbeat is answered, refused, or fails.
Heartbeat ==
    /\ ~online /\ page.session # NoOne /\ page.media # NoOne /\ ~page.paused
    /\ \/ owner = page.session /\ page' = [page EXCEPT !.stale = FALSE] /\ UNCHANGED <<effect, ghost>>
       \/ owner # page.session /\ Commit(Lost(page, page.session \in valid))
       \/ Commit(Lost(page, FALSE))
    /\ UNCHANGED <<serverVars, wireVars, resume, force, watch>>

\* The first look at the lease, and the observer's every five seconds.
Poll ==
    /\ ~online /\ ~page.pending
    /\ \/ owner = Rival /\ ~page.observing /\ Commit([page EXCEPT !.observing = TRUE])
       \/ owner = Rival /\ page.observing
          /\ Commit([page EXCEPT !.media = RivalClip, !.paused = page.media # RivalClip])
       \/ owner # Rival /\ page.observing /\ Commit([page EXCEPT !.media = NoOne, !.observing = FALSE])
    /\ UNCHANGED <<serverVars, wireVars, resume, force, watch>>

WebNext ==
    \/ (LeaseEnds \/ RivalTakes) /\ UNCHANGED <<requestVars, page>>
    \/ ServeEffect \/ ServeResume \/ ServeGhost \/ ServeForce
    \/ \E m \in Clip : PlayMedia(m)
    \/ PlayMediaById \/ Toggle \/ Loaded \/ Stop \/ TakeOverBegin \/ TakeOverDone \/ TakeOverFails
    \/ EffectPrepares \/ EffectPlays \/ EffectFails \/ ResumePlays \/ ResumeFails
    \/ LeaseLossArrives \/ StateArrives \/ WatchArrives
    \/ SocketCloses \/ SocketOpens \/ Heartbeat \/ Poll

-----------------------------------------------------------------------------
(* Properties *)

\* GlobalPlayer.jsx:577: once its news have arrived, a page beside another
\* device that holds the lease streams nothing, whatever requests and answers
\* are still under way and however they overtook each other.
LoserStreamsNothing ==
    online /\ news = <<>> /\ owner = Rival => page.source = NoOne

\* GlobalPlayer.jsx:232: what streams is the current medium, on a page that
\* does not observe, whichever answers came late.
StreamIsCurrent ==
    page.source # NoOne => clipOf[page.source] = page.media /\ ~page.observing

WebInv == WebTypeOK /\ StreamIsCurrent

WebSpec == WebInit /\ [][WebNext]_webVars
=============================================================================

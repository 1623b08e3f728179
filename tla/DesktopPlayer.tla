---------------------------- MODULE DesktopPlayer ----------------------------
(***************************************************************************)
(* The desktop player (desktop/src/ui/mod.rs): tasks that load a medium,   *)
(* the coordinator that tells late ones by a sequence number, the socket's *)
(* event loop, the heartbeat without a socket, takeover and stop.          *)
(*                                                                         *)
(* An action is the code of a task or a handler between two awaits.  A     *)
(* task is fresh until the sequence number moves on.  The event loop waits *)
(* while it fetches the holder's medium; the other tasks go on.            *)
(* Left out: positions, the queue, photos, local files, reports other than *)
(* over the socket, releases that fail.                                    *)
(***************************************************************************)
EXTENDS PlayerServer

CONSTANT Slot   \* tasks of play_media_at at a time (a bound)

VARIABLES
    desk,      \* NativeApp: the coordinator's snapshot, session, takeover, bind
    engine,    \* the session whose stream the pipeline has, and does it play?
    load,      \* the tasks of play_media_at
    beat,      \* the task of heartbeat
    take,      \* the task of take_over_playback
    fetch,     \* apply_remote_holder, by the task that awaits it
    slips      \* history: what the user did while a medium was loading

taskVars == <<load, beat, take, fetch>>
desktopVars == <<serverVars, wireVars, desk, engine, taskVars, slips>>

-----------------------------------------------------------------------------
Desk == [media : Clip \union {NoOne},
         status : {"idle", "loading", "playing", "paused", "failed"},
         elsewhere : BOOLEAN,               \* session_unavailable
         session : Ticket \union {NoOne},
         pending : BOOLEAN,                 \* session_takeover_pending
         bound : Ticket \union {NoOne}]     \* socket_session_id

LoadTask == [media : Clip, fresh : BOOLEAN, takeover : BOOLEAN,
             at : {"release", "sent", "made", "refused", "failed", "ready", "open"},
             session : Ticket \union {NoOne}]   \* the one before, then its own

Caller == {"socket", "load", "beat"}
Fetch == [was : BOOLEAN, heard : BOOLEAN, holder : BOOLEAN, takeover : BOOLEAN]

DesktopTypeOK ==
    /\ ServerTypeOK /\ desk \in Desk
    /\ engine \in [session : Ticket \union {NoOne}, playing : BOOLEAN]
    /\ (engine.playing => engine.session # NoOne)
    /\ load \in [Slot -> LoadTask \union {NoOne}]
    /\ beat \in [session : Ticket \union {NoOne},
                 at : {"sent", "fine", "busy", "available", "lost", "error"}] \union {NoOne}
    /\ take \in [media : Clip, at : {"sent", "done"}] \union {NoOne}
    /\ fetch \in [Caller -> Fetch \union {NoOne}]
    /\ slips \subseteq {"stop", "toggle", "unfetched", "beat"}

DesktopInit ==
    /\ ServerInit
    /\ desk = [media |-> NoOne, status |-> "idle", elsewhere |-> FALSE, session |-> NoOne,
               pending |-> FALSE, bound |-> NoOne]
    /\ engine = [session |-> NoOne, playing |-> FALSE]
    /\ load = [s \in Slot |-> NoOne] /\ beat = NoOne /\ take = NoOne
    /\ fetch = [c \in Caller |-> NoOne] /\ slips = {}

Silent == [session |-> NoOne, playing |-> FALSE]

-----------------------------------------------------------------------------
(* The coordinator and the callbacks that tasks share *)

\* The sequence number moves on.
Late(tasks) == [s \in Slot |-> IF tasks[s] = NoOne THEN NoOne ELSE [tasks[s] EXCEPT !.fresh = FALSE]]

\* PlaybackCoordinator::observe_remote.
Observing(d) == [d EXCEPT !.media = RivalClip, !.status = "paused", !.elsewhere = TRUE]

\* PlaybackCoordinator::remote_available.
Available(d) == IF d.elsewhere THEN [d EXCEPT !.media = NoOne, !.status = "idle", !.elsewhere = FALSE] ELSE d

\* play_media_at.
Loading(m, takeover) ==
    \E s \in Slot :
        /\ load[s] = NoOne
        /\ load' = [Late(load) EXCEPT ![s] =
              [media |-> m, fresh |-> TRUE, takeover |-> takeover, session |-> desk.session,
               at |-> IF desk.session = NoOne THEN "sent" ELSE "release"]]
        /\ desk' = [desk EXCEPT !.media = m, !.status = "loading", !.elsewhere = FALSE, !.session = NoOne]
        /\ engine' = [engine EXCEPT !.playing = FALSE]

\* Mutant: a session is kept that another device has ended.
RemoteKeepsPlaying(caller, d, holder, takeover) ==
    /\ fetch[caller] = NoOne /\ UNCHANGED engine
    /\ desk' = [d EXCEPT !.session = NoOne]
    /\ fetch' = [fetch EXCEPT ![caller] =
          [was |-> d.elsewhere, heard |-> FALSE, holder |-> holder, takeover |-> takeover]]

\* apply_remote_holder up to its await, whatever has become of its reason.
Remote(caller, d, holder, takeover) ==
    /\ fetch[caller] = NoOne
    /\ engine' = IF d.elsewhere THEN engine ELSE Silent
    /\ desk' = [d EXCEPT !.session = NoOne]
    /\ fetch' = [fetch EXCEPT ![caller] =
          [was |-> d.elsewhere, heard |-> FALSE, holder |-> holder, takeover |-> takeover]]

\* ... and after it: the medium is there, or there is none to fetch, or it failed.
RemoteFetched(caller) ==
    LET f == fetch[caller]
        superseded == desk.session # NoOne \/ f.heard \/ (f.was /\ ~desk.elsewhere)
        settled == [desk EXCEPT !.pending = @ /\ ~f.takeover]
    IN /\ f # NoOne /\ fetch' = [fetch EXCEPT ![caller] = NoOne]
       /\ \/ superseded /\ desk' = settled /\ UNCHANGED <<load, slips>>
          \/ ~superseded /\ f.holder /\ desk' = Observing(settled) /\ load' = Late(load) /\ UNCHANGED slips
          \/ /\ ~superseded /\ UNCHANGED load
             /\ desk' = [settled EXCEPT !.status = "paused", !.elsewhere = TRUE]
             /\ slips' = slips \union (IF \E s \in Slot : load[s] # NoOne THEN {"unfetched"} ELSE {})
       /\ UNCHANGED <<serverVars, wireVars, engine, beat, take>>

\* What else awaits a fetch learns that news have come, unless they bear the
\* revision of those before.
Heard(f) == {f, [c \in Caller |-> IF c = "socket" \/ f[c] = NoOne THEN f[c] ELSE [f[c] EXCEPT !.heard = TRUE]]}

-----------------------------------------------------------------------------
(* The user *)

PlayMediaAt(m) ==
    /\ Loading(m, FALSE)
    /\ UNCHANGED <<serverVars, wireVars, beat, take, fetch, slips>>

\* set_playback_playing.  While a medium loads the pipeline has the one before.
SetPlaying ==
    /\ ~desk.elsewhere /\ desk.media # NoOne /\ engine.session # NoOne
    /\ IF desk.status = "playing"
         THEN engine' = [engine EXCEPT !.playing = FALSE] /\ desk' = [desk EXCEPT !.status = "paused"]
         ELSE /\ engine' = [engine EXCEPT !.playing = TRUE]
              /\ desk' = [desk EXCEPT !.status = IF @ \in {"paused", "loading"} THEN "playing" ELSE @]
    /\ slips' = IF desk.status \in {"loading", "failed"} THEN slips \union {"toggle"} ELSE slips
    /\ UNCHANGED <<serverVars, wireVars, taskVars>>

\* stop_playback.  The sequence number stays, and so a task goes on.
StopPlayback ==
    /\ desk.media # NoOne
    /\ desk' = [desk EXCEPT !.media = NoOne, !.status = "idle", !.elsewhere = FALSE, !.session = NoOne]
    /\ engine' = Silent /\ Release(desk.session)
    /\ slips' = IF \E s \in Slot : load[s] # NoOne /\ load[s].fresh THEN slips \union {"stop"} ELSE slips
    /\ UNCHANGED taskVars

TakeOver ==
    /\ ~desk.pending /\ desk.media # NoOne /\ desk.elsewhere /\ take = NoOne
    /\ take' = [media |-> desk.media, at |-> "sent"] /\ desk' = [desk EXCEPT !.pending = TRUE]
    /\ UNCHANGED <<serverVars, wireVars, engine, load, beat, fetch, slips>>

TakeOverServed ==
    /\ take # NoOne /\ take.at = "sent" /\ take' = [take EXCEPT !.at = "done"] /\ ForceRelease
    /\ UNCHANGED <<desk, engine, load, beat, fetch, slips>>

TakeOverGoesOn ==
    /\ take # NoOne /\ take' = NoOne
    /\ \/ take.at = "done" /\ Loading(take.media, TRUE)
       \/ desk' = [desk EXCEPT !.pending = FALSE] /\ UNCHANGED <<engine, load>>
    /\ UNCHANGED <<serverVars, wireVars, beat, fetch, slips>>

-----------------------------------------------------------------------------
(* The task of play_media_at *)

At(s, step) == load[s] # NoOne /\ load[s].at = step
Goes(s, step, t) == load' = [load EXCEPT ![s].at = step, ![s].session = t]
Ends(s) == load' = [load EXCEPT ![s] = NoOne]
Unpended(s) == [desk EXCEPT !.pending = @ /\ ~load[s].takeover]

LoadReleases(s) ==
    /\ At(s, "release") /\ Release(load[s].session) /\ Goes(s, "sent", NoOne)
    /\ UNCHANGED <<desk, engine, beat, take, fetch, slips>>

LoadServed(s) ==
    /\ At(s, "sent")
    /\ \/ \E t \in Ticket : Acquire(t, load[s].media) /\ Goes(s, "made", t)
       \/ owner = Rival /\ Goes(s, "refused", NoOne) /\ UNCHANGED <<serverVars, wireVars>>
       \/ Goes(s, "failed", NoOne) /\ UNCHANGED <<serverVars, wireVars>>
    /\ UNCHANGED <<desk, engine, beat, take, fetch, slips>>

\* The sequence number is compared after each await.
LoadSuperseded(s) ==
    /\ load[s] # NoOne /\ load[s].at \in {"made", "open"} /\ ~load[s].fresh
    /\ Ends(s) /\ Release(load[s].session) /\ desk' = Unpended(s)
    /\ UNCHANGED <<engine, beat, take, fetch, slips>>

LoadAnswered(s) ==
    /\ At(s, "made") /\ load[s].fresh /\ Goes(s, "ready", load[s].session)
    /\ UNCHANGED <<serverVars, wireVars, desk, engine, beat, take, fetch, slips>>

\* The refusal of a task that was superseded counts all the same.
LoadRefused(s) ==
    /\ At(s, "refused") /\ Ends(s) /\ Remote("load", desk, TRUE, load[s].takeover)
    /\ UNCHANGED <<serverVars, wireVars, beat, take, slips>>

LoadFailed(s) ==
    /\ At(s, "failed") /\ Ends(s)
    /\ desk' = [Unpended(s) EXCEPT !.status = IF load[s].fresh THEN "failed" ELSE @]
    /\ UNCHANGED <<serverVars, wireVars, engine, beat, take, fetch, slips>>

\* wait_for_stream_ready: only the holder gets its first byte.  That, or the
\* pipeline, may fail in any case.
LoadReady(s) ==
    /\ At(s, "ready") /\ UNCHANGED <<beat, take, fetch, slips, engine>>
    /\ \/ /\ owner = load[s].session /\ Goes(s, "open", load[s].session)
          /\ UNCHANGED <<serverVars, wireVars, desk>>
       \/ /\ Ends(s) /\ Release(load[s].session)
          /\ desk' = [Unpended(s) EXCEPT !.status = IF load[s].fresh THEN "failed" ELSE @]

\* Mutant: the sequence number is not compared again.
LoadOpensLate(s) ==
    /\ At(s, "open")
    /\ Ends(s) /\ engine' = [session |-> load[s].session, playing |-> TRUE]
    /\ desk' = [Unpended(s) EXCEPT !.status = "playing", !.elsewhere = FALSE, !.session = load[s].session]
    /\ UNCHANGED <<serverVars, wireVars, beat, take, fetch, slips>>

LoadOpens(s) ==
    /\ At(s, "open") /\ load[s].fresh
    /\ Ends(s) /\ engine' = [session |-> load[s].session, playing |-> TRUE]
    /\ desk' = [Unpended(s) EXCEPT !.status = "playing", !.elsewhere = FALSE, !.session = load[s].session]
    /\ UNCHANGED <<serverVars, wireVars, beat, take, fetch, slips>>

LoadStep(s) ==
    \/ LoadReleases(s) \/ LoadServed(s) \/ LoadSuperseded(s) \/ LoadAnswered(s) \/ LoadRefused(s)
    \/ LoadFailed(s) \/ LoadReady(s) \/ LoadOpens(s)

-----------------------------------------------------------------------------
(* The socket's event loop *)

Listening == fetch["socket"] = NoOne

\* PLAYBACK_LEASE_LOST: silence, and the state that follows says the rest.
LossHeard ==
    /\ Listening /\ Arriving("lost") /\ news' = Tail(news)
    /\ engine' = IF desk.session = Head(news).session THEN Silent ELSE engine
    /\ UNCHANGED <<serverVars, entry, online, desk, taskVars, slips>>

StateHeard ==
    LET state == Head(news).state IN
    /\ Listening /\ Arriving("state") /\ news' = Tail(news)
    /\ UNCHANGED <<serverVars, entry, online, beat, take, slips>>
    /\ \/ state = "owned" /\ fetch' \in Heard(fetch) /\ UNCHANGED <<desk, engine, load>>
       \/ /\ state = "available" /\ fetch' \in Heard(fetch) /\ UNCHANGED <<engine, load>>
          /\ desk' = IF desk.pending THEN desk ELSE Available(desk)
       \/ /\ state = "busy" /\ desk.elsewhere /\ desk.media = RivalClip
          /\ fetch' \in Heard(fetch) /\ desk' = Observing(desk) /\ load' = Late(load)
          /\ engine' = IF desk.session = NoOne THEN engine ELSE Silent
       \/ /\ state = "busy" /\ ~(desk.elsewhere /\ desk.media = RivalClip)
          /\ desk' = [desk EXCEPT !.session = NoOne] /\ UNCHANGED load
          /\ engine' = IF desk.session = NoOne /\ desk.elsewhere THEN engine ELSE Silent
          /\ \E f \in Heard(fetch) : fetch' = [f EXCEPT !["socket"] =
                [was |-> desk.elsewhere, heard |-> FALSE, holder |-> TRUE, takeover |-> FALSE]]

\* tick_playback, publish_socket_state: bind, or a report that is answered
\* like a bind as far as the lease goes.
ReportDue ==
    /\ online /\ desk.session # NoOne /\ desk.media # NoOne /\ ~desk.elsewhere /\ desk.status # "loading"
    /\ desk.bound # desk.session \/ entry.bound # desk.session

PublishState ==
    /\ ReportDue
    /\ IF desk.bound # desk.session
         THEN BoundTo(desk.session) /\ desk' = [desk EXCEPT !.bound = desk.session]
         ELSE /\ Len(news) < MaxNews /\ news' = Append(news, Stated(entry, owner))
              /\ UNCHANGED <<entry, desk>>
    /\ UNCHANGED <<serverVars, online, engine, taskVars, slips>>

\* The loop hears of a connection's end or of a new one when it listens.
SocketBreaks ==
    /\ Listening /\ online /\ online' = FALSE /\ entry' = Unbound /\ news' = <<>>
    /\ desk' = LET d == [desk EXCEPT !.bound = NoOne] IN IF d.session = NoOne THEN Available(d) ELSE d
    /\ fetch' \in Heard(fetch)
    /\ UNCHANGED <<serverVars, engine, load, beat, take, slips>>

SocketIsReady ==
    /\ Listening /\ ~online /\ online' = TRUE /\ entry' = Unbound /\ news' = <<Stated(Unbound, owner)>>
    /\ desk' = [desk EXCEPT !.bound = NoOne]
    /\ UNCHANGED <<serverVars, engine, taskVars, slips>>

-----------------------------------------------------------------------------
(* heartbeat, while there is no socket *)

BeatBegins ==
    /\ ~online /\ beat = NoOne
    /\ IF desk.session = NoOne THEN desk.elsewhere ELSE desk.media # NoOne
    /\ beat' = [session |-> desk.session, at |-> "sent"]
    /\ UNCHANGED <<serverVars, wireVars, desk, engine, load, take, fetch, slips>>

BeatServed ==
    /\ beat # NoOne /\ beat.at = "sent"
    /\ \E answer \in {"fine", "busy", "available", "lost", "error"} :
          /\ answer = "fine" => beat.session # NoOne /\ owner = beat.session
          /\ answer = "busy" => owner = Rival
          /\ answer = "available" => beat.session = NoOne /\ owner = NoOne
          /\ answer = "lost" => beat.session # NoOne /\ owner \notin {Rival, beat.session}
          /\ beat' = [beat EXCEPT !.at = answer]
    /\ UNCHANGED <<serverVars, wireVars, desk, engine, load, take, fetch, slips>>

\* The observer's answer is dropped when it no longer observes.
WatchAnswered ==
    LET observing == ~online /\ desk.session = NoOne /\ desk.elsewhere IN
    /\ beat # NoOne /\ beat.at # "sent" /\ beat.session = NoOne /\ beat' = NoOne
    /\ \/ observing /\ beat.at = "busy" /\ Remote("beat", desk, TRUE, FALSE)
       \/ /\ observing /\ beat.at = "available" /\ ~desk.pending
          /\ desk' = Available(desk) /\ UNCHANGED <<engine, fetch>>
       \/ /\ ~observing \/ beat.at \notin {"busy", "available"} \/ (beat.at = "available" /\ desk.pending)
          /\ UNCHANGED <<desk, engine, fetch>>
    /\ UNCHANGED <<serverVars, wireVars, load, take, slips>>

\* The player's answer counts whatever it plays by then.
BeatAnswered ==
    /\ beat # NoOne /\ beat.at # "sent" /\ beat.session # NoOne /\ beat' = NoOne
    /\ \/ beat.at = "fine" /\ UNCHANGED <<desk, engine, fetch>>
       \/ /\ beat.at = "error" /\ engine' = Silent /\ UNCHANGED fetch       \* lease_lost
          /\ desk' = [desk EXCEPT !.status = "paused", !.elsewhere = TRUE]
       \/ /\ beat.at \in {"busy", "lost"} /\ fetch["beat"] = NoOne /\ engine' = Silent
          /\ desk' = [desk EXCEPT !.session = NoOne]
          /\ fetch' = [fetch EXCEPT !["beat"] =
                [was |-> desk.elsewhere, heard |-> FALSE, holder |-> beat.at = "busy", takeover |-> FALSE]]
    /\ slips' = IF beat.at # "fine" /\ (beat.session # desk.session \/ \E s \in Slot : load[s] # NoOne)
                  THEN slips \union {"beat"} ELSE slips
    /\ UNCHANGED <<serverVars, wireVars, load, take>>

DesktopNext ==
    \/ (LeaseEnds \/ RivalTakes) /\ UNCHANGED <<desk, engine, taskVars, slips>>
    \/ \E m \in Clip : PlayMediaAt(m)
    \/ SetPlaying \/ StopPlayback \/ TakeOver \/ TakeOverServed \/ TakeOverGoesOn
    \/ \E s \in Slot : LoadStep(s)
    \/ \E c \in Caller : RemoteFetched(c)
    \/ LossHeard \/ StateHeard \/ PublishState \/ SocketBreaks \/ SocketIsReady
    \/ BeatBegins \/ BeatServed \/ WatchAnswered \/ BeatAnswered

-----------------------------------------------------------------------------
(* Properties *)

\* A desktop that plays on beside another device that holds the lease has a
\* report due, whose answer is the news of it: once it has none it is silent,
\* whatever tasks, fetches and news are still under way, and in whatever order
\* they were dealt with (mod.rs:724, 1577, 2055).
RivalSilencesDesktop == online /\ ~ReportDue /\ owner = Rival /\ slips = {} => ~engine.playing

\* What plays is the session of the medium that is shown, whichever loads were
\* superseded and whatever was heard meanwhile (mod.rs:1540, 1548).
PlaysWhatItShows ==
    engine.playing /\ slips = {} => engine.session = desk.session /\ clipOf[engine.session] = desk.media

\* What holds in every state of the desktop player.
DesktopInv == DesktopTypeOK /\ PlaysWhatItShows

DesktopSpec == DesktopInit /\ [][DesktopNext]_desktopVars
=============================================================================

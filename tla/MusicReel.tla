------------------------------ MODULE MusicReel ------------------------------
(***************************************************************************)
(* The video reels that one owner makes of favourite tracks: rows in       *)
(* PostgreSQL, a Redis stream of render jobs, the worker that renders, and *)
(* the cleanups that remove what is revoked or a day old (the worker       *)
(* process runs one, the API process another with RUN_CLEANUP_IN_SERVER).  *)
(*                                                                         *)
(* An action is one SQL statement, Redis command or file operation with    *)
(* the code up to the next await.  Abstractions: no render lasts so long   *)
(* (half an hour) that its job is claimed from a live worker; progress,    *)
(* error texts, tokens, temporary files and what a frame looks like are    *)
(* left out; a cleanup that is interrupted starts again.                   *)
(***************************************************************************)
EXTENDS Naturals, FiniteSets, FiniteSetsExt

CONSTANTS
    Reel,           \* row ids, 1..n: n requests of one owner (a bound)
    Renderer,       \* the worker processes, also the one that follows a crash
    Sweeper,        \* the cleanup schedulers
    Tracks,         \* tracks of a reel
    MaxRenders,     \* MAX_ATTEMPTS
    ReelBudgets,    \* how often each thing from outside may happen: one of these (a bound)
    NoJob

ASSUME ReelAssumption == Reel = 1..Cardinality(Reel) /\ Tracks \in Nat \ {0}

VARIABLES
    reel,     \* music_share_reels, by id
    video,    \* the <id>.mp4 files that exist
    adding,   \* reels whose request has committed and not yet done its XADD
    jobs,     \* music:reel-render, delivered or not, without what is acknowledged
    added,    \* ids given to jobs
    render,   \* what each worker does
    sweep,    \* the rows that a cleanup has read and not finished
    replaced, \* reels of which a track was replaced or deleted
    dropped,  \* reels whose request ended before its XADD (a record for the properties)
    budget    \* how often the outside world may still act

reelVars == <<reel, video, adding, jobs, added, render, sweep, replaced, dropped, budget>>

-----------------------------------------------------------------------------
Row == [life : {"none", "active", "expired", "revoked", "deleted"},
        status : {"queued", "processing", "ready", "failed"},
        path : BOOLEAN,           \* output_path IS NOT NULL
        attempts : Nat]

Step == {"select", "start", "items", "segment", "ffmpeg", "concat", "rename", "markReady",
         "markFailed", "caught", "requeue", "readd", "giveUp", "done", "ack"}

ReelTypeOK ==
    /\ reel \in [Reel -> Row]
    /\ video \subseteq Reel /\ adding \subseteq Reel
    /\ replaced \subseteq Reel /\ dropped \subseteq Reel
    /\ \A j \in jobs : j \in [id : 1..added, reel : Reel, by : Renderer \union {NoJob}]
    /\ \A w \in Renderer : render[w] = NoJob
          \/ render[w] \in [at : Step, id : 1..added, reel : Reel, left : 0..Tracks]
    /\ sweep \in [Sweeper -> SUBSET [reel : Reel, path : BOOLEAN, at : {"remove", "delete"}]]

ReelInit ==
    /\ reel = [r \in Reel |-> [life |-> "none", status |-> "queued", path |-> FALSE, attempts |-> 0]]
    /\ video = {} /\ adding = {} /\ jobs = {} /\ added = 0
    /\ render = [w \in Renderer |-> NoJob]
    /\ sweep = [c \in Sweeper |-> {}]
    /\ replaced = {} /\ dropped = {}
    /\ budget \in ReelBudgets

Exists(r) == reel[r].life \in {"active", "expired", "revoked"}
Active(r) == reel[r].life = "active"
Outdated(r) == reel[r].life \in {"expired", "revoked"}
Spend(kind) == budget[kind] > 0 /\ budget' = [budget EXCEPT ![kind] = @ - 1]

\* revoked_at is set on every reel of the owner that has none.
Revoked == [r \in Reel |->
    IF reel[r].life \in {"active", "expired"} THEN [reel[r] EXCEPT !.life = "revoked"] ELSE reel[r]]

-----------------------------------------------------------------------------
(* The owner's requests *)

\* One transaction; the loser of two at a time fails on the unique index.
CreateReel(r) ==
    /\ reel[r].life = "none" /\ \A q \in Reel : q < r => reel[q].life # "none"
    /\ reel' = [Revoked EXCEPT ![r].life = "active"]
    /\ adding' = adding \union {r}
    /\ Spend("create")
    /\ UNCHANGED <<video, jobs, added, render, sweep, replaced, dropped>>

Enqueued(r) ==
    /\ jobs' = jobs \union {[id |-> added + 1, reel |-> r, by |-> NoJob]}
    /\ added' = added + 1

EnqueueReel(r) ==
    /\ r \in adding /\ adding' = adding \ {r}
    /\ Enqueued(r)
    /\ UNCHANGED <<reel, video, render, sweep, replaced, dropped, budget>>

EnqueueFails(r) ==
    /\ r \in adding /\ adding' = adding \ {r}
    /\ reel' = IF Exists(r) THEN [reel EXCEPT ![r].status = "failed"] ELSE reel
    /\ Spend("enqueue")
    /\ UNCHANGED <<video, jobs, added, render, sweep, replaced, dropped>>

\* The API process ends, or can reach neither Redis nor PostgreSQL.
RequestDies(r) ==
    /\ r \in adding /\ adding' = adding \ {r} /\ dropped' = dropped \union {r}
    /\ Spend("server")
    /\ UNCHANGED <<reel, video, jobs, added, render, sweep, replaced>>

RevokeReels ==
    /\ reel' = Revoked /\ reel' # reel
    /\ UNCHANGED <<video, adding, jobs, added, render, sweep, replaced, dropped, budget>>

ExpireReel(r) ==
    /\ Active(r) /\ reel' = [reel EXCEPT ![r].life = "expired"]
    /\ UNCHANGED <<video, adding, jobs, added, render, sweep, replaced, dropped, budget>>

ReplaceTrack(r) ==
    /\ Active(r) /\ replaced' = replaced \union {r}
    /\ Spend("replace")
    /\ UNCHANGED <<reel, video, adding, jobs, added, render, sweep, dropped>>

-----------------------------------------------------------------------------
(* The worker *)

At(w, step) == render[w] # NoJob /\ render[w].at = step
Go(w, step) == render' = [render EXCEPT ![w].at = step]
Mine(w) == render[w].reel

\* updateReel: by id, whatever has become of the reel.
Update(w, status) ==
    IF Exists(Mine(w)) THEN [reel EXCEPT ![Mine(w)].status = status] ELSE reel

Rests == UNCHANGED <<adding, sweep, replaced, dropped>>
OnlyRender == Rests /\ UNCHANGED <<reel, video, jobs, added, budget>>

\* XAUTOCLAIM finds a job whose worker is gone, XREADGROUP the oldest new one.
TakeReelJob(w) ==
    /\ render[w] = NoJob
    /\ \E j \in jobs :
          /\ IF j.by = NoJob THEN \A k \in jobs : k.by = NoJob => j.id <= k.id
             ELSE \A v \in Renderer : render[v] # NoJob => render[v].id # j.id
          /\ jobs' = (jobs \ {j}) \union {[j EXCEPT !.by = w]}
          /\ render' = [render EXCEPT ![w] =
                [at |-> "select", id |-> j.id, reel |-> j.reel, left |-> Tracks]]
    /\ Rests /\ UNCHANGED <<reel, video, added, budget>>

SelectReel(w) ==
    /\ At(w, "select")
    /\ Go(w, IF Active(Mine(w)) /\ reel[Mine(w)].status # "ready" THEN "start" ELSE "done")
    /\ OnlyRender

StartRender(w) ==
    /\ At(w, "start") /\ Go(w, "items")
    /\ reel' = IF Exists(Mine(w))
                 THEN [reel EXCEPT ![Mine(w)].status = "processing", ![Mine(w)].attempts = @ + 1]
                 ELSE reel
    /\ Rests /\ UNCHANGED <<video, jobs, added, budget>>

\* The items are gone with their reel; a replaced track ends the job before
\* the try block.
ReadItems(w) ==
    /\ At(w, "items")
    /\ Go(w, IF Exists(Mine(w)) /\ Mine(w) \notin replaced THEN "segment" ELSE "caught")
    /\ OnlyRender

StillActive(w) ==
    /\ At(w, "segment")
    /\ Go(w, IF Active(Mine(w)) THEN "ffmpeg" ELSE "done")
    /\ OnlyRender

RenderSegment(w) ==
    /\ At(w, "ffmpeg")
    /\ render' = [render EXCEPT ![w].left = @ - 1,
                                ![w].at = IF render[w].left = 1 THEN "concat" ELSE "segment"]
    /\ reel' = Update(w, "processing")
    /\ Rests /\ UNCHANGED <<video, jobs, added, budget>>

FfmpegFails(w) ==
    /\ At(w, "ffmpeg") \/ At(w, "concat")
    /\ Go(w, "markFailed") /\ Spend("ffmpeg")
    /\ Rests /\ UNCHANGED <<reel, video, jobs, added>>

Concat(w) ==
    /\ At(w, "concat")
    /\ Go(w, IF Active(Mine(w)) THEN "rename" ELSE "done")
    /\ OnlyRender

RenameVideo(w) ==
    /\ At(w, "rename") /\ Go(w, "markReady")
    /\ video' = video \union {Mine(w)}
    /\ Rests /\ UNCHANGED <<reel, jobs, added, budget>>

MarkReady(w) ==
    /\ At(w, "markReady") /\ Go(w, "done")
    /\ reel' = IF Exists(Mine(w))
                 THEN [reel EXCEPT ![Mine(w)].status = "ready", ![Mine(w)].path = TRUE] ELSE reel
    /\ Rests /\ UNCHANGED <<video, jobs, added, budget>>

MarkFailed(w) ==
    /\ At(w, "markFailed") /\ Go(w, "caught")
    /\ reel' = Update(w, "failed")
    /\ Rests /\ UNCHANGED <<video, jobs, added, budget>>

ReadAttempts(w) ==
    /\ At(w, "caught")
    /\ Go(w, IF ~Exists(Mine(w)) \/ reel[Mine(w)].attempts < MaxRenders
               THEN "requeue" ELSE "giveUp")
    /\ OnlyRender

\* WHERE revoked_at IS NULL, here and in GiveUp.
UpdateUnrevoked(w, status) ==
    IF reel[Mine(w)].life \in {"active", "expired"} THEN Update(w, status) ELSE reel

Requeue(w) ==
    /\ At(w, "requeue") /\ Go(w, "readd")
    /\ reel' = UpdateUnrevoked(w, "queued")
    /\ Rests /\ UNCHANGED <<video, jobs, added, budget>>

\* Mutant: the row says queued, but no job is added.
ReaddNothing(w) ==
    /\ At(w, "readd") /\ Go(w, "ack")
    /\ OnlyRender

ReaddJob(w) ==
    /\ At(w, "readd") /\ Go(w, "ack")
    /\ Enqueued(Mine(w))
    /\ Rests /\ UNCHANGED <<reel, video, budget>>

GiveUp(w) ==
    /\ At(w, "giveUp") /\ Go(w, "ack")
    /\ reel' = UpdateUnrevoked(w, "failed")
    /\ Rests /\ UNCHANGED <<video, jobs, added, budget>>

AckReelJob(w) ==
    /\ At(w, "done") \/ At(w, "ack")
    /\ jobs' = {j \in jobs : j.id # render[w].id}
    /\ render' = [render EXCEPT ![w] = NoJob]
    /\ Rests /\ UNCHANGED <<reel, video, added, budget>>

\* XACK stands in the try block: when it fails, a finished job counts as failed.
AckFails(w) ==
    /\ At(w, "done") /\ Go(w, "caught") /\ Spend("ack")
    /\ Rests /\ UNCHANGED <<reel, video, jobs, added>>

\* The process ends, or its catch block throws: the job stays pending.
RendererStops(w) ==
    /\ render[w] # NoJob /\ render' = [render EXCEPT ![w] = NoJob]
    /\ Spend("worker")
    /\ Rests /\ UNCHANGED <<reel, video, jobs, added>>

-----------------------------------------------------------------------------
(* cleanupExpiredMusicReels *)

\* Mutant: the SELECT without its WHERE; only the DELETE looks at the dates.
SweepSelectAll(c) ==
    /\ sweep[c] = {} /\ \E r \in Reel : Exists(r)
    /\ sweep' = [sweep EXCEPT ![c] =
          {[reel |-> r, path |-> reel[r].path, at |-> "remove"] : r \in {q \in Reel : Exists(q)}}]
    /\ UNCHANGED <<reel, video, adding, jobs, added, render, replaced, dropped, budget>>

SweepSelect(c) ==
    /\ sweep[c] = {} /\ \E r \in Reel : Outdated(r)
    /\ sweep' = [sweep EXCEPT ![c] =
          {[reel |-> r, path |-> reel[r].path, at |-> "remove"] : r \in {q \in Reel : Outdated(q)}}]
    /\ UNCHANGED <<reel, video, adding, jobs, added, render, replaced, dropped, budget>>

SweepVideo(c, s) ==
    /\ s \in sweep[c] /\ s.at = "remove"
    /\ video' = IF s.path THEN video \ {s.reel} ELSE video
    /\ sweep' = [sweep EXCEPT ![c] = (@ \ {s}) \union {[s EXCEPT !.at = "delete"]}]
    /\ UNCHANGED <<reel, adding, jobs, added, render, replaced, dropped, budget>>

SweepRow(c, s) ==
    /\ s \in sweep[c] /\ s.at = "delete"
    /\ reel' = IF Outdated(s.reel) THEN [reel EXCEPT ![s.reel].life = "deleted"] ELSE reel
    /\ sweep' = [sweep EXCEPT ![c] = @ \ {s}]
    /\ UNCHANGED <<video, adding, jobs, added, render, replaced, dropped, budget>>

-----------------------------------------------------------------------------
Rendering(w) ==
    \/ TakeReelJob(w) \/ SelectReel(w) \/ StartRender(w) \/ ReadItems(w)
    \/ StillActive(w) \/ RenderSegment(w) \/ FfmpegFails(w) \/ Concat(w)
    \/ RenameVideo(w) \/ MarkReady(w) \/ MarkFailed(w) \/ ReadAttempts(w)
    \/ Requeue(w) \/ ReaddJob(w) \/ GiveUp(w) \/ AckReelJob(w)

Sweeping(c) ==
    \/ SweepSelect(c)
    \/ \E s \in sweep[c] : SweepVideo(c, s) \/ SweepRow(c, s)

ReelNext ==
    \/ \E r \in Reel :
          \/ CreateReel(r) \/ EnqueueReel(r) \/ EnqueueFails(r) \/ RequestDies(r)
          \/ ExpireReel(r) \/ ReplaceTrack(r)
    \/ RevokeReels
    \/ \E w \in Renderer : Rendering(w) \/ AckFails(w) \/ RendererStops(w)
    \/ \E c \in Sweeper : Sweeping(c)

\* The handler goes on unless it dies, every worker loop and every cleanup runs.
ReelFairness ==
    /\ \A r \in Reel : WF_reelVars(EnqueueReel(r))
    /\ \A w \in Renderer : WF_reelVars(Rendering(w))
    /\ \A c \in Sweeper : WF_reelVars(Sweeping(c))

ReelSpec == ReelInit /\ [][ReelNext]_reelVars /\ ReelFairness

-----------------------------------------------------------------------------
\* A reel that says it is ready, and is neither revoked nor expired, can be
\* served: its row names the video and the video is there, whatever second
\* worker renders the same reel and whatever the cleanups remove
\* (public-music-shares.js:70).
ReadyHasVideo ==
    \A r \in Reel : Active(r) /\ reel[r].status = "ready" => reel[r].path /\ r \in video

Settled(r) ==
    \/ ~Active(r) \/ r \in dropped
    \/ reel[r].status \in {"ready", "failed"} /\ \A j \in jobs : j.reel # r

\* Retries end: a reel whose request reached the stream comes to rest as ready
\* or failed, with no job left of it, after worker crashes and lost
\* acknowledgements too.
ReelsSettle == \A r \in Reel : <>[](reel[r].life = "none" \/ Settled(r))

\* What holds in every state of the reels.
ReelInv == ReelTypeOK /\ ReadyHasVideo
=============================================================================

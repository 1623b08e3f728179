# Formal models of DogMedia

DogMedia is a private streaming server for music, video and images (Fastify,
PostgreSQL, Redis, ffmpeg) with Web, mobile and desktop clients.  This directory
holds TLA+ models of the parts of the server and of its clients where
concurrency, expiry and crashes decide whether they are correct, the TLC
configurations that check them on small instances, and proofs that TLAPS checks
for all instances.

Paths below are relative to the directory of the server, `server/src/`, unless they
name another part of the repository.

## 1. The system

One Node process serves HTTP and WebSockets (`index.js`), another runs the
background loops (`worker.js`).  Both keep everything that lasts in
PostgreSQL (media, categories, renditions, shares, events) and in files under the
data directory, and everything that is short-lived or shared in Redis (sessions,
the lease, queues of the players, streams of jobs).  The HTTP process has one
Redis connection, `fastify.redis`.  A handler runs alone up to each `await`; the
handlers of other requests, the sockets' messages and the timers run in between.

| Component | State | Operations | What makes it hard |
|---|---|---|---|
| Playback sessions and the exclusive lease (`playback-session.js`, `playback-live-state.js`, `routes/media.js`, `routes/playback.js`) | `stream:session:<id>` (TTL), `stream:exclusive:standard` (30 s), `playback:active:<viewer>` | open a session, stream, heartbeat, release, administrator's release, activity report | several awaits per handler; a lease that expires at any moment; lost replies of scripts; two devices of one viewer |
| Socket hub (`playback-socket.js`) | socket entries and one expiry timer in memory | authenticate, bind, report state, ping and renew, notify, close | answers from Redis used after the world changed; sockets that close while a handler awaits |
| Play queue (`routes/queue.js`) | `queue:<ip>`, `queue:index:<ip>`, `queue:revision:<ip>` (7 days) | replace, add, reorder, remove, shuffle, next, previous, select, auto-continue | read-modify-write over several keys, two tabs of one address, the lease is checked before the change |
| Encoding queue and worker (`encoding-queue.js`, `encoding-worker.js`, `media-quality.js`) | `media_encoding_variants`, streams `media:encoding` and `media:encoding:urgent`, encoded files | request a rendition, retry, encode, replace, delete | two streams with different redelivery, statuses that are read once, sources replaced while they are encoded, crashes |
| Chunked uploads (`routes/media.js`, `upload-completion-*.js`, `upload-cleanup.js`) | upload directories, stream `media:upload-completion`, status keys | start, chunk, complete, queue, cancel, clean up | a chunk against the cleanup; a completion that is delivered twice |
| Media files (`routes/media.js`, `media-cleanup.js`) | `media_assets`, source and cover files | upload, edit, replace, delete, orphan cleanup | files and rows change in separate steps |
| Media finalization (`media-finalization-*.js`) | stream `media:finalization` | remux, probe, cover | redelivery against a replaced source |
| Music shares and reels (`routes/music-shares.js`, `music-reel-*.js`) | `music_shares`, stream, reel files | create, link, revoke, render, clean up | a revocation or a second reel while the first is rendered |
| Access control (`plugins/auth.js`, `routes/whitelist.js`) | `ip_whitelist`, a cache in memory of 60 s | check, add, change, remove | a cached tier after a change; the empty whitelist |
| Category tree (`routes/categories.js`) | `categories` | create, edit, move, delete | moves that race; cycles; sort order |
| Offline downloads and sync (`routes/offline.js`) | `playback_events` | manifest, variants, sync | events that are sent again |
| Wrapped (`routes/wrapped.js`) | access locks, reports | open, statistics over `playback_events`, edit a report | events that arrive late; visits and edits at once |
| Lyrics (`routes/lyrics.js`, `lrclib.js`) | `media_lyrics`, a cache in Redis | look up, upload, delete | a lookup of seconds against an upload or a rename |
| Likes, subtitles, palettes, dashboard, releases | rows and files | one statement or one file each | little |
| Web, mobile and desktop players (`web/src/components/GlobalPlayer.jsx`, `mobile/src/context/player-context.jsx`, `desktop/src/ui/mod.rs`, `playback-socket.js` of each client) | the medium shown, the stream, session, takeover and observer flags, retry and heartbeat timers | play, pause, resume, stop, take over, deal with news, reconnect | answers and news that overtake each other and the user |
| Downloads on the phone (`mobile/src/context/offline-context.jsx`, `offline-store.js`) | rows, jobs and outbox in SQLite, files | download, cancel, retry, remove, validate, sync | the user against a download's last steps; the end of the app |

How they interact: the routes of `routes/media.js` and `routes/playback.js` change the
lease and call `notify` of the hub; the hub renews the lease and reads sessions;
`routes/queue.js` reads the lease before it changes the queue; `GET
/media/:id/stream` renews the lease, reads the renditions and asks the encoding
queue for a missing one; replacing and deleting a media asset change files under
the worker.  A player opens a session over HTTP, binds it on its socket, and hears
of other holders there or by polling.  The phone flushes its outbox through
`POST /api/offline/sync`.  The components that share only an identifier are
modelled apart.

What would make each component correct is stated as the hazards in
`PROJECT.json`, each with the properties that would catch it going wrong.

## 2. The modules

| Module | Models | Kind |
|---|---|---|
| `ExclusiveLease` | what the single lease promises | abstract specification |
| `PlaybackLease` | the HTTP handlers and scripts that provide it, command by command | detailed specification, refines `ExclusiveLease` |
| `PlaybackLease_proofs` | the inductive invariant, the safety theorems, the refinement | TLAPS |
| `PlaybackSocketHub` | the hub: sockets, timer, the Redis connection as a FIFO of replies | detailed specification |
| `EncodingPipeline` | renditions of one asset: rows, files, two streams, workers, replacement, deletion | detailed specification |
| `EncodingPipeline_proofs` | versions, and what one worker loop has still to do | TLAPS |
| `PlaybackQueue` | the queue of one address and the routes that change it | detailed specification |
| `UploadCompletion` | chunked uploads: directory, status, stream, worker, sweep | detailed specification |
| `UploadsSockets_proofs` | of the hub, the promise that each socket will hear the truth, over the order of the replies; one upload's life, once | TLAPS |
| `MediaFiles` | the row and the files of one medium and everybody who changes them | detailed specification |
| `MediaFiles_proofs` | why the row's files are there, and who may excuse their absence | TLAPS |
| `MusicReel` | the reels of one owner: rows, stream, workers, cleanups | detailed specification |
| `Catalogue` | the category tree and its covers | detailed specification |
| `Library_proofs` | what the edits make of a queue; what is below a category, and what each request has made sure of | TLAPS |
| `AccessCache` | the access check, its cache, the first run and the whitelist | detailed specification |
| `OfflineSync` | the phone's outbox and `POST /api/offline/sync` | client and server composed |
| `OfflineDownloads` | the phone's downloads: rows, jobs, files and who changes them | detailed specification |
| `Lyrics` | the lyrics of one medium: row, cache, lookups, and the parser of timed text | detailed specification |
| `Wrapped` | the statistics over events, the access lock, the reports | detailed specification, pure functions |
| `Ordering` | what sorting gives, of a finite set by an order without ties | operators, external |
| `Services_proofs` | access, sync, reels, lyrics and Wrapped; sorting | TLAPS |
| `PlaybackFeed` | revisions, sequence numbers and back pressure between server and client | client and server composed |
| `Clients_proofs` | the feed: news of the last revision is always on its way; the downloads: which files there may be | TLAPS |
| `PlayerServer` | lease, sessions and socket as one player sees them | environment of the three below |
| `WebPlayer` | the lease's life in the web player | composed with `PlayerServer` |
| `DesktopPlayer` | the same in the desktop player | composed with `PlayerServer` |
| `PhonePlayer` | the same in the phone's audio player, with downloaded tracks and the sleep timer | composed with `PlayerServer` |
| `Players_proofs` | what the three players show, play and give up | TLAPS |
| `MC*` | instances for TLC | constants, and which of several parts moves |

A model checker's run may hold several components that share nothing (`MCLibrary`,
`MCServices`, `MCClients`, `MCHubPhone`, `MCUploadsSockets`): a variable `focus`, chosen by the
initial state, says which one moves, so the run explores the sum of their state
spaces and not the product.

### PlaybackLease

Redis runs one command or script at a time and a handler awaits each, so an
action is one command with the code up to the next await.  `req[r]` is a request in
flight: the step it will do next and what it has read.  `OpenCreate`,
`OpenAcquire`, `OpenUndo`, `OpenRevokePrev`, `OpenReply` are `POST
/media/:id/playback-session`; `StreamBegin` and `HeartbeatBegin` lead to `Refresh`;
`Release*` is `DELETE /playback/lease`, `Admin*` the administrator's release,
`Report*` is `POST /playback/active`.  `MayAcquire`, `Holds` and the like are the
guards inside the Lua scripts.  `OpenAcquireFails` is the script whose answer is
lost, with or without its effect.  `Abort` ends a handler at any await.  `Tick` is
the time to live of the lease, `SessionLapses` that of a session.

A device is a pair of viewer id and address.  `known` is what a client may
present: only ids that were sent to its viewer.

### PlaybackSocketHub

ioredis writes commands to one connection and answers arrive in order.  `wire` is
that order: a job in it has had its command executed, carries the answer, and is
continued when it is first.  This is less than "any interleaving" and it is what
makes `RestTold` true: an answer that was read earlier cannot be sent later.
Actions without a job at the head (a message, a ping, a timer, a close, an HTTP
request, the expiry of a key) may happen between any two replies.  A job that
`notify` starts in a handler is appended like any other.

The hub sees the lease as one value that HTTP requests set and clear; the
detailed handlers are `PlaybackLease`'s matter, and `HttpAcquire` and `HttpVacate`
are what `ExclusiveLease` allows.

### EncodingPipeline

`row` is `media_encoding_variants.status` by version and quality, `file` says which
source version an encoded file was made from.  `urgent`, `normal` and `left` are the
entries of the two streams: not yet delivered, and delivered to a worker that
died.  There is no `left` for the urgent stream because nothing ever claims from
it.  A worker loop carries its job through the steps of `processEncodingJob`;
`todo` is computed by `Probe` from the rows as they are then, as the code does.
`dir` becomes false when a replacement or deletion removes the directory into
which the worker is writing.

### PlaybackQueue

`queue`, `index` and `revision` are the three keys of one address.  A request enters
`req` with its first command on them: most routes read the queue and the index
together (one action, because both commands are sent at once), compute the new
queue (`AppendedTo`, `PlayedNext`, `Spliced`, `IndexAfterRemoval`, ...), write it in a
transaction (`Replace`) and then increment the revision (`Bump`).  `POST /items` is
a script, one action.  `POST /next` is three commands, `/prev` and `/select` are two.
`index` counts from 0 and may point behind the queue, as in the code, where every
reader clamps it (`Clamp`).

### UploadCompletion

`dir` and `part` are the directory of an upload and the chunks in it, `status` and
`active` its two traces in Redis, `stream` and `left` the completion jobs not yet
delivered and those delivered to a worker that stopped.  `ask[a]` is a request in
flight: `PostComplete`, `ReadStatus`, `MarkQueued`, `ListQueued`, `AddJob` are the
commands of `POST /uploads/:uploadId/complete`, with `AddFails`, `UndoQueued` and
`UndoFails` its error path.  `job` is the one worker, at a step of
`processUploadCompletionJob`: two SETs, the manifest, one chunk after the other,
the INSERT, the copy, the UPDATE, the hand-over to the finalization, the removal
of the directory, the outcome.  `sweep` asks `isActive` in the order in which
`index.js` does (`InUse`), then `stat`, then `rm`.

`media` records what was made from an upload, so that `OneMedium` can count it.
`asked`, `cut` and `faults` are history too: a second completion, a status that a
fault has left behind, and which faults there were.  The properties name those
explicitly, because the code gives no more: for instance a worker that stops
between the INSERT and the removal of the directory makes a second medium.

### MediaFiles

One medium, its row, its source file under each extension, and its covers.  A
file holds the number of the upload it came from, so that a row which names
somebody else's file is told from one that names its own.  Five processes:
`Insert` .. `StoreHand` is `persistMediaUpload`; `Take` .. `ReplaceUnlinkArt` is
`replaceMediaFiles` in the upload worker; `FinalRead` .. `FinalAck` is the
finalization worker, with the conversion of an MKV (`FinalConvert` ..
`FinalUnlink`) and its undo; `Delete*` is `DELETE /media/:id`; `Sweep*` is the
sweep for orphans.  `Fresh` is the condition on `source_version` that guards each
UPDATE of the finalization.  `queue` and `retry` are its stream, `lost` the
replacements to be delivered again.

A replacement brings a file, a thumbnail, both, or neither when it is for lyrics alone
(`Jobs`): `ReplaceFile`, `ReplaceOther`.  It goes through the steps that its kind
asks for, in the order of the code: copy, unlink, directory, cover, row, hand-over,
old cover.  `ReplaceFail` is any of them that throws, and `StoreFail` the same of an
upload: nothing is undone, and the job is acknowledged.

Two variables are history and only read by properties: `met`, the kinds of
replacement that have overlapped a finalization, and `failed`, what the latest
replacement of the file did not come to (its UPDATE, or its job).  `SourceIsThere`,
`CoverIsThere` and `UnfinishedHasJob` except these and nothing else.  Both are weaknesses
of the code and not of the model: an overlap is the finding `files_lost`, and a
replacement that fails behind the removal of the previous file (`routes/media.js:482`,
`488`) leaves a row that names what is gone, with no crash and no second actor.

### MusicReel, Catalogue, AccessCache, OfflineSync

`MusicReel` follows a request from its INSERT over the XADD to the render and the
rename of the `.mp4`; `sweep` is what a cleanup has selected and not yet removed.
A worker that stops leaves its job on the stream for the next (`render`).

In `Catalogue` a move is one transaction whose row locks are `locked`; POST, PUT and
DELETE are single statements that other requests may fall between.  PUT writes the row
and then the tier of those below it, without a transaction: `EditPropagate` is the
second statement, `EditCut` its failure or the end of the server before it, and `untold`
(history) the categories whose new tier has not been handed down since.  `covers` are
the files, `drawn` numbers the covers ever drawn.

`AccessCache` runs the plugin up to its next SQL statement in one action.
`accessCache` is the Map in insertion order, since the limit drops its oldest
entry; `firstRun` is the promise that all requests await which meet an empty
whitelist.  An initialization that fails (`FirstFails`) leaves what it has inserted, and
the plugin goes on believing the whitelist empty; `spoiled` (history) holds the clients
whose row of tier 999 was left like that, and `FirstRunOnce` excepts them.

`OfflineSync` has the phone's flush on one side and up to two handlers on the
other, as an answer may be lost while its handler still runs and the phone sends
the same events again.

### Lyrics, Wrapped

A request of `Lyrics` carries the title and the row that it read (`asker`) through
the cache, the provider and the statement that ends it; `misfits` collects answers
that do not fit what the request read.  `TimedLines` is `parseLrcToSegments` of the
file `lrc`, of which `Reads` adds a line.

In `Wrapped`, `TalliesOf` is the loop of `aggregateWrappedEvents`, as a recursive
function of how many of the sorted events it has seen, and `RunsOf` the one of
`longestDateStreak`; `CountsSegments` and `StreakIsLongest` say without a loop what
they should find.  The sums are cardinalities there: of the set of all seconds of all
segments.  The annual check and the lock are two steps of `GET /current`, an edit of a
report is its read and its transaction.

Both sort, by orders without ties (`Earlier` and `Precedes`, which break them as the id
and the stable sort do): `Ordered` puts at the n-th place the one that n - 1 others
precede.

### OfflineDownloads

`proc` is `processJob` (one slot), `pumping` the batch that the effect runs,
`cancelled` and `paused` the two sets that the steps of a download look at.  `hand`
is what the user has begun: his removal of a track is several awaits as well.
`late` is what a slow refresh has read before others wrote.  `crossed` is history:
the tracks that the user and a download changed at once, which `DownloadsInv`
leaves out where the code gives no more (see below).

### PlaybackFeed

Both directions of each connection are sequences; `held` of an entry is
`pendingState`.  `LowMark` and `HighMark` stand for 64 KiB and 256 KiB of
buffered output.  `Link` has two members, since the client's new connection may be
open before the server has noticed the end of the old.  A sequence number and a
revision saturate at their bound, as only their order matters.

### PlayerServer, WebPlayer, DesktopPlayer, PhonePlayer

`PlayerServer` is what a player may observe of the server: `owner` of the lease, its
own sessions (`Ticket`), the news on the wire, whether the socket is ready.  A
request is handled in one step somewhere between question and answer, and the
answer may be lost or late.

`WebPlayer` has the page (what it shows, streams, and which flags are raised), the
request in flight and the requests that it no longer awaits (`ghost`), and the
forced takeover (`force`).  `DesktopPlayer` has a task per load (`play_media_at`),
one heartbeat, one takeover and the fetch of a holder's medium; each goes on after
an await with what it knew, and the guards are the generations and sequence
numbers of the code.  `slips` records what the user did while a medium loaded.

`PhonePlayer` keeps the refs and the state of `PlayerProvider` in `phone`, and takes
`loadAudio` apart at its awaits, one record per call: the POST, the first byte of the
stream, the seek.  `fresh` is whether the call's sequence number is still the last.
`watches` are the fetches of `leaseHandler`, `admin` the forced takeover.  `TrackEnds` is
`handleEnded` up to its first await; a repeat seeks to the start (`repeating`) and then
plays what there is (`RepeatSeeks`).  `strays` (history) records the three steps that start
the sound without asking for its source: the end of a load's seek, of a repeat's
seek, and the modal of the sleep timer.

## 3. What the runs check

Each run finishes within five minutes with two workers.

| Run | Question | Result |
|---|---|---|
| `lease_safety` | do the handlers implement the abstract lease, does no late handler delete the session that holds it or end its lease early? | holds |
| `lease_live` | is a replaced session deleted in the end, does a silent device lose the lease? | holds |
| `lease_duplicate` | can a duplicate device overwrite the owner's snapshot? | it can |
| `hub_phone` | at rest, has every socket been told the truth, is none bound to a stale session, is a timer armed that will notice the end of the lease; does the phone sound what it shows, and is it silent beside another device, but for its three strays? | holds |
| `clients` | does the client show the lease as it is once it has read everything, are the players silent beside another device and never play what they do not show, do the phone's rows, files and jobs agree? | holds |
| `uploads_sockets` | does an upload become one medium, is its status true, does its wait end, does the sweep spare it; is a native player that lost the lease unbound in the end; do uploaded lyrics stay, and the provider's under their title, and do timed lines not overlap? | holds |
| `encoding_live` | is a queued rendition settled in the end? | holds |
| `encoding_crash` | does a requested rendition survive a crash of the worker? | it does not |
| `files_safety` | does the row name files that are there and has an unfinished version a job, with the two exceptions of `MediaFiles`; does the sweep take only orphans, and all of them? | holds |
| `files_lost` | does the uploaded file survive whoever runs beside whom? | it does not |
| `services` | does every reel settle and each ready one keep its video, does a change of the whitelist reach whoever asks and only one client become the first administrator, unless an initialization failed, does what was played offline arrive once; does Wrapped count each listening once and open once in a period? | holds |
| `library` | does no medium enter the queue twice and a rewrite keep the current medium, does the tree stay one and agree on tiers, but for an edit that was cut in two; is a cover that a row names there, does a ready rendition stay ready, on disk and current? | holds |

### Where the code and its documents disagree

Each is a run whose property states what a document of the repository says; TLC
shows the steps.

- `lease_duplicate`: `authorizeExclusiveReport` accepts a report when there is no
  lease and it names no media type; the write comes after an await and does not
  look again.
- `encoding_crash`: an urgent job that was delivered to a worker that stopped is
  never read again, and its row keeps further requests from queueing a new one.
- `files_lost`: a replacement and a finalization run side by side on the same
  paths.  The counterexample: the finalization has switched an MKV to MP4, a
  replacement of the lyrics (or of the thumbnail) writes back the path it read
  before, the MKV is unlinked.

The models show more of the kind.  They are among the hazards, without a run of
their own:

- `scheduleExpiry` clears the timer before it reads the lease: if the lease ends in
  between nobody is told, while plans/041 asks for a re-check that emits `available`.
- The ping judges one session and clears whatever is bound when the answer comes.
- `PUT /order` of the queue writes what it read before its access query, and drops an
  item that was added meanwhile.
- A socket that closes during its authentication stays registered.
- With two encoding loops one of them may mark as processing what the other has made
  ready; a server that stops in the middle of a replacement leaves ready rows
  without files.
- An upload that is completed by two requests at once is stored and then called
  failed; one that is completed while the sweep is at its directory, half an hour
  idle, loses it; a worker whose first SET fails acknowledges the job unprocessed.
- Web player: after a reconnect the service sends its last state again, and a player
  that has been paused meanwhile counts as playing (`web/.../playback-socket.js:49`
  against `GlobalPlayer.jsx:339`); the answer to a resume is taken whatever happened
  since (`GlobalPlayer.jsx:378`); a takeover that is followed by Stop leaves
  `takeoverPending` raised; a request that was aborted and is handled late replaces
  the session that followed it.
- Desktop player: Stop during a load does not end the load, which then plays with no
  medium shown (`ui/mod.rs:2250`); the late refusal of a load that was superseded drops
  the current session unreleased; one network error of a heartbeat ends playback
  while the session stays; a play/pause during a load acts on the pipeline before.
- Phone's player: with a ready socket each change of track brings
  PLAYBACK_LEASE_LOST for the phone's own previous session, which `onError` takes for a
  loss (`player-context.jsx:603`), so the controls stay locked until the next track;
  the holder's medium that was fetched before the user began a track unloads it (577)
  while its session keeps the lease; a downloaded track cannot be paused while online,
  as `togglePlayback` starts it again (979); a seek that outlasts the lease (410), the
  seek of a track that is repeated (926) and the sleep timer's modal (766) start the
  sound without a source; a downloaded
  track after a stream leaves the session bound, and a native socket renews it.
- Downloads: a removal at the last steps of a download brings the track back or
  leaves a row without its file (`offline-context.jsx:270`, `350`); a job that was asked
  again for a newer version while the older is stored is deleted with it (`275`).
- Phone's sync: a resume position saved during a sync is marked as synced
  (`offline-store.js:231`); on the server two handlers may let the position go back.
- Lyrics: an answer that is read again after an upload was met and deleted may be of
  an earlier title.
- Wrapped: the lock is spent before the statistics are queried; two edits of a report
  at once lose each other's fields (`routes/wrapped.js:733`).
- Tree: with two administrators at a time, the check before a move and the write of
  an edit close a cycle, tiers disagree, or a category added meanwhile is removed with
  the parent (`routes/categories.js:290`).  With one: an edit whose second statement
  fails leaves the subtree on the old tier (`317`) until the category, or one above it,
  is edited or moved.
- Files: a replacement of the file that fails at the cover, the lyrics or the UPDATE
  has removed the previous file and directory by then (`routes/media.js:482-509`).
- Access: after `POST /whitelist` the plugin still believes the whitelist empty until
  the next first run has looked; an initialization that fails behind its first
  INSERT leaves its client tier 999, and the next one gives it to another.
- Reels: a request that ends between COMMIT and XADD leaves its reel queued; a
  cleanup that deletes the row between the worker's question and its rename leaves
  the video.

### Bounds, and why they are enough

- Lease: two requests in flight, two session ids, `LeaseTicks` = 2.  Two requests are
  what a race needs; two ids let one session replace another; two ticks tell a
  renewed lease from one that runs out.  Three devices (two viewers behind one
  address, one viewer behind two) make both halves of the ownership test matter.
  Ids are not reused, so a behaviour ends when both are spent; that is why
  deadlock is not checked.  The theorems remove all these bounds.
- Hub: a connection that speaks and one that only listens (`Player` says which may send
  `session.bind` and `playback.state`), two devices, two sessions, and two jobs of
  different events in flight.  `MaxWire` holds new events back, never replies, so the
  jobs that replies, pings and timers add are more.  `hub_phone` has three foci, of which
  each leaves something out: the player alone with both sessions and two events; both
  connections, one that stays, with one session and two events; both connections
  and sessions with one event, beside which only a ping, a timer or a close may
  come.  So a `session.bind` meets other jobs in flight, and news other news.
- In `uploads_sockets` a native player, whose lease is renewed while paused, opens two
  sessions and sends no reports (those could only unbind it earlier).  The theorems
  hold for any `MaxWire` and any sets of connections, devices and sessions.
- Encoding: two qualities, two source versions, one request in flight, the outside
  world acts at most `budget[kind]` times, with the first budget one of `Budgets`.
  `encoding_live` has two: everything but crashes, and a retry with two crashes of the
  worker (a client's request does not survive a crash, see `encoding_crash`).
  `Worth` = {1} there lets one quality be skipped.  When the budget is spent and all
  is settled nothing happens any more, so deadlock is not checked.
- Queue: three media make the ends, the middle and both sides of the current
  medium; two requests in flight make every race of one with one; three changes of
  the revision reach every queue with an index behind its end.  A behaviour ends
  with the revisions, so deadlock is not checked.

- Uploads: one upload (they share only the stream, which is served in order), two
  requests in flight, `Total` = 2 chunks so that one may be missing, and at most
  one fault of four: a stop of the worker, a stop of the server, an error of Redis,
  a day that ends the status.  One fault keeps apart what each of them causes.
  Nothing need happen to an upload, so deadlock is not checked.
- Services: reels have one request with each fault once, or two requests and a crash;
  two clients and a cache of one entry make every eviction, and a second administrator
  after an initialization that failed, as often as it fails; two events in batches of
  one make a second batch, and two handlers a repeated one.
- Lyrics: two lookups, two titles and two acts of the outside world, over a row that
  may be there and old from the start.  Wrapped: three events make two plays before
  one pause, a pause before its play in the log, and a streak with a gap; seven days
  hold a period, December and what follows.
- Library: the encoding part has each kind of outside act once, without forced
  retries, or with them and without a retry and a crash of the server; three
  categories make a grandchild, one administrator at a time changes the tree (with
  two it fails, see above), whose edits may be cut in two any number of times, and two
  change the covers of one category.
- Clients, feed: connections that follow each other through a restart of the
  server, or two that overlap in one session that keeps its lease; revisions up to 3
  and sequence numbers up to 2 have a before, a now and an after.
- Clients, players: two sessions and two pieces of news in flight, as an answer and the
  news that contradict it are two.  Each focus leaves something out (`MCClients` says
  what): the web player either resumes or takes over; the desktop has two loads, or
  takeovers, or heartbeats.  `slips` is kept empty: with Stop during a load the
  property fails as told above.
- Phone: two loads meet beside a rival that stays, or one load meets a takeover or a
  downloaded track, on a socket that stays once it is ready; with any socket there is
  one session and the sleep timer, and on its own a track that ends and is repeated
  (`MCHubPhone`).  One fetch of the holder's medium, and one repeat's seek, at a time.
  `RivalSilencesPhone` asks for silence while `strays` is empty: without each of the three
  the property fails as told above.
- Clients, downloads: one slot and one track have every race of user and
  download; two tracks make the queue; two versions make a newer file; the app is
  started again once.
- Files: each of the budgets in `MCBudgets` allows two or three acts of the outside
  world out of a replacement of each kind, a deletion, a sweep while the medium is in
  use, a step that fails and a crash; an overlap needs two.  `MaxAttempts` = 2 (3 in the
  code) has a first and a last delivery.  When all is spent and settled nothing
  happens any more, so deadlock is not checked.

### Fairness

- Lease: Redis answers and the event loop runs every continuation (`Continue`), time
  passes (`Tick`).  No client is assumed to do anything.
- Hub: replies arrive, timers fire, `setInterval` pings each open socket.
- Encoding: a worker process that stops is restarted (the service manager does
  that) and its loops run; a handler in flight goes on.  Encodings may fail
  every time.
- Services: Redis and PostgreSQL answer, a worker process is restarted and claims what
  was left on the stream; time passes; the phone flushes while it is online, and its
  faults are finitely many.
- Uploads: the worker is restarted and claims what was left; a request in flight
  goes on unless its process stops.  No sweep and no client is assumed to act.
- Files: as before, and the sweep runs every hour.

## 4. What is proved

Every theorem holds for any values of the constants that satisfy the named
assumptions of the module it is about; TLC evaluates those assumptions in every
run.  All of them have the same shape: an inductive invariant (`...IInv`, a
conjunction of named parts), a lemma for each action that says which parts it
disturbs and why they hold again, and the properties of the runs as consequences.
The bounds of the models stay (budgets, `MaxWire`, `MaxVersion`), but as any
number.

| Module | Theorem | States |
|---|---|---|
| `PlaybackLease_proofs` | `Invariant`, `LeaseIsSafe` | types; no handler deletes the session that the lease names (`LeaseSafe`) |
| | `EndsEarly` | the action property `EndsEarlyOnlyByOwner` |
| | `Implements` | the refinement `ImplementsExclusiveLease`, step by step |
| `UploadsSockets_proofs` | `HubInvariant`, `HubIsTrue` | types; at rest no stale binding (`HubInv`) |
| | `SocketsAreTold`, `TimerIsArmed` | `RestTold`, `RestArmed` |
| | `UploadInvariant`, `UploadsAreOnce` | one medium, true statuses (`UploadInv`) |
| | `WaitingIsServed`, `SweepSpares` | `WaitingIsWorked`, and the action property `SweepSparesWaiting` |
| `EncodingPipeline_proofs` | `EncodingInvariant`, `ReadyIsMade` | types; what is ready is on the disk and current (`EncodingInv`) |
| | `LoopInvariant`, `ReadyIsKept` | with one worker loop, the action property `ReadyStays` |
| `MediaFiles_proofs` | `FilesInvariant`, `FilesAreThere` | the row's files are there, with two named exceptions (`FilesInv`) |
| | `SweepSparesRows` | the action property `SweepSparesMedia` |
| `Library_proofs` | `NothingIsQueuedTwice`, `RewritesDoAsAsked` | `QueueInv`; the action property `RewritesAsAsked` |
| | `TreeStaysSound`, `CoversStay` | `TreeInv`, one request at a time, edits cut in two excepted; its part about covers, any number |
| `Services_proofs` | `AccessCorrect`, `OneFirstAtATime` | `AccessInv`; one request and one row at most are the first run's, beside what failures left |
| | `OfflineCorrect`, `LoggedIsServed`, `DeletedIsSafe` | `OfflineInv`; the phone deletes only what the server has |
| | `ReadyReelsAreServed`, `NoLiveVideoIsSwept` | `ReelInv`; the action property that a cleanup takes no video in use |
| | `WrappedCorrect` | `WrappedInv`: the statistics of every log, the lock, the reports |
| | `OpensOncePerPeriod`, `ReportsInOrder` | its parts about the lock and the reports |
| | `LyricsCorrect`, `UploadIsMet` | `LyricsInv`; an upload is met by whoever could overwrite it |
| | `LinesAreApart` | `LinesDoNotOverlap`, of every file |
| `Clients_proofs` | `FeedInvariant`, `NewsIsShown`, `ReportsAreTaken` | types; `NewsArrives`; `FeedInv` |
| | `DownloadsInvariant`, `DownloadsAgree` | types; `DownloadsInv` |
| `Players_proofs` | `WebInvariant`, `StreamsWhatItShows`, `LoserIsSilent` | types; `WebInv`; `LoserStreamsNothing` |
| | `PhoneInvariant`, `SoundsAsShown`, `RivalIsHeardAlone` | types; `PhoneInv`; `RivalSilencesPhone` |
| | `DesktopInvariant`, `DesktopPlaysWhatItShows`, `RivalSilencesTheDesktop` | types; `DesktopInv`; `RivalSilencesDesktop` |

### The lease

`LeaseSessionUndeleted` is not inductive: it says nothing of a handler that is
about to delete a session it judged two awaits ago.  The strengthening is the
notion of a spent session: one whose acquisition has run.  The script is the only
way onto the lease and each session has one chance, so a spent session that is
off the lease stays off, and it is safe to delete it late.  `IInv` says of each
step at which a handler may wait what the code has made sure of: at `revokePrev`,
the previous session is spent and off the lease; at `revoke`, the released one is;
at `acquire`, the session is fresh, its own, and no other handler's.  The
refinement maps `spent` to the sessions generated and not waiting to be acquired.

Assumed: a device is a viewer and an address, leased media are media, `LeaseTicks` is
positive, `Faults` is Boolean, and `Null` is none of the values it stands beside.

### The hub

`RestTold` speaks of rest only, so its invariant must say who keeps the promise
while jobs are on their way: a socket knows the truth and no job will tell it
anything else (`NoneStale`), or some job will tell it the truth after every job that will
not (`Covered`).  The order is that of the replies still to come: a job with the lease
in hand but the holder's snapshot to read tells one round later than a job that
has both, and jobs of one round tell in their order on `wire` (`Rounds`, `Before`).
That is where the FIFO is used: with replies in any order `Covered` is lost at the
first step.  A route that has changed the lease and not yet called `notify` has most
rounds to go, so it covers everything.  `Unbound` says the same of bindings, with
`notify` as what unbinds; `ArmedOk` names the jobs that will arm the timer, and
`RegisteredOk` why everybody who is bound is also told.  The proof is by the shapes a
step may have: the first job goes on, the first job ends, a job comes in.

### Encoding

`ReadyOk` (ready implies encoded from the current source) needs what a worker has
found out between its awaits (`EncodedOk`), and that needs that nothing is known of a
version the asset has not had: no job, entry, request or row (`WorkersOk`,
`EntriesOk`, `AsksOk`, `RowsOk`), so that when a replacement moves the version on, no
row of the new one is ready.  The parts about files hold between replacements
(`Steady`): from the write of a new source to the UPDATE of the row, the version still
is that of the source before.

`ReadyStays` is proved for one worker loop (`OneLoop`, a hypothesis of the theorem and
not of the model): what a loop has still to do is not ready, as nobody else can
have made it so.  `ENCODING_CONCURRENCY` is 1 unless it is set (`worker.js:12`).  With
two loops the property is false: TLC lets both read the rows of one asset before
either writes, and the second marks as processing what the first made ready.

Assumed: finitely many workers, qualities are numbers, `MaxVersion` and `MaxAttempts`
are positive, the budgets are numbers, `Null` is no job, request or quality.

### Uploads

Until a fault or a second completion there is one trace of an upload's job: a
request that is about to add it, an entry of the stream, or the worker.  Before
its status is first set there is none.  A directory that is there has not been
turned into a medium yet, but for the one that a stop of the worker may leave
(`Allowed`).  `OneMedium` counts what those parts add up to.  `SweepOk` follows the
sweep through its questions: one that began while a status was waiting does not come
to the removal, for a status that stops waiting meanwhile takes the directory with it.

Assumed: `Total` is positive, `MaxFaults` is a number, `Null` is nobody.

### Media files

Each part that says "the row's file is there" has three excuses, because the code
has no more to give: a replacement whose UPDATE is still to come (`Pending`), a
replacement that has met a finalization (`met`), and one of the file that failed on
its way to the UPDATE (`failed`), until the file is replaced again.  What each worker remembers of the
row is what the row says, or one of the excuses explains the difference; a row
that is gone never comes back, so that an actor which still works for it can only
take files away.  `SweepSparesMedia` follows: once the sweep has read that there is no
row, none appears before its removal.

Assumed: `MaxAttempts` is positive, the budgets are numbers, `Null` is no row and no job.

### The queue

A queue is a sequence of media without repetition (`Queues`); there are finitely many
media, and that bounds its length.  A lemma for each edit says what becomes of the
members, their order and the place of the current medium: removing and inserting move
who stands behind by one (`RemovedIndex`, `InsertedIndex`), a window that passes the check
fits between its borders (`SplicedIs`), a reorder of as many distinct ids is a
permutation (`Pigeonhole`), and after a removal the index clamps to the right item
(`AfterRemoval`).  The invariant then needs to say of a request only that what it is
about to write is the edit of what it has read (`Computed`), and that whoever reads the
index for `/next` has seen a queue that was not empty.  `QueueInv` follows because every
request writes a queue, `RewritesAsAsked` because in an undisturbed step what was read is
what is there.  The revision stays within its bound because each request in flight has
room for one (`Busy`).

Assumed: media and requests are finitely many, `NoMedium` is no medium and no number.

### The tree

`Below` is the least set that holds the children of a category and those of its members,
as the recursive query computes it.  So a lemma about it needs a set that is closed
(`BelowLeast`) and no induction over the depth: after a move, what is below a category was
below it before, or is what was moved and what is below that.  A cycle would need a
category to be moved under itself or below itself, which the request has ruled out
(`KnowsTree`).  A tier differs from its parent's only where a request is about to
propagate it, or was and came to its end before (`untold`, in `TiersAgree`): whoever hands
a tier down does so to all below, and tells all of them.  The renumbering of a move (`Place`) gives distinct orders
because two siblings have different numbers of siblings before them.  The bound `MaxOrder`
is no restriction: orders are below the number of categories.

The theorem about the tree is for one request at a time (`TreeAdmin = {a}`, its hypothesis),
as with two it is false (see above).  That covers are stored is proved for any number of
administrators: the number of a cover that a request has drawn is nobody else's
(`FreshOk`), and what it will unlink is not what the row names (`OpOk`).

Assumed: categories are numbered from 1 and there is one, `NoCategory` is no category and no
row, the bounds are numbers and `MaxOrder` holds as many orders as there are categories.

### Sync, access, reels, Wrapped, lyrics

- `OfflineSync`: each step of a sync request says what it has made sure of (`HandlerOk`), so
  that what the phone deletes upon the answer is in `playback_events` or was refused
  (`DeletedIsSafe`); however often a request is repeated, and whichever answer is lost.
- `AccessCache`: the promise of the first run is tied to the requests (`FirstRunOk`): while
  it is pending exactly one request is going to be answered as the first and none
  has been; and to the table (`AdminsOk`): while that counts as empty the one row of tier 999
  that no failure has left is the pending client's.  The types include that the cache holds one entry for an address and no
  more than its limit, for which its order of insertion is reasoned about.
- `MusicReel`: `Over` (revoked or expired) lasts for good, so what a cleanup has selected
  may be removed however late (`SweptOk`).  A worker that has put its video in place
  finds it there until the row names it, unless the reel is over (`RenderOk`), though
  another worker may render the same reel; and in the steps that draw, a segment is
  left to draw.
- `Wrapped`: the row of the lock says from which day on the next opening is allowed, and
  the upsert that reads it writes it (`LockIInv`).  An edit of a report holds both of its
  days in the order in which it checked them (`ReportIInv`).
- The statistics of `Wrapped`: after n of the sorted events (`TallyOk`), what is open of a
  device and track is its last event if that is a play (`OpensLast`), and each sum is that
  of the segments that the first n events close (`Counts`).  A pause adds the one segment
  that it closes to the sums that it belongs to (`SecondsGrow`), and a play none; nothing
  counts a negative time, because the events are sorted.  After n of the days (`RunOk`)
  the current run ends with the n-th and the day before it has no play, and no run
  among the first n is longer than the longest.
- `Lyrics`: a request carries words of the title that it read and has met the upload
  that is stored, if there is one (`AskerOk`).  Its lines (`LinesAreApart`): a line ends with
  the least of the later times that differ from its own, and all of those come after
  it because the cues are sorted.
- Sorting (`OrderedIs`): ranks grow along the order, so they differ; they are as many as
  the elements and below their number, so each is taken.

The theorems on induction take an operator and cannot be used.  An induction is
therefore made of the least number at which the claim fails (`WFMin`): it is not 0, and
the one before it passes the claim on.  In the same way there is a function that the
recursive definition describes (`TalliesExist`, `RunsExist`), so that CHOOSE gives one.

Assumed: the markers `NoSync`, `NoWords` and `Unknown` are none of the values beside
which they stand, events and calls are finitely many, bounds are numbers and limits,
batches and editions positive (`AccessAssumption`, `LyricsAssumption`, `OfflineAssumption`);
reels are numbered as a sequence numbers them and have at least one track
(`ReelAssumption`); periods and days have a length, the first opening is in December, and
times, of which there are finitely many, positions, lengths of tracks and days of
reports are natural numbers (`WrappedAssumption`), as are the times of a lyrics file and a
medium's length (`LyricsAssumption`).

### The feed

Downwards, of the lease's last revision there is, for the client's connection once the
hub has accepted it, news on the wire, news held back, or a client that has shown it
(`Coming`); and news of the last revision tells the truth (`NewsTrue`), because every
change of the lease raises the revision.  A revision that the client remembers from a
server before a restart does not hide it: the greeting, which resets it, is the first
message of a connection and is sent once (`Greeting`, `Greeted`).  When nothing is left to
read or held back, only the third case remains, which is `NewsArrives`.

Upwards, the reports of one session ascend on each connection, and none is below
what the entry took last (`InOrder`, `NotBelow`); a new session begins with a bind, which
resets the number and precedes its reports.  Hence no report of the owner is refused.
What the client last said of the holder's session is the last report on its way or is
in the entry, so that a reconnect restores it.

Assumed: `Nothing` and `Other` are no tab, no link and no message, the marks are numbers,
and a sequence number can be raised once at least (`FeedAssumption`).

### The downloads

At rest a track has the file that its row names and no other, or a removal has just
taken it (`FilesAtRest`).  A job knows the row that it found until it writes its own, and
each of its steps says which files there may be meanwhile (`FilesOfJob`): an old
and a new one between move and drop, none of the row's version between unlink and
move when both are the same.  A removal or a refetch has its track to itself and knows its
row (`HandOk`); where it does not, the track is in `crossed` and nothing is claimed, as
in the run.  Versions on the phone are not after the one offered, unless that was
withdrawn for good (`NotAfter`), so that an answer of the validation that comes late
still calls old what is old (`StaleOk`).  That no queued job is forgotten
(`QueuedIsSeen`) is claimed and proved of crossed tracks too.

Assumed: tracks are finitely many, there is a slot and a first version (`DownloadsAssumption`).

### The players

All three stand on two facts about the server (`ServerOk`): when the socket is not
ready there is no news, and while another device holds the lease the last of the
news under way says `busy` (`NewsOk`).  So a player that has heard everything has
last heard of the rival, and its silence then is a matter of what it does between
that news and now.

- Web: the request of the effect is for what the page shows, and the page has no
  source while one is pending (`EffectOk`); requests that are no longer awaited, and
  a takeover, can bring only a session of what is shown (`OthersOk`).  Hence
  `StreamsWhatItShows`.  `LoserStreamsNothing` is part of the invariant; it asks only that
  the news be heard, not that the page's own requests be settled.
- Phone: a call of `loadAudio` that was not superseded is for the track that is shown
  (`LoadsOk`), and without a source nothing sounds but a downloaded track, or what one of
  the three steps in `strays` has started again (`SilentOk`).
- Desktop: at most one task was not superseded, and while there is one nothing plays
  (`FreshOk`); what the engine plays, and what a resume after a pause would
  play, is the session of what is shown (`PlaysOk`, `KeptOk`); the socket is bound to
  the lease's session or to none (`EntryOk`).  A desktop that plays beside a rival thus
  plays a session that its socket is not bound to, which the next report settles:
  that is `ReportDue`, the exception that `RivalSilencesDesktop` makes.

Assumed: the rival's medium is a medium, the markers `Rival` and `NoOne` are no session
and not each other (`ServerAssumption`), and the fetches at a time are a number
(`WatchAssumption`).

### Only model-checked

- Liveness and the properties that need fairness: TLAPS as installed does not reason
  about ENABLED.
- With several requests at a time on the tree, `TreeInv` except for its part about covers;
  with several worker loops, `ReadyStays` (see the sections of their proofs).

## 5. Not modelled

- PostgreSQL queries whose result is only displayed, formatting, rate limits,
  authentication headers, the HTTP range protocol, ffmpeg and image processing.
- The rate limit and the one-time tickets of the hub.
- The lease check before a queue route (`exclusiveQueueConflict`) and the windows and
  revisions that clients hold.
- Texts of a medium that are edited beside its finalization, subtitles,
  temporary files and the reports of the upload queue.
- Redis errors in the hub; the claim of a job from a live encoding worker, which
  the code prevents by an idle time of an hour.
- What players do besides holding the lease: positions, qualities, queue windows,
  views; the homepage and the build scripts; see `components` in `PROJECT.json` for
  each part and the reason.

Hazards that no property covers, besides those noted in `PROJECT.json`:

- Lease: the release drops the viewer's snapshot after another session of the viewer
  may have written its own (`routes/playback.js:713`; the next report repairs it).
- Hub: an error of Redis after the timer was cleared (`playback-socket.js:77`); a
  socket that closes while its ticket is consumed (`playback-socket.js:174`).
- Encoding: a server that stops between INSERT and XADD (`encoding-queue.js:25`); a
  job added again whose attempts no delivery counts (`encoding-worker.js:20`); a job
  claimed from a live worker (`encoding-worker.js:366`); the row of a version that is
  gone (`routes/media.js:524`).
- Queue: the lease is checked before the change (`routes/queue.js:195`); a stop between
  the transaction and INCR (`routes/queue.js:392`); appending nothing rewrites what was
  read (`routes/queue.js:504`).
- Uploads: a deleted upload stays in the active set (`routes/media.js:1137`).
- Files: artists and track order edited beside a finalization are overwritten
  (`media-finalization-worker.js:108`); a replacement delivered again puts an older file
  back; temporary files of a conversion and subtitles written after a deletion are
  unknown to the sweep (`video-source-normalization.js:51`, `subtitles.js:119`).

## 6. Plan

1. Videos on the phone; the windows of the queue that clients hold.
2. Client releases, subtitles.
3. The queue composed with the lease.

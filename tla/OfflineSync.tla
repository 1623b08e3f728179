----------------------------- MODULE OfflineSync -----------------------------
(***************************************************************************)
(* What a phone played without the server and how it gets there: an outbox *)
(* of events and the newest resume position in SQLite (offline-store.js),  *)
(* flushSync (offline-context.jsx), and POST /api/offline/sync             *)
(* (routes/offline.js) with its INSERT, ZADD, MGET and EXEC.               *)
(*                                                                         *)
(* An action is one SQL statement, Redis command or network event with the *)
(* code up to the next await.  Abstractions: one medium with one resume    *)
(* key, whose position is known by the time it was saved; payload checks;  *)
(* the access check and the validation that a flush starts with, which     *)
(* fail like the request that follows them.                                *)
(***************************************************************************)
EXTENDS Naturals, FiniteSets

CONSTANTS
    Event,        \* playback events that are recorded (a bound)
    Handler,      \* sync requests that the server handles at a time (a bound)
    MaxBatch,     \* LIMIT 500
    MaxSaves,     \* resume positions saved (a bound)
    MaxLost,      \* answers lost, handlers that fail, restarts of the app (a bound)
    NoSync

ASSUME OfflineAssumption ==
    IsFiniteSet(Event) /\ MaxBatch \in Nat \ {0} /\ MaxSaves \in Nat /\ MaxLost \in Nat

VARIABLES
    outbox,      \* playback_outbox
    createdAt,   \* created_at of each event, 0 until it is recorded
    savedAt,     \* local_resumes.updated_at; 0: none
    dirty,       \* local_resumes.dirty
    flush,       \* flushSync of the running app
    handling,    \* sync requests at the server
    served,      \* playback_events
    logged,      \* playback:events in Redis
    remoteAt,    \* the timestamp in playback:resume
    refused,     \* events that the server answered as rejected
    allowed,     \* the medium is accessible, audio, and allowed offline
    lost         \* faults so far

offlineVars == <<outbox, createdAt, savedAt, dirty, flush, handling, served, logged, remoteAt,
                 refused, allowed, lost>>

-----------------------------------------------------------------------------
Payload == [events : SUBSET Event, resume : 0..MaxSaves]
Job == [at : {"access", "insert", "zadd", "mget", "exec", "answer"}, sent : Payload,
        accepted : BOOLEAN, inserted : SUBSET Event, seen : 0..MaxSaves]
Flush == [at : {"list"}] \union [at : {"wait"}, by : Handler]
            \union [at : {"delete", "mark"}, events : SUBSET Event, resume : 0..MaxSaves]

ASSUME NoSyncAssumption == NoSync \notin Job \union Flush

Recorded == {e \in Event : createdAt[e] > 0}

OfflineTypeOK ==
    /\ createdAt \in [Event -> Nat] /\ outbox \subseteq Recorded
    /\ savedAt \in 0..MaxSaves /\ dirty \in BOOLEAN /\ (dirty => savedAt > 0)
    /\ flush \in Flush \union {NoSync}
    /\ handling \in [Handler -> Job \union {NoSync}]
    /\ served \subseteq Recorded /\ logged \subseteq served /\ refused \subseteq Recorded
    /\ remoteAt \in 0..MaxSaves /\ allowed \in BOOLEAN /\ lost \in 0..MaxLost

OfflineInit ==
    /\ outbox = {} /\ createdAt = [e \in Event |-> 0] /\ savedAt = 0 /\ dirty = FALSE
    /\ flush = NoSync /\ handling = [h \in Handler |-> NoSync]
    /\ served = {} /\ logged = {} /\ remoteAt = 0 /\ refused = {}
    /\ allowed = TRUE /\ lost = 0

ServerSide == <<served, logged, remoteAt>>
Device == <<outbox, createdAt, savedAt, dirty>>

-----------------------------------------------------------------------------
(* The player and the world *)

RecordEvent(e) ==
    /\ e \notin Recorded /\ outbox' = outbox \union {e}
    /\ createdAt' = [createdAt EXCEPT ![e] = Cardinality(Recorded) + 1]
    /\ UNCHANGED <<savedAt, dirty, flush, handling, ServerSide, refused, allowed, lost>>

SaveResume ==
    /\ savedAt < MaxSaves /\ savedAt' = savedAt + 1 /\ dirty' = TRUE
    /\ UNCHANGED <<outbox, createdAt, flush, handling, ServerSide, refused, allowed, lost>>

Forbid ==
    /\ allowed /\ allowed' = FALSE
    /\ UNCHANGED <<Device, flush, handling, ServerSide, refused, lost>>

-----------------------------------------------------------------------------
(* flushSync: when the network comes back, and when the app comes to the front *)

FlushBegin ==
    /\ flush = NoSync /\ flush' = [at |-> "list"]
    /\ UNCHANGED <<Device, handling, ServerSide, refused, allowed, lost>>

\* listPlaybackOutbox: ORDER BY created_at LIMIT 500
Batch ==
    {e \in outbox : Cardinality({f \in outbox : createdAt[f] < createdAt[e]}) < MaxBatch}

FlushList ==
    LET events == Batch
        resume == IF dirty THEN savedAt ELSE 0
    IN /\ flush # NoSync /\ flush.at = "list"
       /\ IF events = {} /\ resume = 0
            THEN flush' = NoSync /\ UNCHANGED handling
            ELSE \E h \in Handler :
                    /\ handling[h] = NoSync
                    /\ handling' = [handling EXCEPT ![h] =
                          [at |-> "access", sent |-> [events |-> events, resume |-> resume],
                           accepted |-> FALSE, inserted |-> {}, seen |-> 0]]
                    /\ flush' = [at |-> "wait", by |-> h]
       /\ UNCHANGED <<Device, ServerSide, refused, allowed, lost>>

\* Mutant: what the server rejects stays in the outbox.
FlushAcceptedOnly ==
    LET job == handling[flush.by] IN
    /\ flush # NoSync /\ flush.at = "wait" /\ job.at = "answer"
    /\ flush' = [at |-> "delete", events |-> IF job.accepted THEN job.sent.events ELSE {},
                 resume |-> job.sent.resume]
    /\ refused' = IF job.accepted THEN refused ELSE refused \union job.sent.events
    /\ handling' = [handling EXCEPT ![flush.by] = NoSync]
    /\ UNCHANGED <<Device, ServerSide, allowed, lost>>

\* The answer arrives: accepted and rejected ids are all that was sent.
FlushAnswered ==
    LET job == handling[flush.by] IN
    /\ flush # NoSync /\ flush.at = "wait" /\ job.at = "answer"
    /\ flush' = [at |-> "delete", events |-> job.sent.events, resume |-> job.sent.resume]
    /\ refused' = IF job.accepted THEN refused ELSE refused \union job.sent.events
    /\ handling' = [handling EXCEPT ![flush.by] = NoSync]
    /\ UNCHANGED <<Device, ServerSide, allowed, lost>>

\* Mutant: the outbox is emptied.
FlushDeleteAll ==
    /\ flush # NoSync /\ flush.at = "delete"
    /\ outbox' = {} /\ flush' = [flush EXCEPT !.at = "mark"]
    /\ UNCHANGED <<createdAt, savedAt, dirty, handling, ServerSide, refused, allowed, lost>>

FlushDelete ==
    /\ flush # NoSync /\ flush.at = "delete"
    /\ outbox' = outbox \ flush.events
    /\ flush' = [flush EXCEPT !.at = "mark"]
    /\ UNCHANGED <<createdAt, savedAt, dirty, handling, ServerSide, refused, allowed, lost>>

\* markResumesSynced: by medium, whatever was saved since the list was read.
FlushMark ==
    /\ flush # NoSync /\ flush.at = "mark" /\ flush' = NoSync
    /\ dirty' = IF flush.resume # 0 THEN FALSE ELSE dirty
    /\ UNCHANGED <<outbox, createdAt, savedAt, handling, ServerSide, refused, allowed, lost>>

\* The request or its answer is lost, or the app ends: the outbox is durable.
FlushLost ==
    /\ flush # NoSync /\ flush' = NoSync /\ lost < MaxLost /\ lost' = lost + 1
    /\ UNCHANGED <<Device, handling, ServerSide, refused, allowed>>

-----------------------------------------------------------------------------
(* POST /sync *)

SyncStep(h, step) == handling' = [handling EXCEPT ![h].at = step]
HandlerAt(h, step) == handling[h] # NoSync /\ handling[h].at = step
Awaited(h) == flush # NoSync /\ flush.at = "wait" /\ flush.by = h
OnlyHandling == UNCHANGED <<Device, flush, ServerSide, refused, allowed, lost>>

SyncAccess(h) ==
    /\ HandlerAt(h, "access")
    /\ handling' = [handling EXCEPT ![h].at = IF allowed THEN "insert" ELSE "answer", ![h].accepted = allowed]
    /\ OnlyHandling

\* ON CONFLICT (client_event_id) DO NOTHING RETURNING
SyncInsert(h) ==
    LET new == handling[h].sent.events \ served IN
    /\ HandlerAt(h, "insert")
    /\ served' = served \union new
    /\ handling' = [handling EXCEPT ![h].at = IF new = {} THEN "mget" ELSE "zadd", ![h].inserted = new]
    /\ UNCHANGED <<Device, flush, logged, remoteAt, refused, allowed, lost>>

SyncLog(h) ==
    /\ HandlerAt(h, "zadd") /\ SyncStep(h, "mget")
    /\ logged' = logged \union handling[h].inserted
    /\ UNCHANGED <<Device, flush, served, remoteAt, refused, allowed, lost>>

SyncReadResume(h) ==
    /\ HandlerAt(h, "mget")
    /\ handling' = [handling EXCEPT ![h].at = "exec", ![h].seen = remoteAt]
    /\ OnlyHandling

\* isNewerOfflineResume against what was read before.
SyncWriteResume(h) ==
    LET resume == handling[h].sent.resume IN
    /\ HandlerAt(h, "exec") /\ SyncStep(h, "answer")
    /\ remoteAt' = IF resume > handling[h].seen THEN resume ELSE remoteAt
    /\ UNCHANGED <<Device, flush, served, logged, refused, allowed, lost>>

\* Nobody waits for the answer any more.
SyncUnheard(h) ==
    /\ HandlerAt(h, "answer") /\ ~Awaited(h)
    /\ handling' = [handling EXCEPT ![h] = NoSync]
    /\ OnlyHandling

\* A statement fails or the server ends: the client's request fails.
SyncFails(h) ==
    /\ handling[h] # NoSync /\ handling[h].at # "answer" /\ lost < MaxLost /\ lost' = lost + 1
    /\ handling' = [handling EXCEPT ![h] = NoSync]
    /\ flush' = IF Awaited(h) THEN NoSync ELSE flush
    /\ UNCHANGED <<Device, ServerSide, refused, allowed>>

-----------------------------------------------------------------------------
Flushing == FlushBegin \/ FlushList \/ FlushAnswered \/ FlushDelete \/ FlushMark

Handling(h) ==
    \/ SyncAccess(h) \/ SyncInsert(h) \/ SyncLog(h) \/ SyncReadResume(h) \/ SyncWriteResume(h)
    \/ SyncUnheard(h)

OfflineNext ==
    \/ \E e \in Event : RecordEvent(e)
    \/ SaveResume \/ Forbid \/ Flushing \/ FlushLost
    \/ \E h \in Handler : Handling(h) \/ SyncFails(h)

\* The app comes to the front again and again with a network; what it and the
\* server have begun goes on.
OfflineFairness == WF_offlineVars(Flushing) /\ \A h \in Handler : WF_offlineVars(Handling(h))

OfflineSpec == OfflineInit /\ [][OfflineNext]_offlineVars /\ OfflineFairness

-----------------------------------------------------------------------------
\* No event is lost on its way, whatever answers are lost and whatever is
\* recorded while a flush is under way: it waits in the outbox, or it is in
\* playback_events, or the server has refused it (offline-context.jsx:197).
EventsKept == \A e \in Recorded : e \in outbox \union served \union refused

\* Every event gets out of the outbox, also when the medium is gone and when
\* there are more events than a batch holds.
OutboxDrains == \A e \in Event : [](e \in outbox => <>(e \notin outbox))

\* What holds in every state of the sync.
OfflineInv == OfflineTypeOK /\ EventsKept
=============================================================================

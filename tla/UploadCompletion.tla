--------------------------- MODULE UploadCompletion ---------------------------
(***************************************************************************)
(* Chunked uploads: a directory per upload that collects chunks, a status  *)
(* in Redis, a stream of completion jobs, the worker that turns an upload  *)
(* into a medium, and the sweep that removes abandoned directories.        *)
(*                                                                         *)
(* An action is one file operation, SQL statement or Redis command with    *)
(* the code up to the next await.  The worker is one process that handles  *)
(* its jobs one after the other; a job that was not acknowledged is        *)
(* claimed again a minute later, by the worker itself or its successor.    *)
(*                                                                         *)
(* Abstractions: uploads have one kind of part; mkdir and the write of the *)
(* manifest are one step, since nobody knows the id before the answer; the *)
(* GET before a SET of the status carries only texts and times over; half  *)
(* an hour may pass at any moment, so a directory that the sweep looks at  *)
(* may be old; SADD and SREM do not fail; lyrics and covers are left out,  *)
(* and so is the replacement of a medium, which is in MediaFiles.          *)
(***************************************************************************)
EXTENDS Naturals, Sequences, FiniteSets, SequencesExt

CONSTANTS
    Upload,    \* randomUUID(), never used twice
    Handler,   \* slots for requests in flight (a bound)
    Total,     \* manifest.file.totalChunks
    MaxFaults, \* how many faults may happen, each of them once (a bound)
    Null

Faults == {"worker", "server", "redis", "day"}

ASSUME TotalAssumption == Total \in Nat \ {0}
ASSUME FaultAssumption == MaxFaults \in Nat

VARIABLES
    dir,      \* the directory of an upload with its manifest
    part,     \* the chunks that arrived
    status,   \* media:upload-completion:<id>
    active,   \* media:upload-completion:active_ids
    stream,   \* media:upload-completion, the entries not yet delivered
    left,     \* those delivered, not acknowledged, and with nobody at work
    job,      \* what the worker is doing
    media,    \* history: the rows made from an upload, in order
    ask,      \* requests in flight
    sweep,    \* cleanupIncompleteUploads, at one directory
    asked,    \* history: how often a job was put for an upload (1, or 2 for more)
    cut,      \* history: uploads whose status was left behind by a fault
    faults    \* history: the faults that have happened

vars == <<dir, part, status, active, stream, left, job, media, ask, sweep,
          asked, cut, faults>>

session == <<dir, part>>
redis == <<status, active, stream, left>>
past == <<asked, cut, faults>>

-----------------------------------------------------------------------------
(* Types *)

Waiting == {"queued", "processing"}
Status == {"none", "completed", "failed"} \union Waiting
Chunk == 1..Total

Request ==
    [upload : Upload,
     at : {"store", "status", "mark", "list", "add", "undo", "del"}]

Job ==
    [upload : Upload,
     at : {"mark", "list", "read", "assemble", "insert", "copy", "update", "hand",
           "clean", "settle", "unlist", "ack"},
     next : 1..Total + 1,     \* the chunk to assemble
     ok : BOOLEAN]            \* has nothing thrown so far?

Sweep ==
    [upload : Upload,
     at : {"status", "stat", "rm"},
     busy : BOOLEAN]          \* history: was it in use when the sweep came to it?

ASSUME NobodyAssumption == Null \notin Job \union Request \union Sweep

TypeOK ==
    /\ dir \in [Upload -> {"new", "open", "gone"}]
    /\ part \in [Upload -> SUBSET Chunk]
    /\ status \in [Upload -> Status]
    /\ active \subseteq Upload
    /\ stream \in Seq(Upload) /\ left \in Seq(Upload)
    /\ job \in Job \union {Null}
    /\ media \in [Upload -> Seq({"husk", "stored", "handed"})]
    /\ ask \in [Handler -> Request \union {Null}]
    /\ sweep \in Sweep \union {Null}
    /\ asked \in [Upload -> 0..2]
    /\ cut \subseteq Upload
    /\ faults \subseteq Faults

Init ==
    /\ dir = [u \in Upload |-> "new"]
    /\ part = [u \in Upload |-> {}]
    /\ status = [u \in Upload |-> "none"]
    /\ active = {} /\ stream = <<>> /\ left = <<>>
    /\ job = Null
    /\ media = [u \in Upload |-> <<>>]
    /\ ask = [a \in Handler |-> Null]
    /\ sweep = Null
    /\ asked = [u \in Upload |-> 0]
    /\ cut = {}
    /\ faults = {}

Fault(f) ==
    /\ f \notin faults /\ Cardinality(faults) < MaxFaults
    /\ faults' = faults \union {f}

Set(u, s) == status' = [status EXCEPT ![u] = s]
RemoveDir(u) ==
    /\ dir' = [dir EXCEPT ![u] = "gone"]
    /\ part' = [part EXCEPT ![u] = {}]

-----------------------------------------------------------------------------
(* The routes *)

Begin(a, u, step) == ask[a] = Null /\ ask' = [ask EXCEPT ![a] = [upload |-> u, at |-> step]]
Asking(a, step) == ask[a] # Null /\ ask[a].at = step
Go(a, step) == ask' = [ask EXCEPT ![a].at = step]
End(a) == ask' = [ask EXCEPT ![a] = Null]

\* hasActiveUpload: chunk and complete requests run in withActiveUpload.
HasActiveUpload(u) ==
    \E a \in Handler : ask[a] # Null /\ ask[a].upload = u /\ ask[a].at # "del"

PostUpload(u) ==
    /\ dir[u] = "new"
    /\ dir' = [dir EXCEPT ![u] = "open"]
    /\ UNCHANGED <<part, redis, job, media, ask, sweep, past>>

PostChunk(a, u) ==
    /\ dir[u] = "open"
    /\ Begin(a, u, "store")
    /\ UNCHANGED <<session, redis, job, media, sweep, past>>

\* The rename of the chunk into a directory that is gone fails.
StoreChunk(a) ==
    /\ Asking(a, "store")
    /\ LET u == ask[a].upload
       IN IF dir[u] = "open"
            THEN \E c \in Chunk : part' = [part EXCEPT ![u] = @ \union {c}]
            ELSE UNCHANGED part
    /\ End(a)
    /\ UNCHANGED <<dir, redis, job, media, sweep, past>>

PostComplete(a, u) ==
    /\ dir[u] = "open"
    /\ Begin(a, u, "status")
    /\ UNCHANGED <<session, redis, job, media, sweep, past>>

\* An upload with a status is answered by it: 202, 409 or the medium.
ReadStatus(a) ==
    /\ Asking(a, "status")
    /\ IF status[ask[a].upload] = "none" THEN Go(a, "mark") ELSE End(a)
    /\ UNCHANGED <<session, redis, job, media, sweep, past>>

MarkQueued(a) ==
    /\ Asking(a, "mark")
    /\ Set(ask[a].upload, "queued")
    /\ asked' = [asked EXCEPT ![ask[a].upload] = IF @ = 2 THEN 2 ELSE @ + 1]
    /\ Go(a, "list")
    /\ UNCHANGED <<session, active, stream, left, job, media, sweep, cut, faults>>

ListQueued(a) ==
    /\ Asking(a, "list")
    /\ active' = active \union {ask[a].upload}
    /\ Go(a, "add")
    /\ UNCHANGED <<session, status, stream, left, job, media, sweep, past>>

AddJob(a) ==
    /\ Asking(a, "add")
    /\ stream' = Append(stream, ask[a].upload)
    /\ End(a)
    /\ UNCHANGED <<session, status, active, left, job, media, sweep, past>>

\* The XADD fails, or succeeds and its answer is lost.
AddFails(a) ==
    /\ Asking(a, "add") /\ Fault("redis")
    /\ stream' \in {stream, Append(stream, ask[a].upload)}
    /\ Go(a, "undo")
    /\ UNCHANGED <<session, status, active, left, job, media, sweep, asked, cut>>

UndoQueued(a) ==
    /\ Asking(a, "undo")
    /\ Set(ask[a].upload, "none")
    /\ End(a)
    /\ UNCHANGED <<session, active, stream, left, job, media, sweep, past>>

\* The DEL fails like the XADD before it, and its error is swallowed.
UndoFails(a) ==
    /\ Asking(a, "undo")
    /\ cut' = cut \union {ask[a].upload}
    /\ End(a)
    /\ UNCHANGED <<session, redis, job, media, sweep, asked, faults>>

DeleteUpload(a, u) ==
    /\ dir[u] # "new"
    /\ Begin(a, u, "del")
    /\ RemoveDir(u)
    /\ UNCHANGED <<redis, job, media, sweep, past>>

DeleteStatus(a) ==
    /\ Asking(a, "del")
    /\ Set(ask[a].upload, "none")
    /\ End(a)
    /\ UNCHANGED <<session, active, stream, left, job, media, sweep, past>>

-----------------------------------------------------------------------------
(* runUploadCompletionWorker and processUploadCompletionJob *)

NewJob(u) == [upload |-> u, at |-> "mark", next |-> 1, ok |-> TRUE]

ReadJob ==
    /\ job = Null /\ stream # <<>>
    /\ job' = NewJob(Head(stream))
    /\ stream' = Tail(stream)
    /\ UNCHANGED <<session, status, active, left, media, ask, sweep, past>>

\* A mutant of Reclaim: what was not acknowledged is never claimed.
ReclaimNothing == FALSE

Reclaim ==
    /\ job = Null /\ left # <<>>
    /\ job' = NewJob(Head(left))
    /\ left' = Tail(left)
    /\ UNCHANGED <<session, status, active, stream, media, ask, sweep, past>>

Doing(step) == job # Null /\ job.at = step
Step(step) == job' = [job EXCEPT !.at = step]
Throw(step) == job' = [job EXCEPT !.at = step, !.ok = FALSE]

MarkProcessing ==
    /\ Doing("mark")
    /\ Set(job.upload, "processing")
    /\ Step("list")
    /\ UNCHANGED <<session, active, stream, left, media, ask, sweep, past>>

\* The SET is outside the try: the error is logged and the job acknowledged.
MarkFails ==
    /\ Doing("mark") /\ Fault("redis")
    /\ Step("ack")
    /\ cut' = cut \union {job.upload}
    /\ UNCHANGED <<session, redis, media, ask, sweep, asked>>

\* A mutant of ListProcessing that relies on the request to have done it.
ListNothing ==
    /\ Doing("list")
    /\ Step("read")
    /\ UNCHANGED <<session, redis, media, ask, sweep, past>>

ListProcessing ==
    /\ Doing("list")
    /\ active' = active \union {job.upload}
    /\ Step("read")
    /\ UNCHANGED <<session, status, stream, left, media, ask, sweep, past>>

ReadManifest ==
    /\ Doing("read")
    /\ IF dir[job.upload] = "open" THEN Step("assemble") ELSE Throw("settle")
    /\ UNCHANGED <<session, redis, media, ask, sweep, past>>

Assemble ==
    /\ Doing("assemble")
    /\ IF job.next \in part[job.upload]
         THEN job' = [job EXCEPT !.next = @ + 1,
                                 !.at = IF job.next = Total THEN "insert" ELSE @]
         ELSE Throw("clean")
    /\ UNCHANGED <<session, redis, media, ask, sweep, past>>

\* The category may be gone or out of reach by now.
Insert ==
    /\ Doing("insert")
    /\ \/ /\ media' = [media EXCEPT ![job.upload] = Append(@, "husk")]
          /\ Step("copy")
       \/ Throw("clean") /\ UNCHANGED media
    /\ UNCHANGED <<session, redis, ask, sweep, past>>

\* The assembled file lies in the directory of the upload; a disk may be full.
Copy ==
    /\ Doing("copy")
    /\ \/ dir[job.upload] = "open" /\ Step("update")
       \/ Throw("clean")
    /\ UNCHANGED <<session, redis, media, ask, sweep, past>>

Row(state) == [media EXCEPT ![job.upload][Len(media[job.upload])] = state]

Update ==
    /\ Doing("update")
    /\ media' = Row("stored")
    /\ Step("hand")
    /\ UNCHANGED <<session, redis, ask, sweep, past>>

\* A mutant of HandOver that is satisfied with a job that did not arrive.
HandOverMaybe ==
    /\ Doing("hand")
    /\ \/ media' = Row("handed") /\ UNCHANGED faults
       \/ Fault("redis") /\ UNCHANGED media
    /\ Step("clean")
    /\ UNCHANGED <<session, redis, ask, sweep, asked, cut>>

\* enqueueMediaFinalization
HandOver ==
    /\ Doing("hand")
    /\ \/ media' = Row("handed") /\ Step("clean") /\ UNCHANGED faults
       \/ Fault("redis") /\ Throw("clean") /\ UNCHANGED media
    /\ UNCHANGED <<session, redis, ask, sweep, asked, cut>>

\* A mutant of Clean that keeps the directory of what went well.
CleanFailures ==
    /\ Doing("clean")
    /\ IF job.ok THEN UNCHANGED <<dir, part>> ELSE RemoveDir(job.upload)
    /\ Step("settle")
    /\ UNCHANGED <<redis, media, ask, sweep, past>>

\* The finally of processChunkedMediaUpload.
Clean ==
    /\ Doing("clean")
    /\ RemoveDir(job.upload)
    /\ Step("settle")
    /\ UNCHANGED <<redis, media, ask, sweep, past>>

Settle ==
    /\ Doing("settle")
    /\ Set(job.upload, IF job.ok THEN "completed" ELSE "failed")
    /\ Step("unlist")
    /\ UNCHANGED <<session, active, stream, left, media, ask, sweep, past>>

\* A SET of completed that fails is caught and makes the upload failed; one
\* of failed leaves the status as it was.
SettleFails ==
    /\ Doing("settle") /\ Fault("redis")
    /\ IF job.ok THEN Throw("settle") /\ UNCHANGED cut
                 ELSE Step("ack") /\ cut' = cut \union {job.upload}
    /\ UNCHANGED <<session, redis, media, ask, sweep, asked>>

Unlist ==
    /\ Doing("unlist")
    /\ active' = active \ {job.upload}
    /\ Step("ack")
    /\ UNCHANGED <<session, status, stream, left, media, ask, sweep, past>>

Acknowledge ==
    /\ Doing("ack")
    /\ job' = Null
    /\ UNCHANGED <<session, redis, media, ask, sweep, past>>

AcknowledgeFails ==
    /\ Doing("ack") /\ Fault("redis")
    /\ left' = Append(left, job.upload)
    /\ job' = Null
    /\ UNCHANGED <<session, status, active, stream, media, ask, sweep, asked, cut>>

-----------------------------------------------------------------------------
(* cleanupIncompleteUploads, which looks at one directory after the other *)

\* A mutant of InUse that asks Redis first.
StatusFirst(u, look) ==
    IF look = "first" THEN status[u] \in Waiting ELSE HasActiveUpload(u)

\* isActive (index.js): the requests of this process first, then the status.
InUse(u, look) ==
    IF look = "first" THEN HasActiveUpload(u) ELSE status[u] \in Waiting

SweepLook(u) ==
    /\ sweep = Null /\ dir[u] = "open"
    /\ ~InUse(u, "first")
    /\ sweep' = [upload |-> u, at |-> "status",
                 busy |-> HasActiveUpload(u) \/ status[u] \in Waiting]
    /\ UNCHANGED <<session, redis, job, media, ask, past>>

SweepOn(step, go) == sweep' = IF go THEN [sweep EXCEPT !.at = step] ELSE Null

SweepStatus ==
    /\ sweep # Null /\ sweep.at = "status"
    /\ SweepOn("stat", ~InUse(sweep.upload, "second"))
    /\ UNCHANGED <<session, redis, job, media, ask, past>>

SweepStat ==
    /\ sweep # Null /\ sweep.at = "stat"
    /\ \E old \in BOOLEAN : SweepOn("rm", dir[sweep.upload] = "open" /\ old)
    /\ UNCHANGED <<session, redis, job, media, ask, past>>

SweepRemove ==
    /\ sweep # Null /\ sweep.at = "rm"
    /\ RemoveDir(sweep.upload)
    /\ sweep' = Null
    /\ UNCHANGED <<redis, job, media, ask, past>>

-----------------------------------------------------------------------------
(* Time and crashes *)

\* UPLOAD_COMPLETION_STATUS_TTL_SECONDS
Expire(u) ==
    /\ status[u] # "none" /\ Fault("day")
    /\ Set(u, "none")
    /\ UNCHANGED <<session, active, stream, left, job, media, ask, sweep, asked, cut>>

WorkerCrash ==
    /\ job # Null /\ Fault("worker")
    /\ left' = Append(left, job.upload)
    /\ job' = Null
    /\ UNCHANGED <<session, status, active, stream, media, ask, sweep, asked, cut>>

ServerCrash ==
    /\ Fault("server")
    /\ sweep # Null \/ \E a \in Handler : ask[a] # Null
    /\ cut' = cut \union {u \in Upload : \E a \in Handler :
                 ask[a] # Null /\ ask[a].upload = u /\ ask[a].at \in {"list", "add", "undo"}}
    /\ ask' = [a \in Handler |-> Null]
    /\ sweep' = Null
    /\ UNCHANGED <<session, redis, job, media, asked>>

-----------------------------------------------------------------------------

Work ==
    \/ ReadJob \/ Reclaim
    \/ MarkProcessing \/ ListProcessing \/ ReadManifest \/ Assemble
    \/ Insert \/ Copy \/ Update \/ HandOver \/ Clean \/ Settle \/ Unlist \/ Acknowledge

Serve(a) ==
    \/ StoreChunk(a) \/ ReadStatus(a) \/ MarkQueued(a) \/ ListQueued(a) \/ AddJob(a)
    \/ UndoQueued(a) \/ DeleteStatus(a)

Next ==
    \/ \E u \in Upload : PostUpload(u) \/ SweepLook(u) \/ Expire(u)
    \/ \E a \in Handler :
          \/ \E u \in Upload : PostChunk(a, u) \/ PostComplete(a, u) \/ DeleteUpload(a, u)
          \/ Serve(a) \/ AddFails(a) \/ UndoFails(a)
    \/ Work \/ MarkFails \/ SettleFails \/ AcknowledgeFails
    \/ SweepStatus \/ SweepStat \/ SweepRemove
    \/ WorkerCrash \/ ServerCrash

\* The worker is restarted when it stops and claims what was left; a
\* request that began goes on.
Fairness == WF_vars(Work) /\ \A a \in Handler : WF_vars(Serve(a))

Spec == Init /\ [][Next]_vars
FairSpec == Spec /\ Fairness

-----------------------------------------------------------------------------
(* Properties *)

Entered(u) == Contains(stream, u) \/ Contains(left, u)

\* A request or the worker is about to set the status, or between its SET and what follows.
Marking(u) ==
    \/ \E a \in Handler : /\ ask[a] # Null /\ ask[a].upload = u
                          /\ ask[a].at \in {"list", "add", "undo"}
    \/ job # Null /\ job.upload = u /\ job.at \in {"mark", "list"}

\* An upload whose status says completed has been made into a medium that
\* was handed to the finalization worker.
CompletedIsStored ==
    \A u \in Upload : status[u] = "completed" => Contains(media[u], "handed")

\* However often an upload is completed and its job delivered, it becomes
\* one medium, or two when the worker stops once.
OneMedium ==
    \A u \in Upload : Len(media[u]) <= (IF "worker" \in faults THEN 2 ELSE 1)

\* An upload that is said to wait or to be processed has a job, so the
\* client's polling comes to an end; only a stop of the server, or an error
\* of Redis that the worker does not survive, between two commands of one
\* handler leaves a status behind.
WaitingHasJob ==
    \A u \in Upload \ cut : status[u] \in Waiting =>
        Entered(u) \/ Marking(u) \/ (job # Null /\ job.upload = u)

\* An upload that waits is in the set that GET /uploads/queue reads, or the
\* one who put it there is about to.
WaitingIsListed ==
    \A u \in Upload \ cut : status[u] \in Waiting =>
        u \in active \/ Marking(u) \/ Entered(u)

\* An upload that has become a medium is called failed only after a fault,
\* or when it was completed a second time.
FailedMadeNothing ==
    \A u \in Upload : status[u] = "failed" /\ Contains(media[u], "handed") =>
        faults \intersect {"worker", "redis"} # {} \/ asked[u] = 2

\* The sweep never removes an upload that waits for the worker and was in
\* use, by a request or by its status, when the sweep came to it, unless
\* Redis lost the status in between.
SweepSparesWaiting ==
    [][ \A u \in Upload :
          SweepRemove /\ sweep.upload = u /\ status[u] \in Waiting
            => ~sweep.busy \/ faults \intersect {"day", "redis"} # {} ]_vars

\* The wait for the worker ends, unless the status was left behind.
WaitingSettles ==
    \A u \in Upload :
        status[u] \in Waiting ~> (status[u] \notin Waiting \/ u \in cut)

\* What holds in every state of the uploads: types, statuses that are true, and
\* one medium from each (media.js:375).
UploadInv == TypeOK /\ CompletedIsStored /\ FailedMadeNothing /\ OneMedium

\* An upload that waits, unless a fault left its status behind, has a job that
\* will be done and is on the list that administrators see
\* (upload-completion-queue.js:43).
WaitingIsWorked == WaitingHasJob /\ WaitingIsListed
=============================================================================

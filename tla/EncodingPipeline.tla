--------------------------- MODULE EncodingPipeline ---------------------------
(***************************************************************************)
(* The renditions of one media asset: rows in PostgreSQL that say how far  *)
(* each quality is, two Redis streams of jobs, and the worker process that *)
(* encodes.                                                                *)
(*                                                                         *)
(* A client that asks for a missing rendition puts one quality on the      *)
(* urgent stream; an administrator's retry puts the whole asset on the     *)
(* other one.  An action is one SQL statement, Redis command or file       *)
(* operation with the code up to the next await.  An urgent job that was   *)
(* delivered is never read again; one of the other stream that was not     *)
(* acknowledged is claimed an hour later.                                  *)
(*                                                                         *)
(* Abstractions: the asset is audio, video or an image; no encoding lasts  *)
(* so long that its job is claimed from a live worker; a worker may look   *)
(* at the two streams in any order (an urgent job may come in between its  *)
(* look at that stream and its read of the other); one replacement or      *)
(* deletion of the asset runs at a time.  Progress, attempts and error     *)
(* texts of a row, temporary files and the nightly window are left out.    *)
(***************************************************************************)
EXTENDS Naturals, Sequences, SequencesExt, FiniteSets

CONSTANTS
    Worker,       \* the loops of the worker process (ENCODING_CONCURRENCY)
    Quality,      \* encoded qualities, as numbers from low to high
    Worth,        \* those that the source is large enough for
    Handler,      \* slots for requests in flight (a bound)
    MaxVersion,   \* source versions (a bound)
    MaxAttempts,
    Budgets,      \* how often the outside world acts, by kind: one of these (a bound)
    Null

Kinds == {"request", "retry", "force", "change", "workerCrash", "serverCrash"}

ASSUME WorkerAssumption == IsFiniteSet(Worker)
ASSUME QualityAssumption == Quality \subseteq Nat /\ Worth \subseteq Quality
ASSUME BoundAssumption == MaxVersion \in Nat \ {0} /\ MaxAttempts \in Nat \ {0}
ASSUME BudgetAssumption == Budgets \subseteq [Kinds -> Nat]

VARIABLES
    version,  \* media_assets.source_version; 0 when the asset is deleted
    source,   \* the version whose content the source file holds, 0 when none
    row,      \* media_encoding_variants.status, by version and quality
    file,     \* the source version that an encoded file was made from, 0 when none
    urgent,   \* media:encoding:urgent, the entries not yet delivered
    normal,   \* media:encoding, the entries not yet delivered
    left,     \* media:encoding, the entries whose worker died before its XACK
    worker,   \* the job of each worker loop
    ask,      \* requests between their SQL statement and their XADD
    change,   \* how far the replacement or deletion of the asset is
    budget    \* how often the outside world may still act

vars == <<version, source, row, file, urgent, normal, left, worker, ask, change, budget>>

-----------------------------------------------------------------------------
(* Types *)

Version == 1..MaxVersion
Status == {"queued", "processing", "ready", "failed", "skipped"}

\* tries is the attempts field when fixed, else the delivery count.
Entry == [version : Version, tries : Nat, fixed : BOOLEAN]

Job ==
    [lane : {"urgent", "normal"},
     entry : Entry,
     todo : SUBSET Quality,       \* the qualities still to look at
     at : {"load", "probe", "next", "encode", "check", "rename", "markReady",
           "markFailed", "throw", "readd", "ack"},
     content : 0..MaxVersion,     \* what ffmpeg has read
     dir : BOOLEAN]               \* is its output directory still there?

Asking == [at : {"insert", "add", "retryAdd"}, version : Version,
           quality : Quality \union {Null}]

ASSUME NullAssumption == Null \notin Job \union Asking \union Quality

TypeOK ==
    /\ version \in 0..MaxVersion
    /\ source \in 0..MaxVersion
    /\ row \in [Version -> [Quality -> Status \union {"none"}]]
    /\ file \in [Version -> [Quality -> 0..MaxVersion]]
    /\ urgent \in Seq([version : Version, quality : Quality])
    /\ normal \in Seq(Entry)
    /\ left \in Seq(Entry)
    /\ worker \in [Worker -> Job \union {Null}]
    /\ ask \in [Handler -> Asking \union {Null}]
    /\ change \in {"none", "rm", "update", "sweep", "unlink", "abandoned"}
    /\ budget \in [Kinds -> Nat]

\* An asset that was encoded before, with what success.
Init ==
    /\ version = 1
    /\ source = 1
    /\ \E first \in [Quality -> {"none", "failed", "ready"}] :
          /\ \A q \in Quality \ Worth : first[q] # "ready"
          /\ row = [v \in Version |-> IF v = 1 THEN first ELSE [q \in Quality |-> "none"]]
          /\ file = [v \in Version |-> [q \in Quality |->
                        IF v = 1 /\ first[q] = "ready" THEN 1 ELSE 0]]
    /\ urgent = <<>> /\ normal = <<>> /\ left = <<>>
    /\ worker = [w \in Worker |-> Null]
    /\ ask = [a \in Handler |-> Null]
    /\ change = "none"
    /\ budget \in Budgets

Spend(kind) == budget[kind] > 0 /\ budget' = [budget EXCEPT ![kind] = @ - 1]

-----------------------------------------------------------------------------
(* Rows *)

Present == version # 0

\* UPDATE of the rows of version v whose status is in from: nothing happens
\* to a row that is not there.
Move(v, qs, from, to) ==
    row' = [row EXCEPT ![v] = [q \in Quality |->
              IF q \in qs /\ @[q] \in from THEN to ELSE @[q]]]

-----------------------------------------------------------------------------
(* enqueueEncodingQuality, for a stream or an offline download that finds   *)
(* no rendition, and retryFailedEncoding                                    *)

RequestBegin(a, q) ==
    /\ ask[a] = Null /\ Present
    /\ row[version][q] # "ready" \/ file[version][q] = 0
    /\ Spend("request")
    /\ ask' = [ask EXCEPT ![a] = [at |-> "insert", version |-> version, quality |-> q]]
    /\ UNCHANGED <<version, source, row, file, urgent, normal, left, worker, change>>

\* The row is inserted, or reset when it says failed; otherwise another
\* request has queued the quality already.  Without the asset the INSERT fails.
RequestInsert(a) ==
    /\ ask[a] # Null /\ ask[a].at = "insert"
    /\ LET v == ask[a].version
           q == ask[a].quality
       IN IF Present /\ row[v][q] \in {"none", "failed"}
            THEN /\ Move(v, {q}, {"none", "failed"}, "queued")
                 /\ ask' = [ask EXCEPT ![a].at = "add"]
            ELSE ask' = [ask EXCEPT ![a] = Null] /\ UNCHANGED row
    /\ UNCHANGED <<version, source, file, urgent, normal, left, worker, change, budget>>

RequestAdd(a) ==
    /\ ask[a] # Null /\ ask[a].at = "add"
    /\ urgent' = Append(urgent, [version |-> ask[a].version, quality |-> ask[a].quality])
    /\ ask' = [ask EXCEPT ![a] = Null]
    /\ UNCHANGED <<version, source, row, file, normal, left, worker, change, budget>>

Retry(a, force) ==
    LET from == {"failed"} \union (IF force THEN {"ready", "skipped"} ELSE {})
    IN /\ ask[a] = Null /\ Present
       /\ Spend(IF force THEN "force" ELSE "retry")
       /\ \E q \in Quality : row[version][q] \in from
       /\ Move(version, Quality, from, "queued")
       /\ ask' = [ask EXCEPT ![a] = [at |-> "retryAdd", version |-> version, quality |-> Null]]
       /\ UNCHANGED <<version, source, file, urgent, normal, left, worker, change>>

RetryAdd(a) ==
    /\ ask[a] # Null /\ ask[a].at = "retryAdd"
    /\ normal' = Append(normal, [version |-> ask[a].version, tries |-> 0, fixed |-> FALSE])
    /\ ask' = [ask EXCEPT ![a] = Null]
    /\ UNCHANGED <<version, source, row, file, urgent, left, worker, change, budget>>

-----------------------------------------------------------------------------
(* The worker loop *)

NewJob(lane, entry, qs) ==
    [lane |-> lane, entry |-> entry, todo |-> qs, at |-> "load", content |-> 0, dir |-> FALSE]

\* XREADGROUP and XAUTOCLAIM count a delivery.
Delivered(entry) == IF entry.fixed THEN entry ELSE [entry EXCEPT !.tries = @ + 1]

TakeUrgent(w) ==
    /\ worker[w] = Null /\ urgent # <<>>
    /\ LET job == Head(urgent)
           entry == [version |-> job.version, tries |-> 1, fixed |-> TRUE]
       IN worker' = [worker EXCEPT ![w] = NewJob("urgent", entry, {job.quality})]
    /\ urgent' = Tail(urgent)
    /\ UNCHANGED <<version, source, row, file, normal, left, ask, change, budget>>

TakeNormal(w) ==
    /\ worker[w] = Null /\ normal # <<>>
    /\ worker' = [worker EXCEPT ![w] = NewJob("normal", Delivered(Head(normal)), Quality)]
    /\ normal' = Tail(normal)
    /\ UNCHANGED <<version, source, row, file, urgent, left, ask, change, budget>>

Claim(w) ==
    /\ worker[w] = Null /\ left # <<>>
    /\ worker' = [worker EXCEPT ![w] = NewJob("normal", Delivered(Head(left)), Quality)]
    /\ left' = Tail(left)
    /\ UNCHANGED <<version, source, row, file, urgent, normal, ask, change, budget>>

Doing(w, step) == worker[w] # Null /\ worker[w].at = step
Goto(w, step) == worker' = [worker EXCEPT ![w].at = step]
Least(qs) == CHOOSE q \in qs : \A p \in qs : q <= p
Current(w) == Least(worker[w].todo)
VersionOf(w) == worker[w].entry.version

\* Of an urgent job nothing is left to do but its XACK, which nobody notices.
Finish(w) ==
    IF worker[w].lane = "urgent" THEN worker' = [worker EXCEPT ![w] = Null] ELSE Goto(w, "ack")

-----------------------------------------------------------------------------
(* processEncodingJob *)

Load(w) ==
    /\ Doing(w, "load")
    /\ IF version = VersionOf(w) THEN Goto(w, "probe") ELSE Finish(w)
    /\ UNCHANGED <<version, source, row, file, urgent, normal, left, ask, change, budget>>

\* A mutant of Probe that does not leave out what is done already.
ProbeAll(w) ==
    /\ Doing(w, "probe")
    /\ \/ /\ source # 0
          /\ worker' = [worker EXCEPT ![w].at = "next", ![w].dir = TRUE]
       \/ Goto(w, "throw")
    /\ UNCHANGED <<version, source, row, file, urgent, normal, left, ask, change, budget>>

\* The source is probed, the rows are read, the output directory is made.
Probe(w) ==
    /\ Doing(w, "probe")
    /\ \/ /\ source # 0
          /\ worker' = [worker EXCEPT ![w].at = "next", ![w].dir = TRUE,
                ![w].todo = {q \in @ : row[VersionOf(w)][q] \notin {"ready", "skipped"}}]
       \/ Goto(w, "throw")
    /\ UNCHANGED <<version, source, row, file, urgent, normal, left, ask, change, budget>>

NextQuality(w) ==
    /\ Doing(w, "next")
    /\ IF worker[w].todo = {}
         THEN Finish(w) /\ UNCHANGED row
         ELSE IF Current(w) \in Worth
           THEN Move(VersionOf(w), {Current(w)}, Status, "processing") /\ Goto(w, "encode")
           ELSE /\ Move(VersionOf(w), {Current(w)}, Status, "skipped")
                /\ worker' = [worker EXCEPT ![w].todo = @ \ {Current(w)}]
    /\ UNCHANGED <<version, source, file, urgent, normal, left, ask, change, budget>>

Encode(w) ==
    /\ Doing(w, "encode")
    /\ \/ /\ source # 0
          /\ worker' = [worker EXCEPT ![w].at = "check", ![w].content = source]
       \/ Goto(w, "markFailed")
    /\ UNCHANGED <<version, source, row, file, urgent, normal, left, ask, change, budget>>

Check(w) ==
    /\ Doing(w, "check")
    /\ IF version = VersionOf(w) THEN Goto(w, "rename") ELSE Finish(w)
    /\ UNCHANGED <<version, source, row, file, urgent, normal, left, ask, change, budget>>

\* The output is moved into place, unless its directory has been removed.
Rename(w) ==
    /\ Doing(w, "rename")
    /\ IF worker[w].dir
         THEN /\ file' = [file EXCEPT ![VersionOf(w)][Current(w)] = worker[w].content]
              /\ Goto(w, "markReady")
         ELSE Goto(w, "markFailed") /\ UNCHANGED file
    /\ UNCHANGED <<version, source, row, urgent, normal, left, ask, change, budget>>

MarkReady(w) ==
    /\ Doing(w, "markReady")
    /\ Move(VersionOf(w), {Current(w)}, Status, "ready")
    /\ worker' = [worker EXCEPT ![w].at = "next", ![w].todo = @ \ {Current(w)},
                                ![w].content = 0]
    /\ UNCHANGED <<version, source, file, urgent, normal, left, ask, change, budget>>

MarkFailed(w) ==
    /\ Doing(w, "markFailed")
    /\ Move(VersionOf(w), {Current(w)}, Status, "failed")
    /\ Goto(w, "throw")
    /\ UNCHANGED <<version, source, file, urgent, normal, left, ask, change, budget>>

-----------------------------------------------------------------------------
(* What the loop does with an error, and with the end of a job *)

\* Mutants: an urgent job that fails early leaves its row as it is; the job
\* of an asset is given up with a status that there is not.
ThrowUrgentQuietly(w) ==
    /\ Doing(w, "throw") /\ worker[w].lane = "urgent"
    /\ Finish(w)
    /\ UNCHANGED <<version, source, row, file, urgent, normal, left, ask, change, budget>>

ThrowUrgent(w) ==
    /\ Doing(w, "throw") /\ worker[w].lane = "urgent"
    /\ Move(VersionOf(w), worker[w].todo, Status \ {"ready"}, "failed")
    /\ Finish(w)
    /\ UNCHANGED <<version, source, file, urgent, normal, left, ask, change, budget>>

GiveUp(w) ==
    /\ Doing(w, "throw") /\ worker[w].lane = "normal"
    /\ worker[w].entry.tries >= MaxAttempts
    /\ Move(VersionOf(w), Quality, Status \ {"ready"}, "failed")
    /\ Goto(w, "ack")
    /\ UNCHANGED <<version, source, file, urgent, normal, left, ask, change, budget>>

TryAgain(w) ==
    /\ Doing(w, "throw") /\ worker[w].lane = "normal"
    /\ worker[w].entry.tries < MaxAttempts
    /\ Move(VersionOf(w), Quality, {"failed"}, "queued")
    /\ Goto(w, "readd")
    /\ UNCHANGED <<version, source, file, urgent, normal, left, ask, change, budget>>

Readd(w) ==
    /\ Doing(w, "readd")
    /\ normal' = Append(normal, [version |-> VersionOf(w), fixed |-> TRUE,
                                 tries |-> worker[w].entry.tries + 1])
    /\ Goto(w, "ack")
    /\ UNCHANGED <<version, source, row, file, urgent, left, ask, change, budget>>

Acknowledge(w) ==
    /\ Doing(w, "ack")
    /\ worker' = [worker EXCEPT ![w] = Null]
    /\ UNCHANGED <<version, source, row, file, urgent, normal, left, ask, change, budget>>

-----------------------------------------------------------------------------
(* replaceMediaFiles and DELETE /media/:id *)

\* None is under way; the last one may have been cut short by a crash.
NoChange == change \in {"none", "abandoned"}

\* rm of the asset's directory, with whatever is being encoded in it.
RemoveFiles ==
    /\ file' = [v \in Version |-> [q \in Quality |-> 0]]
    /\ worker' = [w \in Worker |-> IF worker[w] = Null THEN Null
                                   ELSE [worker[w] EXCEPT !.dir = FALSE]]

ReplaceWrite ==
    /\ NoChange /\ Present /\ version < MaxVersion
    /\ Spend("change")
    /\ source' = version + 1
    /\ change' = "rm"
    /\ UNCHANGED <<version, row, file, urgent, normal, left, worker, ask>>

ReplaceRemove ==
    /\ change = "rm"
    /\ RemoveFiles
    /\ change' = "update"
    /\ UNCHANGED <<version, source, row, urgent, normal, left, ask, budget>>

\* A mutant of ReplaceUpdate that keeps the version.
ReplaceUpdateSame ==
    /\ change = "update"
    /\ change' = "sweep"
    /\ UNCHANGED <<version, source, row, file, urgent, normal, left, worker, ask, budget>>

ReplaceUpdate ==
    /\ change = "update"
    /\ version' = version + 1
    /\ change' = "sweep"
    /\ UNCHANGED <<source, row, file, urgent, normal, left, worker, ask, budget>>

ReplaceSweep ==
    /\ change = "sweep"
    /\ row' = [v \in Version |-> IF v = version THEN row[v] ELSE [q \in Quality |-> "none"]]
    /\ change' = "none"
    /\ UNCHANGED <<version, source, file, urgent, normal, left, worker, ask, budget>>

\* The rows go with the asset (ON DELETE CASCADE).
DeleteRow ==
    /\ NoChange /\ Present
    /\ Spend("change")
    /\ version' = 0
    /\ row' = [v \in Version |-> [q \in Quality |-> "none"]]
    /\ change' = "unlink"
    /\ UNCHANGED <<source, file, urgent, normal, left, worker, ask>>

DeleteFiles ==
    /\ change = "unlink"
    /\ source' = 0
    /\ RemoveFiles
    /\ change' = "none"
    /\ UNCHANGED <<version, row, urgent, normal, left, ask, budget>>

-----------------------------------------------------------------------------
(* Crashes *)

\* The worker process stops: of its jobs only those of media:encoding that
\* it did not acknowledge remain for XAUTOCLAIM.  An error of Redis or
\* PostgreSQL in the loop has the same effect on the job at hand.
WorkerCrash ==
    /\ Spend("workerCrash")
    /\ \E w \in Worker : worker[w] # Null
    /\ LET dead == SetToSeq({w \in Worker : worker[w] # Null /\ worker[w].lane = "normal"})
       IN left' = left \o [i \in 1..Len(dead) |-> worker[dead[i]].entry]
    /\ worker' = [w \in Worker |-> Null]
    /\ UNCHANGED <<version, source, row, file, urgent, normal, ask, change>>

ServerCrash ==
    /\ Spend("serverCrash")
    /\ ~NoChange \/ \E a \in Handler : ask[a] # Null
    /\ ask' = [a \in Handler |-> Null]
    /\ change' = IF NoChange THEN change ELSE "abandoned"
    /\ UNCHANGED <<version, source, row, file, urgent, normal, left, worker>>

-----------------------------------------------------------------------------

Work(w) ==
    \/ TakeUrgent(w) \/ TakeNormal(w) \/ Claim(w)
    \/ Load(w) \/ Probe(w) \/ NextQuality(w) \/ Encode(w) \/ Check(w) \/ Rename(w)
    \/ MarkReady(w) \/ MarkFailed(w)
    \/ ThrowUrgent(w) \/ GiveUp(w) \/ TryAgain(w) \/ Readd(w) \/ Acknowledge(w)

Serve(a) == RequestInsert(a) \/ RequestAdd(a) \/ RetryAdd(a)

Change == ReplaceRemove \/ ReplaceUpdate \/ ReplaceSweep \/ DeleteFiles

Next ==
    \/ \E w \in Worker : Work(w)
    \/ \E a \in Handler :
          \/ \E q \in Quality : RequestBegin(a, q)
          \/ \E force \in BOOLEAN : Retry(a, force)
          \/ Serve(a)
    \/ ReplaceWrite \/ DeleteRow \/ Change
    \/ WorkerCrash \/ ServerCrash

Spec == Init /\ [][Next]_vars

\* The worker is restarted when it stops and its loops run on; handlers go on.
Fairness ==
    /\ \A w \in Worker : WF_vars(Work(w))
    /\ \A a \in Handler : WF_vars(Serve(a))
    /\ WF_vars(Change)

FairSpec == Spec /\ Fairness

-----------------------------------------------------------------------------
(* Properties *)

Waiting(v, q) == version = v /\ row[v][q] \in {"queued", "processing"}

\* A rendition that is ready stays so until the source is replaced or an
\* administrator forces it through the encoder again (plans/056: "Existing
\* `ready` variant files keep serving untouched").
ReadyStays ==
    [][ \A q \in Quality :
          (Present /\ version' = version
             /\ row[version][q] = "ready" /\ row'[version][q] # "ready")
          => \E a \in Handler : Retry(a, TRUE) ]_vars

\* What the rows call ready is there, and made from the current source,
\* whatever the worker was doing when the source was replaced.  (A server
\* that stops in the middle of a replacement leaves rows and files apart
\* until the next one.)
ReadyIsCurrent ==
    \A q \in Quality :
        Present /\ change = "none" /\ row[version][q] = "ready" => file[version][q] = version

\* A quality that waits for its encoding is encoded, skipped or given up in
\* the end (plans/056: "so the 409 resolves itself").
WaitingSettles ==
    \A v \in Version, q \in Quality : Waiting(v, q) ~> ~Waiting(v, q)

\* What holds in every state of the pipeline.
EncodingInv == TypeOK /\ ReadyIsCurrent
=============================================================================

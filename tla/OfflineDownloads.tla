--------------------------- MODULE OfflineDownloads ---------------------------
(***************************************************************************)
(* Downloads of the phone (offline-context.jsx): the rows of downloads and *)
(* download_jobs in SQLite, the audio files, the effect that starts queued *)
(* jobs, processJob, and what its user does meanwhile: ask, cancel, retry, *)
(* remove, remove all, fetch cover and lyrics again.                       *)
(*                                                                         *)
(* An action is one statement or file operation with the code up to the    *)
(* next await.  A file is known by its version, which is part of its name; *)
(* its .part is not modelled, nor are covers, lyrics and progress.  The    *)
(* two kinds of network and the approval of a cellular download are one    *)
(* question: may a download run now?  patchStoredJob is one statement, and *)
(* statements and file operations succeed.                                 *)
(***************************************************************************)
EXTENDS Naturals, FiniteSets

CONSTANTS
    Track,         \* media
    Slots,         \* OFFLINE_MAX_CONCURRENT_DOWNLOADS
    MaxVersion,    \* versions of a file on the server (a bound)
    MaxLaunches    \* further launches of the app (a bound)

ASSUME DownloadsAssumption ==
    /\ IsFiniteSet(Track) /\ Slots \in Nat \ {0}
    /\ MaxVersion \in Nat \ {0} /\ MaxLaunches \in Nat

VARIABLES
    offered,     \* the version that the server would send; 0: none
    row,         \* downloads: version (0: no row) and status
    disk,        \* the finished files, by their version
    job,         \* download_jobs: version (0: no row) and state
    proc,        \* processJob
    pumping,     \* pumpingRef
    cancelled,   \* cancelledDownloadsRef
    paused,      \* pausedDownloadsRef
    late,        \* what a slow refresh has read
    hand,        \* what the user does
    checking,    \* versions that POST /validate was asked about, and its answers
    connected,   \* the policy of the network
    crossed,     \* history: tracks that two of these changed at once
    relaunches

deviceVars == <<row, disk, job>>
pumpVars == <<proc, pumping, cancelled, paused>>
downloadVars == <<offered, deviceVars, pumpVars, late, hand, checking, connected, crossed, relaunches>>

-----------------------------------------------------------------------------
Version == 1..MaxVersion
Row == [version : 0..MaxVersion, status : {"ready", "stale", "locked"}]
Job == [version : 0..MaxVersion, state : {"queued", "downloading", "paused", "cancelled", "failed"}]

NoRow == [version |-> 0, status |-> "ready"]
NoRecord == [version |-> 0, state |-> "queued"]
Resting == [at |-> "rest", version |-> 0, existing |-> 0]
HandsOff == [op |-> "none", on |-> {}, at |-> "begin", seen |-> [t \in Track |-> NoRow]]
Unread == [job |-> [t \in Track |-> NoRecord], row |-> [t \in Track |-> NoRow]]
Unasked == [t \in Track |-> [version |-> 0, status |-> "ready"]]

Queued(j) == j.version # 0 /\ j.state = "queued"

\* activeDownloadsRef
Active(t) == proc[t].at \in {"download", "unlink", "move", "save", "drop", "done", "caught"}

DownloadsTypeOK ==
    /\ offered \in [Track -> 0..MaxVersion]
    /\ row \in [Track -> Row] /\ disk \in [Track -> SUBSET Version] /\ job \in [Track -> Job]
    /\ proc \in [Track -> [at : {"rest", "refuse", "start", "download", "unlink", "move", "save",
                                 "drop", "done", "caught"},
                           version : 0..MaxVersion, existing : 0..MaxVersion]]
    /\ pumping \in BOOLEAN /\ (pumping \/ \A t \in Track : proc[t] = Resting)
    /\ cancelled \subseteq Track /\ paused \subseteq Track
    /\ late.job \in [Track -> Job] /\ late.row \in [Track -> Row]
    /\ hand.op \in {"none", "cancel", "remove", "remove all", "assets"} /\ hand.on \subseteq Track
    /\ hand.at \in {"begin", "patch", "files", "rows", "save"} /\ hand.seen \in [Track -> Row]
    /\ checking \in [Track -> Row] /\ connected \in BOOLEAN
    /\ crossed \subseteq Track /\ relaunches \in 0..MaxLaunches

DownloadsInit ==
    /\ offered = [t \in Track |-> 1] /\ row = [t \in Track |-> NoRow]
    /\ disk = [t \in Track |-> {}] /\ job = [t \in Track |-> NoRecord]
    /\ proc = [t \in Track |-> Resting] /\ pumping = FALSE /\ cancelled = {} /\ paused = {}
    /\ late = Unread /\ hand = HandsOff /\ checking = Unasked
    /\ connected = TRUE /\ crossed = {} /\ relaunches = 0

-----------------------------------------------------------------------------
(* refresh, and the effect that its setJobs runs *)

\* What a refresh has read is shown: queued jobs start, unless some are running.
Shown(jobs, rows, busy) ==
    LET waiting == {t \in Track : Queued(jobs[t])}
    IN IF busy \/ waiting = {}
         THEN pumping' = busy /\ UNCHANGED proc
         ELSE /\ pumping' = TRUE
              /\ \E chosen \in SUBSET waiting :
                    /\ Cardinality(chosen) = (IF Cardinality(waiting) < Slots THEN Cardinality(waiting) ELSE Slots)
                    /\ proc' = [t \in Track |->
                          IF t \in chosen THEN [at |-> IF connected' THEN "start" ELSE "refuse",
                                                version |-> jobs[t].version, existing |-> rows[t].version]
                          ELSE Resting]

Refreshed == Shown(job', row', pumping)

\* Every operation refreshes, progress and a sync do too, and its five reads
\* may be shown after those of a later one.
ReadSlowly ==
    /\ late = Unread /\ late' = [job |-> job, row |-> row]
    /\ UNCHANGED <<offered, deviceVars, pumpVars, hand, checking, connected, relaunches>>

ShowLate ==
    /\ late # Unread /\ late' = Unread /\ UNCHANGED connected
    /\ Shown(late.job, late.row, pumping)
    /\ UNCHANGED <<offered, deviceVars, cancelled, paused, hand, checking, relaunches>>

\* Mutant: nothing looks for jobs that were queued meanwhile.
BatchEndsQuietly ==
    /\ pumping /\ \A t \in Track : proc[t] = Resting
    /\ pumping' = FALSE
    /\ UNCHANGED <<proc, offered, deviceVars, cancelled, paused, late, hand, checking, connected, relaunches>>

BatchEnds ==
    /\ pumping /\ \A t \in Track : proc[t] = Resting
    /\ UNCHANGED <<deviceVars, connected>> /\ Shown(job', row', FALSE)
    /\ UNCHANGED <<offered, cancelled, paused, late, hand, checking, relaunches>>

-----------------------------------------------------------------------------
(* processJob *)

To(t, step) == proc' = [proc EXCEPT ![t].at = step]

\* patchStoredJob does nothing without a row.
Patched(t, state) == [job EXCEPT ![t].state = IF job[t].version = 0 THEN @ ELSE state]

Rest(t) == proc' = [proc EXCEPT ![t] = Resting]

Elsewhere == UNCHANGED <<offered, pumping, late, hand, checking, connected, relaunches>>

Refuse(t) ==
    /\ proc[t].at = "refuse" /\ job' = Patched(t, "paused") /\ Rest(t)
    /\ UNCHANGED <<row, disk, cancelled, paused>> /\ Elsewhere

Start(t) ==
    /\ proc[t].at = "start"
    /\ \/ job' = Patched(t, "failed") /\ Rest(t)              \* not enough storage
       \/ job' = Patched(t, "downloading") /\ To(t, "download")
    /\ UNCHANGED <<row, disk, cancelled, paused>> /\ Elsewhere

\* Size and version are verified; anything else is an error, as is the end of
\* a download that was paused.
Download(t) ==
    /\ proc[t].at = "download"
    /\ \/ offered[t] = proc[t].version /\ To(t, "unlink")
       \/ To(t, "caught")
    /\ UNCHANGED <<deviceVars, cancelled, paused>> /\ Elsewhere

Unlink(t) ==
    /\ proc[t].at = "unlink" /\ disk' = [disk EXCEPT ![t] = @ \ {proc[t].version}] /\ To(t, "move")
    /\ UNCHANGED <<row, job, cancelled, paused>> /\ Elsewhere

\* The cover and the lyrics are fetched before the row is written.
Move(t) ==
    /\ proc[t].at = "move" /\ disk' = [disk EXCEPT ![t] = @ \union {proc[t].version}] /\ To(t, "save")
    /\ UNCHANGED <<row, job, cancelled, paused>> /\ Elsewhere

Save(t) ==
    /\ proc[t].at = "save" /\ To(t, "drop")
    /\ row' = [row EXCEPT ![t] = [version |-> proc[t].version, status |-> "ready"]]
    /\ UNCHANGED <<disk, job, cancelled, paused>> /\ Elsewhere

\* Mutant: the new file may have the name of the old one.
DropAlways(t) ==
    /\ proc[t].at = "drop" /\ To(t, "done")
    /\ disk' = [disk EXCEPT ![t] = @ \ {proc[t].existing}]
    /\ UNCHANGED <<row, job, cancelled, paused>> /\ Elsewhere

\* The file before, as it was known when the job began.
Drop(t) ==
    /\ proc[t].at = "drop" /\ To(t, "done")
    /\ disk' = [disk EXCEPT ![t] = IF proc[t].existing = proc[t].version THEN @ ELSE @ \ {proc[t].existing}]
    /\ UNCHANGED <<row, job, cancelled, paused>> /\ Elsewhere

Forgotten(t) == cancelled' = cancelled \ {t} /\ paused' = paused \ {t}

Done(t) ==
    /\ proc[t].at = "done" /\ job' = [job EXCEPT ![t] = NoRecord] /\ Rest(t) /\ Forgotten(t)
    /\ UNCHANGED <<row, disk>> /\ Elsewhere

Caught(t) ==
    /\ proc[t].at = "caught" /\ Rest(t) /\ Forgotten(t)
    /\ job' = Patched(t, CASE t \in cancelled -> "cancelled" [] t \in paused -> "paused" [] OTHER -> "failed")
    /\ UNCHANGED <<row, disk>> /\ Elsewhere

Process(t) ==
    \/ Refuse(t) \/ Start(t) \/ Download(t) \/ Unlink(t) \/ Move(t)
    \/ Save(t) \/ Drop(t) \/ Done(t) \/ Caught(t)

-----------------------------------------------------------------------------
(* The user: the handlers with several awaits run one at a time *)

\* downloadMedia and downloadCategory; retryDownload keeps the version.
DownloadMedia(t) ==
    /\ \/ /\ connected /\ offered[t] # 0
          /\ job' = [job EXCEPT ![t] = [version |-> offered[t], state |-> "queued"]]
       \/ /\ job[t].version # 0 /\ job[t].state \in {"paused", "cancelled", "failed"}
          /\ job' = [job EXCEPT ![t].state = "queued"]
    /\ UNCHANGED <<row, connected>> /\ Refreshed
    /\ UNCHANGED <<offered, disk, cancelled, paused, late, hand, checking, relaunches>>

\* cancelDownload, first also of removeDownload and, for what is active, of removeAll.
Hold(op, on) ==
    /\ hand = HandsOff
    /\ hand' = [op |-> op, on |-> on, at |-> "patch", seen |-> row]
    /\ cancelled' = cancelled \union {t \in on : Active(t)}
    /\ UNCHANGED <<offered, deviceVars, proc, pumping, paused, late, checking, connected, relaunches>>

CancelDownload(t) == job[t].version # 0 /\ job[t].state \in {"queued", "downloading", "paused"} /\ Hold("cancel", {t})
RemoveDownload(t) == row[t].version # 0 /\ Hold("remove", {t})
RemoveAll == (\E t \in Track : row[t].version # 0) /\ Hold("remove all", Track)

\* removeAll lists the downloads only now.
HandPatch ==
    LET which == IF hand.op = "remove all" THEN {t \in hand.on : t \in cancelled \/ Active(t)} ELSE hand.on
    IN /\ hand.at = "patch"
       /\ job' = [t \in Track |-> IF t \in which THEN Patched(t, "cancelled")[t] ELSE job[t]]
       /\ UNCHANGED <<row, connected>> /\ Refreshed
       /\ hand' = CASE hand.op = "cancel" -> HandsOff
                    [] hand.op = "remove" -> [hand EXCEPT !.at = "files"]
                    [] OTHER -> [hand EXCEPT !.at = "files", !.seen = row]
       /\ UNCHANGED <<offered, disk, cancelled, paused, late, checking, relaunches>>

HandFiles ==
    /\ hand.at = "files" /\ hand' = [hand EXCEPT !.at = "rows"]
    /\ disk' = [t \in Track |-> IF t \in hand.on THEN disk[t] \ {hand.seen[t].version} ELSE disk[t]]
    /\ UNCHANGED <<offered, row, job, pumpVars, late, checking, connected, relaunches>>

HandRows ==
    /\ hand.at = "rows" /\ hand' = HandsOff /\ UNCHANGED connected
    /\ row' = [t \in Track |-> IF t \in hand.on THEN NoRow ELSE row[t]]
    /\ job' = [t \in Track |-> IF t \in hand.on THEN NoRecord ELSE job[t]]
    /\ Refreshed
    /\ UNCHANGED <<offered, disk, cancelled, paused, late, checking, relaunches>>

\* retryAssets writes the row that it read before it fetched.
Assets(t) ==
    /\ hand = HandsOff /\ row[t].version # 0 /\ connected
    /\ hand' = [op |-> "assets", on |-> {t}, at |-> "save", seen |-> row]
    /\ UNCHANGED <<offered, deviceVars, pumpVars, late, checking, connected, relaunches>>

AssetsSave ==
    /\ hand.at = "save" /\ hand' = HandsOff /\ UNCHANGED <<job, connected>>
    /\ \/ row' = [t \in Track |-> IF t \in hand.on THEN hand.seen[t] ELSE row[t]] /\ Refreshed
       \/ UNCHANGED <<row, proc, pumping>>             \* no longer offered, or an error
    /\ UNCHANGED <<offered, disk, cancelled, paused, late, checking, relaunches>>

Handling(t) == DownloadMedia(t) \/ CancelDownload(t) \/ RemoveDownload(t) \/ Assets(t)
HandGoesOn == HandPatch \/ HandFiles \/ HandRows \/ AssetsSave

-----------------------------------------------------------------------------
(* The server and the world *)

Replace(t) ==
    /\ offered[t] \in 1..(MaxVersion - 1) /\ offered' = [offered EXCEPT ![t] = @ + 1]
    /\ UNCHANGED <<deviceVars, pumpVars, late, hand, checking, connected, relaunches>>

Withdraw(t) ==
    /\ offered[t] # 0 /\ offered' = [offered EXCEPT ![t] = 0]
    /\ UNCHANGED <<deviceVars, pumpVars, late, hand, checking, connected, relaunches>>

\* validateDownloads: the rows are listed and judged, ...
Validate ==
    /\ connected /\ checking = Unasked /\ \E t \in Track : row[t].version # 0
    /\ checking' = [t \in Track |->
          [version |-> row[t].version,
           status |-> CASE row[t].version = 0 \/ row[t].version = offered[t] -> "ready"
                        [] offered[t] = 0 -> "locked"
                        [] OTHER -> "stale"]]
    /\ UNCHANGED <<offered, deviceVars, pumpVars, late, hand, connected, relaunches>>

\* ... and the answer is written to the row of the same medium.
Validated ==
    /\ checking # Unasked /\ checking' = Unasked /\ UNCHANGED <<job, connected>>
    /\ row' = [t \in Track |-> IF checking[t].version # 0 /\ row[t].version # 0
                                 THEN [row[t] EXCEPT !.status = checking[t].status] ELSE row[t]]
    /\ Refreshed
    /\ UNCHANGED <<offered, disk, cancelled, paused, late, hand, relaunches>>

\* Active downloads are paused.
NetworkGoes ==
    /\ connected /\ connected' = FALSE /\ paused' = paused \union {t \in Track : Active(t)}
    /\ UNCHANGED <<offered, deviceVars, proc, pumping, cancelled, late, hand, checking, relaunches>>

NetworkComes ==
    /\ ~connected /\ connected' = TRUE
    /\ UNCHANGED <<offered, deviceVars, pumpVars, late, hand, checking, relaunches>>

\* The app ends and is started again, before or after it knows the network.
Relaunch ==
    /\ relaunches < MaxLaunches /\ relaunches' = relaunches + 1
    /\ job' = [t \in Track |-> IF job[t].state = "downloading" THEN [job[t] EXCEPT !.state = "paused"] ELSE job[t]]
    /\ UNCHANGED <<offered, row, disk>> /\ connected' \in BOOLEAN
    /\ IF \E t \in Track : Queued(job'[t]) THEN Shown(job', row', FALSE)
       ELSE proc' = [t \in Track |-> Resting] /\ pumping' = FALSE
    /\ cancelled' = {} /\ paused' = {} /\ late' = Unread /\ hand' = HandsOff /\ checking' = Unasked

\* A removal or a refetch meets a download of the same track or is cut off, a
\* download is cut off while it changes files, or begins with a late refresh
\* that knows another row; an answer meets another file.
Crossing(t) ==
    \/ hand'.op \in {"remove", "remove all", "assets"} /\ t \in hand'.on /\ proc'[t] # Resting
    \/ relaunches' # relaunches /\ ((hand.at = "rows" /\ t \in hand.on) \/ proc[t].at \in {"move", "save", "drop"})
    \/ proc'[t] # Resting /\ proc[t] = Resting /\ proc'[t].existing # row[t].version
    \/ checking' # checking /\ checking[t].version \notin {0, row[t].version}

DownloadsStep ==
    \/ \E t \in Track : Process(t) \/ Handling(t) \/ Replace(t) \/ Withdraw(t)
    \/ ReadSlowly \/ ShowLate \/ BatchEnds \/ HandGoesOn \/ RemoveAll
    \/ Validate \/ Validated \/ NetworkGoes \/ NetworkComes \/ Relaunch

DownloadsNext == DownloadsStep /\ crossed' = crossed \union {t \in Track : Crossing(t)}

-----------------------------------------------------------------------------
(* Properties *)

\* A download that the phone lists has its file, but for the moment in which the
\* same version replaces it, or a removal is between file and row.
ListedIsStored ==
    \A t \in Track \ crossed :
        row[t].version # 0 => \/ row[t].version \in disk[t]
                              \/ proc[t].at = "move" /\ proc[t].version = row[t].version
                              \/ hand.at = "rows" /\ t \in hand.on

\* Once nothing is at work, no file is left that no row names.
NothingLeftBehind ==
    \A t \in Track \ crossed :
        proc[t] = Resting /\ t \notin hand.on => disk[t] \subseteq {row[t].version}

\* What is called stale is not what the server offers.
StaleIsOld ==
    \A t \in Track \ crossed : row[t].status = "stale" => row[t].version # offered[t]

\* A queued job has a batch whose end looks for it, also when it was queued while
\* that batch was running and whatever a late refresh has shown.
QueuedIsSeen == \A t \in Track : Queued(job[t]) => pumping

\* offline-context.jsx, processJob, its effect, removeDownload, validateDownloads:
\* rows, files and server agree as far as the phone can know, and no job is forgotten.
DownloadsInv == DownloadsTypeOK /\ ListedIsStored /\ NothingLeftBehind /\ StaleIsOld /\ QueuedIsSeen

DownloadsSpec == DownloadsInit /\ [][DownloadsNext]_downloadVars

=============================================================================

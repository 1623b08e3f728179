------------------------------ MODULE MediaFiles ------------------------------
(***************************************************************************)
(* One medium: its row in PostgreSQL, the source file and the covers that  *)
(* the row refers to, and everybody who changes them: the upload that      *)
(* makes the medium, the replacements that the upload worker runs one      *)
(* after the other, the finalization worker, which turns an MKV source     *)
(* into MP4 and draws a cover, DELETE /media/:id, and the sweep for        *)
(* orphaned files.                                                         *)
(*                                                                         *)
(* The two workers are loops of one process and run side by side; a job    *)
(* that was not acknowledged is delivered again, behind newer ones.  An    *)
(* action is one SQL statement, Redis command or file operation with the   *)
(* code up to the next await.                                              *)
(*                                                                         *)
(* Abstractions: the medium is a film; a file is written in one step, and  *)
(* holds the content of one upload, converted or not; duration, artists,   *)
(* lyrics and subtitles, temporary files and the renditions (see           *)
(* EncodingPipeline) are left out; a file that the sweep looks at may be   *)
(* older than the grace period.                                            *)
(***************************************************************************)
EXTENDS Naturals, Sequences, FiniteSets, SequencesExt

CONSTANTS
    MaxAttempts,   \* MAX_FINALIZATION_ATTEMPTS
    Budgets,       \* how often the outside world acts, by kind: one of these (a bound)
    Null

Jobs == {"file", "both", "art", "lyrics"}
Kinds == Jobs \union {"delete", "look", "crash", "fault"}

ASSUME AttemptAssumption == MaxAttempts \in Nat \ {0}
ASSUME BudgetAssumption == Budgets \subseteq [Kinds -> Nat]

VARIABLES
    row,       \* media_assets
    file,      \* <category>/<id>.<ext>: the upload whose content it holds, 0 when none
    covers,    \* the covers in <category>/<id>/, each with a name of its own
    store,     \* persistMediaUpload
    replace,   \* replaceMediaFiles, in the upload worker
    lost,      \* replacements whose worker stopped, to be delivered again
    queue,     \* media:finalization, the entries not yet delivered
    retry,     \* those delivered and not acknowledged
    final,     \* processMediaFinalizationJob
    delete,    \* DELETE /media/:id
    sweep,     \* cleanupOrphanMediaFiles
    content,   \* history: the number of the latest upload
    met,       \* history: the replacements that ran while a finalization did
    failed,    \* history: what the latest replacement of the file has not brought
    budget     \* how often the outside world may still act

vars == <<row, file, covers, store, replace, lost, queue, retry, final, delete, sweep,
          content, met, failed, budget>>

disk == <<file, covers>>
stream == <<queue, retry>>
history == <<content, met, failed, budget>>

-----------------------------------------------------------------------------
(* Types *)

Ext == {"mkv", "mp4"}
Path == Ext \union {"none"}

\* content and done are history: the upload that the path stands for, and
\* whether the finalization of this version has ended.
Row == [path : Path, version : Nat, art : Nat, content : Nat, done : BOOLEAN]

\* A request brings a file, a thumbnail, both, or neither: lyrics alone.
Replacement == [kind : Jobs, ext : Path, content : Nat]
BringsFile(job) == job.kind \in {"file", "both"}
BringsArt(job) == job.kind \in {"art", "both"}

Store == [at : {"insert", "copy", "update", "hand", "done", "cut"}, ext : Ext, art : Nat]

Replacing ==
    [job : Replacement,
     at : {"copy", "unlink", "dir", "draw", "update", "hand", "unlinkArt"},
     old : Row,          \* the row as it was read
     art : Nat,
     version : Nat]

Entry == [version : Nat, tries : Nat]

Finalizing ==
    [entry : Entry,
     at : {"load", "convert", "rename", "switch", "undo", "unlink", "draw", "finish",
           "throw", "ack"},
     path : Path, art : Nat,       \* of the row as it was read
     temp : Nat,
     stale : BOOLEAN]

ASSUME NullAssumption == Null \notin Row \union Replacing \union Finalizing

TypeOK ==
    /\ row \in Row \union {Null}
    /\ file \in [Ext -> Nat]
    /\ covers \subseteq Nat
    /\ store \in Store
    /\ replace \in Replacing \union {Null}
    /\ lost \subseteq Replacement
    /\ queue \in Seq(Nat)
    /\ retry \subseteq Entry
    /\ final \in Finalizing \union {Null}
    /\ delete \in [at : {"row", "file", "dir"}, path : Path] \union {Null}
    /\ sweep \in [at : {"ask", "rm"}, found : SUBSET (Ext \union {"dir"})] \union {Null}
    /\ content \in Nat
    /\ met \subseteq Jobs
    /\ failed \subseteq {"files", "job"}
    /\ budget \in [Kinds -> Nat]

Init ==
    /\ row = Null
    /\ file = [e \in Ext |-> 0]
    /\ covers = {}
    /\ \E e \in Ext : store = [at |-> "insert", ext |-> e, art |-> 0]
    /\ replace = Null /\ lost = {}
    /\ queue = <<>> /\ retry = {}
    /\ final = Null /\ delete = Null /\ sweep = Null
    /\ content = 1
    /\ met = {} /\ failed = {}
    /\ budget \in Budgets

Spend(kind) == budget[kind] > 0 /\ budget' = [budget EXCEPT ![kind] = @ - 1]

\* A cover's name is new: a number that is not used any more, on the disk or by
\* anybody who remembers one.
Remembered ==
    {store.art} \union (IF row = Null THEN {} ELSE {row.art})
    \union (IF replace = Null THEN {} ELSE {replace.art, replace.old.art})
    \union (IF final = Null THEN {} ELSE {final.art})
Used == covers \union Remembered
NewCover == CHOOSE n \in 1..Cardinality(Used) + 1 : n \notin Used
Draw == covers' = covers \union {NewCover}

-----------------------------------------------------------------------------
(* persistMediaUpload *)

Insert ==
    /\ store.at = "insert"
    /\ row' = [path |-> "none", version |-> 1, art |-> 0, content |-> 0, done |-> FALSE]
    /\ store' = [store EXCEPT !.at = "copy"]
    /\ UNCHANGED <<disk, replace, lost, stream, final, delete, sweep, history>>

\* The file, and a cover when a thumbnail came with it.
StoreFile ==
    /\ store.at = "copy"
    /\ file' = [file EXCEPT ![store.ext] = 1]
    /\ \/ Draw /\ store' = [store EXCEPT !.at = "update", !.art = NewCover]
       \/ store' = [store EXCEPT !.at = "update"] /\ UNCHANGED covers
    /\ UNCHANGED <<row, replace, lost, stream, final, delete, sweep, history>>

\* Without the row the handler fails when it reads the version.
StoreRow ==
    /\ store.at = "update"
    /\ IF row = Null
         THEN store' = [store EXCEPT !.at = "done"] /\ UNCHANGED row
         ELSE /\ row' = [row EXCEPT !.path = store.ext, !.art = store.art, !.content = 1]
              /\ store' = [store EXCEPT !.at = "hand"]
    /\ UNCHANGED <<disk, replace, lost, stream, final, delete, sweep, history>>

StoreHand ==
    /\ store.at = "hand"
    /\ queue' = Append(queue, 1)
    /\ store' = [store EXCEPT !.at = "done"]
    /\ UNCHANGED <<row, disk, replace, lost, retry, final, delete, sweep, history>>

\* The copy, the UPDATE, the lyrics or the XADD fails; the row stays.
StoreFail ==
    /\ store.at \in {"copy", "update", "hand"}
    /\ Spend("fault")
    /\ store' = [store EXCEPT !.at = "cut"]
    /\ UNCHANGED <<row, disk, replace, lost, stream, final, delete, sweep, content, met, failed>>

-----------------------------------------------------------------------------
(* replaceMediaFiles *)

\* A new replacement, or one that is delivered again; without a row it fails
\* and changes nothing, so it does not begin.
Take(job) ==
    /\ replace = Null /\ store.at \in {"done", "cut"} /\ row # Null
    /\ replace' = [job |-> job,
                   at |-> IF BringsFile(job) THEN "copy"
                          ELSE IF BringsArt(job) THEN "draw" ELSE "update",
                   old |-> row, art |-> row.art, version |-> 0]
    /\ met' = IF final = Null THEN met ELSE met \union {job.kind}
    /\ UNCHANGED <<row, disk, store, stream, final, delete, sweep, failed>>

ReplaceFile(kind, ext) ==
    /\ Spend(kind)
    /\ content' = content + 1
    /\ Take([kind |-> kind, ext |-> ext, content |-> content + 1])
    /\ UNCHANGED lost

ReplaceOther(kind) ==
    /\ Spend(kind)
    /\ Take([kind |-> kind, ext |-> "none", content |-> 0])
    /\ UNCHANGED <<lost, content>>

ReplaceAgain ==
    \E job \in lost :
        /\ lost' = lost \ {job}
        /\ Take(job)
        /\ UNCHANGED <<content, budget>>

Replaces(step) == replace # Null /\ replace.at = step
ReplaceGo(step) == replace' = [replace EXCEPT !.at = step]

ReplaceCopy ==
    /\ Replaces("copy")
    /\ file' = [file EXCEPT ![replace.job.ext] = replace.job.content]
    /\ ReplaceGo("unlink")
    /\ UNCHANGED <<row, covers, store, lost, stream, final, delete, sweep, history>>

\* A mutant of ReplaceUnlink that removes the previous file in any case.
ReplaceUnlinkAny ==
    /\ Replaces("unlink")
    /\ file' = [e \in Ext |-> IF e = replace.old.path THEN 0 ELSE file[e]]
    /\ ReplaceGo("dir")
    /\ UNCHANGED <<row, covers, store, lost, stream, final, delete, sweep, history>>

ReplaceUnlink ==
    /\ Replaces("unlink")
    /\ file' = [e \in Ext |-> IF e = replace.old.path /\ e # replace.job.ext THEN 0 ELSE file[e]]
    /\ ReplaceGo("dir")
    /\ UNCHANGED <<row, covers, store, lost, stream, final, delete, sweep, history>>

ReplaceDir ==
    /\ Replaces("dir")
    /\ covers' = {}
    /\ replace' = [replace EXCEPT !.at = IF BringsArt(replace.job) THEN "draw" ELSE "update",
                                  !.art = 0]
    /\ UNCHANGED <<row, file, store, lost, stream, final, delete, sweep, history>>

ReplaceDraw ==
    /\ Replaces("draw")
    /\ Draw
    /\ replace' = [replace EXCEPT !.at = "update", !.art = NewCover]
    /\ UNCHANGED <<row, file, store, lost, stream, final, delete, sweep, history>>

NewRow ==
    IF BringsFile(replace.job)
      THEN [path |-> replace.job.ext, version |-> row.version + 1, art |-> replace.art,
            content |-> replace.job.content, done |-> FALSE]
      ELSE [row EXCEPT !.path = replace.old.path, !.art = replace.art]

\* Without a file the path is the one that was read before.  Without a row a
\* file's replacement fails when it reads the version.
ReplaceRow ==
    /\ Replaces("update")
    /\ row' = IF row = Null THEN Null ELSE NewRow
    /\ failed' = IF BringsFile(replace.job) THEN {} ELSE failed
    /\ CASE replace.job.kind = "art" -> ReplaceGo("unlinkArt")
         [] BringsFile(replace.job) /\ row # Null ->
              replace' = [replace EXCEPT !.at = "hand", !.version = NewRow.version]
         [] OTHER -> replace' = Null
    /\ UNCHANGED <<disk, store, lost, stream, final, delete, sweep, content, met, budget>>

ReplaceHand ==
    /\ Replaces("hand")
    /\ queue' = Append(queue, replace.version)
    /\ IF BringsArt(replace.job) THEN ReplaceGo("unlinkArt") ELSE replace' = Null
    /\ UNCHANGED <<row, disk, store, lost, retry, final, delete, sweep, history>>

ReplaceUnlinkArt ==
    /\ Replaces("unlinkArt")
    /\ covers' = covers \ {replace.old.art}
    /\ replace' = Null
    /\ UNCHANGED <<row, file, store, lost, stream, final, delete, sweep, history>>

\* The copy throws, before or after it has written into the file; or there is no
\* usable image, though the previous file and the directory may be gone by then;
\* or the UPDATE throws, or the lyrics before it; or the DELETE of the variants or
\* the XADD.  The worker acknowledges the job, so it is not delivered again, and
\* nothing of what it has done is undone.
ReplaceFail ==
    /\ replace # Null /\ replace.at \in {"copy", "unlink", "draw", "update", "hand"}
    /\ Spend("fault")
    /\ replace' = Null
    /\ failed' = IF ~BringsFile(replace.job) THEN failed
                 ELSE failed \union (IF replace.at = "hand" THEN {"job"} ELSE {"files"})
    /\ UNCHANGED <<row, disk, store, lost, stream, final, delete, sweep, content, met>>

-----------------------------------------------------------------------------
(* processMediaFinalizationJob and its loop *)

NewFinal(entry) ==
    [entry |-> entry, at |-> "load", path |-> "none", art |-> 0, temp |-> 0, stale |-> FALSE]

FinalRead ==
    /\ final = Null /\ queue # <<>>
    /\ final' = NewFinal([version |-> Head(queue), tries |-> 1])
    /\ queue' = Tail(queue)
    /\ UNCHANGED <<row, disk, store, replace, lost, retry, delete, sweep, history>>

FinalClaim ==
    /\ final = Null
    /\ \E entry \in retry :
          /\ final' = NewFinal([entry EXCEPT !.tries = @ + 1])
          /\ retry' = retry \ {entry}
    /\ UNCHANGED <<row, disk, store, replace, lost, queue, delete, sweep, history>>

Finals(step) == final # Null /\ final.at = step
FinalGo(step) == final' = [final EXCEPT !.at = step]
Fresh == row # Null /\ row.version = final.entry.version

FinalLoad ==
    /\ Finals("load")
    /\ IF Fresh
         THEN /\ final' = [final EXCEPT !.path = row.path, !.art = row.art,
                              !.at = IF row.path = "mkv" THEN "convert" ELSE "draw"]
              /\ met' = IF replace = Null THEN met ELSE met \union {replace.job.kind}
         ELSE FinalGo("ack") /\ UNCHANGED met
    /\ UNCHANGED <<row, disk, store, replace, lost, stream, delete, sweep, content, failed, budget>>

\* ffmpeg may fail; then the source stays as it is.
FinalConvert ==
    /\ Finals("convert")
    /\ \/ file["mkv"] # 0 /\ final' = [final EXCEPT !.at = "rename", !.temp = file["mkv"]]
       \/ FinalGo("draw")
    /\ UNCHANGED <<row, disk, store, replace, lost, stream, delete, sweep, history>>

FinalRename ==
    /\ Finals("rename")
    /\ file' = [file EXCEPT !["mp4"] = final.temp]
    /\ FinalGo("switch")
    /\ UNCHANGED <<row, covers, store, replace, lost, stream, delete, sweep, history>>

\* The UPDATE finds no row of the version, or fails, or sets the path.
FinalSwitch ==
    /\ Finals("switch")
    /\ \/ Fresh /\ row' = [row EXCEPT !.path = "mp4"] /\ FinalGo("unlink")
       \/ ~Fresh /\ final' = [final EXCEPT !.at = "undo", !.stale = TRUE] /\ UNCHANGED row
       \/ FinalGo("undo") /\ UNCHANGED row
    /\ UNCHANGED <<disk, store, replace, lost, stream, delete, sweep, history>>

FinalUndo ==
    /\ Finals("undo")
    /\ file' = [file EXCEPT !["mp4"] = 0]
    /\ FinalGo(IF final.stale THEN "ack" ELSE "draw")
    /\ UNCHANGED <<row, covers, store, replace, lost, stream, delete, sweep, history>>

FinalUnlink ==
    /\ Finals("unlink")
    /\ file' = [file EXCEPT !["mkv"] = 0]
    /\ final' = [final EXCEPT !.at = "draw", !.path = "mp4"]
    /\ UNCHANGED <<row, covers, store, replace, lost, stream, delete, sweep, history>>

\* A cover is drawn from the source unless the row had one, or ffmpeg fails.
FinalDraw ==
    /\ Finals("draw")
    /\ \/ /\ final.art = 0 /\ final.path # "none"
          /\ file[final.path] # 0
          /\ Draw
          /\ final' = [final EXCEPT !.at = "finish", !.art = NewCover]
       \/ FinalGo("finish") /\ UNCHANGED covers
    /\ UNCHANGED <<row, file, store, replace, lost, stream, delete, sweep, history>>

FinalFinish ==
    /\ Finals("finish")
    /\ \/ /\ row' = IF Fresh THEN [row EXCEPT !.art = final.art, !.done = TRUE] ELSE row
          /\ FinalGo("ack")
       \/ FinalGo("throw") /\ UNCHANGED row
    /\ UNCHANGED <<disk, store, replace, lost, stream, delete, sweep, history>>

\* A job that failed is left for another delivery, and given up at the last.
FinalThrow ==
    /\ Finals("throw")
    /\ IF final.entry.tries < MaxAttempts
         THEN retry' = retry \union {final.entry} /\ final' = Null /\ UNCHANGED row
         ELSE /\ row' = IF Fresh THEN [row EXCEPT !.done = TRUE] ELSE row
              /\ FinalGo("ack")
              /\ UNCHANGED retry
    /\ UNCHANGED <<disk, store, replace, lost, queue, delete, sweep, history>>

FinalAck ==
    /\ Finals("ack")
    /\ final' = Null
    /\ UNCHANGED <<row, disk, store, replace, lost, stream, delete, sweep, history>>

-----------------------------------------------------------------------------
(* DELETE /media/:id *)

DeleteBegin ==
    /\ delete = Null /\ row # Null
    /\ Spend("delete")
    /\ delete' = [at |-> "row", path |-> row.path]
    /\ UNCHANGED <<row, disk, store, replace, lost, stream, final, sweep, content, met, failed>>

DeleteRow ==
    /\ delete # Null /\ delete.at = "row"
    /\ row' = Null
    /\ delete' = [delete EXCEPT !.at = "file"]
    /\ UNCHANGED <<disk, store, replace, lost, stream, final, sweep, history>>

DeleteFile ==
    /\ delete # Null /\ delete.at = "file"
    /\ file' = [e \in Ext |-> IF e = delete.path THEN 0 ELSE file[e]]
    /\ delete' = [delete EXCEPT !.at = "dir"]
    /\ UNCHANGED <<row, covers, store, replace, lost, stream, final, sweep, history>>

DeleteDir ==
    /\ delete # Null /\ delete.at = "dir"
    /\ covers' = {}
    /\ delete' = Null
    /\ UNCHANGED <<row, file, store, replace, lost, stream, final, sweep, history>>

-----------------------------------------------------------------------------
(* cleanupOrphanMediaFiles *)

OnDisk == {e \in Ext : file[e] # 0} \union (IF covers = {} THEN {} ELSE {"dir"})

\* A sweep that finds the medium in use is counted against a bound.
SweepList ==
    /\ sweep = Null /\ OnDisk # {}
    /\ IF row = Null THEN UNCHANGED budget ELSE Spend("look")
    /\ sweep' = [at |-> "ask", found |-> OnDisk]
    /\ UNCHANGED <<row, disk, store, replace, lost, stream, final, delete, content, met, failed>>

\* A mutant of SweepAsk that does not wait for the answer.
SweepAskNothing ==
    /\ sweep # Null /\ sweep.at = "ask"
    /\ sweep' = [sweep EXCEPT !.at = "rm"]
    /\ UNCHANGED <<row, disk, store, replace, lost, stream, final, delete, history>>

SweepAsk ==
    /\ sweep # Null /\ sweep.at = "ask"
    /\ sweep' = IF row = Null THEN [sweep EXCEPT !.at = "rm"] ELSE Null
    /\ UNCHANGED <<row, disk, store, replace, lost, stream, final, delete, history>>

\* A mutant of SweepRemove that leaves the directory.
SweepRemoveFiles ==
    /\ sweep # Null /\ sweep.at = "rm"
    /\ file' = [e \in Ext |-> IF e \in sweep.found THEN 0 ELSE file[e]]
    /\ sweep' = Null
    /\ UNCHANGED <<row, covers, store, replace, lost, stream, final, delete, history>>

SweepRemove ==
    /\ sweep # Null /\ sweep.at = "rm"
    /\ file' = [e \in Ext |-> IF e \in sweep.found THEN 0 ELSE file[e]]
    /\ covers' = IF "dir" \in sweep.found THEN {} ELSE covers
    /\ sweep' = Null
    /\ UNCHANGED <<row, store, replace, lost, stream, final, delete, history>>

-----------------------------------------------------------------------------
(* Crashes *)

WorkerCrash ==
    /\ replace # Null \/ final # Null
    /\ Spend("crash")
    /\ lost' = lost \union (IF replace = Null THEN {} ELSE {replace.job})
    /\ retry' = retry \union (IF final = Null THEN {} ELSE {final.entry})
    /\ replace' = Null /\ final' = Null /\ sweep' = Null
    /\ UNCHANGED <<row, disk, store, queue, delete, content, met, failed>>

ServerCrash ==
    /\ store.at \in {"copy", "update", "hand"} \/ delete # Null
    /\ Spend("crash")
    /\ store' = IF store.at \in {"insert", "done"} THEN store ELSE [store EXCEPT !.at = "cut"]
    /\ delete' = Null
    /\ UNCHANGED <<row, disk, replace, lost, stream, final, sweep, content, met, failed>>

-----------------------------------------------------------------------------

Storing == StoreFile \/ StoreRow \/ StoreHand
Replace ==
    \/ ReplaceAgain
    \/ ReplaceCopy \/ ReplaceUnlink \/ ReplaceDir \/ ReplaceDraw \/ ReplaceRow
    \/ ReplaceHand \/ ReplaceUnlinkArt
Finalize ==
    \/ FinalRead \/ FinalClaim \/ FinalLoad
    \/ FinalConvert \/ FinalRename \/ FinalSwitch \/ FinalUndo \/ FinalUnlink
    \/ FinalDraw \/ FinalFinish \/ FinalThrow \/ FinalAck
Delete == DeleteRow \/ DeleteFile \/ DeleteDir
Sweep == SweepList \/ SweepAsk \/ SweepRemove

Next ==
    \/ Insert \/ Storing
    \/ \E kind \in {"file", "both"}, ext \in Ext : ReplaceFile(kind, ext)
    \/ \E kind \in {"art", "lyrics"} : ReplaceOther(kind)
    \/ Replace \/ Finalize \/ DeleteBegin \/ Delete \/ Sweep
    \/ StoreFail \/ ReplaceFail \/ WorkerCrash \/ ServerCrash

\* A stopped process is started again; whatever began goes on; the sweep
\* runs every hour.
Fairness ==
    WF_vars(Storing) /\ WF_vars(Replace) /\ WF_vars(Finalize) /\ WF_vars(Delete)
    /\ WF_vars(Sweep)

Spec == Init /\ [][Next]_vars
FairSpec == Spec /\ Fairness

-----------------------------------------------------------------------------
(* Properties *)

\* No replacement is under way or waits for another delivery.
Settled == row # Null /\ replace = Null /\ lost = {}

\* The file that the row names is there and holds what was uploaded for it,
\* wherever the finalization of it is or was cut short, as long as no
\* replacement ran beside a finalization and the latest replacement of the file
\* did not fail on its way to the row.
SourceIsThere ==
    Settled /\ row.path # "none" /\ met = {} /\ "files" \notin failed =>
        file[row.path] = row.content

\* The same whoever ran beside whom (README.md: "originals remain untouched
\* and are always the final fallback").
OriginalsRemain ==
    Settled /\ row.path # "none" => file[row.path] = row.content

\* The cover that the row names is there, though a finalization of the
\* version before may still be drawing one; a replacement of the thumbnail
\* alone must not have met a finalization, nor the latest replacement of the
\* file have failed.
CoverIsThere ==
    Settled /\ "art" \notin met /\ "files" \notin failed => row.art \in covers \union {0}

\* The sweep removes nothing of a medium that has a row, whatever happened
\* between its listing, its question and its removal.
SweepSparesMedia == [][SweepRemove => row = Null]_vars

\* When a medium has been deleted nothing of it stays on the disk, whatever
\* was still writing then.
OrphansGo == (row = Null /\ store.at # "insert") ~> [](OnDisk = {})

\* A version whose finalization has not ended has a job on the stream or in
\* the worker, whoever stopped and however often it failed; only an upload that
\* ends before it has put the job, or a replacement of the file that failed and
\* that no other has followed, leaves the medium without.
UnfinishedHasJob ==
    Settled /\ store.at = "done" /\ failed = {} /\ ~row.done =>
        \/ Contains(queue, row.version)
        \/ \E entry \in retry : entry.version = row.version
        \/ final # Null /\ final.entry.version = row.version

\* What holds of the row, its files and its job in every settled state
\* (media-finalization-worker.js:74).
FilesInv == TypeOK /\ SourceIsThere /\ CoverIsThere /\ UnfinishedHasJob
=============================================================================

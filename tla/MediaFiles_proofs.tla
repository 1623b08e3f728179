-------------------------- MODULE MediaFiles_proofs -------------------------
(***************************************************************************)
(* Proofs about MediaFiles: its types, that the row of a medium points to  *)
(* files which are there unless a step which nobody guards took them, and  *)
(* that the sweep of orphans spares what the row points to.                *)
(*                                                                         *)
(* The invariant follows the row through its versions.  Every part that    *)
(* says "the row's file is there" has three excuses: a replacement whose   *)
(* UPDATE is still to come (Pending), one that has met a finalization      *)
(* (met), for the code lets the two run at once, or one that failed before *)
(* its UPDATE (failed).  What each worker remembers of the row is what the *)
(* row says, or one of the three explains the difference.  A row that is gone never comes back, so an actor that  *)
(* still works for it can only take files away.                            *)
(***************************************************************************)
EXTENDS MediaFiles, SequenceTheorems, FiniteSetTheorems, TLAPS

USE DEF Jobs, BringsFile, BringsArt

\* A file's replacement that has not reached its UPDATE, or whose worker stopped
\* and that will run again: it gives the row another path and no cover.
Pending ==
    \/ \E job \in lost : BringsFile(job)
    \/ replace # Null /\ BringsFile(replace.job) /\ replace.at \notin {"hand", "unlinkArt"}

\* The finalization has found its version and has not ended.
Active == final # Null /\ final.at \notin {"load", "ack"}

HasJob(version) ==
    \/ version \in ToSet(queue)
    \/ \E entry \in retry : entry.version = version
    \/ final # Null /\ final.entry.version = version

\* The upload comes first, alone but for DELETE and the sweep, and a row that is
\* gone never comes back.
FirstOk ==
    store.at = "insert" =>
        /\ row = Null /\ delete = Null /\ sweep = Null
        /\ covers = {} /\ \A e \in Ext : file[e] = 0
StoreAlone ==
    store.at \in {"insert", "copy", "update", "hand"} =>
        /\ replace = Null /\ lost = {} /\ final = Null /\ queue = <<>> /\ retry = {}
        /\ met = {} /\ failed = {}
StoreOk ==
    /\ store.at \in {"insert", "copy"} => store.art = 0
    /\ row # Null =>
         /\ store.at \in {"copy", "update", "hand"} => row.version = 1
         /\ store.at \in {"copy", "update"} => row.path = "none" /\ row.art = 0
         /\ store.at = "update" => file[store.ext] = 1 /\ store.art \in covers \union {0}

\* Whoever removes files of a medium without asking again knows that it has no row.
GoneOk ==
    /\ sweep # Null /\ sweep.at = "rm" => row = Null
    /\ delete # Null /\ delete.at # "row" => row = Null

\* The steps that a replacement takes.
JobsOk ==
    /\ \A job \in lost : BringsFile(job) => job.ext \in Ext
    /\ replace # Null =>
         /\ BringsFile(replace.job) => replace.job.ext \in Ext
         /\ replace.job.kind = "file" => replace.at \in {"copy", "unlink", "dir", "update", "hand"}
         /\ replace.job.kind = "art" => replace.at \in {"draw", "update", "unlinkArt"}
         /\ replace.job.kind = "lyrics" => replace.at = "update"

\* What the replacement under way has done, and that nobody undid it as long as
\* it has not met a finalization.
MetOk == replace # Null /\ replace.job.kind \notin met => ~Active
CopiedOk ==
    replace # Null /\ row # Null =>
      /\ replace.at = "hand" => replace.version = row.version
      /\ BringsFile(replace.job) /\ replace.at \in {"unlink", "dir", "draw", "update"} /\ met = {} =>
           file[replace.job.ext] = replace.job.content
DrawnOk ==
    replace # Null /\ row # Null =>
      /\ ~BringsFile(replace.job) /\ replace.at \in {"draw", "update"} /\ met = {} =>
           row.path = replace.old.path
      /\ BringsArt(replace.job) /\ replace.at \in {"update", "hand", "unlinkArt"} =>
           replace.art \in covers \ {replace.old.art}
      /\ replace.job.kind = "both" /\ replace.at \in {"draw", "update", "hand", "unlinkArt"} =>
           replace.old.art \notin covers
      /\ replace.job.kind = "art" /\ replace.at = "unlinkArt" /\ "art" \notin met =>
           row.art = replace.art
      /\ replace.job.kind = "file" /\ replace.at = "update" => replace.art = 0
      /\ replace.job.kind = "lyrics" /\ "art" \notin met /\ "files" \notin failed =>
           replace.art \in covers \union {0} \/ Pending

\* No job is of a version that the medium has not had.
VersionsOk ==
    row # Null =>
      /\ \A v \in ToSet(queue) : v <= row.version
      /\ \A entry \in retry : entry.version <= row.version
      /\ final # Null => final.entry.version <= row.version

\* What the finalization knows of the row and has on the disk.
EndOk ==
    final # Null =>
      /\ final.stale => final.at \in {"undo", "ack"}
      /\ row # Null /\ row.version = final.entry.version =>
           ~final.stale /\ (final.at = "ack" => row.done)
ConvertOk ==
    Active /\ row # Null /\ met = {} =>
      /\ row.version = final.entry.version
      /\ final.at \in {"convert", "rename", "switch", "undo"} => row.path = "mkv"
      /\ final.at \in {"rename", "switch"} => final.temp = file["mkv"]
      /\ final.at = "switch" => file["mp4"] = final.temp
      /\ final.at = "unlink" => row.path = "mp4"
ShownOk ==
    Active /\ row # Null /\ row.version = final.entry.version /\ "art" \notin met /\ "files" \notin failed =>
      final.art \in covers \union {0} \/ Pending

\* The row's files and job are there, or a replacement is about to change the row.
SourceOk ==
    row # Null /\ met = {} /\ "files" \notin failed /\ row.path # "none" =>
      file[row.path] = row.content \/ Pending
CoverOk ==
    row # Null /\ "art" \notin met /\ "files" \notin failed =>
      row.art \in covers \union {0} \/ Pending
JobOk ==
    row # Null /\ store.at = "done" /\ failed = {} /\ ~row.done =>
      HasJob(row.version) \/ Pending \/ (replace # Null /\ replace.at = "hand")

FilesIInv ==
    /\ TypeOK /\ IsFiniteSet(covers)
    /\ FirstOk /\ StoreAlone /\ StoreOk /\ GoneOk
    /\ JobsOk /\ MetOk /\ CopiedOk /\ DrawnOk
    /\ VersionsOk /\ EndOk /\ ConvertOk /\ ShownOk
    /\ SourceOk /\ CoverOk /\ JobOk

-----------------------------------------------------------------------------
(* What the steps leave in the fields of the records *)

RowIs(path, version, art, upload, done) ==
    /\ row' # Null /\ row' \in Row
    /\ row'.path = path /\ row'.version = version /\ row'.art = art
    /\ row'.content = upload /\ (row'.done <=> done)

StoreIs(at, art) ==
    store' \in Store /\ store'.at = at /\ store'.ext = store.ext /\ store'.art = art

ReplaceIs(job, at, old, art, version) ==
    /\ replace' # Null /\ replace' \in Replacing
    /\ replace'.job = job /\ replace'.at = at /\ replace'.old = old
    /\ replace'.art = art /\ replace'.version = version

FinalIs(entry, at, path, art, temp, stale) ==
    /\ final' # Null /\ final' \in Finalizing
    /\ final'.entry = entry /\ final'.at = at /\ final'.path = path
    /\ final'.art = art /\ final'.temp = temp /\ (final'.stale <=> stale)

LEMMA FieldTypes ==
    ASSUME TypeOK
    PROVE  /\ row # Null => /\ row \in Row /\ row.path \in Path /\ row.version \in Nat
                            /\ row.art \in Nat /\ row.content \in Nat /\ row.done \in BOOLEAN
           /\ store \in Store /\ store.ext \in Ext /\ store.art \in Nat
           /\ store.at \in {"insert", "copy", "update", "hand", "done", "cut"}
           /\ replace # Null => /\ replace \in Replacing /\ replace.job \in Replacement
                                /\ replace.job.kind \in {"file", "both", "art", "lyrics"}
                                /\ replace.job.ext \in Path /\ replace.job.content \in Nat
                                /\ replace.at \in {"copy", "unlink", "dir", "draw", "update", "hand", "unlinkArt"}
                                /\ replace.old \in Row /\ replace.old.path \in Path
                                /\ replace.old.art \in Nat
                                /\ replace.art \in Nat /\ replace.version \in Nat
           /\ final # Null => /\ final \in Finalizing /\ final.entry \in Entry
                              /\ final.entry.version \in Nat /\ final.entry.tries \in Nat
                              /\ final.at \in {"load", "convert", "rename", "switch", "undo", "unlink",
                                               "draw", "finish", "throw", "ack"}
                              /\ final.path \in Path /\ final.art \in Nat /\ final.temp \in Nat
                              /\ final.stale \in BOOLEAN
  <1>1. /\ row # Null => row \in Row
        /\ store \in Store
        /\ replace # Null => replace \in Replacing
        /\ final # Null => final \in Finalizing
    BY DEF TypeOK
  <1>2. ASSUME NEW r \in Row
        PROVE  /\ r.path \in Path /\ r.version \in Nat
               /\ r.art \in Nat /\ r.content \in Nat /\ r.done \in BOOLEAN
    BY DEF Row
  <1>3. /\ store.ext \in Ext /\ store.art \in Nat
        /\ store.at \in {"insert", "copy", "update", "hand", "done", "cut"}
    BY <1>1 DEF Store
  <1>4. ASSUME NEW r \in Replacing
        PROVE  /\ r.job \in Replacement /\ r.old \in Row
               /\ r.at \in {"copy", "unlink", "dir", "draw", "update", "hand", "unlinkArt"}
               /\ r.art \in Nat /\ r.version \in Nat
    BY DEF Replacing
  <1>5. ASSUME NEW j \in Replacement
        PROVE  j.kind \in {"file", "both", "art", "lyrics"} /\ j.ext \in Path /\ j.content \in Nat
    BY DEF Replacement
  <1>6. ASSUME NEW f \in Finalizing
        PROVE  /\ f.entry \in Entry /\ f.path \in Path /\ f.art \in Nat /\ f.temp \in Nat
               /\ f.stale \in BOOLEAN
               /\ f.at \in {"load", "convert", "rename", "switch", "undo", "unlink",
                            "draw", "finish", "throw", "ack"}
    BY DEF Finalizing
  <1>7. ASSUME NEW e \in Entry PROVE e.version \in Nat /\ e.tries \in Nat
    BY DEF Entry
  <1> QED
    BY <1>1, <1>2, <1>3, <1>4, <1>5, <1>6, <1>7

LEMMA Types ==
    ASSUME TypeOK
    PROVE  /\ row \in Row \union {Null} /\ file \in [Ext -> Nat] /\ covers \subseteq Nat
           /\ store \in Store /\ replace \in Replacing \union {Null} /\ lost \subseteq Replacement
           /\ queue \in Seq(Nat) /\ retry \subseteq Entry /\ final \in Finalizing \union {Null}
           /\ met \subseteq Jobs /\ failed \subseteq {"files", "job"} /\ budget \in [Kinds -> Nat]
  BY DEF TypeOK

LEMMA TypesKeep ==
    ASSUME TypeOK,
           row' \in Row \union {Null}, file' \in [Ext -> Nat], covers' \subseteq Nat,
           store' \in Store, replace' \in Replacing \union {Null}, lost' \subseteq Replacement,
           queue' \in Seq(Nat), retry' \subseteq Entry, final' \in Finalizing \union {Null},
           met' \subseteq Jobs, failed' \subseteq {"files", "job"}, budget' \in [Kinds -> Nat],
           UNCHANGED <<delete, sweep, content>>
    PROVE  TypeOK'
  BY DEF TypeOK

LEMMA SpendKeeps ==
    ASSUME TypeOK, NEW kind \in Kinds, Spend(kind)
    PROVE  budget' \in [Kinds -> Nat]
  <1>1. budget \in [Kinds -> Nat] /\ budget[kind] - 1 \in Nat
    BY DEF TypeOK, Spend
  <1> QED
    BY <1>1 DEF Spend

\* A row that a statement writes.
LEMMA RowMade ==
    ASSUME NEW p \in Path, NEW v \in Nat, NEW a \in Nat, NEW u \in Nat, NEW d \in BOOLEAN,
           row' = [path |-> p, version |-> v, art |-> a, content |-> u, done |-> d]
    PROVE  RowIs(p, v, a, u, d)
  <1>1. row' \in Row
    BY DEF Row
  <1>2. row' # Null
    BY <1>1, NullAssumption
  <1>3. row'.path = p /\ row'.version = v /\ row'.art = a /\ row'.content = u /\ (row'.done <=> d)
    OBVIOUS
  <1> QED
    BY <1>1, <1>2, <1>3 DEF RowIs

\* The name of a new cover.
LEMMA NewCoverIsNew ==
    ASSUME IsFiniteSet(covers)
    PROVE  NewCover \in Nat \ {0} /\ NewCover \notin Used
  <1>1. IsFiniteSet(Used)
    <2>1. /\ IsFiniteSet({store.art})
          /\ IsFiniteSet(IF row = Null THEN {} ELSE {row.art})
          /\ IsFiniteSet(IF final = Null THEN {} ELSE {final.art})
      BY FS_Singleton, FS_EmptySet
    <2>2. IsFiniteSet({replace.art, replace.old.art})
      <3>1. IsFiniteSet({replace.art})
        BY FS_Singleton
      <3>2. IsFiniteSet({replace.art} \union {replace.old.art})
        BY <3>1, FS_AddElement
      <3>3. {replace.art, replace.old.art} = {replace.art} \union {replace.old.art}
        OBVIOUS
      <3> QED
        BY <3>2, <3>3
    <2>3. IsFiniteSet(IF replace = Null THEN {} ELSE {replace.art, replace.old.art})
      BY <2>2, FS_EmptySet
    <2> QED
      BY <2>1, <2>3, FS_Union DEF Used, Remembered
  <1> DEFINE c == Cardinality(Used)
  <1>2. c \in Nat
    BY <1>1, FS_CardinalityType
  <1>3. IsFiniteSet(1..c + 1) /\ Cardinality(1..c + 1) = c + 1
    BY <1>2, FS_Interval
  <1>4. ~(1..c + 1 \subseteq Used)
    BY <1>1, <1>2, <1>3, FS_Subset
  <1>5. \E n \in 1..c + 1 : n \notin Used
    BY <1>4
  <1>6. NewCover \in 1..c + 1 /\ NewCover \notin Used
    BY <1>5 DEF NewCover
  <1> QED
    BY <1>2, <1>6

LEMMA CoverDrawn ==
    ASSUME covers \subseteq Nat, IsFiniteSet(covers), Draw
    PROVE  /\ covers' \subseteq Nat /\ IsFiniteSet(covers') /\ covers' = covers \union {NewCover}
           /\ NewCover \in Nat /\ NewCover \in covers' /\ NewCover \notin Used
  <1>1. NewCover \in Nat /\ NewCover \notin Used
    BY NewCoverIsNew
  <1>2. IsFiniteSet(covers \union {NewCover})
    BY FS_AddElement
  <1> QED
    BY <1>1, <1>2 DEF Draw

\* The jobs of the stream.
LEMMA QueueSet ==
    /\ ToSet(<<>>) = {}
    /\ \A s \in Seq(Nat) : ToSet(s) \subseteq Nat
  <1>1. ToSet(<<>>) = {}
    BY DEF ToSet
  <1>2. ASSUME NEW s \in Seq(Nat) PROVE ToSet(s) \subseteq Nat
    BY ElementOfSeq, LenProperties DEF ToSet
  <1> QED
    BY <1>1, <1>2

LEMMA AppendSet ==
    ASSUME NEW s \in Seq(Nat), NEW x \in Nat
    PROVE  Append(s, x) \in Seq(Nat) /\ ToSet(Append(s, x)) = ToSet(s) \union {x}
  <1> DEFINE t == Append(s, x)
  <1>1. /\ t \in Seq(Nat) /\ Len(t) = Len(s) + 1 /\ Len(s) \in Nat
        /\ \A i \in 1..Len(s) : t[i] = s[i]
        /\ t[Len(s) + 1] = x
        /\ DOMAIN t = 1..Len(t) /\ DOMAIN s = 1..Len(s)
    BY AppendProperties, LenProperties
  <1> HIDE DEF t
  <1>2. ToSet(t) = ToSet(s) \union {x}
    BY <1>1 DEF ToSet
  <1> QED
    BY <1>1, <1>2 DEF t

LEMMA TailSet ==
    ASSUME NEW s \in Seq(Nat), s # <<>>
    PROVE  Head(s) \in Nat /\ Tail(s) \in Seq(Nat) /\ ToSet(s) = {Head(s)} \union ToSet(Tail(s))
  <1> DEFINE t == Tail(s)
             h == Head(s)
  <1>1. /\ h \in Nat /\ t \in Seq(Nat) /\ Len(t) = Len(s) - 1 /\ Len(s) \in Nat \ {0}
        /\ \A i \in 1..Len(t) : t[i] = s[i + 1]
        /\ DOMAIN t = 1..Len(t) /\ DOMAIN s = 1..Len(s)
    BY HeadTailProperties, LenProperties, EmptySeq
  <1>2. h = s[1]
    OBVIOUS
  <1>5. h \in ToSet(s)
    BY <1>1, <1>2 DEF ToSet
  <1> HIDE DEF t, h
  <1>3. ToSet(s) \subseteq {h} \union ToSet(t)
    <2> SUFFICES ASSUME NEW i \in 1..Len(s), i # 1 PROVE s[i] \in ToSet(t)
      BY <1>1, <1>2 DEF ToSet
    <2>1. i - 1 \in 1..Len(t) /\ t[i - 1] = s[i]
      BY <1>1
    <2> QED
      BY <1>1, <2>1 DEF ToSet
  <1>4. {h} \union ToSet(t) \subseteq ToSet(s)
    <2>1. \A i \in 1..Len(t) : i + 1 \in 1..Len(s) /\ s[i + 1] = t[i]
      BY <1>1
    <2>2. ASSUME NEW x \in ToSet(t) PROVE x \in ToSet(s)
      BY <1>1, <2>1, <2>2 DEF ToSet
    <2> QED
      BY <1>5, <2>2
  <1> QED
    BY <1>1, <1>3, <1>4 DEF t, h

LEMMA InsertSets ==
    ASSUME TypeOK, Insert
    PROVE  /\ store.at = "insert" /\ RowIs("none", 1, 0, 0, FALSE) /\ StoreIs("copy", store.art)
           /\ UNCHANGED <<file, covers, replace, lost, queue, retry, final, delete, sweep, content, met, failed, budget>>
  <1>1. PICK d \in BOOLEAN : ~d
    OBVIOUS
  <1>2. row' = [path |-> "none", version |-> 1, art |-> 0, content |-> 0, done |-> d]
    BY <1>1 DEF Insert
  <1>3. RowIs("none", 1, 0, 0, d)
    BY <1>2, RowMade DEF Path
  <1>4. StoreIs("copy", store.art)
    BY FieldTypes DEF Insert, StoreIs, Store
  <1> QED
    BY <1>1, <1>3, <1>4 DEF Insert, RowIs, disk, stream, history

LEMMA StoreFileSets ==
    ASSUME TypeOK, IsFiniteSet(covers), StoreFile
    PROVE  /\ store.at = "copy" /\ file' \in [Ext -> Nat]
           /\ \A e \in Ext : file'[e] = IF e = store.ext THEN 1 ELSE file[e]
           /\ covers' \subseteq Nat /\ IsFiniteSet(covers') /\ covers \subseteq covers'
           /\ \E c \in covers' \union {store.art} : StoreIs("update", c)
           /\ UNCHANGED <<row, replace, lost, queue, retry, final, delete, sweep, content, met, failed, budget>>
  <1>1. /\ store.at = "copy" /\ file' \in [Ext -> Nat]
        /\ \A e \in Ext : file'[e] = IF e = store.ext THEN 1 ELSE file[e]
        /\ UNCHANGED <<row, replace, lost, queue, retry, final, delete, sweep, content, met, failed, budget>>
    BY FieldTypes DEF TypeOK, StoreFile, stream, history
  <1>2. CASE Draw /\ store' = [store EXCEPT !.at = "update", !.art = NewCover]
    <2>1. /\ covers' \subseteq Nat /\ IsFiniteSet(covers') /\ covers \subseteq covers'
          /\ NewCover \in covers' /\ NewCover \in Nat
      BY <1>2, CoverDrawn DEF TypeOK
    <2>2. StoreIs("update", NewCover)
      BY <1>2, <2>1, FieldTypes DEF StoreIs, Store
    <2> QED
      BY <1>1, <2>1, <2>2
  <1>3. CASE store' = [store EXCEPT !.at = "update"] /\ UNCHANGED covers
    <2>1. StoreIs("update", store.art)
      BY <1>3, FieldTypes DEF StoreIs, Store
    <2> QED
      BY <1>1, <1>3, <2>1 DEF TypeOK
  <1> QED
    BY <1>2, <1>3 DEF StoreFile

LEMMA StoreRowSets ==
    ASSUME TypeOK, StoreRow
    PROVE  /\ store.at = "update"
           /\ \/ row = Null /\ row' = Null /\ StoreIs("done", store.art)
              \/ /\ row # Null /\ RowIs(store.ext, row.version, store.art, 1, row.done)
                 /\ StoreIs("hand", store.art)
           /\ UNCHANGED <<file, covers, replace, lost, queue, retry, final, delete, sweep, content, met, failed, budget>>
  <1>1. CASE row = Null
    BY <1>1, FieldTypes DEF StoreRow, StoreIs, Store, disk, stream, history
  <1>2. CASE row # Null
    <2>1. row' = [path |-> store.ext, version |-> row.version, art |-> store.art, content |-> 1,
                  done |-> row.done]
      BY <1>2, FieldTypes DEF StoreRow, Row
    <2>2. RowIs(store.ext, row.version, store.art, 1, row.done)
      BY <1>2, <2>1, FieldTypes, RowMade DEF Path
    <2>3. StoreIs("hand", store.art)
      BY <1>2, FieldTypes DEF StoreRow, StoreIs, Store
    <2> QED
      BY <1>2, <2>2, <2>3 DEF StoreRow, disk, stream, history
  <1> QED
    BY <1>1, <1>2

LEMMA StoreHandSets ==
    ASSUME TypeOK, StoreHand
    PROVE  /\ store.at = "hand" /\ StoreIs("done", store.art)
           /\ queue' \in Seq(Nat) /\ ToSet(queue') = ToSet(queue) \union {1}
           /\ UNCHANGED <<row, file, covers, replace, lost, retry, final, delete, sweep, content, met, failed, budget>>
  BY FieldTypes, AppendSet DEF TypeOK, StoreHand, StoreIs, Store, disk, history

LEMMA TakeSets ==
    ASSUME TypeOK, NEW job \in Replacement, Take(job)
    PROVE  /\ replace = Null /\ store.at \in {"done", "cut"} /\ row # Null
           /\ ReplaceIs(job, IF BringsFile(job) THEN "copy" ELSE IF BringsArt(job) THEN "draw" ELSE "update",
                        row, row.art, 0)
           /\ met \subseteq met' /\ met' \subseteq met \union {job.kind}
           /\ job.kind \notin met' => final = Null
           /\ UNCHANGED <<row, file, covers, store, queue, retry, final, delete, sweep, failed>>
  <1> DEFINE at == IF BringsFile(job) THEN "copy" ELSE IF BringsArt(job) THEN "draw" ELSE "update"
  <1>1. replace' = [job |-> job, at |-> at, old |-> row, art |-> row.art, version |-> 0]
    BY DEF Take
  <1>2. row # Null /\ row \in Row /\ row.art \in Nat /\ at \in {"copy", "draw", "update"}
    BY FieldTypes DEF Take
  <1> HIDE DEF at
  <1>3. replace' \in Replacing
    BY <1>1, <1>2 DEF Replacing
  <1>4. replace' # Null
    BY <1>3, NullAssumption
  <1>5. ReplaceIs(job, at, row, row.art, 0)
    BY <1>1, <1>3, <1>4 DEF ReplaceIs
  <1> QED
    BY <1>5 DEF Take, disk, stream, at

\* A replacement that goes on.
LEMMA ReplaceGoes ==
    ASSUME TypeOK, replace # Null,
           NEW step \in {"unlink", "dir", "draw", "update", "hand", "unlinkArt"},
           NEW art \in Nat, NEW version \in Nat,
           replace' = [replace EXCEPT !.at = step, !.art = art, !.version = version]
    PROVE  ReplaceIs(replace.job, step, replace.old, art, version)
  <1>1. replace' = [job |-> replace.job, at |-> step, old |-> replace.old, art |-> art, version |-> version]
    BY FieldTypes DEF Replacing
  <1>2. replace' \in Replacing
    BY <1>1, FieldTypes DEF Replacing
  <1>3. replace' # Null
    BY <1>2, NullAssumption
  <1> QED
    BY <1>1, <1>2, <1>3 DEF ReplaceIs

LEMMA ReplaceStep ==
    ASSUME TypeOK, replace # Null, NEW step \in {"unlink", "dir", "unlinkArt"}, ReplaceGo(step)
    PROVE  ReplaceIs(replace.job, step, replace.old, replace.art, replace.version)
  <1>1. replace' = [replace EXCEPT !.at = step, !.art = replace.art, !.version = replace.version]
    BY FieldTypes DEF ReplaceGo, Replacing
  <1> QED
    BY <1>1, FieldTypes, ReplaceGoes

LEMMA ReplaceDrawSets ==
    ASSUME TypeOK, IsFiniteSet(covers), ReplaceDraw
    PROVE  /\ replace # Null /\ replace.at = "draw"
           /\ covers' \subseteq Nat /\ IsFiniteSet(covers') /\ covers \subseteq covers'
           /\ replace.old.art \in covers' => replace.old.art \in covers
           /\ \E c \in covers' \ {replace.old.art} : ReplaceIs(replace.job, "update", replace.old, c, replace.version)
           /\ UNCHANGED <<row, file, store, lost, queue, retry, final, delete, sweep, content, met, failed, budget>>
  <1>1. /\ replace # Null /\ replace.at = "draw" /\ Draw
        /\ replace' = [replace EXCEPT !.at = "update", !.art = NewCover]
        /\ UNCHANGED <<row, file, store, lost, queue, retry, final, delete, sweep, content, met, failed, budget>>
    BY DEF ReplaceDraw, Replaces, stream, history
  <1>2. /\ covers' \subseteq Nat /\ IsFiniteSet(covers') /\ covers' = covers \union {NewCover}
        /\ NewCover \in covers' /\ NewCover \in Nat /\ NewCover \notin Used
    BY <1>1, CoverDrawn DEF TypeOK
  <1>3. replace.old.art \in Used
    BY <1>1 DEF Used, Remembered
  <1>4. replace' = [replace EXCEPT !.at = "update", !.art = NewCover, !.version = replace.version]
    BY <1>1, FieldTypes DEF Replacing
  <1>5. ReplaceIs(replace.job, "update", replace.old, NewCover, replace.version)
    BY <1>1, <1>2, <1>4, FieldTypes, ReplaceGoes
  <1>6. NewCover \in covers' \ {replace.old.art}
    BY <1>2, <1>3
  <1>7. covers \subseteq covers' /\ (replace.old.art \in covers' => replace.old.art \in covers)
    BY <1>2, <1>3
  <1> QED
    BY <1>1, <1>2, <1>5, <1>6, <1>7

LEMMA ReplaceRowSets ==
    ASSUME TypeOK, ReplaceRow
    PROVE  /\ replace # Null /\ replace.at = "update"
           /\ row = Null => row' = Null
           /\ row # Null =>
                IF BringsFile(replace.job)
                  THEN RowIs(replace.job.ext, row.version + 1, replace.art, replace.job.content, FALSE)
                  ELSE RowIs(replace.old.path, row.version, replace.art, row.content, row.done)
           /\ replace.job.kind = "art" =>
                ReplaceIs(replace.job, "unlinkArt", replace.old, replace.art, replace.version)
           /\ replace.job.kind = "lyrics" => replace' = Null
           /\ BringsFile(replace.job) =>
                IF row = Null
                  THEN replace' = Null
                  ELSE ReplaceIs(replace.job, "hand", replace.old, replace.art, row.version + 1)
           /\ failed' = IF BringsFile(replace.job) THEN {} ELSE failed
           /\ UNCHANGED <<file, covers, store, lost, queue, retry, final, delete, sweep, content, met, budget>>
  <1>1. /\ replace # Null /\ replace.at = "update" /\ replace.job.kind \in Jobs
        /\ failed' = IF BringsFile(replace.job) THEN {} ELSE failed
        /\ UNCHANGED <<file, covers, store, lost, queue, retry, final, delete, sweep, content, met, budget>>
        /\ row = Null => row' = Null
        /\ row # Null => row' = NewRow
    BY FieldTypes DEF ReplaceRow, Replaces, disk, stream
  <1>2. ASSUME row # Null, BringsFile(replace.job)
        PROVE  /\ RowIs(replace.job.ext, row.version + 1, replace.art, replace.job.content, FALSE)
               /\ NewRow.version = row.version + 1
    <2>1. PICK d \in BOOLEAN : ~d
      OBVIOUS
    <2>2. row' = [path |-> replace.job.ext, version |-> row.version + 1, art |-> replace.art,
                  content |-> replace.job.content, done |-> d]
      BY <1>1, <1>2, <2>1 DEF NewRow
    <2>3. RowIs(replace.job.ext, row.version + 1, replace.art, replace.job.content, d)
      BY <1>1, <1>2, <2>2, FieldTypes, RowMade
    <2> QED
      BY <1>2, <2>1, <2>3 DEF RowIs, NewRow
  <1>3. ASSUME row # Null, ~BringsFile(replace.job)
        PROVE  RowIs(replace.old.path, row.version, replace.art, row.content, row.done)
    <2>1. row' = [path |-> replace.old.path, version |-> row.version, art |-> replace.art,
                  content |-> row.content, done |-> row.done]
      BY <1>1, <1>3, FieldTypes DEF NewRow, Row
    <2> QED
      BY <1>1, <1>3, <2>1, FieldTypes, RowMade
  <1>4. ASSUME replace.job.kind = "art"
        PROVE  ReplaceIs(replace.job, "unlinkArt", replace.old, replace.art, replace.version)
    BY <1>1, <1>4, ReplaceStep DEF ReplaceRow
  <1>5. ASSUME BringsFile(replace.job), row # Null
        PROVE  ReplaceIs(replace.job, "hand", replace.old, replace.art, row.version + 1)
    <2>1. replace' = [replace EXCEPT !.at = "hand", !.version = row.version + 1]
      BY <1>2, <1>5 DEF ReplaceRow
    <2>2. row.version + 1 \in Nat
      BY <1>5, FieldTypes
    <2>3. replace' = [replace EXCEPT !.at = "hand", !.art = replace.art, !.version = row.version + 1]
      BY <1>1, <2>1, FieldTypes DEF Replacing
    <2> QED
      BY <1>1, <2>2, <2>3, FieldTypes, ReplaceGoes
  <1>6. /\ BringsFile(replace.job) /\ row = Null => replace' = Null
        /\ replace.job.kind = "lyrics" => replace' = Null
    BY DEF ReplaceRow
  <1> QED
    BY <1>1, <1>2, <1>3, <1>4, <1>5, <1>6

LEMMA ReplaceDiskSets ==
    ASSUME TypeOK, IsFiniteSet(covers), JobsOk
    PROVE  /\ ReplaceCopy =>
                /\ replace # Null /\ replace.at = "copy" /\ BringsFile(replace.job)
                /\ ReplaceIs(replace.job, "unlink", replace.old, replace.art, replace.version)
                /\ file' \in [Ext -> Nat] /\ file'[replace.job.ext] = replace.job.content
                /\ UNCHANGED <<row, covers, store, lost, queue, retry, final, delete, sweep, content, met, failed, budget>>
           /\ ReplaceUnlink =>
                /\ replace # Null /\ replace.at = "unlink" /\ BringsFile(replace.job)
                /\ ReplaceIs(replace.job, "dir", replace.old, replace.art, replace.version)
                /\ file' \in [Ext -> Nat] /\ file'[replace.job.ext] = file[replace.job.ext]
                /\ UNCHANGED <<row, covers, store, lost, queue, retry, final, delete, sweep, content, met, failed, budget>>
           /\ ReplaceDir =>
                /\ replace # Null /\ replace.at = "dir" /\ BringsFile(replace.job)
                /\ ReplaceIs(replace.job, IF BringsArt(replace.job) THEN "draw" ELSE "update",
                             replace.old, 0, replace.version)
                /\ covers' = {} /\ covers' \subseteq Nat /\ IsFiniteSet(covers')
                /\ UNCHANGED <<row, file, store, lost, queue, retry, final, delete, sweep, content, met, failed, budget>>
           /\ ReplaceHand =>
                /\ replace # Null /\ replace.at = "hand" /\ BringsFile(replace.job)
                /\ IF BringsArt(replace.job)
                     THEN ReplaceIs(replace.job, "unlinkArt", replace.old, replace.art, replace.version)
                     ELSE replace' = Null
                /\ queue' \in Seq(Nat) /\ ToSet(queue') = ToSet(queue) \union {replace.version}
                /\ UNCHANGED <<row, file, covers, store, lost, retry, final, delete, sweep, content, met, failed, budget>>
           /\ ReplaceUnlinkArt =>
                /\ replace # Null /\ replace.at = "unlinkArt" /\ BringsArt(replace.job) /\ replace' = Null
                /\ covers' = covers \ {replace.old.art} /\ covers' \subseteq Nat /\ IsFiniteSet(covers')
                /\ UNCHANGED <<row, file, store, lost, queue, retry, final, delete, sweep, content, met, failed, budget>>
  <1>1. /\ replace # Null /\ replace.at \in {"copy", "unlink", "dir", "hand"} =>
             BringsFile(replace.job) /\ replace.job.ext \in Ext
        /\ replace # Null /\ replace.at = "unlinkArt" => BringsArt(replace.job)
    BY FieldTypes DEF JobsOk
  <1>2. CASE ReplaceCopy
    <2>1. file' \in [Ext -> Nat] /\ file'[replace.job.ext] = replace.job.content
      BY <1>1, <1>2, FieldTypes DEF TypeOK, ReplaceCopy, Replaces
    <2> QED
      BY <1>1, <1>2, <2>1, ReplaceStep DEF ReplaceCopy, ReplaceUnlink, ReplaceDir, ReplaceHand, ReplaceUnlinkArt, Replaces, stream, history
  <1>3. CASE ReplaceUnlink
    <2>1. file' \in [Ext -> Nat] /\ file'[replace.job.ext] = file[replace.job.ext]
      BY <1>1, <1>3, FieldTypes DEF TypeOK, ReplaceUnlink, Replaces
    <2> QED
      BY <1>1, <1>3, <2>1, ReplaceStep DEF ReplaceCopy, ReplaceUnlink, ReplaceDir, ReplaceHand, ReplaceUnlinkArt, Replaces, stream, history
  <1>4. CASE ReplaceDir
    <2> DEFINE step == IF BringsArt(replace.job) THEN "draw" ELSE "update"
    <2>1. step \in {"draw", "update"} /\ replace # Null /\ replace.version \in Nat
      BY <1>4, FieldTypes DEF ReplaceDir, Replaces
    <2>2. replace' = [replace EXCEPT !.at = step, !.art = 0, !.version = replace.version]
      BY <1>4, FieldTypes DEF ReplaceDir, Replaces, Replacing
    <2> HIDE DEF step
    <2>3. ReplaceIs(replace.job, step, replace.old, 0, replace.version)
      BY <2>1, <2>2, ReplaceGoes
    <2> QED
      BY <1>1, <1>4, <2>3, FS_EmptySet DEF ReplaceCopy, ReplaceUnlink, ReplaceDir, ReplaceHand, ReplaceUnlinkArt, Replaces, stream, history, step
  <1>5. CASE ReplaceHand
    <2>1. replace # Null /\ replace.at = "hand" /\ queue' = Append(queue, replace.version)
      BY <1>5 DEF ReplaceHand, Replaces
    <2>2. queue' \in Seq(Nat) /\ ToSet(queue') = ToSet(queue) \union {replace.version}
      BY <2>1, FieldTypes, AppendSet DEF TypeOK
    <2>3. IF BringsArt(replace.job)
            THEN ReplaceIs(replace.job, "unlinkArt", replace.old, replace.art, replace.version)
            ELSE replace' = Null
      BY <1>5, <2>1, ReplaceStep DEF ReplaceHand
    <2> QED
      BY <1>1, <1>5, <2>1, <2>2, <2>3 DEF ReplaceCopy, ReplaceUnlink, ReplaceDir, ReplaceHand, ReplaceUnlinkArt, Replaces, disk, history
  <1>6. CASE ReplaceUnlinkArt
    <2>1. covers' = covers \ {replace.old.art} /\ covers' \subseteq Nat /\ IsFiniteSet(covers')
      BY <1>6, FS_RemoveElement DEF ReplaceUnlinkArt, TypeOK
    <2> QED
      BY <1>1, <1>6, <2>1 DEF ReplaceCopy, ReplaceUnlink, ReplaceDir, ReplaceHand, ReplaceUnlinkArt, Replaces, stream, history
  <1> QED
    BY <1>2, <1>3, <1>4, <1>5, <1>6

LEMMA ReplaceFailSets ==
    ASSUME TypeOK, ReplaceFail
    PROVE  /\ replace # Null /\ replace.at \in {"copy", "unlink", "draw", "update", "hand"}
           /\ replace' = Null /\ failed \subseteq failed' /\ failed' \subseteq {"files", "job"}
           /\ BringsFile(replace.job) =>
                failed' # {} /\ (replace.at # "hand" => "files" \in failed')
           /\ budget' \in [Kinds -> Nat]
           /\ UNCHANGED <<row, file, covers, store, lost, queue, retry, final, delete, sweep, content, met>>
  <1>1. budget' \in [Kinds -> Nat]
    BY SpendKeeps DEF ReplaceFail, Kinds
  <1> QED
    BY <1>1 DEF TypeOK, ReplaceFail, disk, stream

\* A finalization that begins.
LEMMA FinalBegins ==
    ASSUME TypeOK, FinalRead \/ FinalClaim
    PROVE  /\ final = Null /\ final' # Null /\ final' \in Finalizing /\ final'.at = "load"
           /\ ~final'.stale
           /\ queue' \in Seq(Nat) /\ retry' \subseteq Entry
           /\ final'.entry.version \in ToSet(queue) \union {entry.version : entry \in retry}
           /\ ToSet(queue) \subseteq ToSet(queue') \union {final'.entry.version}
           /\ ToSet(queue') \subseteq ToSet(queue) /\ retry' \subseteq retry
           /\ \A entry \in retry \ retry' : entry.version = final'.entry.version
           /\ UNCHANGED <<row, file, covers, store, replace, lost, delete, sweep, content, met, failed, budget>>
  <1>1. final = Null /\ UNCHANGED <<row, file, covers, store, replace, lost, delete, sweep, content, met, failed, budget>>
    BY DEF FinalRead, FinalClaim, disk, history
  <1>2. ASSUME NEW e \in Entry, final' = NewFinal(e)
        PROVE  /\ final' # Null /\ final' \in Finalizing /\ final'.at = "load" /\ ~final'.stale
               /\ final'.entry = e
    <2>1. PICK s \in BOOLEAN : ~s
      OBVIOUS
    <2>2. final' = [entry |-> e, at |-> "load", path |-> "none", art |-> 0, temp |-> 0, stale |-> s]
      BY <1>2, <2>1 DEF NewFinal
    <2>3. final' \in Finalizing
      BY <2>2 DEF Finalizing, Path
    <2>4. final' # Null
      BY <2>3, NullAssumption
    <2> QED
      BY <2>1, <2>2, <2>3, <2>4
  <1>3. CASE FinalRead
    <2>1. /\ Head(queue) \in Nat /\ Tail(queue) \in Seq(Nat)
          /\ ToSet(queue) = {Head(queue)} \union ToSet(Tail(queue))
      BY <1>3, TailSet DEF TypeOK, FinalRead
    <2> DEFINE e == [version |-> Head(queue), tries |-> 1]
    <2>2. e \in Entry /\ e.version = Head(queue)
      BY <2>1 DEF Entry
    <2>3. final' = NewFinal(e) /\ queue' = Tail(queue) /\ retry' = retry
      BY <1>3 DEF FinalRead
    <2> HIDE DEF e
    <2>4. final' # Null /\ final' \in Finalizing /\ final'.at = "load" /\ ~final'.stale /\ final'.entry = e
      BY <1>2, <2>2, <2>3
    <2> QED
      BY <1>1, <2>1, <2>2, <2>3, <2>4 DEF TypeOK
  <1>4. CASE FinalClaim
    <2>1. PICK entry \in retry : /\ final' = NewFinal([entry EXCEPT !.tries = @ + 1])
                                 /\ retry' = retry \ {entry}
      BY <1>4 DEF FinalClaim
    <2> DEFINE e == [entry EXCEPT !.tries = @ + 1]
    <2>5. entry \in Entry
      BY <2>1 DEF TypeOK
    <2>2. e \in Entry /\ e.version = entry.version
      BY <2>5 DEF Entry
    <2>3. final' = NewFinal(e) /\ queue' = queue
      BY <1>4, <2>1 DEF FinalClaim
    <2> HIDE DEF e
    <2>4. final' # Null /\ final' \in Finalizing /\ final'.at = "load" /\ ~final'.stale /\ final'.entry = e
      BY <1>2, <2>2, <2>3
    <2> QED
      BY <1>1, <2>1, <2>2, <2>3, <2>4 DEF TypeOK
  <1> QED
    BY <1>3, <1>4

\* A finalization that goes on.
LEMMA FinalGoes ==
    ASSUME TypeOK, final # Null,
           NEW at \in {"rename", "switch", "undo", "unlink", "draw", "finish", "throw", "ack"},
           NEW path \in Path, NEW art \in Nat, NEW temp \in Nat,
           final' = [final EXCEPT !.at = at, !.path = path, !.art = art, !.temp = temp]
    PROVE  FinalIs(final.entry, at, path, art, temp, final.stale)
  <1>1. final' = [entry |-> final.entry, at |-> at, path |-> path, art |-> art,
                  temp |-> temp, stale |-> final.stale]
    BY FieldTypes DEF Finalizing
  <1>2. final' \in Finalizing
    BY <1>1, FieldTypes DEF Finalizing
  <1>3. final' # Null
    BY <1>2, NullAssumption
  <1> QED
    BY <1>1, <1>2, <1>3 DEF FinalIs

LEMMA FinalStep ==
    ASSUME TypeOK, final # Null,
           NEW at \in {"rename", "switch", "undo", "unlink", "draw", "finish", "throw", "ack"},
           FinalGo(at)
    PROVE  FinalIs(final.entry, at, final.path, final.art, final.temp, final.stale)
  <1>1. final' = [final EXCEPT !.at = at, !.path = final.path, !.art = final.art, !.temp = final.temp]
    BY FieldTypes DEF FinalGo, Finalizing
  <1> QED
    BY <1>1, FieldTypes, FinalGoes

LEMMA FinalLoadSets ==
    ASSUME TypeOK, FinalLoad
    PROVE  /\ final # Null /\ final.at = "load"
           /\ IF row # Null /\ row.version = final.entry.version
                THEN /\ final' # Null /\ final' \in Finalizing /\ final'.entry = final.entry
                     /\ final'.at = IF row.path = "mkv" THEN "convert" ELSE "draw"
                     /\ final'.art = row.art /\ (final'.stale <=> final.stale)
                     /\ met' = IF replace = Null THEN met ELSE met \union {replace.job.kind}
                ELSE /\ FinalIs(final.entry, "ack", final.path, final.art, final.temp, final.stale)
                     /\ met' = met
           /\ UNCHANGED <<row, file, covers, store, replace, lost, queue, retry, delete, sweep, content, failed, budget>>
  <1>1. /\ final # Null /\ final.at = "load"
        /\ UNCHANGED <<row, file, covers, store, replace, lost, queue, retry, delete, sweep, content, failed, budget>>
    BY DEF FinalLoad, Finals, disk, stream
  <1>2. CASE Fresh
    <2> DEFINE at == IF row.path = "mkv" THEN "convert" ELSE "draw"
    <2>1. /\ final' = [final EXCEPT !.path = row.path, !.art = row.art, !.at = at]
          /\ met' = IF replace = Null THEN met ELSE met \union {replace.job.kind}
          /\ row # Null /\ row.version = final.entry.version
      BY <1>2 DEF FinalLoad, Fresh
    <2>2. at \in {"convert", "draw"}
      OBVIOUS
    <2> HIDE DEF at
    <2>3. final' = [entry |-> final.entry, at |-> at, path |-> row.path, art |-> row.art,
                    temp |-> final.temp, stale |-> final.stale]
      BY <1>1, <2>1, FieldTypes DEF Finalizing
    <2>4. final' \in Finalizing
      BY <1>1, <2>1, <2>2, <2>3, FieldTypes DEF Finalizing
    <2>5. final' # Null
      BY <2>4, NullAssumption
    <2> QED
      BY <1>1, <2>1, <2>3, <2>4, <2>5 DEF at
  <1>3. CASE ~Fresh
    <2>1. FinalIs(final.entry, "ack", final.path, final.art, final.temp, final.stale)
      BY <1>1, <1>3, FinalStep DEF FinalLoad
    <2> QED
      BY <1>1, <1>3, <2>1 DEF FinalLoad, Fresh
  <1> QED
    BY <1>2, <1>3

LEMMA FinalConvertSets ==
    ASSUME TypeOK, FinalConvert
    PROVE  /\ final # Null /\ final.at = "convert"
           /\ \/ FinalIs(final.entry, "rename", final.path, final.art, file["mkv"], final.stale)
              \/ FinalIs(final.entry, "draw", final.path, final.art, final.temp, final.stale)
           /\ UNCHANGED <<row, file, covers, store, replace, lost, queue, retry, delete, sweep, content, met, failed, budget>>
  <1>1. /\ final # Null /\ final.at = "convert"
        /\ UNCHANGED <<row, file, covers, store, replace, lost, queue, retry, delete, sweep, content, met, failed, budget>>
    BY DEF FinalConvert, Finals, disk, stream, history
  <1>2. CASE final' = [final EXCEPT !.at = "rename", !.temp = file["mkv"]]
    <2>1. file["mkv"] \in Nat
      BY DEF TypeOK, Ext
    <2>2. final' = [final EXCEPT !.at = "rename", !.path = final.path, !.art = final.art, !.temp = file["mkv"]]
      BY <1>1, <1>2, FieldTypes DEF Finalizing
    <2> QED
      BY <1>1, <2>1, <2>2, FieldTypes, FinalGoes
  <1>3. CASE FinalGo("draw")
    BY <1>1, <1>3, FinalStep
  <1> QED
    BY <1>1, <1>2, <1>3 DEF FinalConvert

LEMMA FinalRenameSets ==
    ASSUME TypeOK, FinalRename
    PROVE  /\ final # Null /\ final.at = "rename"
           /\ FinalIs(final.entry, "switch", final.path, final.art, final.temp, final.stale)
           /\ file' \in [Ext -> Nat] /\ file'["mp4"] = final.temp /\ file'["mkv"] = file["mkv"]
           /\ UNCHANGED <<row, covers, store, replace, lost, queue, retry, delete, sweep, content, met, failed, budget>>
  <1>1. /\ final # Null /\ final.at = "rename"
        /\ UNCHANGED <<row, covers, store, replace, lost, queue, retry, delete, sweep, content, met, failed, budget>>
    BY DEF FinalRename, Finals, stream, history
  <1>2. FinalIs(final.entry, "switch", final.path, final.art, final.temp, final.stale)
    BY <1>1, FinalStep DEF FinalRename
  <1>3. file' \in [Ext -> Nat] /\ file'["mp4"] = final.temp /\ file'["mkv"] = file["mkv"]
    BY <1>1, FieldTypes DEF FinalRename, TypeOK, Ext
  <1> QED
    BY <1>1, <1>2, <1>3

LEMMA FinalSwitchSets ==
    ASSUME TypeOK, FinalSwitch
    PROVE  /\ final # Null /\ final.at = "switch"
           /\ \/ /\ row # Null /\ row.version = final.entry.version
                 /\ RowIs("mp4", row.version, row.art, row.content, row.done)
                 /\ FinalIs(final.entry, "unlink", final.path, final.art, final.temp, final.stale)
              \/ /\ ~(row # Null /\ row.version = final.entry.version) /\ row' = row
                 /\ FinalIs(final.entry, "undo", final.path, final.art, final.temp, TRUE)
              \/ /\ row' = row
                 /\ FinalIs(final.entry, "undo", final.path, final.art, final.temp, final.stale)
           /\ UNCHANGED <<file, covers, store, replace, lost, queue, retry, delete, sweep, content, met, failed, budget>>
  <1>1. /\ final # Null /\ final.at = "switch"
        /\ UNCHANGED <<file, covers, store, replace, lost, queue, retry, delete, sweep, content, met, failed, budget>>
    BY DEF FinalSwitch, Finals, disk, stream, history
  <1>2. CASE Fresh /\ row' = [row EXCEPT !.path = "mp4"] /\ FinalGo("unlink")
    <2>1. row' = [path |-> "mp4", version |-> row.version, art |-> row.art, content |-> row.content,
                  done |-> row.done]
      BY <1>2, FieldTypes DEF Fresh, Row
    <2>2. /\ "mp4" \in Path /\ row.version \in Nat /\ row.art \in Nat /\ row.content \in Nat
          /\ row.done \in BOOLEAN
      BY <1>2, FieldTypes DEF Fresh, Ext, Path
    <2>3. RowIs("mp4", row.version, row.art, row.content, row.done)
      BY <2>1, <2>2, RowMade
    <2> QED
      BY <1>1, <1>2, <2>3, FinalStep DEF Fresh
  <1>3. CASE ~Fresh /\ final' = [final EXCEPT !.at = "undo", !.stale = TRUE] /\ UNCHANGED row
    <2>1. PICK s \in BOOLEAN : s = TRUE
      OBVIOUS
    <2>2. final' = [entry |-> final.entry, at |-> "undo", path |-> final.path, art |-> final.art,
                    temp |-> final.temp, stale |-> s]
      BY <1>1, <1>3, <2>1, FieldTypes DEF Finalizing
    <2>3. final' \in Finalizing
      BY <1>1, <2>2, FieldTypes DEF Finalizing
    <2>4. final' # Null
      BY <2>3, NullAssumption
    <2>5. FinalIs(final.entry, "undo", final.path, final.art, final.temp, TRUE)
      BY <2>1, <2>2, <2>3, <2>4 DEF FinalIs
    <2> QED
      BY <1>1, <1>3, <2>5 DEF Fresh
  <1>4. CASE FinalGo("undo") /\ UNCHANGED row
    BY <1>1, <1>4, FinalStep
  <1> QED
    BY <1>2, <1>3, <1>4 DEF FinalSwitch

LEMMA FinalUndoSets ==
    ASSUME TypeOK, FinalUndo
    PROVE  /\ final # Null /\ final.at = "undo"
           /\ FinalIs(final.entry, IF final.stale THEN "ack" ELSE "draw", final.path, final.art, final.temp,
                      final.stale)
           /\ file' \in [Ext -> Nat] /\ file'["mkv"] = file["mkv"]
           /\ UNCHANGED <<row, covers, store, replace, lost, queue, retry, delete, sweep, content, met, failed, budget>>
  <1>1. /\ final # Null /\ final.at = "undo"
        /\ UNCHANGED <<row, covers, store, replace, lost, queue, retry, delete, sweep, content, met, failed, budget>>
    BY DEF FinalUndo, Finals, stream, history
  <1>2. FinalIs(final.entry, IF final.stale THEN "ack" ELSE "draw", final.path, final.art, final.temp,
                final.stale)
    BY <1>1, FinalStep DEF FinalUndo
  <1>3. file' \in [Ext -> Nat] /\ file'["mkv"] = file["mkv"]
    BY DEF FinalUndo, TypeOK, Ext
  <1> QED
    BY <1>1, <1>2, <1>3

LEMMA FinalUnlinkSets ==
    ASSUME TypeOK, FinalUnlink
    PROVE  /\ final # Null /\ final.at = "unlink"
           /\ FinalIs(final.entry, "draw", "mp4", final.art, final.temp, final.stale)
           /\ file' \in [Ext -> Nat] /\ file'["mp4"] = file["mp4"]
           /\ UNCHANGED <<row, covers, store, replace, lost, queue, retry, delete, sweep, content, met, failed, budget>>
  <1>1. /\ final # Null /\ final.at = "unlink"
        /\ UNCHANGED <<row, covers, store, replace, lost, queue, retry, delete, sweep, content, met, failed, budget>>
    BY DEF FinalUnlink, Finals, stream, history
  <1>2. final' = [final EXCEPT !.at = "draw", !.path = "mp4", !.art = final.art, !.temp = final.temp]
    BY <1>1, FieldTypes DEF FinalUnlink, Finalizing
  <1>3. FinalIs(final.entry, "draw", "mp4", final.art, final.temp, final.stale)
    BY <1>1, <1>2, FieldTypes, FinalGoes DEF Ext, Path
  <1>4. file' \in [Ext -> Nat] /\ file'["mp4"] = file["mp4"]
    BY DEF FinalUnlink, TypeOK, Ext
  <1> QED
    BY <1>1, <1>3, <1>4

LEMMA FinalDrawSets ==
    ASSUME TypeOK, IsFiniteSet(covers), FinalDraw
    PROVE  /\ final # Null /\ final.at = "draw"
           /\ covers' \subseteq Nat /\ IsFiniteSet(covers') /\ covers \subseteq covers'
           /\ replace # Null => (replace.old.art \in covers' => replace.old.art \in covers)
           /\ \E c \in covers' \union {final.art} :
                FinalIs(final.entry, "finish", final.path, c, final.temp, final.stale)
           /\ UNCHANGED <<row, file, store, replace, lost, queue, retry, delete, sweep, content, met, failed, budget>>
  <1>1. /\ final # Null /\ final.at = "draw"
        /\ UNCHANGED <<row, file, store, replace, lost, queue, retry, delete, sweep, content, met, failed, budget>>
    BY DEF FinalDraw, Finals, stream, history
  <1>2. CASE Draw /\ final' = [final EXCEPT !.at = "finish", !.art = NewCover]
    <2>1. /\ covers' \subseteq Nat /\ IsFiniteSet(covers') /\ covers' = covers \union {NewCover}
          /\ NewCover \in covers' /\ NewCover \in Nat /\ NewCover \notin Used
      BY <1>2, CoverDrawn DEF TypeOK
    <2>4. replace # Null => replace.old.art # NewCover
      BY <2>1 DEF Used, Remembered
    <2>2. final' = [final EXCEPT !.at = "finish", !.path = final.path, !.art = NewCover, !.temp = final.temp]
      BY <1>1, <1>2, FieldTypes DEF Finalizing
    <2>3. FinalIs(final.entry, "finish", final.path, NewCover, final.temp, final.stale)
      BY <1>1, <2>1, <2>2, FieldTypes, FinalGoes
    <2> QED
      BY <1>1, <2>1, <2>3, <2>4
  <1>3. CASE FinalGo("finish") /\ UNCHANGED covers
    <2>1. FinalIs(final.entry, "finish", final.path, final.art, final.temp, final.stale)
      BY <1>1, <1>3, FinalStep
    <2> QED
      BY <1>1, <1>3, <2>1 DEF TypeOK
  <1> QED
    BY <1>2, <1>3 DEF FinalDraw

LEMMA FinalFinishSets ==
    ASSUME TypeOK, FinalFinish
    PROVE  /\ final # Null /\ final.at = "finish"
           /\ \/ /\ row # Null /\ row.version = final.entry.version
                 /\ RowIs(row.path, row.version, final.art, row.content, TRUE)
                 /\ FinalIs(final.entry, "ack", final.path, final.art, final.temp, final.stale)
              \/ /\ ~(row # Null /\ row.version = final.entry.version) /\ row' = row
                 /\ FinalIs(final.entry, "ack", final.path, final.art, final.temp, final.stale)
              \/ /\ row' = row
                 /\ FinalIs(final.entry, "throw", final.path, final.art, final.temp, final.stale)
           /\ UNCHANGED <<file, covers, store, replace, lost, queue, retry, delete, sweep, content, met, failed, budget>>
  <1>1. /\ final # Null /\ final.at = "finish"
        /\ UNCHANGED <<file, covers, store, replace, lost, queue, retry, delete, sweep, content, met, failed, budget>>
    BY DEF FinalFinish, Finals, disk, stream, history
  <1>2. CASE FinalGo("ack") /\ Fresh /\ row' = [row EXCEPT !.art = final.art, !.done = TRUE]
    <2>1. PICK d \in BOOLEAN : d = TRUE
      OBVIOUS
    <2>2. row' = [path |-> row.path, version |-> row.version, art |-> final.art, content |-> row.content,
                  done |-> d]
      BY <1>2, <2>1, FieldTypes DEF Fresh, Row
    <2>3. row.path \in Path /\ row.version \in Nat /\ final.art \in Nat /\ row.content \in Nat
      BY <1>1, <1>2, FieldTypes DEF Fresh
    <2>4. RowIs(row.path, row.version, final.art, row.content, d)
      BY <2>2, <2>3, RowMade
    <2> QED
      BY <1>1, <1>2, <2>1, <2>4, FinalStep DEF Fresh
  <1>3. CASE FinalGo("ack") /\ ~Fresh /\ row' = row
    BY <1>1, <1>3, FinalStep DEF Fresh
  <1>4. CASE FinalGo("throw") /\ UNCHANGED row
    BY <1>1, <1>4, FinalStep
  <1> QED
    BY <1>2, <1>3, <1>4 DEF FinalFinish

LEMMA FinalThrowSets ==
    ASSUME TypeOK, FinalThrow
    PROVE  /\ final # Null /\ final.at = "throw"
           /\ \/ final' = Null /\ row' = row /\ retry' = retry \union {final.entry}
              \/ /\ FinalIs(final.entry, "ack", final.path, final.art, final.temp, final.stale)
                 /\ retry' = retry
                 /\ \/ /\ row # Null /\ row.version = final.entry.version
                       /\ RowIs(row.path, row.version, row.art, row.content, TRUE)
                    \/ ~(row # Null /\ row.version = final.entry.version) /\ row' = row
           /\ UNCHANGED <<file, covers, store, replace, lost, queue, delete, sweep, content, met, failed, budget>>
  <1>1. /\ final # Null /\ final.at = "throw"
        /\ UNCHANGED <<file, covers, store, replace, lost, queue, delete, sweep, content, met, failed, budget>>
    BY DEF FinalThrow, Finals, disk, history
  <1>2. CASE retry' = retry \union {final.entry} /\ final' = Null /\ UNCHANGED row
    BY <1>1, <1>2
  <1>3. CASE FinalGo("ack") /\ UNCHANGED retry /\ Fresh /\ row' = [row EXCEPT !.done = TRUE]
    <2>1. PICK d \in BOOLEAN : d = TRUE
      OBVIOUS
    <2>2. row' = [path |-> row.path, version |-> row.version, art |-> row.art, content |-> row.content,
                  done |-> d]
      BY <1>3, <2>1, FieldTypes DEF Fresh, Row
    <2>3. row.path \in Path /\ row.version \in Nat /\ row.art \in Nat /\ row.content \in Nat
      BY <1>1, <1>3, FieldTypes DEF Fresh
    <2>4. RowIs(row.path, row.version, row.art, row.content, d)
      BY <2>2, <2>3, RowMade
    <2> QED
      BY <1>1, <1>3, <2>1, <2>4, FinalStep DEF Fresh
  <1>4. CASE FinalGo("ack") /\ UNCHANGED retry /\ ~Fresh /\ row' = row
    BY <1>1, <1>4, FinalStep DEF Fresh
  <1> QED
    BY <1>2, <1>3, <1>4 DEF FinalThrow

-----------------------------------------------------------------------------
(* Every step keeps the invariant *)

\* The upload.
LEMMA StoringKeeps ==
    ASSUME FilesIInv, Insert \/ StoreFile \/ StoreRow \/ StoreHand
    PROVE  FilesIInv'
  <1>1. TypeOK /\ IsFiniteSet(covers) /\ JobsOk
    BY DEF FilesIInv
  <1>2. TypeOK' /\ IsFiniteSet(covers')
    BY <1>1, FieldTypes, Types, TypesKeep, InsertSets, StoreFileSets, StoreRowSets,
      StoreHandSets DEF StoreIs, RowIs
  <1>3. FirstOk' /\ StoreAlone' /\ StoreOk' /\ GoneOk'
    BY <1>1, FieldTypes, InsertSets, StoreFileSets, StoreRowSets, StoreHandSets DEF FilesIInv,
      FirstOk, StoreAlone, StoreOk, GoneOk, Ext, StoreIs, RowIs
  <1>4. JobsOk' /\ MetOk' /\ CopiedOk' /\ DrawnOk'
    BY <1>1, FieldTypes, InsertSets, StoreFileSets, StoreRowSets, StoreHandSets DEF FilesIInv,
      JobsOk, MetOk, StoreAlone, Active, CopiedOk, GoneOk, VersionsOk, FirstOk, ConvertOk, DrawnOk,
      Pending, Ext, StoreIs, RowIs
  <1>5. VersionsOk' /\ EndOk' /\ ConvertOk' /\ ShownOk'
    BY <1>1, FieldTypes, InsertSets, StoreFileSets, StoreRowSets, StoreHandSets, QueueSet,
      Types DEF FilesIInv, VersionsOk, StoreAlone, StoreOk, CopiedOk, EndOk, ConvertOk, MetOk,
      Active, GoneOk, JobsOk, FirstOk, ShownOk, Pending, CoverOk, Ext, StoreIs, RowIs, Entry
  <1>6. SourceOk' /\ CoverOk' /\ JobOk'
    BY <1>1, FieldTypes, InsertSets, StoreFileSets, StoreRowSets, StoreHandSets DEF FilesIInv,
      SourceOk, CopiedOk, DrawnOk, ConvertOk, Pending, JobsOk, MetOk, Active, GoneOk, StoreAlone,
      StoreOk, FirstOk, CoverOk, ShownOk, JobOk, HasJob, EndOk, VersionsOk, Ext, StoreIs, RowIs
  <1> QED
    BY <1>2, <1>3, <1>4, <1>5, <1>6 DEF FilesIInv

\* A replacement begins, the first time or again.
LEMMA TakeKeeps ==
    ASSUME FilesIInv, NEW job \in Replacement, Take(job), BringsFile(job) => job.ext \in Ext,
           content' \in Nat, lost' \subseteq lost, lost \subseteq lost' \union {job},
           budget' \in [Kinds -> Nat]
    PROVE  FilesIInv'
  <1>1. TypeOK /\ IsFiniteSet(covers) /\ JobsOk
    BY DEF FilesIInv
  <1>2. TypeOK' /\ IsFiniteSet(covers')
    <2>1. replace' \in Replacing /\ met' \subseteq Jobs /\ lost' \subseteq Replacement
      BY <1>1, Types, TakeSets DEF ReplaceIs, Replacement
    <2>2. UNCHANGED <<row, file, covers, store, queue, retry, final, delete, sweep, failed>>
      BY <1>1, TakeSets
    <2> QED
      BY <1>1, <2>1, <2>2 DEF TypeOK
  <1>3. FirstOk' /\ StoreAlone' /\ StoreOk' /\ GoneOk'
    BY <1>1, FieldTypes, TakeSets DEF FilesIInv, FirstOk, StoreAlone, StoreOk, GoneOk, Ext, RowIs,
      ReplaceIs
  <1>4. JobsOk' /\ MetOk' /\ CopiedOk' /\ DrawnOk'
    <2>1. CoverOk
      BY DEF FilesIInv
    <2>2. JobsOk' /\ MetOk' /\ CopiedOk'
      BY <1>1, FieldTypes, TakeSets DEF JobsOk, MetOk, Active, CopiedOk, ReplaceIs
    <2>3. DrawnOk'
      BY <1>1, <2>1, FieldTypes, TakeSets DEF DrawnOk, CoverOk, Pending, ReplaceIs
    <2> QED
      BY <2>2, <2>3
  <1>5. VersionsOk' /\ EndOk' /\ ConvertOk' /\ ShownOk'
    BY <1>1, FieldTypes, TakeSets DEF FilesIInv, VersionsOk, StoreAlone, StoreOk, CopiedOk, EndOk,
      ConvertOk, MetOk, Active, GoneOk, JobsOk, FirstOk, ShownOk, Pending, CoverOk, Ext, RowIs,
      ReplaceIs
  <1>6. SourceOk' /\ CoverOk' /\ JobOk'
    BY <1>1, FieldTypes, TakeSets DEF FilesIInv, SourceOk, CopiedOk, DrawnOk, ConvertOk, Pending,
      JobsOk, MetOk, Active, GoneOk, StoreAlone, StoreOk, FirstOk, CoverOk, ShownOk, JobOk, HasJob,
      EndOk, VersionsOk, Ext, RowIs, ReplaceIs
  <1> QED
    BY <1>2, <1>3, <1>4, <1>5, <1>6 DEF FilesIInv

\* The files of a replacement, and its job.
LEMMA ReplaceDiskKeeps ==
    ASSUME FilesIInv, ReplaceCopy \/ ReplaceUnlink \/ ReplaceDir \/ ReplaceHand \/ ReplaceUnlinkArt
    PROVE  FilesIInv'
  <1>1. TypeOK /\ IsFiniteSet(covers) /\ JobsOk
    BY DEF FilesIInv
  <1>2. TypeOK' /\ IsFiniteSet(covers')
    BY <1>1, FieldTypes, Types, TypesKeep, ReplaceDiskSets DEF RowIs, ReplaceIs
  <1>3. FirstOk' /\ StoreAlone' /\ StoreOk' /\ GoneOk'
    BY <1>1, FieldTypes, ReplaceDiskSets DEF FilesIInv, FirstOk, StoreAlone, StoreOk, GoneOk, Ext,
      RowIs, ReplaceIs
  <1>4. JobsOk' /\ MetOk' /\ CopiedOk' /\ DrawnOk'
    BY <1>1, FieldTypes, ReplaceDiskSets DEF FilesIInv, JobsOk, MetOk, StoreAlone, Active, CopiedOk,
      GoneOk, VersionsOk, FirstOk, ConvertOk, DrawnOk, Pending, Ext, RowIs, ReplaceIs
  <1>5. VersionsOk' /\ EndOk' /\ ConvertOk' /\ ShownOk'
    BY <1>1, FieldTypes, ReplaceDiskSets DEF FilesIInv, VersionsOk, StoreAlone, StoreOk, CopiedOk,
      EndOk, ConvertOk, MetOk, Active, GoneOk, JobsOk, FirstOk, ShownOk, Pending, CoverOk, DrawnOk,
      Ext, RowIs, ReplaceIs
  <1>6. SourceOk' /\ CoverOk' /\ JobOk'
    BY <1>1, FieldTypes, ReplaceDiskSets DEF FilesIInv, SourceOk, CopiedOk, DrawnOk, ConvertOk,
      Pending, JobsOk, MetOk, Active, GoneOk, StoreAlone, StoreOk, FirstOk, CoverOk, ShownOk, JobOk,
      HasJob, EndOk, VersionsOk, Ext, RowIs, ReplaceIs
  <1> QED
    BY <1>2, <1>3, <1>4, <1>5, <1>6 DEF FilesIInv

\* The new thumbnail.
LEMMA ReplaceDrawKeeps ==
    ASSUME FilesIInv, ReplaceDraw
    PROVE  FilesIInv'
  <1>1. TypeOK /\ IsFiniteSet(covers) /\ JobsOk
    BY DEF FilesIInv
  <1>2. TypeOK' /\ IsFiniteSet(covers')
    BY <1>1, FieldTypes, Types, TypesKeep, ReplaceDrawSets DEF RowIs, ReplaceIs
  <1>3. FirstOk' /\ StoreAlone' /\ StoreOk' /\ GoneOk'
    BY <1>1, FieldTypes, ReplaceDrawSets DEF FilesIInv, FirstOk, StoreAlone, StoreOk, GoneOk, Ext,
      RowIs, ReplaceIs
  <1>4. JobsOk' /\ MetOk' /\ CopiedOk' /\ DrawnOk'
    BY <1>1, FieldTypes, ReplaceDrawSets DEF FilesIInv, JobsOk, MetOk, StoreAlone, Active, CopiedOk,
      GoneOk, VersionsOk, FirstOk, ConvertOk, DrawnOk, Pending, Ext, RowIs, ReplaceIs
  <1>5. VersionsOk' /\ EndOk' /\ ConvertOk' /\ ShownOk'
    BY <1>1, FieldTypes, ReplaceDrawSets DEF FilesIInv, VersionsOk, StoreAlone, StoreOk, CopiedOk,
      EndOk, ConvertOk, MetOk, Active, GoneOk, JobsOk, FirstOk, ShownOk, Pending, CoverOk, Ext,
      RowIs, ReplaceIs
  <1>6. SourceOk' /\ CoverOk' /\ JobOk'
    BY <1>1, FieldTypes, ReplaceDrawSets DEF FilesIInv, SourceOk, CopiedOk, DrawnOk, ConvertOk,
      Pending, JobsOk, MetOk, Active, GoneOk, StoreAlone, StoreOk, FirstOk, CoverOk, ShownOk, JobOk,
      HasJob, EndOk, VersionsOk, Ext, RowIs, ReplaceIs
  <1> QED
    BY <1>2, <1>3, <1>4, <1>5, <1>6 DEF FilesIInv

\* The row of a replacement: whatever was pending of the one under way is there now.
LEMMA ReplaceRowKeeps ==
    ASSUME FilesIInv, ReplaceRow
    PROVE  FilesIInv'
  <1>1. TypeOK /\ IsFiniteSet(covers) /\ JobsOk
    BY DEF FilesIInv
  <1>2. TypeOK' /\ IsFiniteSet(covers')
    BY <1>1, FieldTypes, Types, TypesKeep, ReplaceRowSets DEF RowIs, ReplaceIs
  <1>3. FirstOk' /\ StoreAlone' /\ StoreOk' /\ GoneOk'
    BY <1>1, FieldTypes, ReplaceRowSets DEF FilesIInv, FirstOk, StoreAlone, StoreOk, GoneOk, Ext,
      RowIs, ReplaceIs
  <1>4. JobsOk' /\ MetOk' /\ CopiedOk' /\ DrawnOk'
    BY <1>1, FieldTypes, ReplaceRowSets DEF FilesIInv, JobsOk, MetOk, StoreAlone, Active, CopiedOk,
      GoneOk, VersionsOk, FirstOk, ConvertOk, DrawnOk, Pending, Ext, RowIs, ReplaceIs
  <1>5. VersionsOk' /\ EndOk' /\ ConvertOk' /\ ShownOk'
    BY <1>1, FieldTypes, ReplaceRowSets, QueueSet, Types DEF FilesIInv, VersionsOk, StoreAlone,
      StoreOk, CopiedOk, EndOk, ConvertOk, MetOk, Active, GoneOk, JobsOk, FirstOk, ShownOk, Pending,
      CoverOk, Ext, RowIs, ReplaceIs, Entry
  <1>6. SourceOk' /\ CoverOk' /\ JobOk'
    BY <1>1, FieldTypes, ReplaceRowSets DEF FilesIInv, SourceOk, CopiedOk, DrawnOk, ConvertOk,
      Pending, JobsOk, MetOk, Active, GoneOk, StoreAlone, StoreOk, FirstOk, CoverOk, ShownOk, JobOk,
      HasJob, EndOk, VersionsOk, Ext, RowIs, ReplaceIs
  <1> QED
    BY <1>2, <1>3, <1>4, <1>5, <1>6 DEF FilesIInv

\* The finalization takes a job and reads the row.
LEMMA FinalBeginKeeps ==
    ASSUME FilesIInv, FinalRead \/ FinalClaim \/ FinalLoad
    PROVE  FilesIInv'
  <1>1. TypeOK /\ IsFiniteSet(covers) /\ JobsOk
    BY DEF FilesIInv
  <1>2. TypeOK' /\ IsFiniteSet(covers')
    BY <1>1, FieldTypes, Types, TypesKeep, FinalBegins, FinalLoadSets DEF RowIs, FinalIs
  <1>3. FirstOk' /\ StoreAlone' /\ StoreOk' /\ GoneOk'
    BY <1>1, FieldTypes, FinalBegins, FinalLoadSets, QueueSet DEF FilesIInv, FirstOk, StoreAlone,
      StoreOk, GoneOk, Ext, RowIs, FinalIs
  <1>4. JobsOk' /\ MetOk' /\ CopiedOk' /\ DrawnOk'
    BY <1>1, FieldTypes, FinalBegins, FinalLoadSets DEF FilesIInv, JobsOk, MetOk, StoreAlone,
      Active, CopiedOk, GoneOk, VersionsOk, FirstOk, ConvertOk, DrawnOk, Pending, Ext, RowIs, FinalIs
  <1>5. VersionsOk' /\ EndOk' /\ ConvertOk' /\ ShownOk'
    BY <1>1, FieldTypes, FinalBegins, FinalLoadSets DEF FilesIInv, VersionsOk, StoreAlone, StoreOk,
      CopiedOk, EndOk, ConvertOk, MetOk, Active, GoneOk, JobsOk, FirstOk, ShownOk, Pending, CoverOk,
      Ext, RowIs, FinalIs
  <1>6. SourceOk' /\ CoverOk' /\ JobOk'
    BY <1>1, FieldTypes, FinalBegins, FinalLoadSets DEF FilesIInv, SourceOk, CopiedOk, DrawnOk,
      ConvertOk, Pending, JobsOk, MetOk, Active, GoneOk, StoreAlone, StoreOk, FirstOk, CoverOk,
      ShownOk, JobOk, HasJob, EndOk, VersionsOk, Ext, RowIs, FinalIs
  <1> QED
    BY <1>2, <1>3, <1>4, <1>5, <1>6 DEF FilesIInv

\* The conversion.
LEMMA ConversionKeeps ==
    ASSUME FilesIInv, FinalConvert \/ FinalRename \/ FinalUndo \/ FinalUnlink
    PROVE  FilesIInv'
  <1>1. TypeOK /\ IsFiniteSet(covers) /\ JobsOk
    BY DEF FilesIInv
  <1>2. TypeOK' /\ IsFiniteSet(covers')
    BY <1>1, FieldTypes, Types, TypesKeep, FinalConvertSets, FinalRenameSets, FinalUndoSets,
      FinalUnlinkSets DEF RowIs, FinalIs
  <1>3. FirstOk' /\ StoreAlone' /\ StoreOk' /\ GoneOk'
    BY <1>1, FieldTypes, FinalConvertSets, FinalRenameSets, FinalUndoSets,
      FinalUnlinkSets DEF FilesIInv, FirstOk, StoreAlone, StoreOk, GoneOk, Ext, RowIs, FinalIs
  <1>4. JobsOk' /\ MetOk' /\ CopiedOk' /\ DrawnOk'
    BY <1>1, FieldTypes, FinalConvertSets, FinalRenameSets, FinalUndoSets,
      FinalUnlinkSets DEF FilesIInv, JobsOk, MetOk, StoreAlone, Active, CopiedOk, GoneOk,
      VersionsOk, FirstOk, ConvertOk, DrawnOk, Pending, Ext, RowIs, FinalIs
  <1>5. VersionsOk' /\ EndOk' /\ ConvertOk' /\ ShownOk'
    BY <1>1, FieldTypes, FinalConvertSets, FinalRenameSets, FinalUndoSets,
      FinalUnlinkSets DEF FilesIInv, VersionsOk, StoreAlone, StoreOk, CopiedOk, EndOk, ConvertOk,
      MetOk, Active, GoneOk, JobsOk, FirstOk, ShownOk, Pending, CoverOk, Ext, RowIs, FinalIs
  <1>6. SourceOk' /\ CoverOk' /\ JobOk'
    BY <1>1, FieldTypes, FinalConvertSets, FinalRenameSets, FinalUndoSets,
      FinalUnlinkSets DEF FilesIInv, SourceOk, CopiedOk, DrawnOk, ConvertOk, Pending, JobsOk, MetOk,
      Active, GoneOk, StoreAlone, StoreOk, FirstOk, CoverOk, ShownOk, JobOk, HasJob, EndOk,
      VersionsOk, Ext, RowIs, FinalIs
  <1> QED
    BY <1>2, <1>3, <1>4, <1>5, <1>6 DEF FilesIInv

\* The path of the row is switched.
LEMMA FinalSwitchKeeps ==
    ASSUME FilesIInv, FinalSwitch
    PROVE  FilesIInv'
  <1>1. TypeOK /\ IsFiniteSet(covers) /\ JobsOk
    BY DEF FilesIInv
  <1>2. TypeOK' /\ IsFiniteSet(covers')
    BY <1>1, FieldTypes, Types, TypesKeep, FinalSwitchSets DEF RowIs, FinalIs
  <1>3. FirstOk' /\ StoreAlone' /\ StoreOk' /\ GoneOk'
    BY <1>1, FieldTypes, FinalSwitchSets DEF FilesIInv, FirstOk, StoreAlone, StoreOk, GoneOk, Ext,
      RowIs, FinalIs
  <1>4. JobsOk' /\ MetOk' /\ CopiedOk' /\ DrawnOk'
    BY <1>1, FieldTypes, FinalSwitchSets DEF FilesIInv, JobsOk, MetOk, StoreAlone, Active, CopiedOk,
      GoneOk, VersionsOk, FirstOk, ConvertOk, DrawnOk, Pending, Ext, RowIs, FinalIs
  <1>5. VersionsOk' /\ EndOk' /\ ConvertOk' /\ ShownOk'
    BY <1>1, FieldTypes, FinalSwitchSets DEF FilesIInv, VersionsOk, StoreAlone, StoreOk, CopiedOk,
      EndOk, ConvertOk, MetOk, Active, GoneOk, JobsOk, FirstOk, ShownOk, Pending, CoverOk, Ext,
      RowIs, FinalIs
  <1>6. SourceOk' /\ CoverOk' /\ JobOk'
    BY <1>1, FieldTypes, FinalSwitchSets DEF FilesIInv, SourceOk, CopiedOk, DrawnOk, ConvertOk,
      Pending, JobsOk, MetOk, Active, GoneOk, StoreAlone, StoreOk, FirstOk, CoverOk, ShownOk, JobOk,
      HasJob, EndOk, VersionsOk, Ext, RowIs, FinalIs
  <1> QED
    BY <1>2, <1>3, <1>4, <1>5, <1>6 DEF FilesIInv

\* The cover of the finalization.
LEMMA FinalDrawKeeps ==
    ASSUME FilesIInv, FinalDraw
    PROVE  FilesIInv'
  <1>1. TypeOK /\ IsFiniteSet(covers) /\ JobsOk
    BY DEF FilesIInv
  <1>2. TypeOK' /\ IsFiniteSet(covers')
    BY <1>1, FieldTypes, Types, TypesKeep, FinalDrawSets DEF RowIs, FinalIs
  <1>3. FirstOk' /\ StoreAlone' /\ StoreOk' /\ GoneOk'
    BY <1>1, FieldTypes, FinalDrawSets DEF FilesIInv, FirstOk, StoreAlone, StoreOk, GoneOk, Ext,
      RowIs, FinalIs
  <1>4. JobsOk' /\ MetOk' /\ CopiedOk' /\ DrawnOk'
    BY <1>1, FieldTypes, FinalDrawSets DEF FilesIInv, JobsOk, MetOk, StoreAlone, Active, CopiedOk,
      GoneOk, VersionsOk, FirstOk, ConvertOk, DrawnOk, Pending, Ext, RowIs, FinalIs
  <1>5. VersionsOk' /\ EndOk' /\ ConvertOk' /\ ShownOk'
    BY <1>1, FieldTypes, FinalDrawSets DEF FilesIInv, VersionsOk, StoreAlone, StoreOk, CopiedOk,
      EndOk, ConvertOk, MetOk, Active, GoneOk, JobsOk, FirstOk, ShownOk, Pending, CoverOk, Ext,
      RowIs, FinalIs
  <1>6. SourceOk' /\ CoverOk' /\ JobOk'
    BY <1>1, FieldTypes, FinalDrawSets DEF FilesIInv, SourceOk, CopiedOk, DrawnOk, ConvertOk,
      Pending, JobsOk, MetOk, Active, GoneOk, StoreAlone, StoreOk, FirstOk, CoverOk, ShownOk, JobOk,
      HasJob, EndOk, VersionsOk, Ext, RowIs, FinalIs
  <1> QED
    BY <1>2, <1>3, <1>4, <1>5, <1>6 DEF FilesIInv

\* The finalization ends.
LEMMA FinalFinishKeeps ==
    ASSUME FilesIInv, FinalFinish
    PROVE  FilesIInv'
  <1>1. TypeOK /\ IsFiniteSet(covers) /\ JobsOk
    BY DEF FilesIInv
  <1>2. TypeOK' /\ IsFiniteSet(covers')
    BY <1>1, FieldTypes, Types, TypesKeep, FinalFinishSets DEF RowIs, FinalIs
  <1>3. FirstOk' /\ StoreAlone' /\ StoreOk' /\ GoneOk'
    BY <1>1, FieldTypes, FinalFinishSets DEF FilesIInv, FirstOk, StoreAlone, StoreOk, GoneOk, Ext,
      RowIs, FinalIs
  <1>4. JobsOk' /\ MetOk' /\ CopiedOk' /\ DrawnOk'
    BY <1>1, FieldTypes, FinalFinishSets DEF FilesIInv, JobsOk, MetOk, StoreAlone, Active, CopiedOk,
      GoneOk, VersionsOk, FirstOk, ConvertOk, DrawnOk, Pending, Ext, RowIs, FinalIs
  <1>5. VersionsOk' /\ EndOk' /\ ConvertOk' /\ ShownOk'
    BY <1>1, FieldTypes, FinalFinishSets DEF FilesIInv, VersionsOk, StoreAlone, StoreOk, CopiedOk,
      EndOk, ConvertOk, MetOk, Active, GoneOk, JobsOk, FirstOk, ShownOk, Pending, CoverOk, Ext,
      RowIs, FinalIs
  <1>6. SourceOk' /\ CoverOk' /\ JobOk'
    BY <1>1, FieldTypes, FinalFinishSets DEF FilesIInv, SourceOk, CopiedOk, DrawnOk, ConvertOk,
      Pending, JobsOk, MetOk, Active, GoneOk, StoreAlone, StoreOk, FirstOk, CoverOk, ShownOk, JobOk,
      HasJob, EndOk, VersionsOk, Ext, RowIs, FinalIs
  <1> QED
    BY <1>2, <1>3, <1>4, <1>5, <1>6 DEF FilesIInv

\* A finalization that failed.
LEMMA FinalThrowKeeps ==
    ASSUME FilesIInv, FinalThrow
    PROVE  FilesIInv'
  <1>1. TypeOK /\ IsFiniteSet(covers) /\ JobsOk
    BY DEF FilesIInv
  <1>2. TypeOK' /\ IsFiniteSet(covers')
    BY <1>1, FieldTypes, Types, TypesKeep, FinalThrowSets DEF RowIs, FinalIs
  <1>3. FirstOk' /\ StoreAlone' /\ StoreOk' /\ GoneOk'
    BY <1>1, FieldTypes, FinalThrowSets DEF FilesIInv, FirstOk, StoreAlone, StoreOk, GoneOk, Ext,
      RowIs, FinalIs
  <1>4. JobsOk' /\ MetOk' /\ CopiedOk' /\ DrawnOk'
    BY <1>1, FieldTypes, FinalThrowSets DEF FilesIInv, JobsOk, MetOk, StoreAlone, Active, CopiedOk,
      GoneOk, VersionsOk, FirstOk, ConvertOk, DrawnOk, Pending, Ext, RowIs, FinalIs
  <1>5. VersionsOk' /\ EndOk' /\ ConvertOk' /\ ShownOk'
    BY <1>1, FieldTypes, FinalThrowSets DEF FilesIInv, VersionsOk, StoreAlone, StoreOk, CopiedOk,
      EndOk, ConvertOk, MetOk, Active, GoneOk, JobsOk, FirstOk, ShownOk, Pending, CoverOk, Ext,
      RowIs, FinalIs
  <1>6. SourceOk' /\ CoverOk' /\ JobOk'
    BY <1>1, FieldTypes, FinalThrowSets DEF FilesIInv, SourceOk, CopiedOk, DrawnOk, ConvertOk,
      Pending, JobsOk, MetOk, Active, GoneOk, StoreAlone, StoreOk, FirstOk, CoverOk, ShownOk, JobOk,
      HasJob, EndOk, VersionsOk, Ext, RowIs, FinalIs
  <1> QED
    BY <1>2, <1>3, <1>4, <1>5, <1>6 DEF FilesIInv

\* The acknowledgement.
LEMMA FinalAckKeeps ==
    ASSUME FilesIInv, FinalAck
    PROVE  FilesIInv'
  <1>1. TypeOK /\ IsFiniteSet(covers) /\ JobsOk
    BY DEF FilesIInv
  <1>2. TypeOK' /\ IsFiniteSet(covers')
    BY <1>1, FieldTypes, FS_EmptySet DEF TypeOK, Spend, Kinds, FinalAck, disk, stream, history, Finals
  <1>3. FirstOk' /\ StoreAlone' /\ StoreOk' /\ GoneOk'
    BY <1>1, FieldTypes DEF FilesIInv, FirstOk, StoreAlone, StoreOk, GoneOk, Ext, FinalAck, disk,
      stream, history, Finals
  <1>4. JobsOk' /\ MetOk' /\ CopiedOk' /\ DrawnOk'
    BY <1>1, FieldTypes DEF FilesIInv, JobsOk, MetOk, StoreAlone, Active, CopiedOk, GoneOk,
      VersionsOk, FirstOk, ConvertOk, DrawnOk, Pending, Ext, FinalAck, disk, stream, history, Finals
  <1>5. VersionsOk' /\ EndOk' /\ ConvertOk' /\ ShownOk'
    BY <1>1, FieldTypes DEF FilesIInv, VersionsOk, StoreAlone, StoreOk, CopiedOk, EndOk, ConvertOk,
      MetOk, Active, GoneOk, JobsOk, FirstOk, ShownOk, Pending, CoverOk, Ext, FinalAck, disk,
      stream, history, Finals
  <1>6. SourceOk' /\ CoverOk' /\ JobOk'
    BY <1>1, FieldTypes DEF FilesIInv, SourceOk, CopiedOk, DrawnOk, ConvertOk, Pending, JobsOk,
      MetOk, Active, GoneOk, StoreAlone, StoreOk, FirstOk, CoverOk, ShownOk, JobOk, HasJob, EndOk,
      VersionsOk, Ext, FinalAck, disk, stream, history, Finals
  <1> QED
    BY <1>2, <1>3, <1>4, <1>5, <1>6 DEF FilesIInv

\* Those who only look.
LEMMA AsideKeeps ==
    ASSUME FilesIInv, DeleteBegin \/ SweepList \/ SweepAsk
    PROVE  FilesIInv'
  <1>1. TypeOK /\ IsFiniteSet(covers) /\ JobsOk
    BY DEF FilesIInv
  <1>2. TypeOK' /\ IsFiniteSet(covers')
    <2>1. CASE DeleteBegin
      <3>1. delete' \in [at : {"row", "file", "dir"}, path : Path]
        BY <1>1, <2>1, FieldTypes DEF DeleteBegin
      <3>2. budget' \in [Kinds -> Nat]
        BY <1>1, <2>1, SpendKeeps DEF DeleteBegin, Kinds
      <3> QED
        BY <1>1, <2>1, <3>1, <3>2 DEF TypeOK, DeleteBegin, disk, stream
    <2>2. CASE SweepList
      <3>1. sweep' \in [at : {"ask", "rm"}, found : SUBSET (Ext \union {"dir"})]
        <4>1. OnDisk \in SUBSET (Ext \union {"dir"})
          BY DEF OnDisk
        <4> QED
          BY <2>2, <4>1 DEF SweepList
      <3>2. budget' \in [Kinds -> Nat]
        BY <1>1, <2>2, SpendKeeps DEF TypeOK, SweepList, Kinds
      <3> QED
        BY <1>1, <2>2, <3>1, <3>2 DEF TypeOK, SweepList, disk, stream
    <2>3. CASE SweepAsk
      <3>1. sweep' \in [at : {"ask", "rm"}, found : SUBSET (Ext \union {"dir"})] \union {Null}
        BY <1>1, <2>3 DEF TypeOK, SweepAsk
      <3> QED
        BY <1>1, <2>3, <3>1 DEF TypeOK, SweepAsk, disk, stream, history
    <2> QED
      BY <2>1, <2>2, <2>3
  <1>3. FirstOk' /\ StoreAlone' /\ StoreOk' /\ GoneOk'
    BY <1>1, FieldTypes DEF FilesIInv, FirstOk, StoreAlone, StoreOk, GoneOk, Ext, DeleteBegin,
      SweepList, SweepAsk, disk, stream, history, OnDisk
  <1>4. JobsOk' /\ MetOk' /\ CopiedOk' /\ DrawnOk'
    BY <1>1, FieldTypes DEF FilesIInv, JobsOk, MetOk, StoreAlone, Active, CopiedOk, GoneOk,
      VersionsOk, FirstOk, ConvertOk, DrawnOk, Pending, Ext, DeleteBegin, SweepList, SweepAsk, disk, stream,
      history
  <1>5. VersionsOk' /\ EndOk' /\ ConvertOk' /\ ShownOk'
    BY <1>1, FieldTypes DEF FilesIInv, VersionsOk, StoreAlone, StoreOk, CopiedOk, EndOk, ConvertOk,
      MetOk, Active, GoneOk, JobsOk, FirstOk, ShownOk, Pending, CoverOk, Ext, DeleteBegin,
      SweepList, SweepAsk, disk, stream, history
  <1>6. SourceOk' /\ CoverOk' /\ JobOk'
    BY <1>1, FieldTypes DEF FilesIInv, SourceOk, CopiedOk, DrawnOk, ConvertOk, Pending, JobsOk,
      MetOk, Active, GoneOk, StoreAlone, StoreOk, FirstOk, CoverOk, ShownOk, JobOk, HasJob, EndOk,
      VersionsOk, Ext, DeleteBegin, SweepList, SweepAsk, disk, stream, history
  <1> QED
    BY <1>2, <1>3, <1>4, <1>5, <1>6 DEF FilesIInv

\* Those who remove what has no row any more.
LEMMA GoneKeeps ==
    ASSUME FilesIInv, DeleteRow \/ DeleteFile \/ DeleteDir \/ SweepRemove
    PROVE  FilesIInv'
  <1>1. TypeOK /\ IsFiniteSet(covers) /\ JobsOk
    BY DEF FilesIInv
  <1>2. TypeOK' /\ IsFiniteSet(covers')
    <2>1. file' \in [Ext -> Nat]
      BY <1>1 DEF TypeOK, DeleteRow, DeleteFile, DeleteDir, SweepRemove, disk
    <2>5. covers' \in {covers, {}} /\ row' \in {row, Null}
      BY DEF DeleteRow, DeleteFile, DeleteDir, SweepRemove, disk
    <2>6. covers' \subseteq Nat /\ IsFiniteSet(covers')
      BY <1>1, <2>5, FS_EmptySet DEF TypeOK
    <2>2. delete' \in [at : {"row", "file", "dir"}, path : Path] \union {Null}
      BY <1>1 DEF TypeOK, DeleteRow, DeleteFile, DeleteDir, SweepRemove
    <2>3. sweep' \in {sweep, Null}
      BY DEF DeleteRow, DeleteFile, DeleteDir, SweepRemove
    <2>4. UNCHANGED <<store, replace, lost, queue, retry, final, content, met, failed, budget>>
      BY DEF DeleteRow, DeleteFile, DeleteDir, SweepRemove, stream, history
    <2> QED
      BY <1>1, <2>1, <2>2, <2>3, <2>4, <2>5, <2>6 DEF TypeOK
  <1>3. FirstOk' /\ StoreAlone' /\ StoreOk' /\ GoneOk'
    BY <1>1, FieldTypes DEF FilesIInv, FirstOk, StoreAlone, StoreOk, GoneOk, Ext, DeleteRow,
      DeleteFile, DeleteDir, SweepRemove, disk, stream, history
  <1>4. JobsOk' /\ MetOk' /\ CopiedOk' /\ DrawnOk'
    BY <1>1, FieldTypes DEF FilesIInv, JobsOk, MetOk, StoreAlone, Active, CopiedOk, GoneOk,
      VersionsOk, FirstOk, ConvertOk, DrawnOk, Pending, Ext, DeleteRow, DeleteFile, DeleteDir, SweepRemove,
      disk, stream, history
  <1>5. VersionsOk' /\ EndOk' /\ ConvertOk' /\ ShownOk'
    BY <1>1, FieldTypes DEF FilesIInv, VersionsOk, StoreAlone, StoreOk, CopiedOk, EndOk, ConvertOk,
      MetOk, Active, GoneOk, JobsOk, FirstOk, ShownOk, Pending, CoverOk, Ext, DeleteRow, DeleteFile,
      DeleteDir, SweepRemove, disk, stream, history
  <1>6. SourceOk' /\ CoverOk' /\ JobOk'
    BY <1>1, FieldTypes DEF FilesIInv, SourceOk, CopiedOk, DrawnOk, ConvertOk, Pending, JobsOk,
      MetOk, Active, GoneOk, StoreAlone, StoreOk, FirstOk, CoverOk, ShownOk, JobOk, HasJob, EndOk,
      VersionsOk, Ext, DeleteRow, DeleteFile, DeleteDir, SweepRemove, disk, stream, history
  <1> QED
    BY <1>2, <1>3, <1>4, <1>5, <1>6 DEF FilesIInv

\* The worker stops: what it was doing is pending.
LEMMA WorkerCrashKeeps ==
    ASSUME FilesIInv, WorkerCrash
    PROVE  FilesIInv'
  <1>1. TypeOK /\ IsFiniteSet(covers) /\ JobsOk
    BY DEF FilesIInv
  <1>2. TypeOK' /\ IsFiniteSet(covers')
    <2>1. budget' \in [Kinds -> Nat]
      BY <1>1, SpendKeeps DEF WorkerCrash, Kinds
    <2>2. lost' \subseteq Replacement /\ retry' \subseteq Entry
      BY <1>1, FieldTypes, Types DEF WorkerCrash
    <2> QED
      BY <1>1, <2>1, <2>2 DEF TypeOK, WorkerCrash, disk
  <1>3. FirstOk' /\ StoreAlone' /\ StoreOk' /\ GoneOk'
    BY <1>1, FieldTypes DEF FilesIInv, FirstOk, StoreAlone, StoreOk, GoneOk, Ext, WorkerCrash, disk,
      stream, history
  <1>4. JobsOk' /\ MetOk' /\ CopiedOk' /\ DrawnOk'
    BY <1>1, FieldTypes DEF FilesIInv, JobsOk, MetOk, StoreAlone, Active, CopiedOk, GoneOk,
      VersionsOk, FirstOk, ConvertOk, DrawnOk, Pending, Ext, WorkerCrash, disk, stream, history
  <1>5. VersionsOk' /\ EndOk' /\ ConvertOk' /\ ShownOk'
    BY <1>1, FieldTypes DEF FilesIInv, VersionsOk, StoreAlone, StoreOk, CopiedOk, EndOk, ConvertOk,
      MetOk, Active, GoneOk, JobsOk, FirstOk, ShownOk, Pending, CoverOk, Ext, WorkerCrash, disk,
      stream, history
  <1>6. SourceOk' /\ CoverOk' /\ JobOk'
    BY <1>1, FieldTypes DEF FilesIInv, SourceOk, CopiedOk, DrawnOk, ConvertOk, Pending, JobsOk,
      MetOk, Active, GoneOk, StoreAlone, StoreOk, FirstOk, CoverOk, ShownOk, JobOk, HasJob, EndOk,
      VersionsOk, Ext, WorkerCrash, disk, stream, history
  <1> QED
    BY <1>2, <1>3, <1>4, <1>5, <1>6 DEF FilesIInv

\* The server stops.
LEMMA ServerCrashKeeps ==
    ASSUME FilesIInv, ServerCrash
    PROVE  FilesIInv'
  <1>1. TypeOK /\ IsFiniteSet(covers) /\ JobsOk
    BY DEF FilesIInv
  <1>2. TypeOK' /\ IsFiniteSet(covers')
    <2>1. budget' \in [Kinds -> Nat]
      BY <1>1, SpendKeeps DEF ServerCrash, Kinds
    <2>2. store' \in Store
      BY <1>1, FieldTypes DEF ServerCrash, Store
    <2> QED
      BY <1>1, <2>1, <2>2 DEF TypeOK, ServerCrash, disk, stream
  <1>3. FirstOk' /\ StoreAlone' /\ StoreOk' /\ GoneOk'
    BY <1>1, FieldTypes DEF FilesIInv, FirstOk, StoreAlone, StoreOk, GoneOk, Ext, ServerCrash, disk,
      stream, history
  <1>4. JobsOk' /\ MetOk' /\ CopiedOk' /\ DrawnOk'
    BY <1>1, FieldTypes DEF FilesIInv, JobsOk, MetOk, StoreAlone, Active, CopiedOk, GoneOk,
      VersionsOk, FirstOk, ConvertOk, DrawnOk, Pending, Ext, ServerCrash, disk, stream, history
  <1>5. VersionsOk' /\ EndOk' /\ ConvertOk' /\ ShownOk'
    BY <1>1, FieldTypes DEF FilesIInv, VersionsOk, StoreAlone, StoreOk, CopiedOk, EndOk, ConvertOk,
      MetOk, Active, GoneOk, JobsOk, FirstOk, ShownOk, Pending, CoverOk, Ext, ServerCrash, disk,
      stream, history
  <1>6. SourceOk' /\ CoverOk' /\ JobOk'
    BY <1>1, FieldTypes DEF FilesIInv, SourceOk, CopiedOk, DrawnOk, ConvertOk, Pending, JobsOk,
      MetOk, Active, GoneOk, StoreAlone, StoreOk, FirstOk, CoverOk, ShownOk, JobOk, HasJob, EndOk,
      VersionsOk, Ext, ServerCrash, disk, stream, history
  <1> QED
    BY <1>2, <1>3, <1>4, <1>5, <1>6 DEF FilesIInv

\* A replacement fails: from then on the failure explains what it left.
LEMMA ReplaceFailKeeps ==
    ASSUME FilesIInv, ReplaceFail
    PROVE  FilesIInv'
  <1>1. TypeOK /\ IsFiniteSet(covers) /\ JobsOk
    BY DEF FilesIInv
  <1>2. TypeOK' /\ IsFiniteSet(covers')
    BY <1>1, Types, TypesKeep, ReplaceFailSets
  <1>3. FirstOk' /\ StoreAlone' /\ StoreOk' /\ GoneOk'
    BY <1>1, FieldTypes, ReplaceFailSets DEF FilesIInv, FirstOk, StoreAlone, StoreOk, GoneOk, Ext
  <1>4. JobsOk' /\ MetOk' /\ CopiedOk' /\ DrawnOk'
    BY <1>1, FieldTypes, ReplaceFailSets DEF FilesIInv, JobsOk, MetOk, StoreAlone, Active, CopiedOk, GoneOk,
      VersionsOk, FirstOk, ConvertOk, DrawnOk, Pending, Ext
  <1>5. VersionsOk' /\ EndOk' /\ ConvertOk' /\ ShownOk'
    BY <1>1, FieldTypes, ReplaceFailSets DEF FilesIInv, VersionsOk, StoreAlone, StoreOk, CopiedOk, EndOk,
      ConvertOk, MetOk, Active, GoneOk, JobsOk, FirstOk, ShownOk, Pending, CoverOk, Ext
  <1>6. SourceOk' /\ CoverOk' /\ JobOk'
    BY <1>1, FieldTypes, ReplaceFailSets DEF FilesIInv, SourceOk, CopiedOk, DrawnOk, ConvertOk, Pending,
      JobsOk, MetOk, Active, GoneOk, StoreAlone, StoreOk, FirstOk, CoverOk, ShownOk, JobOk, HasJob,
      EndOk, VersionsOk, Ext
  <1> QED
    BY <1>2, <1>3, <1>4, <1>5, <1>6 DEF FilesIInv

\* The upload fails.
LEMMA StoreFailKeeps ==
    ASSUME FilesIInv, StoreFail
    PROVE  FilesIInv'
  <1>1. TypeOK /\ IsFiniteSet(covers) /\ JobsOk
    BY DEF FilesIInv
  <1>2. TypeOK' /\ IsFiniteSet(covers')
    <2>1. budget' \in [Kinds -> Nat]
      BY <1>1, SpendKeeps DEF StoreFail, Kinds
    <2>2. store' \in Store
      BY <1>1, FieldTypes DEF StoreFail, Store
    <2> QED
      BY <1>1, <2>1, <2>2 DEF TypeOK, StoreFail, disk, stream
  <1>3. FirstOk' /\ StoreAlone' /\ StoreOk' /\ GoneOk'
    BY <1>1, FieldTypes DEF FilesIInv, FirstOk, StoreAlone, StoreOk, GoneOk, Ext, StoreFail, disk, stream
  <1>4. JobsOk' /\ MetOk' /\ CopiedOk' /\ DrawnOk'
    BY <1>1, FieldTypes DEF FilesIInv, JobsOk, MetOk, StoreAlone, Active, CopiedOk, GoneOk,
      VersionsOk, FirstOk, ConvertOk, DrawnOk, Pending, Ext, StoreFail, disk, stream
  <1>5. VersionsOk' /\ EndOk' /\ ConvertOk' /\ ShownOk'
    BY <1>1, FieldTypes DEF FilesIInv, VersionsOk, StoreAlone, StoreOk, CopiedOk, EndOk,
      ConvertOk, MetOk, Active, GoneOk, JobsOk, FirstOk, ShownOk, Pending, CoverOk, Ext, StoreFail, disk, stream
  <1>6. SourceOk' /\ CoverOk' /\ JobOk'
    BY <1>1, FieldTypes DEF FilesIInv, SourceOk, CopiedOk, DrawnOk, ConvertOk, Pending,
      JobsOk, MetOk, Active, GoneOk, StoreAlone, StoreOk, FirstOk, CoverOk, ShownOk, JobOk, HasJob,
      EndOk, VersionsOk, Ext, StoreFail, disk, stream
  <1> QED
    BY <1>2, <1>3, <1>4, <1>5, <1>6 DEF FilesIInv

LEMMA StutterKeeps ==
    ASSUME FilesIInv, UNCHANGED vars
    PROVE  FilesIInv'
  <1> USE DEF vars
  <1>1. TypeOK' /\ IsFiniteSet(covers')
    BY DEF FilesIInv, TypeOK
  <1>2. FirstOk' /\ StoreAlone' /\ StoreOk' /\ GoneOk'
    BY DEF FilesIInv, FirstOk, StoreAlone, StoreOk, GoneOk
  <1>3. JobsOk' /\ MetOk' /\ CopiedOk' /\ DrawnOk'
    BY DEF FilesIInv, JobsOk, MetOk, CopiedOk, DrawnOk, Active, Pending
  <1>4. VersionsOk' /\ EndOk' /\ ConvertOk' /\ ShownOk'
    BY DEF FilesIInv, VersionsOk, EndOk, ConvertOk, ShownOk, Active, Pending
  <1>5. SourceOk' /\ CoverOk' /\ JobOk'
    BY DEF FilesIInv, SourceOk, CoverOk, JobOk, Pending, HasJob
  <1> QED
    BY <1>1, <1>2, <1>3, <1>4, <1>5 DEF FilesIInv

-----------------------------------------------------------------------------
(* The theorems *)

LEMMA FilesIInvInit == Init => FilesIInv
  <1> SUFFICES ASSUME Init PROVE FilesIInv
    OBVIOUS
  <1>1. TypeOK
    <2>1. store \in Store
      BY DEF Init, Store
    <2>2. file \in [Ext -> Nat] /\ budget \in [Kinds -> Nat]
      BY BudgetAssumption DEF Init
    <2>3. queue \in Seq(Nat)
      BY EmptySeq DEF Init
    <2> QED
      BY <2>1, <2>2, <2>3 DEF Init, TypeOK
  <1>2. IsFiniteSet(covers)
    BY FS_EmptySet DEF Init
  <1>3. FirstOk /\ StoreAlone /\ StoreOk /\ GoneOk
    BY <1>1, FieldTypes DEF Init, FirstOk, StoreAlone, StoreOk, GoneOk
  <1>4. JobsOk /\ MetOk /\ CopiedOk /\ DrawnOk /\ VersionsOk /\ EndOk /\ ConvertOk /\ ShownOk
    BY DEF Init, JobsOk, MetOk, CopiedOk, DrawnOk, VersionsOk, EndOk, ConvertOk, ShownOk, Active
  <1>5. SourceOk /\ CoverOk /\ JobOk
    BY DEF Init, SourceOk, CoverOk, JobOk
  <1> QED
    BY <1>1, <1>2, <1>3, <1>4, <1>5 DEF FilesIInv

LEMMA FilesIInvNext == FilesIInv /\ [Next]_vars => FilesIInv'
  <1> SUFFICES ASSUME FilesIInv, [Next]_vars PROVE FilesIInv'
    OBVIOUS
  <1>1. TypeOK /\ JobsOk
    BY DEF FilesIInv
  <1>2. CASE Insert \/ Storing
    BY <1>2, StoringKeeps DEF Storing
  <1>3. ASSUME NEW kind \in {"file", "both"}, NEW ext \in Ext, ReplaceFile(kind, ext) PROVE FilesIInv'
    <2> DEFINE job == [kind |-> kind, ext |-> ext, content |-> content + 1]
    <2>1. job \in Replacement /\ job.ext \in Ext /\ content' \in Nat
      BY <1>1, <1>3 DEF Replacement, Path, ReplaceFile, TypeOK
    <2>2. Take(job) /\ lost' = lost /\ budget' \in [Kinds -> Nat]
      BY <1>1, <1>3, SpendKeeps DEF ReplaceFile, Kinds
    <2> HIDE DEF job
    <2> QED
      BY <2>1, <2>2, TakeKeeps
  <1>4. ASSUME NEW kind \in {"art", "lyrics"}, ReplaceOther(kind) PROVE FilesIInv'
    <2> DEFINE job == [kind |-> kind, ext |-> "none", content |-> 0]
    <2>1. job \in Replacement /\ ~BringsFile(job)
      BY <1>4 DEF Replacement, Path
    <2>2. Take(job) /\ lost' = lost /\ content' \in Nat /\ budget' \in [Kinds -> Nat]
      BY <1>1, <1>4, SpendKeeps DEF ReplaceOther, Kinds, TypeOK
    <2> HIDE DEF job
    <2> QED
      BY <2>1, <2>2, TakeKeeps
  <1>5. CASE ReplaceAgain
    <2>1. PICK job \in lost : lost' = lost \ {job} /\ Take(job) /\ UNCHANGED <<content, budget>>
      BY <1>5 DEF ReplaceAgain
    <2>2. /\ job \in Replacement /\ (BringsFile(job) => job.ext \in Ext)
          /\ content' \in Nat /\ budget' \in [Kinds -> Nat]
      BY <1>1, <2>1 DEF TypeOK, JobsOk
    <2> QED
      BY <2>1, <2>2, TakeKeeps
  <1>6. CASE ReplaceCopy \/ ReplaceUnlink \/ ReplaceDir \/ ReplaceHand \/ ReplaceUnlinkArt
    BY <1>6, ReplaceDiskKeeps
  <1>7. CASE ReplaceDraw \/ ReplaceRow
    BY <1>7, ReplaceDrawKeeps, ReplaceRowKeeps
  <1>8. CASE FinalRead \/ FinalClaim \/ FinalLoad
    BY <1>8, FinalBeginKeeps
  <1>9. CASE FinalConvert \/ FinalRename \/ FinalUndo \/ FinalUnlink
    BY <1>9, ConversionKeeps
  <1>10. CASE FinalSwitch \/ FinalDraw \/ FinalFinish \/ FinalThrow \/ FinalAck
    BY <1>10, FinalSwitchKeeps, FinalDrawKeeps, FinalFinishKeeps, FinalThrowKeeps, FinalAckKeeps
  <1>11. CASE DeleteBegin \/ SweepList \/ SweepAsk
    BY <1>11, AsideKeeps
  <1>12. CASE DeleteRow \/ DeleteFile \/ DeleteDir \/ SweepRemove
    BY <1>12, GoneKeeps
  <1>13. CASE WorkerCrash \/ ServerCrash
    BY <1>13, WorkerCrashKeeps, ServerCrashKeeps
  <1>15. CASE ReplaceFail \/ StoreFail
    BY <1>15, ReplaceFailKeeps, StoreFailKeeps
  <1>14. CASE UNCHANGED vars
    BY <1>14, StutterKeeps
  <1> QED
    BY <1>2, <1>3, <1>4, <1>5, <1>6, <1>7, <1>8, <1>9, <1>10, <1>11, <1>12, <1>13, <1>14, <1>15
       DEF Next, Replace, Finalize, Delete, Sweep

\* The invariant, for any number of replacements, deliveries and crashes and any
\* number of attempts.
THEOREM FilesInvariant == Spec => []FilesIInv
  BY FilesIInvInit, FilesIInvNext, PTL DEF Spec

\* Whoever stopped where and however often a job was delivered again: in every
\* settled state the file and the cover that the row names are there, the file
\* with what was uploaded last, and a version that is not done has a job
\* (media-finalization-worker.js:74).
THEOREM FilesAreThere == Spec => []FilesInv
  <1>1. FilesIInv => FilesInv
    <2> SUFFICES ASSUME FilesIInv PROVE FilesInv
      OBVIOUS
    <2>1. Settled => ~Pending /\ row # Null /\ replace = Null
      BY DEF Settled, Pending
    <2>2. TypeOK
      BY DEF FilesIInv
    <2>3. SourceIsThere
      BY <2>1 DEF FilesIInv, SourceOk, SourceIsThere
    <2>4. CoverIsThere
      BY <2>1 DEF FilesIInv, CoverOk, CoverIsThere
    <2>5. \A v : v \in ToSet(queue) => Contains(queue, v)
      BY <2>2, LenProperties DEF TypeOK, ToSet, Contains
    <2>6. UnfinishedHasJob
      BY <2>1, <2>5 DEF FilesIInv, JobOk, HasJob, UnfinishedHasJob
    <2> QED
      BY <2>2, <2>3, <2>4, <2>6 DEF FilesInv
  <1> QED
    BY <1>1, FilesInvariant, PTL

\* The sweep for orphaned files removes nothing of a medium that has a row: the
\* answer that there is none cannot become false before the removal, although
\* another process may do anything in between (media-cleanup.js:107).
THEOREM SweepSparesRows == Spec => SweepSparesMedia
  <1>1. FilesIInv => [SweepRemove => row = Null]_vars
    BY DEF FilesIInv, GoneOk, SweepRemove
  <1> QED
    BY <1>1, FilesInvariant, PTL DEF SweepSparesMedia
=============================================================================

----------------------- MODULE EncodingPipeline_proofs -----------------------
(***************************************************************************)
(* Proofs about EncodingPipeline: its types, that a rendition which is     *)
(* ready is on the disk and was made from the current source, and that     *)
(* with one worker loop it stays ready until someone asks otherwise.       *)
(*                                                                         *)
(* The first rests on versions: no job, request or row is of a version     *)
(* that the asset has not had, so when the version moves on nothing is     *)
(* known of the new one; and between replacements (Steady) whoever found   *)
(* the version current after encoding has read its source.  The second     *)
(* needs one loop (OneLoop): what a loop has still to do is not ready,     *)
(* because nobody else could have made it so.                              *)
(***************************************************************************)
EXTENDS EncodingPipeline, SequenceTheorems, FiniteSetTheorems, WellFoundedInduction, TLAPS

\* No replacement has written a source whose version the row does not have yet.
Steady == Present /\ change \in {"none", "sweep"}

\* What is under way while the asset changes.
ChangeOk ==
    /\ change \in {"rm", "update"} =>
         version \in Version /\ version + 1 \in Version /\ source = version + 1
    /\ change = "sweep" => Present
    /\ change = "unlink" => ~Present
    /\ Steady => source = version

QualityOk ==
    \A a \in Handler : ask[a] # Null /\ ask[a].at \in {"insert", "add"} => ask[a].quality \in Quality

\* Nobody knows of a version that the asset has not had.
WorkersOk == Present => \A w \in Worker : worker[w] # Null => VersionOf(w) <= version
EntriesOk ==
    Present =>
      /\ \A i \in 1..Len(normal) : normal[i].version <= version
      /\ \A i \in 1..Len(left) : left[i].version <= version
      /\ \A i \in 1..Len(urgent) : urgent[i].version <= version
AsksOk == Present => \A a \in Handler : ask[a] # Null => ask[a].version <= version
RowsOk == Present => \A v \in Version, q \in Quality : v > version => row[v][q] = "none"

\* What a worker that has found its version current has read and moved into place.
EncodedOk ==
    Steady => \A w \in Worker :
        worker[w] # Null /\ VersionOf(w) = version =>
          /\ worker[w].at \in {"check", "rename"} => worker[w].content = version
          /\ worker[w].at = "markReady" =>
               \A q \in Quality : q = Current(w) => file[version][q] = version

ReadyOk ==
    Steady => \A q \in Quality : row[version][q] = "ready" => file[version][q] = version

EncodingIInv ==
    /\ TypeOK /\ ChangeOk
    /\ QualityOk /\ WorkersOk /\ EntriesOk /\ AsksOk /\ RowsOk
    /\ EncodedOk /\ ReadyOk

\* What a loop has still to do is not ready, when there is one loop only.
OneLoop == \A w1, w2 \in Worker : w1 = w2
Encoding == {"encode", "check", "rename", "markReady", "markFailed"}
TodoOk ==
    \A w \in Worker : worker[w] # Null /\ worker[w].at \in Encoding \union {"next"} =>
        \A q \in worker[w].todo : row[VersionOf(w)][q] # "ready"
BusyOk ==
    \A w \in Worker : worker[w] # Null /\ worker[w].at \in Encoding => worker[w].todo # {}

LoopIInv == TodoOk /\ BusyOk

-----------------------------------------------------------------------------
(* What the steps leave *)

Step == {"load", "probe", "next", "encode", "check", "rename", "markReady",
         "markFailed", "throw", "readd", "ack"}

JobIs(w, lane, entry, todo, at, content) ==
    /\ worker' \in [Worker -> Job \union {Null}]
    /\ worker'[w] # Null
    /\ worker'[w].lane = lane /\ worker'[w].entry = entry /\ worker'[w].todo = todo
    /\ worker'[w].at = at /\ worker'[w].content = content
    /\ \A x \in Worker \ {w} : worker'[x] = worker[x]

Goes(w, at) == JobIs(w, worker[w].lane, worker[w].entry, worker[w].todo, at, worker[w].content)

Freed(w) ==
    /\ worker' \in [Worker -> Job \union {Null}]
    /\ worker'[w] = Null
    /\ \A x \in Worker \ {w} : worker'[x] = worker[x]

Finished(w) == Freed(w) \/ Goes(w, "ack")

Moved(v, qs, from, to) ==
    /\ row' \in [Version -> [Quality -> Status \union {"none"}]]
    /\ \A x \in Version, q \in Quality :
          row'[x][q] = IF x = v /\ q \in qs /\ row[x][q] \in from THEN to ELSE row[x][q]

AskIs(a, at, v, q) ==
    /\ ask' \in [Handler -> Asking \union {Null}]
    /\ ask'[a] # Null
    /\ ask'[a].at = at /\ ask'[a].version = v /\ ask'[a].quality = q
    /\ \A b \in Handler \ {a} : ask'[b] = ask[b]

Answered(a) ==
    /\ ask' \in [Handler -> Asking \union {Null}]
    /\ ask'[a] = Null
    /\ \A b \in Handler \ {a} : ask'[b] = ask[b]

Removed ==
    /\ file' \in [Version -> [Quality -> 0..MaxVersion]]
    /\ worker' \in [Worker -> Job \union {Null}]
    /\ \A w \in Worker : worker[w] = Null => worker'[w] = Null
    /\ \A w \in Worker : worker[w] # Null =>
          /\ worker'[w] # Null /\ worker'[w].entry = worker[w].entry
          /\ worker'[w].todo = worker[w].todo /\ worker'[w].at = worker[w].at
          /\ worker'[w].content = worker[w].content

Types ==
    /\ version \in 0..MaxVersion /\ source \in 0..MaxVersion
    /\ row \in [Version -> [Quality -> Status \union {"none"}]]
    /\ file \in [Version -> [Quality -> 0..MaxVersion]]
    /\ urgent \in Seq([version : Version, quality : Quality])
    /\ normal \in Seq(Entry) /\ left \in Seq(Entry)
    /\ worker \in [Worker -> Job \union {Null}]
    /\ ask \in [Handler -> Asking \union {Null}]

LEMMA TypeOfAll ==
    ASSUME TypeOK
    PROVE  Types
  BY DEF TypeOK, Types

LEMMA TypesKeep ==
    ASSUME Types', TypeOK, UNCHANGED <<change, budget>>
    PROVE  TypeOK'
  BY DEF TypeOK, Types

LEMMA JobTypes ==
    ASSUME Types, NEW w \in Worker, worker[w] # Null
    PROVE  /\ worker[w] \in Job /\ worker[w].lane \in {"urgent", "normal"}
           /\ worker[w].entry \in Entry /\ VersionOf(w) \in Version
           /\ worker[w].entry.tries \in Nat /\ worker[w].entry.fixed \in BOOLEAN
           /\ worker[w].todo \subseteq Quality /\ worker[w].at \in Step
           /\ worker[w].content \in 0..MaxVersion /\ worker[w].dir \in BOOLEAN
  <1>1. worker[w] \in Job
    BY DEF Types
  <1>2. /\ worker[w].lane \in {"urgent", "normal"}
        /\ worker[w].entry \in Entry
        /\ worker[w].todo \subseteq Quality /\ worker[w].at \in Step
        /\ worker[w].content \in 0..MaxVersion /\ worker[w].dir \in BOOLEAN
    BY <1>1 DEF Job, Step
  <1>3. \A e \in Entry : e.version \in Version /\ e.tries \in Nat /\ e.fixed \in BOOLEAN
    BY DEF Entry
  <1> QED
    BY <1>1, <1>2, <1>3 DEF VersionOf

LEMMA AskTypes ==
    ASSUME Types, NEW a \in Handler, ask[a] # Null
    PROVE  /\ ask[a] \in Asking /\ ask[a].at \in {"insert", "add", "retryAdd"}
           /\ ask[a].version \in Version /\ ask[a].quality \in Quality \union {Null}
  <1>1. ask[a] \in Asking
    BY DEF Types
  <1> QED
    BY <1>1 DEF Asking

\* A job whose fields change.
LEMMA JobMade ==
    ASSUME Types, NEW w \in Worker, NEW l \in {"urgent", "normal"}, NEW e \in Entry,
           NEW qs \in SUBSET Quality, NEW s \in Step, NEW c \in 0..MaxVersion, NEW d \in BOOLEAN,
           worker' = [worker EXCEPT ![w] = [lane |-> l, entry |-> e, todo |-> qs, at |-> s,
                                            content |-> c, dir |-> d]]
    PROVE  JobIs(w, l, e, qs, s, c)
  <1> DEFINE j == [lane |-> l, entry |-> e, todo |-> qs, at |-> s, content |-> c, dir |-> d]
  <1>1. j \in Job /\ j.lane = l /\ j.entry = e /\ j.todo = qs /\ j.at = s /\ j.content = c
    BY DEF Job, Step
  <1>2. j # Null
    BY <1>1, NullAssumption
  <1>3. worker' = [worker EXCEPT ![w] = j] /\ worker \in [Worker -> Job \union {Null}]
    BY DEF Types
  <1> HIDE DEF j
  <1> QED
    BY <1>1, <1>2, <1>3 DEF JobIs

JobOf(l, e, qs, s, c, d) == [lane |-> l, entry |-> e, todo |-> qs, at |-> s, content |-> c, dir |-> d]

LEMMA GotoGoes ==
    ASSUME Types, NEW w \in Worker, worker[w] # Null, NEW s \in Step, Goto(w, s)
    PROVE  Goes(w, s)
  <1> DEFINE j == worker[w]
  <1>1. worker' = [worker EXCEPT ![w] = [j EXCEPT !.at = s]]
    BY DEF Goto
  <1>2. [j EXCEPT !.at = s] = [lane |-> j.lane, entry |-> j.entry, todo |-> j.todo,
                               at |-> s, content |-> j.content, dir |-> j.dir]
    BY JobTypes DEF Job
  <1> QED
    BY <1>1, <1>2, JobMade, JobTypes DEF Goes

LEMMA FreeFrees ==
    ASSUME Types, NEW w \in Worker, worker' = [worker EXCEPT ![w] = Null]
    PROVE  Freed(w)
  BY DEF Types, Freed

LEMMA FinishFinishes ==
    ASSUME Types, NEW w \in Worker, worker[w] # Null, Finish(w)
    PROVE  Finished(w)
  BY GotoGoes, FreeFrees DEF Finish, Finished, Step

LEMMA MoveMoves ==
    ASSUME Types, NEW v \in Version, NEW qs, NEW from, NEW to \in Status, Move(v, qs, from, to)
    PROVE  Moved(v, qs, from, to)
  <1> DEFINE new == [q \in Quality |-> IF q \in qs /\ row[v][q] \in from THEN to ELSE row[v][q]]
  <1>1. row' = [row EXCEPT ![v] = new] /\ row \in [Version -> [Quality -> Status \union {"none"}]]
    BY DEF Move, Types
  <1>2. new \in [Quality -> Status \union {"none"}]
    BY <1>1
  <1>3. \A q \in Quality : new[q] = IF q \in qs /\ row[v][q] \in from THEN to ELSE row[v][q]
    OBVIOUS
  <1> HIDE DEF new
  <1> QED
    BY <1>1, <1>2, <1>3 DEF Moved

LEMMA AskMade ==
    ASSUME Types, NEW a \in Handler, NEW s \in {"insert", "add", "retryAdd"}, NEW v \in Version,
           NEW q \in Quality \union {Null},
           ask' = [ask EXCEPT ![a] = [at |-> s, version |-> v, quality |-> q]]
    PROVE  AskIs(a, s, v, q)
  <1> DEFINE r == [at |-> s, version |-> v, quality |-> q]
  <1>1. r \in Asking /\ r.at = s /\ r.version = v /\ r.quality = q
    BY DEF Asking
  <1>2. r # Null
    BY <1>1, NullAssumption
  <1>3. ask' = [ask EXCEPT ![a] = r] /\ ask \in [Handler -> Asking \union {Null}]
    BY DEF Types
  <1> HIDE DEF r
  <1> QED
    BY <1>1, <1>2, <1>3 DEF AskIs

LEMMA AnswerAnswers ==
    ASSUME Types, NEW a \in Handler, ask' = [ask EXCEPT ![a] = Null]
    PROVE  Answered(a)
  BY DEF Types, Answered

LEMMA RemoveRemoves ==
    ASSUME Types, RemoveFiles
    PROVE  Removed
  <1>1. file' \in [Version -> [Quality -> 0..MaxVersion]]
    BY BoundAssumption DEF RemoveFiles
  <1>2. ASSUME NEW w \in Worker, worker[w] # Null
        PROVE  /\ worker'[w] \in Job /\ worker'[w].entry = worker[w].entry
               /\ worker'[w].todo = worker[w].todo /\ worker'[w].at = worker[w].at
               /\ worker'[w].content = worker[w].content
    <2>1. PICK d \in BOOLEAN : ~d
      OBVIOUS
    <2>2. worker'[w] = [worker[w] EXCEPT !.dir = d]
      BY <1>2, <2>1 DEF RemoveFiles
    <2> QED
      BY <1>2, <2>2, JobTypes DEF Job, Step
  <1>3. worker' = [w \in Worker |-> worker'[w]] /\ \A w \in Worker : worker[w] = Null => worker'[w] = Null
    BY DEF RemoveFiles
  <1>4. worker' \in [Worker -> Job \union {Null}]
    BY <1>2, <1>3
  <1>5. \A w \in Worker : worker[w] # Null => worker'[w] # Null
    BY <1>2, NullAssumption
  <1> QED
    BY <1>1, <1>2, <1>3, <1>4, <1>5 DEF Removed

\* A quality that is looked at next is one of those that are left.
LEMMA LeastIsOne ==
    ASSUME NEW qs \in SUBSET Quality, qs # {}
    PROVE  Least(qs) \in qs
  <1>1. qs \subseteq Nat
    BY QualityAssumption
  <1>2. \E q \in qs : \A p \in qs : ~(<<p, q>> \in OpToRel(<, Nat))
    BY <1>1, WFMin, NatLessThanWellFounded
  <1>3. \E q \in qs : \A p \in qs : q <= p
    <2>1. PICK q \in qs : \A p \in qs : ~(<<p, q>> \in OpToRel(<, Nat))
      BY <1>2
    <2>2. \A p \in qs : q \in Nat /\ p \in Nat /\ ~(p < q)
      BY <1>1, <2>1 DEF OpToRel
    <2> QED
      BY <2>2
  <1> QED
    BY <1>3 DEF Least

\* The entries of a stream.
LEMMA AppendEntry ==
    ASSUME NEW S, NEW s \in Seq(S), NEW x \in S
    PROVE  /\ Append(s, x) \in Seq(S)
           /\ \A i \in 1..Len(Append(s, x)) : Append(s, x)[i] = x \/ \E j \in 1..Len(s) : Append(s, x)[i] = s[j]
  BY AppendProperties, LenProperties

LEMMA TailEntries ==
    ASSUME NEW S, NEW s \in Seq(S), s # <<>>
    PROVE  /\ Tail(s) \in Seq(S) /\ Head(s) \in S /\ \E j \in 1..Len(s) : Head(s) = s[j]
           /\ \A i \in 1..Len(Tail(s)) : \E j \in 1..Len(s) : Tail(s)[i] = s[j]
  <1> DEFINE t == Tail(s)
  <1>1. /\ Head(s) \in S /\ t \in Seq(S) /\ Len(t) = Len(s) - 1 /\ Len(s) \in Nat \ {0}
        /\ \A i \in 1..Len(t) : t[i] = s[i + 1]
    BY HeadTailProperties, LenProperties, EmptySeq
  <1>2. 1 \in 1..Len(s) /\ Head(s) = s[1]
    BY <1>1
  <1> HIDE DEF t
  <1>3. \A i \in 1..Len(t) : i + 1 \in 1..Len(s)
    BY <1>1
  <1> QED
    BY <1>1, <1>2, <1>3 DEF t

-----------------------------------------------------------------------------
(* The actions *)

LEMMA TakeUrgentSets ==
    ASSUME Types, NEW w \in Worker, TakeUrgent(w)
    PROVE  /\ worker[w] = Null
           /\ \E i \in 1..Len(urgent), q \in Quality, t \in Nat, f \in BOOLEAN :
                JobIs(w, "urgent", [version |-> urgent[i].version, tries |-> t, fixed |-> f],
                      {q}, "load", 0)
           /\ urgent' \in Seq([version : Version, quality : Quality])
           /\ \A i \in 1..Len(urgent') : \E j \in 1..Len(urgent) : urgent'[i] = urgent[j]
           /\ UNCHANGED <<version, source, row, file, normal, left, ask, change, budget>>
  <1>1. PICK k \in BOOLEAN : k
    OBVIOUS
  <1>2. PICK k2 \in BOOLEAN : ~k2
    OBVIOUS
  <1> DEFINE job == Head(urgent)
  <1>3. /\ urgent \in Seq([version : Version, quality : Quality]) /\ urgent # <<>>
        /\ urgent' = Tail(urgent)
    BY DEF TakeUrgent, Types
  <1>4. /\ Tail(urgent) \in Seq([version : Version, quality : Quality])
        /\ job \in [version : Version, quality : Quality] /\ \E j \in 1..Len(urgent) : job = urgent[j]
        /\ \A i \in 1..Len(Tail(urgent)) : \E j \in 1..Len(urgent) : Tail(urgent)[i] = urgent[j]
    BY <1>3, TailEntries
  <1>5. [version |-> job.version, tries |-> 1, fixed |-> k] \in Entry
    BY <1>4 DEF Entry
  <1>13. {job.quality} \in SUBSET Quality /\ 0 \in 0..MaxVersion /\ "load" \in Step
    BY <1>4, BoundAssumption DEF Step
  <1>6. worker' = [worker EXCEPT ![w] = [lane |-> "urgent",
                     entry |-> [version |-> job.version, tries |-> 1, fixed |-> k],
                     todo |-> {job.quality}, at |-> "load", content |-> 0, dir |-> k2]]
    BY <1>1, <1>2 DEF TakeUrgent, NewJob
  <1>8. \E i \in 1..Len(urgent) : job = urgent[i]
    BY <1>4
  <1>9. job.quality \in Quality /\ 1 \in Nat
    BY <1>4
  <1>10. worker[w] = Null /\ UNCHANGED <<version, source, row, file, normal, left, ask, change, budget>>
    BY DEF TakeUrgent
  <1> HIDE DEF job
  <1>7. JobIs(w, "urgent", [version |-> job.version, tries |-> 1, fixed |-> k], {job.quality}, "load", 0)
    BY <1>5, <1>6, <1>13, JobMade
  <1>11. PICK i \in 1..Len(urgent) : job = urgent[i]
    BY <1>8
  <1>12. JobIs(w, "urgent", [version |-> urgent[i].version, tries |-> 1, fixed |-> k],
               {job.quality}, "load", 0)
    BY <1>7, <1>11
  <1> QED
    BY <1>3, <1>4, <1>9, <1>10, <1>12

\* The job that a loop takes from the other stream, or from a worker that stopped.
LEMMA NormalJob ==
    ASSUME Types, NEW w \in Worker, NEW s \in Seq(Entry), s # <<>>,
           worker' = [worker EXCEPT ![w] = NewJob("normal", Delivered(Head(s)), Quality)]
    PROVE  \E i \in 1..Len(s), t \in Nat, f \in BOOLEAN :
              JobIs(w, "normal", [version |-> s[i].version, tries |-> t, fixed |-> f],
                    Quality, "load", 0)
  <1>1. PICK k2 \in BOOLEAN : ~k2
    OBVIOUS
  <1> DEFINE e == Head(s)
  <1>2. e \in Entry /\ \E j \in 1..Len(s) : e = s[j]
    BY TailEntries
  <1> HIDE DEF e
  <1>3. e.version \in Version /\ e.tries \in Nat /\ e.fixed \in BOOLEAN
    BY <1>2 DEF Entry
  <1>4. PICK t \in Nat : Delivered(e) = [version |-> e.version, tries |-> t, fixed |-> e.fixed]
    <2>1. e = [version |-> e.version, tries |-> e.tries, fixed |-> e.fixed]
      BY <1>2 DEF Entry
    <2>2. [e EXCEPT !.tries = e.tries + 1] =
            [version |-> e.version, tries |-> e.tries + 1, fixed |-> e.fixed]
      BY <1>2 DEF Entry
    <2>3. e.tries + 1 \in Nat
      BY <1>3
    <2> QED
      BY <1>3, <2>1, <2>2, <2>3 DEF Delivered
  <1> DEFINE d == [version |-> e.version, tries |-> t, fixed |-> e.fixed]
  <1>5. d \in Entry
    BY <1>3, <1>4 DEF Entry
  <1> HIDE DEF d
  <1>6. worker' = [worker EXCEPT ![w] = [lane |-> "normal", entry |-> d,
                     todo |-> Quality, at |-> "load", content |-> 0, dir |-> k2]]
    BY <1>1, <1>4 DEF NewJob, e, d
  <1>7. JobIs(w, "normal", d, Quality, "load", 0)
    <2>1. Quality \in SUBSET Quality /\ 0 \in 0..MaxVersion /\ "load" \in Step
      BY BoundAssumption DEF Step
    <2> QED
      BY <1>5, <1>6, <2>1, JobMade
  <1>8. PICK i \in 1..Len(s) : e = s[i]
    BY <1>2
  <1> QED
    BY <1>3, <1>4, <1>7, <1>8 DEF d

LEMMA TakeNormalSets ==
    ASSUME Types, NEW w \in Worker, TakeNormal(w)
    PROVE  /\ worker[w] = Null
           /\ \E i \in 1..Len(normal), t \in Nat, f \in BOOLEAN :
                JobIs(w, "normal", [version |-> normal[i].version, tries |-> t, fixed |-> f],
                      Quality, "load", 0)
           /\ normal' \in Seq(Entry)
           /\ \A i \in 1..Len(normal') : \E j \in 1..Len(normal) : normal'[i] = normal[j]
           /\ UNCHANGED <<version, source, row, file, urgent, left, ask, change, budget>>
  BY NormalJob, TailEntries DEF TakeNormal, Types

LEMMA ClaimSets ==
    ASSUME Types, NEW w \in Worker, Claim(w)
    PROVE  /\ worker[w] = Null
           /\ \E i \in 1..Len(left), t \in Nat, f \in BOOLEAN :
                JobIs(w, "normal", [version |-> left[i].version, tries |-> t, fixed |-> f],
                      Quality, "load", 0)
           /\ left' \in Seq(Entry)
           /\ \A i \in 1..Len(left') : \E j \in 1..Len(left) : left'[i] = left[j]
           /\ UNCHANGED <<version, source, row, file, urgent, normal, ask, change, budget>>
  BY NormalJob, TailEntries DEF Claim, Types

\* The steps that look only.
Stays == UNCHANGED <<version, source, urgent, normal, left, ask, change, budget>>

LEMMA LoadSets ==
    ASSUME Types, NEW w \in Worker, Load(w)
    PROVE  /\ worker[w] # Null /\ worker[w].at = "load"
           /\ Goes(w, "probe") \/ Finished(w)
           /\ Stays /\ UNCHANGED <<row, file>>
  BY GotoGoes, FinishFinishes DEF Load, Doing, Step, Stays

LEMMA ProbeSets ==
    ASSUME Types, NEW w \in Worker, Probe(w)
    PROVE  /\ worker[w] # Null /\ worker[w].at = "probe"
           /\ \/ JobIs(w, worker[w].lane, worker[w].entry,
                       {q \in worker[w].todo : row[VersionOf(w)][q] \notin {"ready", "skipped"}},
                       "next", worker[w].content)
              \/ Goes(w, "throw")
           /\ Stays /\ UNCHANGED <<row, file>>
  <1>1. worker[w] # Null /\ worker[w].at = "probe" /\ Stays /\ UNCHANGED <<row, file>>
    BY DEF Probe, Doing, Stays
  <1> DEFINE j == worker[w]
             qs == {q \in j.todo : row[VersionOf(w)][q] \notin {"ready", "skipped"}}
  <1>2. CASE worker' = [worker EXCEPT ![w].at = "next", ![w].dir = TRUE,
                ![w].todo = {q \in @ : row[VersionOf(w)][q] \notin {"ready", "skipped"}}]
    <2>1. PICK k \in BOOLEAN : k
      OBVIOUS
    <2>8. PICK j1 : j1 = [j EXCEPT !.at = "next"]
      OBVIOUS
    <2>9. PICK j2 : j2 = [j1 EXCEPT !.dir = k]
      OBVIOUS
    <2>10. PICK j3 : j3 = [j2 EXCEPT !.todo = qs]
      OBVIOUS
    <2>2. worker' = [worker EXCEPT ![w] = j3]
      BY <1>1, <1>2, <2>1, <2>8, <2>9, <2>10 DEF Types
    <2>4. qs \in SUBSET Quality /\ "next" \in Step
      BY <1>1, JobTypes DEF Step
    <2> HIDE DEF qs
    <2>3. j1 = JobOf(j.lane, j.entry, j.todo, "next", j.content, j.dir)
      BY <1>1, <2>8, JobTypes DEF Job, JobOf
    <2>6. j2 = JobOf(j.lane, j.entry, j.todo, "next", j.content, k)
      BY <2>3, <2>9 DEF JobOf
    <2>7. j3 = JobOf(j.lane, j.entry, qs, "next", j.content, k)
      BY <2>6, <2>10 DEF JobOf
    <2> HIDE DEF j
    <2>5. JobIs(w, j.lane, j.entry, qs, "next", j.content)
      BY <1>1, <2>2, <2>4, <2>7, JobMade, JobTypes DEF j, JobOf
    <2> QED
      BY <1>1, <2>5 DEF qs, j
  <1>3. CASE Goto(w, "throw")
    BY <1>1, <1>3, GotoGoes DEF Step
  <1> QED
    BY <1>1, <1>2, <1>3 DEF Probe

LEMMA NextQualitySets ==
    ASSUME Types, NEW w \in Worker, NextQuality(w)
    PROVE  /\ worker[w] # Null /\ worker[w].at = "next"
           /\ \/ worker[w].todo = {} /\ Finished(w) /\ UNCHANGED row
              \/ /\ worker[w].todo # {} /\ Goes(w, "encode")
                 /\ Moved(VersionOf(w), {Current(w)}, Status, "processing")
              \/ /\ worker[w].todo # {}
                 /\ JobIs(w, worker[w].lane, worker[w].entry, worker[w].todo \ {Current(w)},
                          "next", worker[w].content)
                 /\ Moved(VersionOf(w), {Current(w)}, Status, "skipped")
           /\ Stays /\ UNCHANGED file
  <1>1. worker[w] # Null /\ worker[w].at = "next" /\ Stays /\ UNCHANGED file
    BY DEF NextQuality, Doing, Stays
  <1>2. CASE worker[w].todo = {}
    BY <1>1, <1>2, FinishFinishes DEF NextQuality
  <1>3. CASE worker[w].todo # {} /\ Current(w) \in Worth
    BY <1>1, <1>3, GotoGoes, MoveMoves, JobTypes DEF NextQuality, Step, Status
  <1>4. CASE worker[w].todo # {} /\ Current(w) \notin Worth
    <2> DEFINE j == worker[w]
               qs == j.todo \ {Current(w)}
    <2>1. worker' = [worker EXCEPT ![w] = [j EXCEPT !.todo = qs]]
      BY <1>4 DEF NextQuality
    <2>3. qs \in SUBSET Quality /\ "next" \in Step
      BY <1>1, JobTypes DEF Step
    <2> HIDE DEF qs
    <2>2. [j EXCEPT !.todo = qs] = [lane |-> j.lane, entry |-> j.entry, todo |-> qs,
                                    at |-> "next", content |-> j.content, dir |-> j.dir]
      BY <1>1, JobTypes DEF Job
    <2>4. JobIs(w, j.lane, j.entry, qs, "next", j.content)
      <3>1. /\ j.lane \in {"urgent", "normal"} /\ j.entry \in Entry
            /\ j.content \in 0..MaxVersion /\ j.dir \in BOOLEAN
        BY <1>1, JobTypes
      <3>2. worker' = [worker EXCEPT ![w] = [lane |-> j.lane, entry |-> j.entry, todo |-> qs,
                                             at |-> "next", content |-> j.content, dir |-> j.dir]]
        BY <2>1, <2>2
      <3> HIDE DEF j
      <3> QED
        BY <2>3, <3>1, <3>2, JobMade
    <2>5. Moved(VersionOf(w), {Current(w)}, Status, "skipped")
      BY <1>1, <1>4, MoveMoves, JobTypes DEF NextQuality, Status
    <2> QED
      BY <1>1, <1>4, <2>4, <2>5 DEF qs
  <1> QED
    BY <1>2, <1>3, <1>4

LEMMA EncodeSets ==
    ASSUME Types, NEW w \in Worker, Encode(w)
    PROVE  /\ worker[w] # Null /\ worker[w].at = "encode"
           /\ \/ JobIs(w, worker[w].lane, worker[w].entry, worker[w].todo, "check", source)
              \/ Goes(w, "markFailed")
           /\ Stays /\ UNCHANGED <<row, file>>
  <1>1. worker[w] # Null /\ worker[w].at = "encode" /\ Stays /\ UNCHANGED <<row, file>>
    BY DEF Encode, Doing, Stays
  <1> DEFINE j == worker[w]
  <1>2. CASE worker' = [worker EXCEPT ![w].at = "check", ![w].content = source]
    <2>1. PICK j1 : j1 = [j EXCEPT !.at = "check"]
      OBVIOUS
    <2>6. PICK j2 : j2 = [j1 EXCEPT !.content = source]
      OBVIOUS
    <2>2. worker' = [worker EXCEPT ![w] = j2]
      BY <1>1, <1>2, <2>1, <2>6 DEF Types
    <2>3. j1 = JobOf(j.lane, j.entry, j.todo, "check", j.content, j.dir)
      BY <1>1, <2>1, JobTypes DEF Job, JobOf
    <2>4. j2 = JobOf(j.lane, j.entry, j.todo, "check", source, j.dir)
      BY <2>3, <2>6 DEF JobOf
    <2>5. source \in 0..MaxVersion /\ "check" \in Step
      BY DEF Types, Step
    <2> QED
      BY <1>1, <2>2, <2>4, <2>5, JobMade, JobTypes DEF JobOf
  <1>3. CASE Goto(w, "markFailed")
    BY <1>1, <1>3, GotoGoes DEF Step
  <1> QED
    BY <1>1, <1>2, <1>3 DEF Encode

LEMMA CheckSets ==
    ASSUME Types, NEW w \in Worker, Check(w)
    PROVE  /\ worker[w] # Null /\ worker[w].at = "check"
           /\ Goes(w, "rename") \/ Finished(w)
           /\ Stays /\ UNCHANGED <<row, file>>
  BY GotoGoes, FinishFinishes DEF Check, Doing, Step, Stays

LEMMA RenameSets ==
    ASSUME Types, NEW w \in Worker, Rename(w)
    PROVE  /\ worker[w] # Null /\ worker[w].at = "rename"
           /\ \/ /\ Goes(w, "markReady")
                 /\ file' \in [Version -> [Quality -> 0..MaxVersion]]
                 /\ \A v \in Version, q \in Quality :
                       file'[v][q] = IF v = VersionOf(w) /\ q = Current(w)
                                       THEN worker[w].content ELSE file[v][q]
              \/ Goes(w, "markFailed") /\ UNCHANGED file
           /\ Stays /\ UNCHANGED row
  <1>1. worker[w] # Null /\ worker[w].at = "rename" /\ Stays /\ UNCHANGED row
    BY DEF Rename, Doing, Stays
  <1>2. CASE ~worker[w].dir
    BY <1>1, <1>2, GotoGoes DEF Rename, Step
  <1>3. CASE worker[w].dir
    <2>1. file' = [file EXCEPT ![VersionOf(w)] = [file[VersionOf(w)] EXCEPT ![Current(w)] = worker[w].content]]
      BY <1>3 DEF Rename
    <2>2. VersionOf(w) \in Version /\ worker[w].content \in 0..MaxVersion
          /\ file \in [Version -> [Quality -> 0..MaxVersion]]
      BY <1>1, JobTypes DEF Types
    <2>3. Goes(w, "markReady")
      BY <1>1, <1>3, GotoGoes DEF Rename, Step
    <2> QED
      BY <1>1, <2>1, <2>2, <2>3
  <1> QED
    BY <1>2, <1>3

LEMMA MarkReadySets ==
    ASSUME Types, NEW w \in Worker, MarkReady(w)
    PROVE  /\ worker[w] # Null /\ worker[w].at = "markReady"
           /\ JobIs(w, worker[w].lane, worker[w].entry, worker[w].todo \ {Current(w)}, "next", 0)
           /\ Moved(VersionOf(w), {Current(w)}, Status, "ready")
           /\ Stays /\ UNCHANGED file
  <1>1. worker[w] # Null /\ worker[w].at = "markReady" /\ Stays /\ UNCHANGED file
    BY DEF MarkReady, Doing, Stays
  <1> DEFINE j == worker[w]
             qs == j.todo \ {Current(w)}
  <1>8. PICK j1 : j1 = [j EXCEPT !.at = "next"]
    OBVIOUS
  <1>9. PICK j2 : j2 = [j1 EXCEPT !.todo = qs]
    OBVIOUS
  <1>10. PICK j3 : j3 = [j2 EXCEPT !.content = 0]
    OBVIOUS
  <1>2. worker' = [worker EXCEPT ![w] = j3]
    BY <1>1, <1>8, <1>9, <1>10 DEF MarkReady, Types
  <1>4. qs \in SUBSET Quality /\ 0 \in 0..MaxVersion /\ "next" \in Step
    BY <1>1, JobTypes, BoundAssumption DEF Step
  <1> HIDE DEF qs
  <1>7. j1 = JobOf(j.lane, j.entry, j.todo, "next", j.content, j.dir)
    BY <1>1, <1>8, JobTypes DEF Job, JobOf
  <1>11. j2 = JobOf(j.lane, j.entry, qs, "next", j.content, j.dir)
    BY <1>7, <1>9 DEF JobOf
  <1>3. j3 = JobOf(j.lane, j.entry, qs, "next", 0, j.dir)
    BY <1>10, <1>11 DEF JobOf
  <1>5. JobIs(w, j.lane, j.entry, qs, "next", 0)
    BY <1>1, <1>2, <1>3, <1>4, JobMade, JobTypes DEF JobOf
  <1>6. Moved(VersionOf(w), {Current(w)}, Status, "ready")
    BY <1>1, MoveMoves, JobTypes DEF MarkReady, Status
  <1> QED
    BY <1>1, <1>5, <1>6 DEF qs

LEMMA MarkFailedSets ==
    ASSUME Types, NEW w \in Worker, MarkFailed(w)
    PROVE  /\ worker[w] # Null /\ worker[w].at = "markFailed"
           /\ Goes(w, "throw") /\ Moved(VersionOf(w), {Current(w)}, Status, "failed")
           /\ Stays /\ UNCHANGED file
  BY GotoGoes, MoveMoves, JobTypes DEF MarkFailed, Doing, Step, Status, Stays

LEMMA ThrowSets ==
    ASSUME Types, NEW w \in Worker, ThrowUrgent(w) \/ GiveUp(w) \/ TryAgain(w)
    PROVE  /\ worker[w] # Null /\ worker[w].at = "throw"
           /\ Finished(w) \/ Goes(w, "readd")
           /\ \/ \E qs \in SUBSET Quality : Moved(VersionOf(w), qs, Status \ {"ready"}, "failed")
              \/ Moved(VersionOf(w), Quality, {"failed"}, "queued")
           /\ Stays /\ UNCHANGED file
  <1>1. worker[w] # Null /\ worker[w].at = "throw" /\ Stays /\ UNCHANGED file
    BY DEF ThrowUrgent, GiveUp, TryAgain, Doing, Stays
  <1>2. CASE ThrowUrgent(w)
    <2>1. Moved(VersionOf(w), worker[w].todo, Status \ {"ready"}, "failed")
      BY <1>1, <1>2, MoveMoves, JobTypes DEF ThrowUrgent, Status
    <2> QED
      BY <1>1, <1>2, <2>1, FinishFinishes, JobTypes DEF ThrowUrgent
  <1>3. CASE GiveUp(w)
    <2>1. Moved(VersionOf(w), Quality, Status \ {"ready"}, "failed")
      BY <1>1, <1>3, MoveMoves, JobTypes DEF GiveUp, Status
    <2> QED
      BY <1>1, <1>3, <2>1, GotoGoes DEF GiveUp, Finished, Step
  <1>4. CASE TryAgain(w)
    <2>1. Moved(VersionOf(w), Quality, {"failed"}, "queued")
      BY <1>1, <1>4, MoveMoves, JobTypes DEF TryAgain, Status
    <2> QED
      BY <1>1, <1>4, <2>1, GotoGoes DEF TryAgain, Step
  <1> QED
    BY <1>2, <1>3, <1>4

LEMMA ReaddSets ==
    ASSUME Types, NEW w \in Worker, Readd(w)
    PROVE  /\ worker[w] # Null /\ Goes(w, "ack")
           /\ normal' \in Seq(Entry)
           /\ \A i \in 1..Len(normal') :
                 normal'[i].version = VersionOf(w) \/ \E j \in 1..Len(normal) : normal'[i] = normal[j]
           /\ UNCHANGED <<version, source, row, file, urgent, left, ask, change, budget>>
  <1>1. PICK k \in BOOLEAN : k
    OBVIOUS
  <1> DEFINE e == [version |-> VersionOf(w), fixed |-> k, tries |-> worker[w].entry.tries + 1]
  <1>2. worker[w] # Null /\ Goes(w, "ack")
    BY GotoGoes DEF Readd, Doing, Step
  <1>3. e \in Entry /\ e.version = VersionOf(w)
    BY <1>2, JobTypes DEF Entry
  <1>4. normal' = Append(normal, e) /\ normal \in Seq(Entry)
    BY <1>1 DEF Readd, Types
  <1> HIDE DEF e
  <1>5. /\ normal' \in Seq(Entry)
        /\ \A i \in 1..Len(normal') : normal'[i] = e \/ \E j \in 1..Len(normal) : normal'[i] = normal[j]
    BY <1>3, <1>4, AppendEntry
  <1> QED
    BY <1>2, <1>3, <1>5 DEF Readd

LEMMA AcknowledgeSets ==
    ASSUME Types, NEW w \in Worker, Acknowledge(w)
    PROVE  Freed(w) /\ Stays /\ UNCHANGED <<row, file>>
  BY FreeFrees DEF Acknowledge, Stays

LEMMA RequestBeginSets ==
    ASSUME Types, NEW a \in Handler, NEW q \in Quality, RequestBegin(a, q)
    PROVE  /\ Present /\ AskIs(a, "insert", version, q)
           /\ Spend("request")
           /\ UNCHANGED <<version, source, row, file, urgent, normal, left, worker, change>>
  <1>1. version \in Version
    BY BoundAssumption DEF RequestBegin, Present, Types, Version
  <1> QED
    BY <1>1, AskMade DEF RequestBegin

LEMMA RequestInsertSets ==
    ASSUME Types, NEW a \in Handler, RequestInsert(a)
    PROVE  /\ ask[a] # Null /\ ask[a].at = "insert"
           /\ \/ /\ Present /\ Moved(ask[a].version, {ask[a].quality}, {"none", "failed"}, "queued")
                 /\ AskIs(a, "add", ask[a].version, ask[a].quality)
              \/ Answered(a) /\ UNCHANGED row
           /\ UNCHANGED <<version, source, file, urgent, normal, left, worker, change, budget>>
  <1> DEFINE r == ask[a]
  <1>1. r # Null /\ r.at = "insert"
        /\ UNCHANGED <<version, source, file, urgent, normal, left, worker, change, budget>>
    BY DEF RequestInsert
  <1>2. CASE Present /\ Move(r.version, {r.quality}, {"none", "failed"}, "queued")
               /\ ask' = [ask EXCEPT ![a].at = "add"]
    <2>1. ask' = [ask EXCEPT ![a] = [r EXCEPT !.at = "add"]]
      BY <1>2
    <2>2. [r EXCEPT !.at = "add"] = [at |-> "add", version |-> r.version, quality |-> r.quality]
      BY <1>1, AskTypes DEF Asking
    <2>3. AskIs(a, "add", r.version, r.quality)
      BY <1>1, <2>1, <2>2, AskMade, AskTypes
    <2>4. Moved(r.version, {r.quality}, {"none", "failed"}, "queued")
      BY <1>1, <1>2, MoveMoves, AskTypes DEF Status
    <2> QED
      BY <1>1, <1>2, <2>3, <2>4
  <1>3. CASE ask' = [ask EXCEPT ![a] = Null] /\ UNCHANGED row
    BY <1>1, <1>3, AnswerAnswers
  <1> QED
    BY <1>2, <1>3 DEF RequestInsert

LEMMA RequestAddSets ==
    ASSUME Types, QualityOk, NEW a \in Handler, RequestAdd(a)
    PROVE  /\ ask[a] # Null /\ Answered(a)
           /\ urgent' \in Seq([version : Version, quality : Quality])
           /\ \A i \in 1..Len(urgent') :
                 urgent'[i].version = ask[a].version \/ \E j \in 1..Len(urgent) : urgent'[i] = urgent[j]
           /\ UNCHANGED <<version, source, row, file, normal, left, worker, change, budget>>
  <1> DEFINE e == [version |-> ask[a].version, quality |-> ask[a].quality]
             S == [version : Version, quality : Quality]
  <1>1. ask[a] # Null /\ ask[a].at = "add"
    BY DEF RequestAdd
  <1>2. e \in S /\ e.version = ask[a].version
    BY <1>1, AskTypes DEF QualityOk
  <1>3. urgent' = Append(urgent, e) /\ urgent \in Seq(S)
    BY DEF RequestAdd, Types
  <1> HIDE DEF e, S
  <1>4. /\ urgent' \in Seq(S)
        /\ \A i \in 1..Len(urgent') : urgent'[i] = e \/ \E j \in 1..Len(urgent) : urgent'[i] = urgent[j]
    BY <1>2, <1>3, AppendEntry
  <1> QED
    BY <1>1, <1>2, <1>4, AnswerAnswers DEF RequestAdd, S

LEMMA RetrySets ==
    ASSUME Types, NEW a \in Handler, NEW force \in BOOLEAN, Retry(a, force)
    PROVE  /\ Present /\ \E q \in Quality \union {Null} : AskIs(a, "retryAdd", version, q)
           /\ \/ force /\ Moved(version, Quality, {"failed", "ready", "skipped"}, "queued")
              \/ ~force /\ Moved(version, Quality, {"failed"}, "queued")
           /\ \E kind \in Kinds : Spend(kind)
           /\ UNCHANGED <<version, source, file, urgent, normal, left, worker, change>>
  <1>1. Present /\ version \in Version
    BY BoundAssumption DEF Retry, Present, Types, Version
  <1>2. AskIs(a, "retryAdd", version, Null)
    BY <1>1, AskMade DEF Retry
  <1>3. Moved(version, Quality, {"failed"} \union (IF force THEN {"ready", "skipped"} ELSE {}), "queued")
    BY <1>1, MoveMoves DEF Retry, Status
  <1>4. {"failed"} \union (IF force THEN {"ready", "skipped"} ELSE {})
          = IF force THEN {"failed", "ready", "skipped"} ELSE {"failed"}
    OBVIOUS
  <1>5. \E kind \in Kinds : Spend(kind)
    BY DEF Retry, Kinds
  <1> QED
    BY <1>1, <1>2, <1>3, <1>4, <1>5 DEF Retry

LEMMA RetryAddSets ==
    ASSUME Types, NEW a \in Handler, RetryAdd(a)
    PROVE  /\ ask[a] # Null /\ Answered(a)
           /\ normal' \in Seq(Entry)
           /\ \A i \in 1..Len(normal') :
                 normal'[i].version = ask[a].version \/ \E j \in 1..Len(normal) : normal'[i] = normal[j]
           /\ UNCHANGED <<version, source, row, file, urgent, left, worker, change, budget>>
  <1>1. PICK k \in BOOLEAN : ~k
    OBVIOUS
  <1> DEFINE e == [version |-> ask[a].version, tries |-> 0, fixed |-> k]
  <1>2. ask[a] # Null
    BY DEF RetryAdd
  <1>3. e \in Entry /\ e.version = ask[a].version
    BY <1>2, AskTypes DEF Entry
  <1>4. normal' = Append(normal, e) /\ normal \in Seq(Entry)
    BY <1>1 DEF RetryAdd, Types
  <1> HIDE DEF e
  <1>5. /\ normal' \in Seq(Entry)
        /\ \A i \in 1..Len(normal') : normal'[i] = e \/ \E j \in 1..Len(normal) : normal'[i] = normal[j]
    BY <1>3, <1>4, AppendEntry
  <1> QED
    BY <1>2, <1>3, <1>5, AnswerAnswers DEF RetryAdd

\* The entries of the jobs that a worker process leaves when it stops.
LEMMA WorkerCrashSets ==
    ASSUME Types, WorkerCrash
    PROVE  /\ worker' \in [Worker -> Job \union {Null}] /\ \A w \in Worker : worker'[w] = Null
           /\ left' \in Seq(Entry)
           /\ \A i \in 1..Len(left') :
                 \/ \E j \in 1..Len(left) : left'[i] = left[j]
                 \/ \E w \in Worker : worker[w] # Null /\ left'[i] = worker[w].entry
           /\ Spend("workerCrash")
           /\ UNCHANGED <<version, source, row, file, urgent, normal, ask, change>>
  <1> DEFINE D == {w \in Worker : worker[w] # Null /\ worker[w].lane = "normal"}
             dead == SetToSeq(D)
             n == Cardinality(D)
             more == [i \in 1..Len(dead) |-> worker[dead[i]].entry]
  <1>1. IsFiniteSet(D)
    BY WorkerAssumption, FS_Subset
  <1>2. PICK m \in Nat : ExistsBijection(1..m, D)
    BY <1>1, FS_NatBijection
  <1>3. m = n
    BY <1>2, FS_CountingElements
  <1>4. \E f \in [1..n -> D] : IsInjective(f)
    <2>1. PICK f \in Bijection(1..n, D) : TRUE
      BY <1>2, <1>3 DEF ExistsBijection
    <2> QED
      BY <2>1 DEF Bijection, Injection
  <1>5. dead \in [1..n -> D]
    BY <1>4 DEF SetToSeq
  <1>6. n \in Nat
    BY <1>2, <1>3
  <1> HIDE DEF n, dead
  <1>7. dead \in Seq(D) /\ Len(dead) = n /\ \A i \in 1..n : dead[i] \in D
    BY <1>5, <1>6
  <1>8. \A w \in D : w \in Worker /\ worker[w] # Null
    OBVIOUS
  <1>9. \A w \in D : worker[w].entry \in Entry
    BY <1>8, JobTypes
  <1>10. /\ more \in Seq(Entry) /\ Len(more) = n
         /\ \A i \in 1..n : \E w \in D : more[i] = worker[w].entry
    BY <1>6, <1>7, <1>9
  <1>11. left' = left \o more /\ left \in Seq(Entry)
    BY DEF WorkerCrash, Types, dead
  <1> HIDE DEF more, D
  <1>12. left' \in Seq(Entry) /\ Len(left') = Len(left) + n
    BY <1>10, <1>11, ConcatProperties, LenProperties
  <1>13. \A i \in 1..Len(left') : left'[i] = IF i <= Len(left) THEN left[i] ELSE more[i - Len(left)]
    BY <1>10, <1>11, <1>12, ConcatProperties, LenProperties
  <1>14. ASSUME NEW i \in 1..Len(left')
         PROVE  \/ \E j \in 1..Len(left) : left'[i] = left[j]
                \/ \E w \in Worker : worker[w] # Null /\ left'[i] = worker[w].entry
    <2>1. CASE i <= Len(left)
      BY <1>11, <1>13, <2>1, LenProperties
    <2>2. CASE ~(i <= Len(left))
      <3>1. i - Len(left) \in 1..n
        BY <1>6, <1>11, <1>12, <2>2, LenProperties
      <3>2. PICK w \in D : more[i - Len(left)] = worker[w].entry
        BY <1>10, <3>1
      <3> QED
        BY <1>8, <1>13, <2>2, <3>2
    <2> QED
      BY <2>1, <2>2
  <1> QED
    BY <1>12, <1>14 DEF WorkerCrash

LEMMA ServerCrashSets ==
    ASSUME Types, ServerCrash
    PROVE  /\ ask' \in [Handler -> Asking \union {Null}] /\ \A a \in Handler : ask'[a] = Null
           /\ change' = (IF NoChange THEN change ELSE "abandoned")
           /\ Spend("serverCrash")
           /\ UNCHANGED <<version, source, row, file, urgent, normal, left, worker>>
  BY DEF ServerCrash, Types

-----------------------------------------------------------------------------
(* What keeps a part of the invariant *)

LEMMA TypesKeepSpent ==
    ASSUME TypeOK, Types', \E kind \in Kinds : Spend(kind),
           change' \in {"none", "rm", "update", "sweep", "unlink", "abandoned"}
    PROVE  TypeOK'
  <1>1. PICK kind \in Kinds : Spend(kind)
    OBVIOUS
  <1>2. budget \in [Kinds -> Nat] /\ budget[kind] - 1 \in Nat
    BY <1>1 DEF TypeOK, Spend
  <1>3. budget' \in [Kinds -> Nat]
    BY <1>1, <1>2 DEF Spend
  <1> QED
    BY <1>3 DEF TypeOK, Types

LEMMA PresentVersion ==
    ASSUME Types, Present
    PROVE  version \in Version
  BY BoundAssumption DEF Types, Present, Version

\* A loop's job changes, but not to one that is of a later version.
LEMMA WorkersKeep ==
    ASSUME WorkersOk, NEW w \in Worker, UNCHANGED version,
           \A x \in Worker \ {w} : worker'[x] = worker[x],
           Present /\ worker'[w] # Null => worker'[w].entry.version <= version
    PROVE  WorkersOk'
  BY DEF WorkersOk, VersionOf, Present

LEMMA AsksKeep ==
    ASSUME AsksOk, NEW a \in Handler, UNCHANGED version,
           \A b \in Handler \ {a} : ask'[b] = ask[b],
           Present /\ ask'[a] # Null => ask'[a].version <= version
    PROVE  AsksOk'
  BY DEF AsksOk, Present

LEMMA RowsKeep ==
    ASSUME Types, RowsOk, NEW v \in Version, Present => v <= version, UNCHANGED version,
           NEW qs, NEW from, NEW to, Moved(v, qs, from, to)
    PROVE  RowsOk'
  <1> SUFFICES ASSUME Present, NEW x \in Version, NEW q \in Quality, x > version
               PROVE  row'[x][q] = "none"
    BY DEF RowsOk, Present
  <1>1. x # v
    BY PresentVersion DEF Version
  <1> QED
    BY <1>1 DEF RowsOk, Moved

\* A loop's job changes, but not to one that has been encoded.
LEMMA EncodedKeeps ==
    ASSUME EncodedOk, NEW w \in Worker, UNCHANGED <<version, change, file>>,
           \A x \in Worker \ {w} : worker'[x] = worker[x],
           Steady /\ worker'[w] # Null /\ worker'[w].entry.version = version =>
             /\ worker'[w].at \in {"check", "rename"} => worker'[w].content = version
             /\ worker'[w].at # "markReady"
    PROVE  EncodedOk'
  <1> SUFFICES ASSUME Steady, NEW x \in Worker, worker'[x] # Null, VersionOf(x)' = version
               PROVE  /\ worker'[x].at \in {"check", "rename"} => worker'[x].content = version
                      /\ worker'[x].at = "markReady" =>
                           \A q \in Quality : q = Current(x)' => file[version][q] = version
    BY DEF EncodedOk, Steady, Present
  <1>1. CASE x = w
    BY <1>1 DEF VersionOf
  <1>2. CASE x # w
    <2>1. worker'[x] = worker[x] /\ VersionOf(x) = version /\ Current(x)' = Current(x)
      BY <1>2 DEF VersionOf, Current
    <2> QED
      BY <2>1 DEF EncodedOk
  <1> QED
    BY <1>1, <1>2

LEMMA ReadyKeeps ==
    ASSUME Types, ReadyOk, UNCHANGED <<version, change, file>>,
           \A v \in Version, q \in Quality : row'[v][q] = "ready" => row[v][q] = "ready"
    PROVE  ReadyOk'
  BY PresentVersion DEF ReadyOk, Steady, Present

LEMMA NotReadyKeeps ==
    ASSUME Types, ReadyOk, UNCHANGED <<version, change, file>>,
           NEW v, NEW qs, NEW from, NEW to, to # "ready", Moved(v, qs, from, to)
    PROVE  ReadyOk'
  BY ReadyKeeps DEF Moved

-----------------------------------------------------------------------------
(* The invariant is kept *)

\* A loop takes a job.
LEMMA TakeKeeps ==
    ASSUME EncodingIInv, NEW w \in Worker, TakeUrgent(w) \/ TakeNormal(w) \/ Claim(w)
    PROVE  EncodingIInv'
  <1>1. /\ TypeOK /\ Types /\ ChangeOk /\ QualityOk /\ WorkersOk /\ EntriesOk /\ AsksOk
        /\ RowsOk /\ EncodedOk /\ ReadyOk
    BY TypeOfAll DEF EncodingIInv
  <1>2. Types'
    BY <1>1, TakeUrgentSets, TakeNormalSets, ClaimSets DEF Types, JobIs
  <1>3. TypeOK'
    BY <1>1, <1>2, TypesKeep, TakeUrgentSets, TakeNormalSets, ClaimSets
  <1>4. ChangeOk'
    BY <1>1, TakeUrgentSets, TakeNormalSets, ClaimSets DEF ChangeOk, Steady, Present, JobIs
  <1>5. QualityOk'
    BY <1>1, TakeUrgentSets, TakeNormalSets, ClaimSets DEF QualityOk, JobIs
  <1>6. WorkersOk'
    <2>1. CASE TakeUrgent(w)
      <3>1. PICK i \in 1..Len(urgent), q \in Quality, t \in Nat, f \in BOOLEAN :
              JobIs(w, "urgent", [version |-> urgent[i].version, tries |-> t, fixed |-> f],
                    {q}, "load", 0)
        BY <1>1, <2>1, TakeUrgentSets
      <3>2. /\ worker'[w].entry.version = urgent[i].version
            /\ \A x \in Worker \ {w} : worker'[x] = worker[x]
        BY <3>1 DEF JobIs
      <3>3. UNCHANGED version
        BY <2>1 DEF TakeUrgent
      <3> QED
        BY <1>1, <3>2, <3>3, WorkersKeep DEF EntriesOk
    <2>2. CASE TakeNormal(w)
      <3>1. PICK i \in 1..Len(normal), t \in Nat, f \in BOOLEAN :
              JobIs(w, "normal", [version |-> normal[i].version, tries |-> t, fixed |-> f],
                    Quality, "load", 0)
        BY <1>1, <2>2, TakeNormalSets
      <3>2. /\ worker'[w].entry.version = normal[i].version
            /\ \A x \in Worker \ {w} : worker'[x] = worker[x]
        BY <3>1 DEF JobIs
      <3>3. UNCHANGED version
        BY <2>2 DEF TakeNormal
      <3> QED
        BY <1>1, <3>2, <3>3, WorkersKeep DEF EntriesOk
    <2>3. CASE Claim(w)
      <3>1. PICK i \in 1..Len(left), t \in Nat, f \in BOOLEAN :
              JobIs(w, "normal", [version |-> left[i].version, tries |-> t, fixed |-> f],
                    Quality, "load", 0)
        BY <1>1, <2>3, ClaimSets
      <3>2. /\ worker'[w].entry.version = left[i].version
            /\ \A x \in Worker \ {w} : worker'[x] = worker[x]
        BY <3>1 DEF JobIs
      <3>3. UNCHANGED version
        BY <2>3 DEF Claim
      <3> QED
        BY <1>1, <3>2, <3>3, WorkersKeep DEF EntriesOk
    <2> QED
      BY <2>1, <2>2, <2>3
  <1>7. EntriesOk'
    BY <1>1, JobTypes, TakeUrgentSets, TakeNormalSets, ClaimSets DEF EntriesOk, WorkersOk, AsksOk,
      Present, VersionOf, JobIs
  <1>8. AsksOk'
    BY <1>1, TakeUrgentSets, TakeNormalSets, ClaimSets DEF AsksOk, Present, JobIs
  <1>9. RowsOk'
    BY <1>1, TakeUrgentSets, TakeNormalSets, ClaimSets DEF RowsOk, Present, JobIs
  <1>10. EncodedOk'
    BY <1>1, EncodedKeeps, JobTypes, TakeUrgentSets, TakeNormalSets, ClaimSets DEF EncodedOk,
      ChangeOk, VersionOf, JobIs
  <1>11. ReadyOk'
    BY <1>1, ReadyKeeps, TakeUrgentSets, TakeNormalSets, ClaimSets DEF JobIs
  <1> QED
    BY <1>3, <1>4, <1>5, <1>6, <1>7, <1>8, <1>9, <1>10, <1>11 DEF EncodingIInv

\* The steps of a loop that change nothing but its job.
LEMMA LookKeeps ==
    ASSUME EncodingIInv, NEW w \in Worker, Load(w) \/ Probe(w) \/ Check(w) \/ Acknowledge(w)
    PROVE  EncodingIInv'
  <1>1. /\ TypeOK /\ Types /\ ChangeOk /\ QualityOk /\ WorkersOk /\ EntriesOk /\ AsksOk
        /\ RowsOk /\ EncodedOk /\ ReadyOk
    BY TypeOfAll DEF EncodingIInv
  <1>2. Types'
    BY <1>1, LoadSets, ProbeSets, CheckSets, AcknowledgeSets DEF Types, JobIs, Goes, Freed,
      Finished, Stays
  <1>3. TypeOK'
    BY <1>1, <1>2, TypesKeep, LoadSets, ProbeSets, CheckSets, AcknowledgeSets DEF Stays
  <1>4. ChangeOk'
    BY <1>1, LoadSets, ProbeSets, CheckSets, AcknowledgeSets DEF ChangeOk, Steady, Present, JobIs,
      Goes, Freed, Finished, Stays
  <1>5. QualityOk'
    BY <1>1, LoadSets, ProbeSets, CheckSets, AcknowledgeSets DEF QualityOk, JobIs, Goes, Freed,
      Finished, Stays
  <1>6. WorkersOk'
    BY <1>1, WorkersKeep, JobTypes, LoadSets, ProbeSets, CheckSets, AcknowledgeSets DEF WorkersOk,
      EntriesOk, Present, VersionOf, JobIs, Goes, Freed, Finished, Stays
  <1>7. EntriesOk'
    BY <1>1, JobTypes, LoadSets, ProbeSets, CheckSets, AcknowledgeSets DEF EntriesOk, WorkersOk,
      AsksOk, Present, VersionOf, JobIs, Goes, Freed, Finished, Stays
  <1>8. AsksOk'
    BY <1>1, LoadSets, ProbeSets, CheckSets, AcknowledgeSets DEF AsksOk, Present, JobIs, Goes,
      Freed, Finished, Stays
  <1>9. RowsOk'
    BY <1>1, LoadSets, ProbeSets, CheckSets, AcknowledgeSets DEF RowsOk, Present, JobIs, Goes,
      Freed, Finished, Stays
  <1>10. EncodedOk'
    BY <1>1, EncodedKeeps, JobTypes, LoadSets, ProbeSets, CheckSets,
      AcknowledgeSets DEF EncodedOk, ChangeOk, VersionOf, JobIs, Goes, Freed, Finished, Stays
  <1>11. ReadyOk'
    BY <1>1, ReadyKeeps, LoadSets, ProbeSets, CheckSets, AcknowledgeSets DEF JobIs, Goes, Freed,
      Finished, Stays
  <1> QED
    BY <1>3, <1>4, <1>5, <1>6, <1>7, <1>8, <1>9, <1>10, <1>11 DEF EncodingIInv

\* A job that failed.
LEMMA ThrowKeeps ==
    ASSUME EncodingIInv, NEW w \in Worker, ThrowUrgent(w) \/ GiveUp(w) \/ TryAgain(w)
    PROVE  EncodingIInv'
  <1>1. /\ TypeOK /\ Types /\ ChangeOk /\ QualityOk /\ WorkersOk /\ EntriesOk /\ AsksOk
        /\ RowsOk /\ EncodedOk /\ ReadyOk
    BY TypeOfAll DEF EncodingIInv
  <1>2. Types'
    BY <1>1, ThrowSets DEF Types, JobIs, Goes, Freed, Finished, Stays, Moved
  <1>3. TypeOK'
    BY <1>1, <1>2, TypesKeep, ThrowSets DEF Stays
  <1>4. ChangeOk'
    BY <1>1, ThrowSets DEF ChangeOk, Steady, Present, JobIs, Goes, Freed, Finished, Stays, Moved
  <1>5. QualityOk'
    BY <1>1, ThrowSets DEF QualityOk, JobIs, Goes, Freed, Finished, Stays, Moved
  <1>6. WorkersOk'
    BY <1>1, WorkersKeep, JobTypes, ThrowSets DEF WorkersOk, EntriesOk, Present, VersionOf, JobIs,
      Goes, Freed, Finished, Stays, Moved
  <1>7. EntriesOk'
    BY <1>1, JobTypes, ThrowSets DEF EntriesOk, WorkersOk, AsksOk, Present, VersionOf, JobIs,
      Goes, Freed, Finished, Stays, Moved
  <1>8. AsksOk'
    BY <1>1, ThrowSets DEF AsksOk, Present, JobIs, Goes, Freed, Finished, Stays, Moved
  <1>9. RowsOk'
    BY <1>1, RowsKeep, PresentVersion, JobTypes, ThrowSets DEF WorkersOk, AsksOk, Version, Stays
  <1>10. EncodedOk'
    BY <1>1, EncodedKeeps, JobTypes, ThrowSets DEF EncodedOk, ChangeOk, VersionOf, JobIs, Goes,
      Freed, Finished, Stays, Moved
  <1>11. ReadyOk'
    BY <1>1, NotReadyKeeps, ReadyKeeps, JobTypes, ThrowSets DEF JobIs, Goes, Freed, Finished,
      Stays, Moved
  <1> QED
    BY <1>3, <1>4, <1>5, <1>6, <1>7, <1>8, <1>9, <1>10, <1>11 DEF EncodingIInv

\* The next quality of a job, and one that failed.
LEMMA NextKeeps ==
    ASSUME EncodingIInv, NEW w \in Worker, NextQuality(w) \/ MarkFailed(w)
    PROVE  EncodingIInv'
  <1>1. /\ TypeOK /\ Types /\ ChangeOk /\ QualityOk /\ WorkersOk /\ EntriesOk /\ AsksOk
        /\ RowsOk /\ EncodedOk /\ ReadyOk
    BY TypeOfAll DEF EncodingIInv
  <1>2. Types'
    BY <1>1, NextQualitySets, MarkFailedSets DEF Types, JobIs, Goes, Freed, Finished, Stays, Moved
  <1>3. TypeOK'
    BY <1>1, <1>2, TypesKeep, NextQualitySets, MarkFailedSets DEF Stays
  <1>4. ChangeOk'
    BY <1>1, NextQualitySets, MarkFailedSets DEF ChangeOk, Steady, Present, JobIs, Goes, Freed,
      Finished, Stays, Moved
  <1>5. QualityOk'
    BY <1>1, NextQualitySets, MarkFailedSets DEF QualityOk, JobIs, Goes, Freed, Finished, Stays,
      Moved
  <1>6. WorkersOk'
    BY <1>1, WorkersKeep, JobTypes, NextQualitySets, MarkFailedSets DEF WorkersOk, EntriesOk,
      Present, VersionOf, JobIs, Goes, Freed, Finished, Stays, Moved
  <1>7. EntriesOk'
    BY <1>1, JobTypes, NextQualitySets, MarkFailedSets DEF EntriesOk, WorkersOk, AsksOk, Present,
      VersionOf, JobIs, Goes, Freed, Finished, Stays, Moved
  <1>8. AsksOk'
    BY <1>1, NextQualitySets, MarkFailedSets DEF AsksOk, Present, JobIs, Goes, Freed, Finished,
      Stays, Moved
  <1>9. RowsOk'
    <2>1. worker[w] # Null /\ UNCHANGED version
      BY <1>1, NextQualitySets, MarkFailedSets DEF Stays
    <2>2. VersionOf(w) \in Version /\ (Present => VersionOf(w) <= version)
      BY <1>1, <2>1, JobTypes DEF WorkersOk
    <2>3. \/ UNCHANGED row
          \/ Moved(VersionOf(w), {Current(w)}, Status, "processing")
          \/ Moved(VersionOf(w), {Current(w)}, Status, "skipped")
          \/ Moved(VersionOf(w), {Current(w)}, Status, "failed")
      BY <1>1, NextQualitySets, MarkFailedSets
    <2>4. CASE UNCHANGED row
      BY <1>1, <2>1, <2>4 DEF RowsOk, Present
    <2> QED
      BY <1>1, <2>1, <2>2, <2>3, <2>4, RowsKeep
  <1>10. EncodedOk'
    BY <1>1, EncodedKeeps, JobTypes, NextQualitySets, MarkFailedSets DEF EncodedOk, ChangeOk,
      VersionOf, JobIs, Goes, Freed, Finished, Stays, Moved
  <1>11. ReadyOk'
    BY <1>1, NotReadyKeeps, ReadyKeeps, JobTypes, NextQualitySets, MarkFailedSets DEF JobIs, Goes,
      Freed, Finished, Stays, Moved
  <1> QED
    BY <1>3, <1>4, <1>5, <1>6, <1>7, <1>8, <1>9, <1>10, <1>11 DEF EncodingIInv

\* The encoding.
LEMMA EncodeKeeps ==
    ASSUME EncodingIInv, NEW w \in Worker, Encode(w)
    PROVE  EncodingIInv'
  <1>1. /\ TypeOK /\ Types /\ ChangeOk /\ QualityOk /\ WorkersOk /\ EntriesOk /\ AsksOk
        /\ RowsOk /\ EncodedOk /\ ReadyOk
    BY TypeOfAll DEF EncodingIInv
  <1>2. Types'
    BY <1>1, EncodeSets DEF Types, JobIs, Goes, Stays
  <1>3. TypeOK'
    BY <1>1, <1>2, TypesKeep, EncodeSets DEF Stays
  <1>4. ChangeOk'
    BY <1>1, EncodeSets DEF ChangeOk, Steady, Present, JobIs, Goes, Stays
  <1>5. QualityOk'
    BY <1>1, EncodeSets DEF QualityOk, JobIs, Goes, Stays
  <1>6. WorkersOk'
    BY <1>1, WorkersKeep, JobTypes, EncodeSets DEF WorkersOk, EntriesOk, Present, VersionOf,
      JobIs, Goes, Stays
  <1>7. EntriesOk'
    BY <1>1, JobTypes, EncodeSets DEF EntriesOk, WorkersOk, AsksOk, Present, VersionOf, JobIs,
      Goes, Stays
  <1>8. AsksOk'
    BY <1>1, EncodeSets DEF AsksOk, Present, JobIs, Goes, Stays
  <1>9. RowsOk'
    BY <1>1, EncodeSets DEF RowsOk, Present, JobIs, Goes, Stays
  <1>10. EncodedOk'
    BY <1>1, EncodedKeeps, JobTypes, EncodeSets DEF EncodedOk, ChangeOk, VersionOf, JobIs, Goes,
      Stays
  <1>11. ReadyOk'
    BY <1>1, ReadyKeeps, EncodeSets DEF JobIs, Goes, Stays
  <1> QED
    BY <1>3, <1>4, <1>5, <1>6, <1>7, <1>8, <1>9, <1>10, <1>11 DEF EncodingIInv

\* The output is moved into place.
LEMMA RenameKeeps ==
    ASSUME EncodingIInv, NEW w \in Worker, Rename(w)
    PROVE  EncodingIInv'
  <1>1. /\ TypeOK /\ Types /\ ChangeOk /\ QualityOk /\ WorkersOk /\ EntriesOk /\ AsksOk
        /\ RowsOk /\ EncodedOk /\ ReadyOk
    BY TypeOfAll DEF EncodingIInv
  <1>2. Types'
    BY <1>1, RenameSets DEF Types, JobIs, Goes, Stays
  <1>3. TypeOK'
    BY <1>1, <1>2, TypesKeep, RenameSets DEF Stays
  <1>4. ChangeOk'
    BY <1>1, RenameSets DEF ChangeOk, Steady, Present, JobIs, Goes, Stays
  <1>5. QualityOk'
    BY <1>1, RenameSets DEF QualityOk, JobIs, Goes, Stays
  <1>6. WorkersOk'
    BY <1>1, WorkersKeep, JobTypes, RenameSets DEF WorkersOk, EntriesOk, Present, VersionOf,
      JobIs, Goes, Stays
  <1>7. EntriesOk'
    BY <1>1, JobTypes, RenameSets DEF EntriesOk, WorkersOk, AsksOk, Present, VersionOf, JobIs,
      Goes, Stays
  <1>8. AsksOk'
    BY <1>1, RenameSets DEF AsksOk, Present, JobIs, Goes, Stays
  <1>9. RowsOk'
    BY <1>1, RenameSets DEF RowsOk, Present, JobIs, Goes, Stays
  <1>10. EncodedOk'
    BY <1>1, JobTypes, PresentVersion, RenameSets DEF EncodedOk, Steady, Present, VersionOf,
      Current, JobIs, Goes, Stays
  <1>11. ReadyOk'
    BY <1>1, JobTypes, PresentVersion, RenameSets DEF EncodedOk, ReadyOk, Steady, Present,
      VersionOf, JobIs, Goes, Stays
  <1> QED
    BY <1>3, <1>4, <1>5, <1>6, <1>7, <1>8, <1>9, <1>10, <1>11 DEF EncodingIInv

\* A quality is ready.
LEMMA MarkReadyKeeps ==
    ASSUME EncodingIInv, NEW w \in Worker, MarkReady(w)
    PROVE  EncodingIInv'
  <1>1. /\ TypeOK /\ Types /\ ChangeOk /\ QualityOk /\ WorkersOk /\ EntriesOk /\ AsksOk
        /\ RowsOk /\ EncodedOk /\ ReadyOk
    BY TypeOfAll DEF EncodingIInv
  <1>2. Types'
    BY <1>1, MarkReadySets DEF Types, JobIs, Stays, Moved
  <1>3. TypeOK'
    BY <1>1, <1>2, TypesKeep, MarkReadySets DEF Stays
  <1>4. ChangeOk'
    BY <1>1, MarkReadySets DEF ChangeOk, Steady, Present, JobIs, Stays, Moved
  <1>5. QualityOk'
    BY <1>1, MarkReadySets DEF QualityOk, JobIs, Stays, Moved
  <1>6. WorkersOk'
    BY <1>1, WorkersKeep, JobTypes, MarkReadySets DEF WorkersOk, EntriesOk, Present, VersionOf,
      JobIs, Stays, Moved
  <1>7. EntriesOk'
    BY <1>1, JobTypes, MarkReadySets DEF EntriesOk, WorkersOk, AsksOk, Present, VersionOf, JobIs,
      Stays, Moved
  <1>8. AsksOk'
    BY <1>1, MarkReadySets DEF AsksOk, Present, JobIs, Stays, Moved
  <1>9. RowsOk'
    BY <1>1, RowsKeep, PresentVersion, JobTypes, MarkReadySets DEF WorkersOk, AsksOk, Version,
      Stays
  <1>10. EncodedOk'
    BY <1>1, EncodedKeeps, JobTypes, MarkReadySets DEF EncodedOk, ChangeOk, VersionOf, JobIs,
      Stays, Moved
  <1>11. ReadyOk'
    BY <1>1, JobTypes, PresentVersion, MarkReadySets DEF EncodedOk, ReadyOk, Steady, Present,
      VersionOf, JobIs, Stays, Moved
  <1> QED
    BY <1>3, <1>4, <1>5, <1>6, <1>7, <1>8, <1>9, <1>10, <1>11 DEF EncodingIInv

\* A job is put on the stream again.
LEMMA ReaddKeeps ==
    ASSUME EncodingIInv, NEW w \in Worker, Readd(w)
    PROVE  EncodingIInv'
  <1>1. /\ TypeOK /\ Types /\ ChangeOk /\ QualityOk /\ WorkersOk /\ EntriesOk /\ AsksOk
        /\ RowsOk /\ EncodedOk /\ ReadyOk
    BY TypeOfAll DEF EncodingIInv
  <1>2. Types'
    BY <1>1, ReaddSets DEF Types, JobIs, Goes
  <1>3. TypeOK'
    BY <1>1, <1>2, TypesKeep, ReaddSets
  <1>4. ChangeOk'
    BY <1>1, ReaddSets DEF ChangeOk, Steady, Present, JobIs, Goes
  <1>5. QualityOk'
    BY <1>1, ReaddSets DEF QualityOk, JobIs, Goes
  <1>6. WorkersOk'
    BY <1>1, WorkersKeep, JobTypes, ReaddSets DEF WorkersOk, EntriesOk, Present, VersionOf, JobIs,
      Goes
  <1>7. EntriesOk'
    BY <1>1, JobTypes, ReaddSets DEF EntriesOk, WorkersOk, AsksOk, Present, VersionOf, JobIs, Goes
  <1>8. AsksOk'
    BY <1>1, ReaddSets DEF AsksOk, Present, JobIs, Goes
  <1>9. RowsOk'
    BY <1>1, ReaddSets DEF RowsOk, Present, JobIs, Goes
  <1>10. EncodedOk'
    BY <1>1, EncodedKeeps, JobTypes, ReaddSets DEF EncodedOk, ChangeOk, VersionOf, JobIs, Goes
  <1>11. ReadyOk'
    BY <1>1, ReadyKeeps, ReaddSets DEF JobIs, Goes
  <1> QED
    BY <1>3, <1>4, <1>5, <1>6, <1>7, <1>8, <1>9, <1>10, <1>11 DEF EncodingIInv

\* A request.
LEMMA BeginKeeps ==
    ASSUME EncodingIInv, NEW a \in Handler, NEW q \in Quality, RequestBegin(a, q)
    PROVE  EncodingIInv'
  <1>1. /\ TypeOK /\ Types /\ ChangeOk /\ QualityOk /\ WorkersOk /\ EntriesOk /\ AsksOk
        /\ RowsOk /\ EncodedOk /\ ReadyOk
    BY TypeOfAll DEF EncodingIInv
  <1>2. Types'
    BY <1>1, RequestBeginSets DEF Types, AskIs
  <1>3. TypeOK'
    BY <1>1, <1>2, TypesKeepSpent, RequestBeginSets DEF Kinds, NoChange, TypeOK
  <1>4. ChangeOk'
    BY <1>1, RequestBeginSets DEF ChangeOk, Steady, Present, AskIs
  <1>5. QualityOk'
    BY <1>1, RequestBeginSets DEF QualityOk, AskIs
  <1>6. WorkersOk'
    BY <1>1, RequestBeginSets DEF WorkersOk, Present, VersionOf, AskIs
  <1>7. EntriesOk'
    BY <1>1, AskTypes, RequestBeginSets DEF EntriesOk, WorkersOk, AsksOk, Present, VersionOf,
      AskIs
  <1>8. AsksOk'
    BY <1>1, AsksKeep, AskTypes, RequestBeginSets DEF AsksOk, Present, Types, AskIs
  <1>9. RowsOk'
    BY <1>1, RequestBeginSets DEF RowsOk, Present, AskIs
  <1>10. EncodedOk'
    BY <1>1, RequestBeginSets DEF EncodedOk, Steady, Present, VersionOf, Current, AskIs
  <1>11. ReadyOk'
    BY <1>1, ReadyKeeps, RequestBeginSets DEF AskIs
  <1> QED
    BY <1>3, <1>4, <1>5, <1>6, <1>7, <1>8, <1>9, <1>10, <1>11 DEF EncodingIInv

\* An administrator's retry.
LEMMA RetryKeeps ==
    ASSUME EncodingIInv, NEW a \in Handler, NEW force \in BOOLEAN, Retry(a, force)
    PROVE  EncodingIInv'
  <1>1. /\ TypeOK /\ Types /\ ChangeOk /\ QualityOk /\ WorkersOk /\ EntriesOk /\ AsksOk
        /\ RowsOk /\ EncodedOk /\ ReadyOk
    BY TypeOfAll DEF EncodingIInv
  <1>2. Types'
    BY <1>1, RetrySets DEF Types, AskIs, Moved
  <1>3. TypeOK'
    BY <1>1, <1>2, TypesKeepSpent, RetrySets DEF Kinds, NoChange, TypeOK
  <1>4. ChangeOk'
    BY <1>1, RetrySets DEF ChangeOk, Steady, Present, AskIs, Moved
  <1>5. QualityOk'
    BY <1>1, RetrySets DEF QualityOk, AskIs, Moved
  <1>6. WorkersOk'
    BY <1>1, RetrySets DEF WorkersOk, Present, VersionOf, AskIs, Moved
  <1>7. EntriesOk'
    BY <1>1, AskTypes, RetrySets DEF EntriesOk, WorkersOk, AsksOk, Present, VersionOf, AskIs,
      Moved
  <1>8. AsksOk'
    BY <1>1, AsksKeep, PresentVersion, RetrySets DEF AskIs, Version
  <1>9. RowsOk'
    BY <1>1, RowsKeep, PresentVersion, AskTypes, RetrySets DEF WorkersOk, AsksOk, Version
  <1>10. EncodedOk'
    BY <1>1, RetrySets DEF EncodedOk, Steady, Present, VersionOf, Current, AskIs, Moved
  <1>11. ReadyOk'
    BY <1>1, NotReadyKeeps, ReadyKeeps, AskTypes, RetrySets DEF AskIs, Moved
  <1> QED
    BY <1>3, <1>4, <1>5, <1>6, <1>7, <1>8, <1>9, <1>10, <1>11 DEF EncodingIInv

\* The row of a request.
LEMMA InsertKeeps ==
    ASSUME EncodingIInv, NEW a \in Handler, RequestInsert(a)
    PROVE  EncodingIInv'
  <1>1. /\ TypeOK /\ Types /\ ChangeOk /\ QualityOk /\ WorkersOk /\ EntriesOk /\ AsksOk
        /\ RowsOk /\ EncodedOk /\ ReadyOk
    BY TypeOfAll DEF EncodingIInv
  <1>2. Types'
    BY <1>1, RequestInsertSets DEF Types, AskIs, Answered, Moved
  <1>3. TypeOK'
    BY <1>1, <1>2, TypesKeep, RequestInsertSets
  <1>4. ChangeOk'
    BY <1>1, RequestInsertSets DEF ChangeOk, Steady, Present, AskIs, Answered, Moved
  <1>5. QualityOk'
    BY <1>1, RequestInsertSets DEF QualityOk, AskIs, Answered, Moved
  <1>6. WorkersOk'
    BY <1>1, RequestInsertSets DEF WorkersOk, Present, VersionOf, AskIs, Answered, Moved
  <1>7. EntriesOk'
    BY <1>1, AskTypes, RequestInsertSets DEF EntriesOk, WorkersOk, AsksOk, Present, VersionOf,
      AskIs, Answered, Moved
  <1>8. AsksOk'
    BY <1>1, AsksKeep, AskTypes, RequestInsertSets DEF AsksOk, Present, Types, AskIs, Answered,
      Moved
  <1>9. RowsOk'
    <2>1. ask[a] # Null /\ UNCHANGED version
      BY <1>1, RequestInsertSets
    <2>2. ask[a].version \in Version /\ (Present => ask[a].version <= version)
      BY <1>1, <2>1, AskTypes DEF AsksOk
    <2>3. \/ UNCHANGED row
          \/ Moved(ask[a].version, {ask[a].quality}, {"none", "failed"}, "queued")
      BY <1>1, RequestInsertSets
    <2>4. CASE UNCHANGED row
      BY <1>1, <2>1, <2>4 DEF RowsOk, Present
    <2> QED
      BY <1>1, <2>1, <2>2, <2>3, <2>4, RowsKeep
  <1>10. EncodedOk'
    BY <1>1, RequestInsertSets DEF EncodedOk, Steady, Present, VersionOf, Current, AskIs,
      Answered, Moved
  <1>11. ReadyOk'
    BY <1>1, NotReadyKeeps, ReadyKeeps, AskTypes, RequestInsertSets DEF AskIs, Answered, Moved
  <1> QED
    BY <1>3, <1>4, <1>5, <1>6, <1>7, <1>8, <1>9, <1>10, <1>11 DEF EncodingIInv

\* A job is put on its stream.
LEMMA AddKeeps ==
    ASSUME EncodingIInv, NEW a \in Handler, RequestAdd(a) \/ RetryAdd(a)
    PROVE  EncodingIInv'
  <1>1. /\ TypeOK /\ Types /\ ChangeOk /\ QualityOk /\ WorkersOk /\ EntriesOk /\ AsksOk
        /\ RowsOk /\ EncodedOk /\ ReadyOk
    BY TypeOfAll DEF EncodingIInv
  <1>2. Types'
    BY <1>1, RequestAddSets, RetryAddSets DEF Types, Answered
  <1>3. TypeOK'
    BY <1>1, <1>2, TypesKeep, RequestAddSets, RetryAddSets
  <1>4. ChangeOk'
    BY <1>1, RequestAddSets, RetryAddSets DEF ChangeOk, Steady, Present, Answered
  <1>5. QualityOk'
    BY <1>1, RequestAddSets, RetryAddSets DEF QualityOk, Answered
  <1>6. WorkersOk'
    BY <1>1, RequestAddSets, RetryAddSets DEF WorkersOk, Present, VersionOf, Answered
  <1>7. EntriesOk'
    BY <1>1, AskTypes, RequestAddSets, RetryAddSets DEF EntriesOk, WorkersOk, AsksOk, Present,
      VersionOf, Answered
  <1>8. AsksOk'
    BY <1>1, AsksKeep, AskTypes, RequestAddSets, RetryAddSets DEF AsksOk, Present, Types, Answered
  <1>9. RowsOk'
    BY <1>1, RequestAddSets, RetryAddSets DEF RowsOk, Present, Answered
  <1>10. EncodedOk'
    BY <1>1, RequestAddSets, RetryAddSets DEF EncodedOk, Steady, Present, VersionOf, Current,
      Answered
  <1>11. ReadyOk'
    BY <1>1, ReadyKeeps, RequestAddSets, RetryAddSets DEF Answered
  <1> QED
    BY <1>3, <1>4, <1>5, <1>6, <1>7, <1>8, <1>9, <1>10, <1>11 DEF EncodingIInv

\* The worker stops.
LEMMA WorkerCrashKeeps ==
    ASSUME EncodingIInv, WorkerCrash
    PROVE  EncodingIInv'
  <1>1. /\ TypeOK /\ Types /\ ChangeOk /\ QualityOk /\ WorkersOk /\ EntriesOk /\ AsksOk
        /\ RowsOk /\ EncodedOk /\ ReadyOk
    BY TypeOfAll DEF EncodingIInv
  <1>2. Types'
    BY <1>1, WorkerCrashSets DEF Types
  <1>3. TypeOK'
    BY <1>1, <1>2, TypesKeepSpent, WorkerCrashSets DEF Kinds, NoChange, TypeOK
  <1>4. ChangeOk'
    BY <1>1, WorkerCrashSets DEF ChangeOk, Steady, Present
  <1>5. QualityOk'
    BY <1>1, WorkerCrashSets DEF QualityOk
  <1>6. WorkersOk'
    BY <1>1, WorkerCrashSets DEF WorkersOk, Present, VersionOf
  <1>7. EntriesOk'
    BY <1>1, JobTypes, WorkerCrashSets DEF EntriesOk, WorkersOk, AsksOk, Present, VersionOf
  <1>8. AsksOk'
    BY <1>1, WorkerCrashSets DEF AsksOk, Present
  <1>9. RowsOk'
    BY <1>1, WorkerCrashSets DEF RowsOk, Present
  <1>10. EncodedOk'
    BY <1>1, WorkerCrashSets DEF EncodedOk, Steady, Present, VersionOf, Current
  <1>11. ReadyOk'
    BY <1>1, ReadyKeeps, WorkerCrashSets
  <1> QED
    BY <1>3, <1>4, <1>5, <1>6, <1>7, <1>8, <1>9, <1>10, <1>11 DEF EncodingIInv

\* The server stops.
LEMMA ServerCrashKeeps ==
    ASSUME EncodingIInv, ServerCrash
    PROVE  EncodingIInv'
  <1>1. /\ TypeOK /\ Types /\ ChangeOk /\ QualityOk /\ WorkersOk /\ EntriesOk /\ AsksOk
        /\ RowsOk /\ EncodedOk /\ ReadyOk
    BY TypeOfAll DEF EncodingIInv
  <1>2. Types'
    BY <1>1, ServerCrashSets DEF Types, NoChange
  <1>3. TypeOK'
    BY <1>1, <1>2, TypesKeepSpent, ServerCrashSets DEF Kinds, NoChange, TypeOK
  <1>4. ChangeOk'
    BY <1>1, ServerCrashSets DEF ChangeOk, Steady, Present, NoChange
  <1>5. QualityOk'
    BY <1>1, ServerCrashSets DEF QualityOk, NoChange
  <1>6. WorkersOk'
    BY <1>1, ServerCrashSets DEF WorkersOk, Present, VersionOf, NoChange
  <1>7. EntriesOk'
    BY <1>1, ServerCrashSets DEF EntriesOk, WorkersOk, AsksOk, Present, VersionOf, NoChange
  <1>8. AsksOk'
    BY <1>1, ServerCrashSets DEF AsksOk, Present, NoChange
  <1>9. RowsOk'
    BY <1>1, ServerCrashSets DEF RowsOk, Present, NoChange
  <1>10. EncodedOk'
    BY <1>1, ServerCrashSets DEF EncodedOk, Steady, Present, VersionOf, Current, NoChange
  <1>11. ReadyOk'
    BY <1>1, ServerCrashSets DEF ReadyOk, Steady, Present, NoChange
  <1> QED
    BY <1>3, <1>4, <1>5, <1>6, <1>7, <1>8, <1>9, <1>10, <1>11 DEF EncodingIInv

\* A replacement or deletion of the asset, a step at a time.  When the version
\* moves on nobody knows of the new one, and no row is of it.
LEMMA ReplaceWriteKeeps ==
    ASSUME EncodingIInv, ReplaceWrite
    PROVE  EncodingIInv'
  <1>1. /\ TypeOK /\ Types /\ QualityOk /\ WorkersOk /\ EntriesOk /\ AsksOk /\ RowsOk
    BY TypeOfAll DEF EncodingIInv
  <1>2. /\ Present /\ version < MaxVersion /\ Spend("change") /\ source' = version + 1
        /\ change' = "rm"
        /\ UNCHANGED <<version, row, file, urgent, normal, left, worker, ask>>
    BY DEF ReplaceWrite
  <1>3. version \in Version /\ version + 1 \in Version /\ version + 1 \in 0..MaxVersion
    BY <1>1, <1>2, PresentVersion, BoundAssumption DEF Version
  <1>4. Types'
    BY <1>1, <1>2, <1>3 DEF Types
  <1>5. TypeOK'
    BY <1>1, <1>2, <1>4, TypesKeepSpent DEF Kinds
  <1>6. ChangeOk' /\ EncodedOk' /\ ReadyOk'
    BY <1>2, <1>3 DEF ChangeOk, EncodedOk, ReadyOk, Steady, Present
  <1>7. QualityOk' /\ WorkersOk' /\ EntriesOk' /\ AsksOk' /\ RowsOk'
    BY <1>1, <1>2 DEF QualityOk, WorkersOk, EntriesOk, AsksOk, RowsOk, Present, VersionOf
  <1> QED
    BY <1>5, <1>6, <1>7 DEF EncodingIInv

LEMMA ReplaceRemoveKeeps ==
    ASSUME EncodingIInv, ReplaceRemove
    PROVE  EncodingIInv'
  <1>1. /\ TypeOK /\ Types /\ ChangeOk /\ QualityOk /\ WorkersOk /\ EntriesOk /\ AsksOk /\ RowsOk
    BY TypeOfAll DEF EncodingIInv
  <1>2. /\ change = "rm" /\ Removed /\ change' = "update"
        /\ UNCHANGED <<version, source, row, urgent, normal, left, ask, budget>>
    BY <1>1, RemoveRemoves DEF ReplaceRemove
  <1>3. Types'
    BY <1>1, <1>2 DEF Types, Removed
  <1>4. TypeOK'
    BY <1>1, <1>2, <1>3 DEF TypeOK, Types
  <1>5. ChangeOk' /\ EncodedOk' /\ ReadyOk'
    BY <1>1, <1>2 DEF ChangeOk, EncodedOk, ReadyOk, Steady, Present
  <1>6. WorkersOk'
    BY <1>1, <1>2 DEF WorkersOk, Present, VersionOf, Removed
  <1>7. QualityOk' /\ EntriesOk' /\ AsksOk' /\ RowsOk'
    BY <1>1, <1>2 DEF QualityOk, EntriesOk, AsksOk, RowsOk, Present
  <1> QED
    BY <1>4, <1>5, <1>6, <1>7 DEF EncodingIInv

LEMMA ReplaceUpdateKeeps ==
    ASSUME EncodingIInv, ReplaceUpdate
    PROVE  EncodingIInv'
  <1>1. /\ TypeOK /\ Types /\ ChangeOk /\ QualityOk /\ WorkersOk /\ EntriesOk /\ AsksOk /\ RowsOk
    BY TypeOfAll DEF EncodingIInv
  <1>2. /\ change = "update" /\ version' = version + 1 /\ change' = "sweep"
        /\ UNCHANGED <<source, row, file, urgent, normal, left, worker, ask, budget>>
    BY DEF ReplaceUpdate
  <1>3. /\ version \in Version /\ version' \in Version /\ source' = version' /\ Present /\ Present'
        /\ version' > version /\ version \in Nat /\ version' \in Nat /\ version' \in 0..MaxVersion
    BY <1>1, <1>2, BoundAssumption DEF ChangeOk, Version, Present
  <1>4. Types'
    BY <1>1, <1>2, <1>3 DEF Types
  <1>5. TypeOK'
    BY <1>1, <1>2, <1>3 DEF TypeOK
  <1>6. ChangeOk'
    BY <1>2, <1>3 DEF ChangeOk, Steady
  <1>7. WorkersOk'
    BY <1>1, <1>2, <1>3, JobTypes DEF WorkersOk, VersionOf, Version
  <1>8. AsksOk'
    BY <1>1, <1>2, <1>3, AskTypes DEF AsksOk, Version
  <1>9. EntriesOk'
    <2>1. ASSUME NEW s \in Seq(Entry), \A i \in 1..Len(s) : s[i].version <= version
          PROVE  \A i \in 1..Len(s) : s[i].version <= version'
      <3>1. \A i \in 1..Len(s) : s[i] \in Entry
        BY ElementOfSeq, LenProperties
      <3>2. \A i \in 1..Len(s) : s[i].version \in Version
        BY <3>1 DEF Entry
      <3> QED
        BY <1>3, <2>1, <3>2 DEF Version
    <2>2. ASSUME NEW s \in Seq([version : Version, quality : Quality]),
                 \A i \in 1..Len(s) : s[i].version <= version
          PROVE  \A i \in 1..Len(s) : s[i].version <= version'
      <3>1. \A i \in 1..Len(s) : s[i] \in [version : Version, quality : Quality]
        BY ElementOfSeq, LenProperties
      <3>2. \A i \in 1..Len(s) : s[i].version \in Version
        BY <3>1
      <3> QED
        BY <1>3, <2>2, <3>2 DEF Version
    <2> QED
      BY <1>1, <1>2, <1>3, <2>1, <2>2 DEF EntriesOk, Types
  <1>10. RowsOk'
    BY <1>1, <1>2, <1>3 DEF RowsOk, Version
  <1>11. EncodedOk'
    <2> SUFFICES ASSUME NEW w \in Worker, worker[w] # Null
                 PROVE  VersionOf(w) # version'
      BY <1>2 DEF EncodedOk, VersionOf
    <2>1. VersionOf(w) <= version /\ VersionOf(w) \in Version
      BY <1>1, <1>3, JobTypes DEF WorkersOk
    <2> QED
      BY <1>3, <2>1 DEF Version
  <1>12. ReadyOk'
    <2> SUFFICES ASSUME NEW q \in Quality PROVE row[version'][q] # "ready"
      BY <1>2 DEF ReadyOk
    <2>1. row[version'][q] = "none"
      BY <1>1, <1>3 DEF RowsOk
    <2> QED
      BY <2>1
  <1>13. QualityOk'
    BY <1>1, <1>2 DEF QualityOk
  <1> QED
    BY <1>5, <1>6, <1>7, <1>8, <1>9, <1>10, <1>11, <1>12, <1>13 DEF EncodingIInv

LEMMA ReplaceSweepKeeps ==
    ASSUME EncodingIInv, ReplaceSweep
    PROVE  EncodingIInv'
  <1>1. /\ TypeOK /\ Types /\ ChangeOk /\ QualityOk /\ WorkersOk /\ EntriesOk /\ AsksOk /\ RowsOk
        /\ EncodedOk /\ ReadyOk
    BY TypeOfAll DEF EncodingIInv
  <1>2. /\ change = "sweep" /\ change' = "none" /\ Present /\ Present' /\ Steady
        /\ UNCHANGED <<version, source, file, urgent, normal, left, worker, ask, budget>>
    BY <1>1 DEF ReplaceSweep, ChangeOk, Steady, Present
  <1>3. /\ row' \in [Version -> [Quality -> Status \union {"none"}]]
        /\ \A v \in Version, q \in Quality : row'[v][q] = IF v = version THEN row[v][q] ELSE "none"
    BY <1>1 DEF ReplaceSweep, Types
  <1>4. TypeOK'
    BY <1>1, <1>2, <1>3 DEF TypeOK
  <1>5. ChangeOk' /\ WorkersOk' /\ EntriesOk' /\ AsksOk' /\ QualityOk'
    BY <1>1, <1>2 DEF ChangeOk, WorkersOk, EntriesOk, AsksOk, QualityOk, Steady, VersionOf
  <1>6. RowsOk'
    BY <1>1, <1>2, <1>3 DEF RowsOk
  <1>7. EncodedOk'
    BY <1>1, <1>2 DEF EncodedOk, VersionOf, Current
  <1>8. ReadyOk'
    BY <1>1, <1>2, <1>3, PresentVersion DEF ReadyOk
  <1> QED
    BY <1>4, <1>5, <1>6, <1>7, <1>8 DEF EncodingIInv

LEMMA DeletionKeeps ==
    ASSUME EncodingIInv, DeleteRow \/ DeleteFiles
    PROVE  EncodingIInv'
  <1>1. /\ TypeOK /\ Types /\ ChangeOk /\ QualityOk /\ WorkersOk /\ EntriesOk /\ AsksOk /\ RowsOk
        /\ EncodedOk /\ ReadyOk
    BY TypeOfAll DEF EncodingIInv
  <1>2. CASE DeleteRow
    <2>1. /\ version' = 0 /\ change' = "unlink" /\ Spend("change")
          /\ row' \in [Version -> [Quality -> Status \union {"none"}]]
          /\ UNCHANGED <<source, file, urgent, normal, left, worker, ask>>
      BY <1>2 DEF DeleteRow
    <2>2. 0 \in 0..MaxVersion
      BY BoundAssumption
    <2>3. Types'
      BY <1>1, <2>1, <2>2 DEF Types
    <2>4. TypeOK'
      BY <1>1, <2>1, <2>3, TypesKeepSpent DEF Kinds
    <2>5. /\ ChangeOk' /\ WorkersOk' /\ EntriesOk' /\ AsksOk' /\ RowsOk' /\ EncodedOk' /\ ReadyOk'
      BY <2>1 DEF ChangeOk, WorkersOk, EntriesOk, AsksOk, RowsOk, EncodedOk, ReadyOk, Steady, Present
    <2>6. QualityOk'
      BY <1>1, <2>1 DEF QualityOk
    <2> QED
      BY <2>4, <2>5, <2>6 DEF EncodingIInv
  <1>3. CASE DeleteFiles
    <2>1. /\ change = "unlink" /\ source' = 0 /\ change' = "none" /\ Removed
          /\ UNCHANGED <<version, row, urgent, normal, left, ask, budget>>
      BY <1>1, <1>3, RemoveRemoves DEF DeleteFiles
    <2>2. ~Present
      BY <1>1, <2>1 DEF ChangeOk
    <2>3. TypeOK'
      BY <1>1, <2>1, BoundAssumption DEF TypeOK, Removed
    <2>4. /\ ChangeOk' /\ WorkersOk' /\ EntriesOk' /\ AsksOk' /\ RowsOk' /\ EncodedOk' /\ ReadyOk'
      BY <2>1, <2>2 DEF ChangeOk, WorkersOk, EntriesOk, AsksOk, RowsOk, EncodedOk, ReadyOk, Steady, Present
    <2>5. QualityOk'
      BY <1>1, <2>1 DEF QualityOk
    <2> QED
      BY <2>3, <2>4, <2>5 DEF EncodingIInv
  <1> QED
    BY <1>2, <1>3

LEMMA InitIInv == Init => EncodingIInv
  <1> SUFFICES ASSUME Init PROVE EncodingIInv
    OBVIOUS
  <1>1. 1 \in Version /\ 0 \in 0..MaxVersion /\ 1 \in 0..MaxVersion
    BY BoundAssumption DEF Version
  <1>2. PICK first \in [Quality -> {"none", "failed", "ready"}] :
          /\ row = [v \in Version |-> IF v = 1 THEN first ELSE [q \in Quality |-> "none"]]
          /\ file = [v \in Version |-> [q \in Quality |->
                        IF v = 1 /\ first[q] = "ready" THEN 1 ELSE 0]]
    BY DEF Init
  <1>3. /\ version = 1 /\ source = 1 /\ urgent = <<>> /\ normal = <<>> /\ left = <<>>
        /\ worker = [w \in Worker |-> Null] /\ ask = [a \in Handler |-> Null] /\ change = "none"
        /\ budget \in [Kinds -> Nat]
    BY BudgetAssumption DEF Init
  <1>4. row \in [Version -> [Quality -> Status \union {"none"}]]
    BY <1>2 DEF Status
  <1>5. file \in [Version -> [Quality -> 0..MaxVersion]]
    BY <1>1, <1>2
  <1>6. /\ worker \in [Worker -> Job \union {Null}] /\ \A w \in Worker : worker[w] = Null
        /\ ask \in [Handler -> Asking \union {Null}] /\ \A a \in Handler : ask[a] = Null
    BY <1>3
  <1>7. urgent \in Seq([version : Version, quality : Quality]) /\ normal \in Seq(Entry) /\ left \in Seq(Entry)
    BY <1>3, EmptySeq
  <1>8. TypeOK
    BY <1>1, <1>3, <1>4, <1>5, <1>6, <1>7 DEF TypeOK
  <1>9. ChangeOk /\ QualityOk /\ WorkersOk /\ EntriesOk /\ AsksOk /\ EncodedOk
    BY <1>3, <1>6 DEF ChangeOk, QualityOk, WorkersOk, EntriesOk, AsksOk, EncodedOk
  <1>10. RowsOk
    BY <1>2, <1>3 DEF RowsOk, Version
  <1>11. ReadyOk
    BY <1>1, <1>2, <1>3 DEF ReadyOk
  <1> QED
    BY <1>8, <1>9, <1>10, <1>11 DEF EncodingIInv

LEMMA NextIInv == EncodingIInv /\ [Next]_vars => EncodingIInv'
  <1> SUFFICES ASSUME EncodingIInv, [Next]_vars PROVE EncodingIInv'
    OBVIOUS
  <1>1. CASE UNCHANGED vars
    BY <1>1 DEF vars, EncodingIInv, TypeOK, ChangeOk, QualityOk, WorkersOk, EntriesOk, AsksOk,
      RowsOk, EncodedOk, ReadyOk, Steady, Present, VersionOf, Current
  <1>2. ASSUME NEW w \in Worker, Work(w) PROVE EncodingIInv'
    BY <1>2, TakeKeeps, LookKeeps, ThrowKeeps, NextKeeps, EncodeKeeps, RenameKeeps, MarkReadyKeeps,
      ReaddKeeps DEF Work
  <1>3. ASSUME NEW a \in Handler, NEW q \in Quality, RequestBegin(a, q) PROVE EncodingIInv'
    BY <1>3, BeginKeeps
  <1>4. ASSUME NEW a \in Handler, NEW force \in BOOLEAN, Retry(a, force) PROVE EncodingIInv'
    BY <1>4, RetryKeeps
  <1>5. ASSUME NEW a \in Handler, Serve(a) PROVE EncodingIInv'
    BY <1>5, InsertKeeps, AddKeeps DEF Serve
  <1>6. CASE ReplaceWrite \/ DeleteRow \/ Change
    BY <1>6, ReplaceWriteKeeps, ReplaceRemoveKeeps, ReplaceUpdateKeeps, ReplaceSweepKeeps,
      DeletionKeeps DEF Change
  <1>7. CASE WorkerCrash \/ ServerCrash
    BY <1>7, WorkerCrashKeeps, ServerCrashKeeps
  <1> QED
    BY <1>1, <1>2, <1>3, <1>4, <1>5, <1>6, <1>7 DEF Next

\* The inductive invariant holds: for any number of worker loops, requests and
\* qualities, and whatever the source is replaced by and whoever stops when
\* (encoding-worker.js, encoding-queue.js and replaceMediaFiles).
THEOREM EncodingInvariant == Spec => []EncodingIInv
  <1>1. Init => EncodingIInv
    BY InitIInv
  <1>2. EncodingIInv /\ [Next]_vars => EncodingIInv'
    BY NextIInv
  <1> QED
    BY <1>1, <1>2, PTL DEF Spec

\* A rendition that is ready is there and was made from the current source
\* (encoding-worker.js:250, which looks at the version again after ffmpeg).
THEOREM ReadyIsMade == Spec => []EncodingInv
  <1>1. EncodingIInv => EncodingInv
    BY DEF EncodingIInv, EncodingInv, ReadyIsCurrent, ReadyOk, Steady
  <1> QED
    BY <1>1, EncodingInvariant, PTL

-----------------------------------------------------------------------------
(* One loop *)

\* No row that was not ready becomes ready.
NoneReady ==
    \A v \in Version, q \in Quality : row'[v][q] = "ready" => row[v][q] = "ready"

LEMMA OthersKeep ==
    ASSUME Types, LoopIInv, NoneReady, worker' = worker \/ Removed \/ \A w \in Worker : worker'[w] = Null
    PROVE  LoopIInv'
  <1> SUFFICES ASSUME NEW w \in Worker, worker'[w] # Null, worker'[w].at \in Encoding \union {"next"}
               PROVE  /\ \A q \in worker'[w].todo : row'[VersionOf(w)'][q] # "ready"
                      /\ worker'[w].at \in Encoding => worker'[w].todo # {}
    BY DEF LoopIInv, TodoOk, BusyOk
  <1>1. /\ worker[w] # Null /\ worker'[w].at = worker[w].at /\ worker'[w].todo = worker[w].todo
        /\ VersionOf(w)' = VersionOf(w)
    BY DEF Removed, VersionOf
  <1>2. VersionOf(w) \in Version /\ worker[w].todo \subseteq Quality
    BY <1>1, JobTypes
  <1> QED
    BY <1>1, <1>2 DEF LoopIInv, TodoOk, BusyOk, NoneReady

LEMMA LoopKeeps ==
    ASSUME OneLoop, NEW w \in Worker,
           worker'[w] # Null /\ worker'[w].at \in Encoding \union {"next"} =>
             /\ \A q \in worker'[w].todo : row'[worker'[w].entry.version][q] # "ready"
             /\ worker'[w].at \in Encoding => worker'[w].todo # {}
    PROVE  LoopIInv'
  <1>1. \A x \in Worker : x = w
    BY DEF OneLoop
  <1> QED
    BY <1>1 DEF LoopIInv, TodoOk, BusyOk, VersionOf

\* Of the steps that move rows these make none ready.
LEMMA MovedNoneReady ==
    ASSUME NEW v, NEW qs, NEW from, NEW to, to # "ready", Moved(v, qs, from, to)
    PROVE  NoneReady
  BY DEF Moved, NoneReady

LEMMA WorkLoop ==
    ASSUME Types, LoopIInv, OneLoop, NEW w \in Worker, Work(w)
    PROVE  LoopIInv'
  <1>1. CASE TakeUrgent(w) \/ TakeNormal(w) \/ Claim(w)
    <2>1. worker'[w].at = "load"
      BY <1>1, TakeUrgentSets, TakeNormalSets, ClaimSets DEF JobIs
    <2> QED
      BY <2>1, LoopKeeps DEF Encoding
  <1>2. CASE Load(w) \/ Acknowledge(w) \/ ThrowUrgent(w) \/ GiveUp(w) \/ TryAgain(w) \/ Readd(w)
               \/ MarkFailed(w)
    <2>1. worker'[w] = Null \/ worker'[w].at \in {"probe", "ack", "readd", "throw"}
      BY <1>2, LoadSets, AcknowledgeSets, ThrowSets, ReaddSets, MarkFailedSets
        DEF JobIs, Goes, Freed, Finished
    <2> QED
      BY <2>1, LoopKeeps DEF Encoding
  <1>3. CASE Probe(w)
    <2>1. CASE JobIs(w, worker[w].lane, worker[w].entry,
                     {q \in worker[w].todo : row[VersionOf(w)][q] \notin {"ready", "skipped"}},
                     "next", worker[w].content)
      BY <1>3, <2>1, ProbeSets, LoopKeeps DEF JobIs, Encoding, VersionOf
    <2>2. CASE Goes(w, "throw")
      BY <2>2, LoopKeeps DEF Goes, JobIs, Encoding
    <2> QED
      BY <1>3, <2>1, <2>2, ProbeSets
  <1>4. CASE NextQuality(w)
    <2>1. /\ worker[w] # Null /\ worker[w].at = "next" /\ VersionOf(w) \in Version
          /\ worker[w].todo \subseteq Quality
          /\ \A q \in worker[w].todo : row[VersionOf(w)][q] # "ready"
      BY <1>4, NextQualitySets, JobTypes DEF LoopIInv, TodoOk
    <2>2. CASE Finished(w)
      BY <2>2, LoopKeeps DEF Finished, Freed, Goes, JobIs, Encoding
    <2>3. CASE worker[w].todo # {} /\ Goes(w, "encode") /\ Moved(VersionOf(w), {Current(w)}, Status, "processing")
      <3>1. \A q \in worker[w].todo : row'[VersionOf(w)][q] # "ready"
        BY <2>1, <2>3 DEF Moved
      <3> QED
        BY <2>3, <3>1, LoopKeeps DEF Goes, JobIs, VersionOf
    <2>4. CASE /\ JobIs(w, worker[w].lane, worker[w].entry, worker[w].todo \ {Current(w)},
                        "next", worker[w].content)
               /\ Moved(VersionOf(w), {Current(w)}, Status, "skipped")
      <3>1. \A q \in worker[w].todo : row'[VersionOf(w)][q] # "ready"
        BY <2>1, <2>4 DEF Moved
      <3> QED
        BY <2>4, <3>1, LoopKeeps DEF JobIs, VersionOf, Encoding
    <2> QED
      BY <1>4, <2>2, <2>3, <2>4, NextQualitySets
  <1>5. CASE Encode(w) \/ Check(w) \/ Rename(w)
    <2>1. /\ worker[w] # Null /\ worker[w].at \in Encoding /\ UNCHANGED row
      BY <1>5, EncodeSets, CheckSets, RenameSets DEF Encoding
    <2>2. \/ worker'[w] = Null \/ worker'[w].at = "ack"
          \/ worker'[w].entry = worker[w].entry /\ worker'[w].todo = worker[w].todo
      BY <1>5, EncodeSets, CheckSets, RenameSets DEF Goes, JobIs, Finished, Freed
    <2>3. /\ \A q \in worker[w].todo : row[worker[w].entry.version][q] # "ready"
          /\ worker[w].todo # {}
      BY <2>1 DEF LoopIInv, TodoOk, BusyOk, VersionOf
    <2> QED
      BY <2>1, <2>2, <2>3, LoopKeeps DEF Encoding
  <1>6. CASE MarkReady(w)
    <2>1. /\ worker[w] # Null /\ worker[w].at = "markReady" /\ VersionOf(w) \in Version
          /\ worker[w].todo \subseteq Quality
          /\ \A q \in worker[w].todo : row[VersionOf(w)][q] # "ready"
      BY <1>6, MarkReadySets, JobTypes DEF LoopIInv, TodoOk, Encoding
    <2>2. \A q \in worker[w].todo \ {Current(w)} : row'[VersionOf(w)][q] # "ready"
      BY <1>6, <2>1, MarkReadySets DEF Moved
    <2>3. /\ worker'[w].todo = worker[w].todo \ {Current(w)} /\ worker'[w].at = "next"
          /\ worker'[w].entry = worker[w].entry
      BY <1>6, MarkReadySets DEF JobIs
    <2>4. worker'[w].entry.version = VersionOf(w) /\ worker'[w].at \notin Encoding
      BY <2>3 DEF VersionOf, Encoding
    <2>5. \A q \in worker'[w].todo : row'[worker'[w].entry.version][q] # "ready"
      BY <2>2, <2>3, <2>4
    <2> QED
      BY <2>4, <2>5, LoopKeeps
  <1> QED
    BY <1>1, <1>2, <1>3, <1>4, <1>5, <1>6 DEF Work

LEMMA RestLoop ==
    ASSUME EncodingIInv, LoopIInv, [Next]_vars, ~\E w \in Worker : Work(w)
    PROVE  LoopIInv'
  <1>1. Types /\ QualityOk
    BY TypeOfAll DEF EncodingIInv
  <1>2. ASSUME UNCHANGED <<row, worker>> PROVE LoopIInv'
    BY <1>1, <1>2, OthersKeep DEF NoneReady
  <1>3. CASE UNCHANGED vars
    BY <1>2, <1>3 DEF vars
  <1>4. ASSUME NEW a \in Handler, NEW q \in Quality, RequestBegin(a, q) PROVE LoopIInv'
    BY <1>1, <1>2, <1>4, RequestBeginSets
  <1>5. ASSUME NEW a \in Handler, NEW force \in BOOLEAN, Retry(a, force) PROVE LoopIInv'
    BY <1>1, <1>5, RetrySets, MovedNoneReady, OthersKeep
  <1>6. ASSUME NEW a \in Handler, RequestInsert(a) PROVE LoopIInv'
    <2>1. CASE UNCHANGED row
      BY <1>1, <1>2, <1>6, <2>1, RequestInsertSets
    <2>2. CASE Moved(ask[a].version, {ask[a].quality}, {"none", "failed"}, "queued")
      BY <1>1, <1>6, <2>2, RequestInsertSets, MovedNoneReady, OthersKeep
    <2> QED
      BY <1>1, <1>6, <2>1, <2>2, RequestInsertSets
  <1>7. ASSUME NEW a \in Handler, RequestAdd(a) \/ RetryAdd(a) PROVE LoopIInv'
    BY <1>1, <1>2, <1>7, RequestAddSets, RetryAddSets
  <1>8. CASE ReplaceWrite \/ ReplaceUpdate \/ ServerCrash
    BY <1>2, <1>8 DEF ReplaceWrite, ReplaceUpdate, ServerCrash
  <1>9. CASE ReplaceRemove \/ DeleteFiles
    BY <1>1, <1>9, RemoveRemoves, OthersKeep DEF ReplaceRemove, DeleteFiles, NoneReady
  <1>10. CASE ReplaceSweep \/ DeleteRow
    <2>1. NoneReady /\ worker' = worker
      BY <1>10 DEF ReplaceSweep, DeleteRow, NoneReady
    <2> QED
      BY <1>1, <2>1, OthersKeep
  <1>11. CASE WorkerCrash
    BY <1>1, <1>11, WorkerCrashSets, OthersKeep DEF NoneReady
  <1> QED
    BY <1>3, <1>4, <1>5, <1>6, <1>7, <1>8, <1>9, <1>10, <1>11 DEF Next, Serve, Change

\* What one worker loop has still to do of an asset's version is not ready:
\* nobody else encodes, and requests only queue what is missing or failed.
THEOREM LoopInvariant ==
    ASSUME OneLoop
    PROVE  Spec => []LoopIInv
  <1>1. Init => LoopIInv
    BY DEF Init, LoopIInv, TodoOk, BusyOk
  <1>2. EncodingIInv /\ LoopIInv /\ [Next]_vars => LoopIInv'
    <2> SUFFICES ASSUME EncodingIInv, LoopIInv, [Next]_vars PROVE LoopIInv'
      OBVIOUS
    <2>1. Types
      BY TypeOfAll DEF EncodingIInv
    <2> QED
      BY <2>1, WorkLoop, RestLoop
  <1> QED
    BY <1>1, <1>2, EncodingInvariant, PTL DEF Spec

\* With one worker loop, which is what ENCODING_CONCURRENCY is unless it is set
\* (worker.js:12), a rendition that is ready stays so until the source is
\* replaced or an administrator forces it through the encoder again.
THEOREM ReadyIsKept ==
    ASSUME OneLoop
    PROVE  Spec => ReadyStays
  <1> DEFINE Kept == \A q \in Quality :
               (Present /\ version' = version
                  /\ row[version][q] = "ready" /\ row'[version][q] # "ready")
               => \E a \in Handler : Retry(a, TRUE)
  <1>1. EncodingIInv /\ LoopIInv /\ [Next]_vars => Kept
    <2> SUFFICES ASSUME EncodingIInv, LoopIInv, [Next]_vars, NEW q \in Quality,
                        Present, version' = version,
                        row[version][q] = "ready", row'[version][q] # "ready"
                 PROVE  \E a \in Handler : Retry(a, TRUE)
      OBVIOUS
    <2>1. Types /\ QualityOk /\ version \in Version
      BY TypeOfAll, PresentVersion DEF EncodingIInv
    <2>2. ASSUME NEW v \in Version, NEW qs, NEW from, NEW to, Moved(v, qs, from, to)
          PROVE  v = version /\ q \in qs /\ "ready" \in from /\ to # "ready"
      BY <2>1, <2>2 DEF Moved
    <2>3. row' # row
      OBVIOUS
    <2>4. ASSUME NEW w \in Worker, Work(w) PROVE FALSE
      <3>1. CASE NextQuality(w) \/ MarkFailed(w)
        <4>1. worker[w] # Null /\ worker[w].todo # {} /\ worker[w].at \in Encoding \union {"next"}
          BY <2>1, <2>3, <3>1, NextQualitySets, MarkFailedSets DEF LoopIInv, BusyOk, Encoding
        <4>2. Current(w) \in worker[w].todo
          BY <2>1, <4>1, JobTypes, LeastIsOne DEF Current
        <4>3. VersionOf(w) \in Version /\ row[VersionOf(w)][Current(w)] # "ready"
          BY <2>1, <4>1, <4>2, JobTypes DEF LoopIInv, TodoOk
        <4>4. VersionOf(w) = version /\ q \in {Current(w)}
          BY <2>1, <2>2, <2>3, <3>1, <4>3, NextQualitySets, MarkFailedSets
        <4> QED
          BY <4>3, <4>4
      <3>2. CASE ThrowUrgent(w) \/ GiveUp(w) \/ TryAgain(w)
        BY <2>1, <2>2, <3>2, ThrowSets, JobTypes
      <3>3. CASE MarkReady(w)
        BY <2>1, <2>2, <3>3, MarkReadySets, JobTypes
      <3> QED
        BY <2>1, <2>3, <2>4, <3>1, <3>2, <3>3, LoadSets, ProbeSets, EncodeSets, CheckSets, RenameSets,
          ReaddSets, AcknowledgeSets DEF Work, TakeUrgent, TakeNormal, Claim
    <2>5. ASSUME NEW a \in Handler, NEW p \in Quality, RequestBegin(a, p) PROVE FALSE
      BY <2>3, <2>5 DEF RequestBegin
    <2>6. ASSUME NEW a \in Handler, NEW force \in BOOLEAN, Retry(a, force), ~force PROVE FALSE
      BY <2>1, <2>2, <2>6, RetrySets
    <2>7. ASSUME NEW a \in Handler, Serve(a) PROVE FALSE
      <3>1. CASE RequestInsert(a)
        <4>1. Moved(ask[a].version, {ask[a].quality}, {"none", "failed"}, "queued")
          BY <2>1, <2>3, <3>1, RequestInsertSets
        <4>2. ask[a].version \in Version
          BY <2>1, <3>1, RequestInsertSets, AskTypes
        <4>3. "ready" \in {"none", "failed"}
          BY <2>2, <4>1, <4>2
        <4> QED
          BY <4>3
      <3> QED
        BY <2>3, <2>7, <3>1 DEF Serve, RequestAdd, RetryAdd
    <2>8. CASE ReplaceWrite \/ DeleteRow \/ Change
      BY <2>1, <2>3, <2>8 DEF ReplaceWrite, DeleteRow, Change, ReplaceRemove, ReplaceUpdate, ReplaceSweep,
        DeleteFiles, Present
    <2>9. CASE WorkerCrash \/ ServerCrash \/ UNCHANGED vars
      BY <2>3, <2>9 DEF WorkerCrash, ServerCrash, vars
    <2> QED
      BY <2>4, <2>5, <2>6, <2>7, <2>8, <2>9 DEF Next
  <1>2. EncodingIInv /\ LoopIInv /\ [Next]_vars => [Kept]_vars
    BY <1>1
  <1> QED
    BY <1>2, EncodingInvariant, LoopInvariant, PTL DEF Spec, ReadyStays
=============================================================================

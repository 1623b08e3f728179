-------------------------- MODULE UploadsSockets_proofs --------------------------
(***************************************************************************)
(* Proofs about PlaybackSocketHub: its types, that at rest every socket    *)
(* has been told the truth about the lease and is bound to no other        *)
(* session, and that a timer is armed that will notice the lease's end.    *)
(*                                                                         *)
(* What is true at rest has to be promised while jobs are on their way.    *)
(* The invariant says who keeps the promise: a socket knows the truth and  *)
(* no job will tell it anything else, or some job will tell it the truth   *)
(* after all that will not (Covered).  "After" is counted in replies: a    *)
(* job that has still to read the holder's snapshot tells a round later    *)
(* than one that has it, and jobs of one round tell in their order.  The   *)
(* same is said of the jobs that bind and those that unbind (Unbound).     *)
(* A lemma for each thing that a step can do to the sequence of jobs       *)
(* carries each promise on; the lemma of an action says which it does.     *)
(***************************************************************************)
(***************************************************************************)
(* Proofs about UploadCompletion: its types, that an upload becomes one    *)
(* medium and its status tells the truth about it, that one which waits    *)
(* is worked on, and that the sweep spares it.                             *)
(*                                                                         *)
(* The invariant follows one upload through its life.  Before its status   *)
(* is first set nothing of it exists but the directory.  Until a fault or  *)
(* a second completion there is one trace of its job: a request that is    *)
(* about to add it, an entry of the stream, or the worker.  A directory    *)
(* that is there has not been turned into a medium yet, but for what a     *)
(* stop of the worker allows.                                              *)
(***************************************************************************)
EXTENDS UploadCompletion, PlaybackSocketHub, SequenceTheorems, TLAPS

\* Which jobs will tell socket c of the lease that they have read.
Tells(x, c) ==
    \/ x.at = "notifyLease"
    \/ x.at = "notifyTell" /\ c \in x.to
    \/ x.at \in {"hello", "helloTell", "bindLease", "rejectLease", "tell"} /\ x.conn = c

\* A job tells of lease l, or of another one.  That of an HTTP route has still
\* to read the lease.
Fresh(x, c, l) == x.at = "http" \/ (Tells(x, c) /\ x.lease = l)
Stale(x, c, l) == Tells(x, c) /\ x.lease # l

\* After how many replies a job tells.  They come in order, so of two jobs the
\* one that tells last has more rounds to go, or as many and a later place.
Rounds(x) ==
    IF x.at = "http" THEN 3
    ELSE IF x.at \in {"notifyLease", "hello", "bindLease", "rejectLease"} /\ x.lease # None THEN 2 ELSE 1

Before(w, i, j) == Rounds(w[i]) < Rounds(w[j]) \/ (Rounds(w[i]) = Rounds(w[j]) /\ i < j)

NoneStale(w, c, l) == \A i \in 1..Len(w) : ~Stale(w[i], c, l)
Covered(w, c, l) ==
    \E j \in 1..Len(w) :
        Fresh(w[j], c, l) /\ \A i \in 1..Len(w) : Stale(w[i], c, l) => Before(w, i, j)

\* Every socket knows the truth, or will be told it after all else.
ToldOk ==
    lease # None => \A c \in Conn : conn[c].open /\ conn[c].registered =>
        \/ conn[c].told = StateFor(c, lease) /\ NoneStale(wire, c, lease)
        \/ Covered(wire, c, lease)

\* The same of bindings: a job that binds to a session that lost the lease is
\* followed by one that unbinds.
Binds(x, c, l) == x.at = "bindLease" /\ x.conn = c /\ x.lease = x.session /\ x.lease \notin {None, l}
Unbinds(x, l) == x.at = "http" \/ (x.at = "notifyLease" /\ x.lease = l)

Unbound(w, c, l) ==
    \E j \in 1..Len(w) :
        Unbinds(w[j], l) /\ \A i \in 1..Len(w) : Binds(w[i], c, l) => w[j].at = "http" \/ i < j
BoundOk ==
    lease # None => \A c \in Conn : conn[c].open =>
        \/ conn[c].bound \in {None, lease} /\ \A i \in 1..Len(wire) : ~Binds(wire[i], c, lease)
        \/ Unbound(wire, c, lease)

\* Whoever is known to the hub is told of: only a registered socket has a device,
\* a binding or a message on its way.
RegisteredOk ==
    /\ \A c \in Conn : conn[c].open /\ (conn[c].device # None \/ conn[c].bound # None) =>
          conn[c].registered
    /\ \A i \in 1..Len(wire) :
          /\ wire[i].at \in MessageSteps \union PingSteps => wire[i].conn \in Conn
          /\ \A c \in Conn : wire[i].at \in MessageSteps \ {"ticket"} /\ wire[i].conn = c /\ conn[c].open =>
                conn[c].registered

\* A timer is armed, or a job is on its way that arms one.
Arms(x) ==
    \/ x.at \in {"http", "notifyLease", "notifyTell", "hello", "helloTell", "ticket", "stateWrite", "timer"}
    \/ x.at \in PingSteps
    \/ x.at = "arm" /\ x.lease # None
ArmedOk ==
    lease # None /\ (\E c \in Conn : conn[c].registered) =>
        timer.tracked \/ timer.lost \/ \E i \in 1..Len(wire) : Arms(wire[i])

HubIInv == HubTypeOK /\ RegisteredOk /\ ToldOk /\ BoundOk /\ ArmedOk

-----------------------------------------------------------------------------
(* Jobs and entries *)

Steps == MessageSteps \union PingSteps \union HubSteps

LEMMA TaskTypes ==
    ASSUME NEW x \in Task
    PROVE  /\ x.at \in Steps /\ x.by \in {"message", "ping", "server"}
           /\ x.conn \in Conn \union {None} /\ x.device \in Device \union {None}
           /\ x.session \in Session \union {None} /\ x.lease \in Session \union {None}
           /\ x.ok \in BOOLEAN /\ x.play \in BOOLEAN /\ x.to \in SUBSET Conn
  BY DEF Task, Steps

LEMMA NewTaskIs ==
    ASSUME NEW step \in Steps, NEW by \in {"message", "ping", "server"}, NEW c \in Conn \union {None}
    PROVE  LET y == NewTask(step, by, c)
           IN  y \in Task /\ y.at = step /\ y.by = by /\ y.conn = c /\ y.session = None /\ y.lease = None
  <1>1. PICK no \in BOOLEAN : ~no
    OBVIOUS
  <1>2. NewTask(step, by, c) = [at |-> step, by |-> by, conn |-> c, device |-> None, session |-> None,
                                lease |-> None, ok |-> no, play |-> no, to |-> {}]
    BY <1>1 DEF NewTask
  <1>3. NewTask(step, by, c) \in Task
    BY <1>2 DEF Task, Steps
  <1> QED
    BY <1>2, <1>3

LEMMA CallIs ==
    ASSUME NEW x \in Task
    PROVE  LET y == Call(x)
           IN  y \in Task /\ y.at = x.at /\ y.by = x.by /\ y.conn = x.conn /\ y.session = None /\ y.lease = None
  BY TaskTypes, NewTaskIs DEF Call

LEMMA ReadLeaseIs ==
    ASSUME NEW x \in Task, NEW step \in Steps, lease \in Session \union {None}
    PROVE  LET y == ReadLease(x, step)
           IN  y \in Task /\ y.at = step /\ y.by = x.by /\ y.conn = x.conn /\ y.session = x.session
                 /\ y.lease = lease
  BY DEF ReadLease, Task, Steps

LEMMA StepIs ==
    ASSUME NEW x \in Task, NEW step \in Steps
    PROVE  LET y == [x EXCEPT !.at = step]
           IN  y \in Task /\ y.at = step /\ y.by = x.by /\ y.conn = x.conn /\ y.session = x.session
                 /\ y.lease = x.lease
  BY DEF Task, Steps

LEMMA StepToIs ==
    ASSUME NEW x \in Task, NEW step \in Steps, NEW cs \in SUBSET Conn
    PROVE  LET y == [x EXCEPT !.at = step, !.to = cs]
           IN  y \in Task /\ y.at = step /\ y.by = x.by /\ y.conn = x.conn /\ y.session = x.session
                 /\ y.lease = x.lease /\ y.to = cs
  BY DEF Task, Steps

LEMMA StepOkIs ==
    ASSUME NEW x \in Task, NEW step \in Steps, NEW b \in BOOLEAN
    PROVE  LET y == [x EXCEPT !.at = step, !.ok = b]
           IN  y \in Task /\ y.at = step /\ y.by = x.by /\ y.conn = x.conn /\ y.session = x.session
                 /\ y.lease = x.lease
  BY DEF Task, Steps

LEMMA DeviceIs ==
    ASSUME NEW x \in Task, NEW d \in Device
    PROVE  LET y == [x EXCEPT !.device = d]
           IN  y \in Task /\ y.at = x.at /\ y.by = x.by /\ y.conn = x.conn
  BY DEF Task

-----------------------------------------------------------------------------
(* Sequences of jobs: w is the wire before a step, y the job that joins it *)

LEMMA Joined ==
    ASSUME NEW w \in Seq(Task), NEW y \in Task
    PROVE  /\ Append(w, y) \in Seq(Task) /\ Len(Append(w, y)) = Len(w) + 1 /\ Len(w) \in Nat
           /\ Append(w, y)[Len(w) + 1] = y
           /\ \A i \in 1..Len(w) : Append(w, y)[i] = w[i]
  BY AppendProperties, LenProperties

LEMMA Left ==
    ASSUME NEW w \in Seq(Task), w # <<>>
    PROVE  /\ Tail(w) \in Seq(Task) /\ Len(Tail(w)) = Len(w) - 1 /\ Len(w) \in Nat \ {0}
           /\ \A i \in 1..Len(w) - 1 : Tail(w)[i] = w[i + 1]
           /\ Head(w) = w[1] /\ Head(w) \in Task
  BY HeadTailProperties, LenProperties, EmptySeq

LEMMA RoundsTypes ==
    ASSUME NEW x
    PROVE  Rounds(x) \in 1..3 /\ (x.at = "http" <=> Rounds(x) = 3)
  BY DEF Rounds

LEMMA CleanJoined ==
    ASSUME NEW w \in Seq(Task), NEW y \in Task, NEW c, NEW l
    PROVE  NoneStale(Append(w, y), c, l) <=> NoneStale(w, c, l) /\ ~Stale(y, c, l)
  <1> DEFINE v == Append(w, y)
  <1>1. /\ Len(v) = Len(w) + 1 /\ Len(w) \in Nat /\ v[Len(w) + 1] = y
        /\ \A i \in 1..Len(w) : v[i] = w[i]
    BY Joined
  <1> HIDE DEF v
  <1>2. \A i \in 1..Len(v) : i \in 1..Len(w) \/ i = Len(w) + 1
    BY <1>1
  <1>3. 1..Len(w) \subseteq 1..Len(v) /\ Len(w) + 1 \in 1..Len(v)
    BY <1>1
  <1>4. NoneStale(v, c, l) <=> NoneStale(w, c, l) /\ ~Stale(y, c, l)
    BY <1>1, <1>2, <1>3 DEF NoneStale
  <1> QED
    BY <1>4 DEF v

LEMMA CleanLeft ==
    ASSUME NEW w \in Seq(Task), w # <<>>, NEW c, NEW l, NoneStale(w, c, l)
    PROVE  NoneStale(Tail(w), c, l) /\ ~Stale(Head(w), c, l)
  <1>1. /\ Len(Tail(w)) = Len(w) - 1 /\ Len(w) \in Nat \ {0} /\ Head(w) = w[1]
        /\ \A i \in 1..Len(w) - 1 : Tail(w)[i] = w[i + 1]
    BY Left
  <1>2. 1 \in 1..Len(w) /\ \A i \in 1..Len(w) - 1 : i + 1 \in 1..Len(w)
    BY <1>1
  <1> QED
    BY <1>1, <1>2 DEF NoneStale

\* A job comes in that tells nothing old.
LEMMA CoveredJoined ==
    ASSUME NEW w \in Seq(Task), NEW y \in Task, NEW c, NEW l, Covered(w, c, l), ~Stale(y, c, l)
    PROVE  Covered(Append(w, y), c, l)
  <1> DEFINE v == Append(w, y)
  <1>1. /\ Len(v) = Len(w) + 1 /\ Len(w) \in Nat /\ v[Len(w) + 1] = y
        /\ \A i \in 1..Len(w) : v[i] = w[i]
    BY Joined
  <1> HIDE DEF v
  <1>2. PICK j \in 1..Len(w) :
          Fresh(w[j], c, l) /\ \A i \in 1..Len(w) : Stale(w[i], c, l) => Before(w, i, j)
    BY DEF Covered
  <1>3. j \in 1..Len(v) /\ Fresh(v[j], c, l)
    BY <1>1, <1>2
  <1>4. ASSUME NEW i \in 1..Len(v), Stale(v[i], c, l) PROVE Before(v, i, j)
    <2>1. i \in 1..Len(w)
      BY <1>1, <1>4
    <2> QED
      BY <1>1, <1>2, <1>4, <2>1 DEF Before
  <1>5. Covered(v, c, l)
    BY <1>3, <1>4 DEF Covered
  <1> QED
    BY <1>5 DEF v

\* A fresh job comes in that has more to go than all that are stale.
LEMMA CoveredAfter ==
    ASSUME NEW w \in Seq(Task), NEW y \in Task, NEW c, NEW l, Fresh(y, c, l),
           Rounds(y) >= 2 \/ NoneStale(w, c, l)
    PROVE  Covered(Append(w, y), c, l)
  <1> DEFINE v == Append(w, y)
             n == Len(w) + 1
  <1>1. /\ Len(v) = n /\ Len(w) \in Nat /\ v[n] = y
        /\ \A i \in 1..Len(w) : v[i] = w[i]
    BY Joined
  <1> HIDE DEF v
  <1>2. ASSUME NEW i \in 1..Len(v), Stale(v[i], c, l) PROVE Before(v, i, n)
    <2>1. CASE i = n
      BY <1>1, <1>2, <2>1, RoundsTypes DEF Before, Fresh, Stale, Tells
    <2>2. CASE i # n
      <3>1. i \in 1..Len(w) /\ i < n /\ v[i] = w[i]
        BY <1>1, <2>2
      <3>2. Rounds(v[i]) \in 1..2
        BY <1>2 DEF Rounds, Stale, Tells
      <3> QED
        BY <1>1, <1>2, <3>1, <3>2, RoundsTypes DEF Before, NoneStale
    <2> QED
      BY <2>1, <2>2
  <1>3. Covered(v, c, l)
    BY <1>1, <1>2 DEF Covered
  <1> QED
    BY <1>3 DEF v

\* The first job ends, or goes on and has a round less to go.
LEMMA CoveredLeft ==
    ASSUME NEW w \in Seq(Task), w # <<>>, NEW c, NEW l, Covered(w, c, l),
           Fresh(Head(w), c, l) => Rounds(Head(w)) = 1
    PROVE  Covered(Tail(w), c, l) \/ (Fresh(Head(w), c, l) /\ NoneStale(Tail(w), c, l))
  <1> DEFINE v == Tail(w)
             x == Head(w)
  <1>1. /\ Len(v) = Len(w) - 1 /\ Len(w) \in Nat \ {0} /\ x = w[1]
        /\ \A i \in 1..Len(v) : v[i] = w[i + 1] /\ i + 1 \in 1..Len(w)
    BY Left
  <1> HIDE DEF v, x
  <1>2. PICK j \in 1..Len(w) :
          Fresh(w[j], c, l) /\ \A i \in 1..Len(w) : Stale(w[i], c, l) => Before(w, i, j)
    BY DEF Covered
  <1>3. CASE j = 1
    <2>1. Fresh(x, c, l) /\ Rounds(x) = 1
      BY <1>1, <1>2, <1>3 DEF x
    <2>2. ASSUME NEW i \in 1..Len(v), Stale(v[i], c, l) PROVE FALSE
      <3>1. Before(w, i + 1, 1) /\ Rounds(w[i + 1]) \in 1..3
        BY <1>1, <1>2, <1>3, <2>2, RoundsTypes
      <3> QED
        BY <1>1, <2>1, <3>1 DEF Before
    <2> QED
      BY <2>1, <2>2 DEF NoneStale, v, x
  <1>4. CASE j # 1
    <2>1. j - 1 \in 1..Len(v) /\ v[j - 1] = w[j]
      BY <1>1, <1>4
    <2>2. ASSUME NEW i \in 1..Len(v), Stale(v[i], c, l) PROVE Before(v, i, j - 1)
      <3>1. Before(w, i + 1, j)
        BY <1>1, <1>2, <2>2
      <3> QED
        BY <1>1, <2>1, <3>1 DEF Before
    <2> QED
      BY <1>2, <2>1, <2>2 DEF Covered, v
  <1> QED
    BY <1>3, <1>4

LEMMA CoveredReply ==
    ASSUME NEW w \in Seq(Task), w # <<>>, NEW y \in Task, NEW c, NEW l, Covered(w, c, l),
           Stale(y, c, l) =>
             Stale(Head(w), c, l) /\ Rounds(Head(w)) = 2 /\ Rounds(y) = 1,
           Fresh(Head(w), c, l) => Fresh(y, c, l) /\ Rounds(y) = Rounds(Head(w)) - 1
    PROVE  Covered(Append(Tail(w), y), c, l)
  <1> DEFINE t == Tail(w)
             v == Append(t, y)
             x == Head(w)
             n == Len(w)
  <1>1. /\ t \in Seq(Task) /\ Len(t) = n - 1 /\ n \in Nat \ {0} /\ x = w[1]
        /\ \A i \in 1..n - 1 : t[i] = w[i + 1] /\ i + 1 \in 1..n
    BY Left
  <1>2. Len(v) = n /\ v[n] = y /\ \A i \in 1..n - 1 : v[i] = w[i + 1]
    BY <1>1, Joined
  <1> HIDE DEF v, x, t, n
  <1>3. PICK j \in 1..n :
          Fresh(w[j], c, l) /\ \A i \in 1..n : Stale(w[i], c, l) => Before(w, i, j)
    BY DEF Covered, n
  <1>4. Rounds(y) \in 1..3 /\ Rounds(x) \in 1..3 /\ \A i \in 1..n : Rounds(w[i]) \in 1..3
    BY RoundsTypes
  <1>5. CASE j = 1
    <2>1. Fresh(y, c, l) /\ Rounds(y) = Rounds(x) - 1
      BY <1>1, <1>3, <1>5 DEF x
    <2>2. ~Stale(y, c, l)
      BY <2>1 DEF Fresh, Stale, Tells
    <2>3. ASSUME NEW i \in 1..n, Stale(v[i], c, l) PROVE Before(v, i, n)
      <3>1. i # n /\ i < n
        BY <1>1, <1>2, <2>2, <2>3
      <3>2. Before(w, i + 1, 1) /\ v[i] = w[i + 1] /\ i + 1 \in 1..n
        BY <1>1, <1>2, <1>3, <1>5, <2>3, <3>1
      <3>3. Rounds(w[i + 1]) < Rounds(w[1])
        BY <1>1, <3>1, <3>2 DEF Before
      <3> QED
        BY <1>1, <1>2, <1>4, <2>1, <3>1, <3>2, <3>3 DEF Before
    <2>4. Covered(v, c, l)
      <3>1. n \in 1..n
        BY <1>1
      <3> QED
        BY <1>2, <2>1, <2>3, <3>1 DEF Covered
    <2> QED
      BY <2>4 DEF v, t
  <1>6. CASE j # 1
    <2>1. j - 1 \in 1..n - 1 /\ j - 1 \in 1..n /\ v[j - 1] = w[j]
      BY <1>1, <1>2, <1>6
    <2>2. ASSUME NEW i \in 1..n, Stale(v[i], c, l) PROVE Before(v, i, j - 1)
      <3>1. CASE i = n
        <4>1. Stale(x, c, l) /\ Rounds(x) = 2 /\ Rounds(y) = 1
          BY <1>2, <2>2, <3>1 DEF x
        <4>2. Before(w, 1, j) /\ 1 \in 1..n
          BY <1>1, <1>3, <4>1
        <4>3. Rounds(w[j]) >= 2 /\ Rounds(w[j]) \in 1..3
          BY <1>1, <1>4, <4>1, <4>2 DEF Before
        <4>4. Rounds(v[i]) = 1
          BY <1>2, <3>1, <4>1
        <4>5. Rounds(v[j - 1]) >= 2 /\ Rounds(v[j - 1]) \in 1..3
          BY <2>1, <4>3
        <4> QED
          BY <4>4, <4>5 DEF Before
      <3>2. CASE i # n
        <4>1. i \in 1..n - 1 /\ v[i] = w[i + 1] /\ i + 1 \in 1..n
          BY <1>1, <1>2, <3>2
        <4>2. Before(w, i + 1, j)
          BY <1>3, <2>2, <4>1
        <4> QED
          BY <1>1, <2>1, <4>1, <4>2 DEF Before
      <3> QED
        BY <3>1, <3>2
    <2>3. Covered(v, c, l)
      BY <1>2, <1>3, <2>1, <2>2 DEF Covered
    <2> QED
      BY <2>3 DEF v, t
  <1> QED
    BY <1>5, <1>6

\* The same of the jobs that unbind.
LEMMA UnboundJoined ==
    ASSUME NEW w \in Seq(Task), NEW y \in Task, NEW c, NEW l, Unbound(w, c, l), ~Binds(y, c, l)
    PROVE  Unbound(Append(w, y), c, l)
  <1> DEFINE v == Append(w, y)
  <1>1. /\ Len(v) = Len(w) + 1 /\ Len(w) \in Nat /\ v[Len(w) + 1] = y
        /\ \A i \in 1..Len(w) : v[i] = w[i]
    BY Joined
  <1> HIDE DEF v
  <1>2. PICK j \in 1..Len(w) : Unbinds(w[j], l) /\ \A i \in 1..Len(w) :
          Binds(w[i], c, l) => w[j].at = "http" \/ i < j
    BY DEF Unbound
  <1>3. j \in 1..Len(v) /\ v[j] = w[j]
    BY <1>1
  <1>4. ASSUME NEW i \in 1..Len(v), Binds(v[i], c, l) PROVE v[j].at = "http" \/ i < j
    <2>1. i \in 1..Len(w)
      BY <1>1, <1>4
    <2> QED
      BY <1>1, <1>2, <1>3, <1>4, <2>1
  <1>5. Unbound(v, c, l)
    BY <1>2, <1>3, <1>4 DEF Unbound
  <1> QED
    BY <1>5 DEF v

LEMMA UnboundAfter ==
    ASSUME NEW w \in Seq(Task), NEW y \in Task, NEW c, NEW l, Unbinds(y, l)
    PROVE  Unbound(Append(w, y), c, l)
  <1> DEFINE v == Append(w, y)
             n == Len(w) + 1
  <1>1. Len(v) = n /\ Len(w) \in Nat /\ v[n] = y
    BY Joined
  <1> HIDE DEF v
  <1>2. ~Binds(y, c, l)
    BY DEF Binds, Unbinds
  <1>3. Unbound(v, c, l)
    BY <1>1, <1>2 DEF Unbound
  <1> QED
    BY <1>3 DEF v

LEMMA UnboundLeft ==
    ASSUME NEW w \in Seq(Task), w # <<>>, NEW c, NEW l, Unbound(w, c, l), Head(w).at # "http"
    PROVE  \/ Unbound(Tail(w), c, l)
           \/ Unbinds(Head(w), l) /\ \A i \in 1..Len(Tail(w)) : ~Binds(Tail(w)[i], c, l)
  <1> DEFINE v == Tail(w)
             x == Head(w)
  <1>1. /\ Len(v) = Len(w) - 1 /\ Len(w) \in Nat \ {0} /\ x = w[1]
        /\ \A i \in 1..Len(v) : v[i] = w[i + 1] /\ i + 1 \in 1..Len(w)
    BY Left
  <1> HIDE DEF v, x
  <1>2. PICK j \in 1..Len(w) : Unbinds(w[j], l) /\ \A i \in 1..Len(w) :
          Binds(w[i], c, l) => w[j].at = "http" \/ i < j
    BY DEF Unbound
  <1>3. CASE j = 1
    BY <1>1, <1>2, <1>3 DEF v, x
  <1>4. CASE j # 1
    <2>1. j - 1 \in 1..Len(v) /\ v[j - 1] = w[j]
      BY <1>1, <1>4
    <2>2. ASSUME NEW i \in 1..Len(v), Binds(v[i], c, l) PROVE v[j - 1].at = "http" \/ i < j - 1
      <3>1. i + 1 \in 1..Len(w) /\ Binds(w[i + 1], c, l)
        BY <1>1, <2>2
      <3>2. w[j].at = "http" \/ i + 1 < j
        BY <1>2, <3>1
      <3>3. i \in Int /\ j \in Int
        BY <1>1, <1>2
      <3> QED
        BY <2>1, <3>2, <3>3
    <2> QED
      BY <1>2, <2>1, <2>2 DEF Unbound, v
  <1> QED
    BY <1>3, <1>4

\* The first job of all, and a job that arms the timer.
LEMMA ArmedJoined ==
    ASSUME NEW w \in Seq(Task), NEW y \in Task,
           Arms(y) \/ \E i \in 1..Len(w) : Arms(w[i])
    PROVE  \E i \in 1..Len(Append(w, y)) : Arms(Append(w, y)[i])
  <1> DEFINE v == Append(w, y)
  <1>1. /\ Len(v) = Len(w) + 1 /\ Len(w) \in Nat /\ v[Len(w) + 1] = y
        /\ \A i \in 1..Len(w) : v[i] = w[i] /\ i \in 1..Len(v)
    BY Joined
  <1> HIDE DEF v
  <1>2. \E i \in 1..Len(v) : Arms(v[i])
    BY <1>1
  <1> QED
    BY <1>2 DEF v

LEMMA ArmedLeft ==
    ASSUME NEW w \in Seq(Task), w # <<>>, ~Arms(Head(w)), \E i \in 1..Len(w) : Arms(w[i])
    PROVE  \E i \in 1..Len(Tail(w)) : Arms(Tail(w)[i])
  <1> DEFINE v == Tail(w)
  <1>1. /\ Len(v) = Len(w) - 1 /\ Len(w) \in Nat \ {0} /\ Head(w) = w[1]
        /\ \A i \in 1..Len(w) - 1 : v[i] = w[i + 1]
    BY Left
  <1> HIDE DEF v
  <1>2. PICK i \in 1..Len(w) : Arms(w[i])
    OBVIOUS
  <1>3. i # 1
    BY <1>1, <1>2
  <1>4. i - 1 \in 1..Len(v) /\ v[i - 1] = w[i]
    BY <1>1, <1>3
  <1>5. \E k \in 1..Len(v) : Arms(v[k])
    BY <1>2, <1>4
  <1> QED
    BY <1>5 DEF v

-----------------------------------------------------------------------------
(* What a reply does to the news of socket c.  b says whether it knows the    *)
(* truth.                                                                     *)

News(w, c, l, b) == (b /\ NoneStale(w, c, l)) \/ Covered(w, c, l)

LEMMA NewsTold ==
    ToldOk <=> (lease # None => \A c \in Conn : conn[c].open /\ conn[c].registered =>
                   News(wire, c, lease, conn[c].told = StateFor(c, lease)))
  BY DEF ToldOk, News

LEMMA NewsToldNext ==
    ToldOk' <=> (lease' # None => \A c \in Conn : conn'[c].open /\ conn'[c].registered =>
                   News(wire', c, lease', conn'[c].told = StateFor(c, lease)'))
  BY DEF ToldOk, News, NoneStale, Covered, Stale, Fresh, Tells, Before, Rounds

LEMMA NewsQuiet ==
    ASSUME NEW w \in Seq(Task), w # <<>>, NEW c, NEW l, NEW b, News(w, c, l, b),
           ~Tells(Head(w), c), Head(w).at # "http"
    PROVE  News(Tail(w), c, l, b)
  <1>1. ~Fresh(Head(w), c, l)
    BY DEF Fresh
  <1> QED
    BY <1>1, CleanLeft, CoveredLeft DEF News

LEMMA NewsJoined ==
    ASSUME NEW w \in Seq(Task), NEW y \in Task, NEW c, NEW l, NEW b, News(w, c, l, b), ~Tells(y, c)
    PROVE  News(Append(w, y), c, l, b)
  BY CleanJoined, CoveredJoined DEF News, Stale

LEMMA NewsFresh ==
    ASSUME NEW w \in Seq(Task), NEW y \in Task, NEW c, NEW l, NEW b, Fresh(y, c, l), Rounds(y) >= 2
    PROVE  News(Append(w, y), c, l, b)
  BY CoveredAfter DEF News

Advances(x, y, c) == Tells(x, c) /\ Rounds(x) = 2 /\ Tells(y, c) /\ Rounds(y) = 1 /\ y.lease = x.lease

LEMMA NewsAdvances ==
    ASSUME NEW w \in Seq(Task), w # <<>>, NEW y \in Task, NEW c, NEW l, NEW b, NEW b2,
           News(w, c, l, b), Advances(Head(w), y, c)
    PROVE  News(Append(Tail(w), y), c, l, b2)
  <1>1. Head(w).at # "http" /\ y.at # "http"
    BY RoundsTypes DEF Advances
  <1>2. CASE Covered(w, c, l)
    <2>1. Covered(Append(Tail(w), y), c, l)
      BY <1>1, <1>2, CoveredReply DEF Advances, Stale, Fresh
    <2> QED
      BY <2>1 DEF News
  <1>3. CASE NoneStale(w, c, l)
    <2>1. NoneStale(Tail(w), c, l) /\ Fresh(y, c, l) /\ Tail(w) \in Seq(Task)
      BY <1>3, CleanLeft, Left DEF Advances, Stale, Fresh
    <2>2. Covered(Append(Tail(w), y), c, l)
      BY <2>1, CoveredAfter
    <2> QED
      BY <2>2 DEF News
  <1> QED
    BY <1>2, <1>3 DEF News

LEMMA NewsTells ==
    ASSUME NEW w \in Seq(Task), w # <<>>, NEW c, NEW l, NEW b, NEW b2, News(w, c, l, b),
           Tells(Head(w), c), Rounds(Head(w)) = 1, Head(w).lease = l => b2
    PROVE  News(Tail(w), c, l, b2)
  <1>1. Head(w).at # "http"
    BY RoundsTypes
  <1>2. CASE Covered(w, c, l)
    BY <1>1, <1>2, CoveredLeft DEF News, Fresh
  <1>3. CASE NoneStale(w, c, l)
    BY <1>3, CleanLeft DEF News, Stale
  <1> QED
    BY <1>2, <1>3 DEF News

\* The same of its binding; b says whether that is the lease's or none.
Binding(w, c, l, b) == (b /\ \A i \in 1..Len(w) : ~Binds(w[i], c, l)) \/ Unbound(w, c, l)

LEMMA BindingBound ==
    BoundOk <=> (lease # None => \A c \in Conn : conn[c].open =>
                    Binding(wire, c, lease, conn[c].bound \in {None, lease}))
  BY DEF BoundOk, Binding

LEMMA BindingBoundNext ==
    BoundOk' <=> (lease' # None => \A c \in Conn : conn'[c].open =>
                    Binding(wire', c, lease', conn'[c].bound \in {None, lease'}))
  BY DEF BoundOk, Binding, Unbound, Unbinds, Binds

LEMMA BindingLeft ==
    ASSUME NEW w \in Seq(Task), w # <<>>, NEW c, NEW l, NEW b, NEW b2, Binding(w, c, l, b),
           Head(w).at # "http", (b /\ ~Binds(Head(w), c, l)) \/ Unbinds(Head(w), l) => b2
    PROVE  Binding(Tail(w), c, l, b2)
  <1> DEFINE v == Tail(w)
             x == Head(w)
  <1>1. /\ Len(v) = Len(w) - 1 /\ Len(w) \in Nat \ {0} /\ x = w[1]
        /\ \A i \in 1..Len(v) : v[i] = w[i + 1] /\ i + 1 \in 1..Len(w)
    BY Left
  <1>2. CASE b /\ \A i \in 1..Len(w) : ~Binds(w[i], c, l)
    <2>1. ~Binds(x, c, l) /\ \A i \in 1..Len(v) : ~Binds(v[i], c, l)
      BY <1>1, <1>2
    <2> QED
      BY <1>2, <2>1 DEF Binding
  <1>3. CASE Unbound(w, c, l)
    BY <1>3, UnboundLeft DEF Binding
  <1> QED
    BY <1>2, <1>3 DEF Binding

LEMMA BindingJoined ==
    ASSUME NEW w \in Seq(Task), NEW y \in Task, NEW c, NEW l, NEW b, Binding(w, c, l, b), ~Binds(y, c, l)
    PROVE  Binding(Append(w, y), c, l, b)
  <1> DEFINE v == Append(w, y)
  <1>1. CASE b /\ \A i \in 1..Len(w) : ~Binds(w[i], c, l)
    <2>1. /\ Len(v) = Len(w) + 1 /\ Len(w) \in Nat /\ v[Len(w) + 1] = y
          /\ \A i \in 1..Len(w) : v[i] = w[i]
      BY Joined
    <2> HIDE DEF v
    <2>2. \A i \in 1..Len(v) : i \in 1..Len(w) \/ i = Len(w) + 1
      BY <2>1
    <2>3. Binding(v, c, l, b)
      BY <1>1, <2>1, <2>2 DEF Binding
    <2> QED
      BY <2>3 DEF v
  <1>2. CASE Unbound(w, c, l)
    BY <1>2, UnboundJoined DEF Binding
  <1> QED
    BY <1>1, <1>2 DEF Binding

LEMMA BindingAfter ==
    ASSUME NEW w \in Seq(Task), NEW y \in Task, NEW c, NEW l, NEW b, Unbinds(y, l)
    PROVE  Binding(Append(w, y), c, l, b)
  BY UnboundAfter DEF Binding

-----------------------------------------------------------------------------
(* The steps of the hub, by what they do to wire: the first job goes on as y, *)
(* the first job ends, or y comes in.                                         *)

Goes(y) == wire # <<>> /\ wire' = Append(Tail(wire), y)
Ends == wire # <<>> /\ wire' = Tail(wire)
Comes(y) == wire' = Append(wire, y)

Known(c) == conn[c].open /\ conn[c].registered

\* What socket c was told stays as true as it was.
SameNews(c) ==
    /\ Known(c) /\ conn'[c].told = conn[c].told
    /\ StateFor(c, lease)' = StateFor(c, lease)
Rightly(c) == Head(wire).lease = lease => conn'[c].told = StateFor(c, lease)'
IsTold(c) == Known(c) /\ Tells(Head(wire), c) /\ Rounds(Head(wire)) = 1 /\ Rightly(c)
Silent(c) == ~Tells(Head(wire), c) /\ Head(wire).at # "http" /\ SameNews(c)

LEMMA ToldGoes ==
    ASSUME HubTypeOK, ToldOk, lease' = lease, NEW y \in Task, Goes(y),
           \A c \in Conn : lease # None /\ conn'[c].open /\ conn'[c].registered =>
             \/ Fresh(y, c, lease) /\ Rounds(y) >= 2
             \/ Known(c) /\ Advances(Head(wire), y, c)
             \/ IsTold(c) /\ ~Tells(y, c)
             \/ Silent(c) /\ ~Tells(y, c)
    PROVE  ToldOk'
  <1>1. wire \in Seq(Task) /\ wire # <<>> /\ Tail(wire) \in Seq(Task) /\ wire' = Append(Tail(wire), y)
    BY Left DEF HubTypeOK, Goes
  <1>2. ASSUME NEW c \in Conn, lease # None, conn'[c].open, conn'[c].registered
        PROVE  News(wire', c, lease, conn'[c].told = StateFor(c, lease)')
    <2>1. Known(c) => News(wire, c, lease, conn[c].told = StateFor(c, lease))
      BY <1>2, NewsTold DEF Known
    <2>2. CASE Fresh(y, c, lease) /\ Rounds(y) >= 2
      BY <1>1, <2>2, NewsFresh
    <2>3. CASE Known(c) /\ Advances(Head(wire), y, c)
      BY <1>1, <2>1, <2>3, NewsAdvances
    <2>4. CASE IsTold(c) /\ ~Tells(y, c)
      <3>1. News(Tail(wire), c, lease, conn'[c].told = StateFor(c, lease)')
        BY <1>1, <2>1, <2>4, NewsTells DEF IsTold, Rightly
      <3> QED
        BY <1>1, <2>4, <3>1, NewsJoined
    <2>5. CASE Silent(c) /\ ~Tells(y, c)
      <3>1. News(wire, c, lease, conn'[c].told = StateFor(c, lease)')
        BY <2>1, <2>5 DEF Silent, SameNews
      <3>2. News(Tail(wire), c, lease, conn'[c].told = StateFor(c, lease)')
        BY <1>1, <2>5, <3>1, NewsQuiet DEF Silent
      <3> QED
        BY <1>1, <2>5, <3>2, NewsJoined
    <2> QED
      BY <1>2, <2>2, <2>3, <2>4, <2>5
  <1> QED
    BY <1>2, NewsToldNext

LEMMA ToldEnds ==
    ASSUME HubTypeOK, ToldOk, lease' = lease, Ends,
           \A c \in Conn : lease # None /\ conn'[c].open /\ conn'[c].registered => IsTold(c) \/ Silent(c)
    PROVE  ToldOk'
  <1>1. wire \in Seq(Task) /\ wire # <<>> /\ wire' = Tail(wire)
    BY DEF HubTypeOK, Ends
  <1>2. ASSUME NEW c \in Conn, lease # None, conn'[c].open, conn'[c].registered
        PROVE  News(wire', c, lease, conn'[c].told = StateFor(c, lease)')
    <2>1. Known(c) => News(wire, c, lease, conn[c].told = StateFor(c, lease))
      BY <1>2, NewsTold DEF Known
    <2>2. CASE IsTold(c)
      BY <1>1, <2>1, <2>2, NewsTells DEF IsTold, Rightly
    <2>3. CASE Silent(c)
      <3>1. News(wire, c, lease, conn'[c].told = StateFor(c, lease)')
        BY <2>1, <2>3 DEF Silent, SameNews
      <3> QED
        BY <1>1, <2>3, <3>1, NewsQuiet DEF Silent
    <2> QED
      BY <1>2, <2>2, <2>3
  <1> QED
    BY <1>2, NewsToldNext

LEMMA ToldComes ==
    ASSUME HubTypeOK, ToldOk, NEW y \in Task, Comes(y),
           \A c \in Conn : lease' # None /\ conn'[c].open /\ conn'[c].registered =>
             \/ Fresh(y, c, lease') /\ Rounds(y) >= 2
             \/ lease' = lease /\ SameNews(c) /\ ~Tells(y, c)
    PROVE  ToldOk'
  <1>1. wire \in Seq(Task) /\ wire' = Append(wire, y)
    BY DEF HubTypeOK, Comes
  <1>2. ASSUME NEW c \in Conn, lease' # None, conn'[c].open, conn'[c].registered
        PROVE  News(wire', c, lease', conn'[c].told = StateFor(c, lease)')
    <2>2. CASE Fresh(y, c, lease') /\ Rounds(y) >= 2
      BY <1>1, <2>2, NewsFresh
    <2>3. CASE lease' = lease /\ SameNews(c) /\ ~Tells(y, c)
      <3>1. News(wire, c, lease, conn[c].told = StateFor(c, lease))
        BY <1>2, <2>3, NewsTold DEF SameNews, Known
      <3>2. News(wire, c, lease, conn'[c].told = StateFor(c, lease)')
        BY <2>3, <3>1 DEF SameNews
      <3> QED
        BY <1>1, <2>3, <3>2, NewsJoined
    <2> QED
      BY <1>2, <2>2, <2>3
  <1> QED
    BY <1>2, NewsToldNext

\* A socket's binding is the lease's, or none.
TrueBound(c) == conn[c].bound \in {None, lease}
StaysBound(c) ==
    /\ conn[c].open /\ Head(wire).at # "http"
    /\ (TrueBound(c) /\ ~Binds(Head(wire), c, lease)) \/ Unbinds(Head(wire), lease) =>
          conn'[c].bound \in {None, lease}

LEMMA BoundGoes ==
    ASSUME HubTypeOK, BoundOk, lease' = lease, NEW y \in Task, Goes(y),
           \A c \in Conn : lease # None /\ conn'[c].open =>
             Unbinds(y, lease) \/ (StaysBound(c) /\ ~Binds(y, c, lease))
    PROVE  BoundOk'
  <1>1. wire \in Seq(Task) /\ wire # <<>> /\ Tail(wire) \in Seq(Task) /\ wire' = Append(Tail(wire), y)
    BY Left DEF HubTypeOK, Goes
  <1>2. ASSUME NEW c \in Conn, lease # None, conn'[c].open
        PROVE  Binding(wire', c, lease, conn'[c].bound \in {None, lease})
    <2>1. CASE Unbinds(y, lease)
      BY <1>1, <2>1, BindingAfter
    <2>2. CASE StaysBound(c) /\ ~Binds(y, c, lease)
      <3>1. Binding(wire, c, lease, conn[c].bound \in {None, lease})
        BY <1>2, <2>2, BindingBound DEF StaysBound
      <3>2. Binding(Tail(wire), c, lease, conn'[c].bound \in {None, lease})
        BY <1>1, <2>2, <3>1, BindingLeft DEF StaysBound, TrueBound
      <3> QED
        BY <1>1, <2>2, <3>2, BindingJoined
    <2> QED
      BY <1>2, <2>1, <2>2
  <1> QED
    BY <1>2, BindingBoundNext

LEMMA BoundEnds ==
    ASSUME HubTypeOK, BoundOk, lease' = lease, Ends,
           \A c \in Conn : lease # None /\ conn'[c].open => StaysBound(c)
    PROVE  BoundOk'
  <1>1. wire \in Seq(Task) /\ wire # <<>> /\ wire' = Tail(wire)
    BY DEF HubTypeOK, Ends
  <1>2. ASSUME NEW c \in Conn, lease # None, conn'[c].open
        PROVE  Binding(wire', c, lease, conn'[c].bound \in {None, lease})
    <2>1. StaysBound(c)
      BY <1>2
    <2>2. Binding(wire, c, lease, conn[c].bound \in {None, lease})
      BY <1>2, <2>1, BindingBound DEF StaysBound
    <2> QED
      BY <1>1, <2>1, <2>2, BindingLeft DEF StaysBound, TrueBound
  <1> QED
    BY <1>2, BindingBoundNext

\* A job that was on its way binds no socket that has just opened.
NewlyOpen(c) == conn'[c].bound = None /\ \A i \in 1..Len(wire) : wire[i].conn # c

LEMMA BoundComes ==
    ASSUME HubTypeOK, BoundOk, NEW y \in Task, Comes(y),
           \A c \in Conn : lease' # None /\ conn'[c].open =>
             \/ Unbinds(y, lease')
             \/ /\ lease' = lease /\ ~Binds(y, c, lease)
                /\ (conn[c].open /\ conn'[c].bound = conn[c].bound) \/ NewlyOpen(c)
    PROVE  BoundOk'
  <1>1. wire \in Seq(Task) /\ wire' = Append(wire, y)
    BY DEF HubTypeOK, Comes
  <1>2. ASSUME NEW c \in Conn, lease' # None, conn'[c].open
        PROVE  Binding(wire', c, lease', conn'[c].bound \in {None, lease'})
    <2>1. CASE Unbinds(y, lease')
      BY <1>1, <2>1, BindingAfter
    <2>2. CASE /\ lease' = lease /\ ~Binds(y, c, lease)
               /\ (conn[c].open /\ conn'[c].bound = conn[c].bound) \/ NewlyOpen(c)
      <3>1. Binding(wire, c, lease, conn'[c].bound \in {None, lease})
        BY <1>2, <2>2, BindingBound DEF NewlyOpen, Binding, Binds
      <3> QED
        BY <1>1, <2>2, <3>1, BindingJoined
    <2> QED
      BY <1>2, <2>1, <2>2
  <1> QED
    BY <1>2, BindingBoundNext

\* The timer.
SomeArmed == timer.tracked \/ timer.lost
Watched == \E c \in Conn : conn[c].registered
StaysArmed == Watched /\ (SomeArmed => SomeArmed')

LEMMA ArmedGoes ==
    ASSUME HubTypeOK, ArmedOk, lease' = lease, NEW y \in Task, Goes(y),
           lease # None /\ Watched' => Arms(y) \/ SomeArmed' \/ (StaysArmed /\ ~Arms(Head(wire)))
    PROVE  ArmedOk'
  <1>1. wire \in Seq(Task) /\ wire # <<>> /\ Tail(wire) \in Seq(Task) /\ wire' = Append(Tail(wire), y)
    BY Left DEF HubTypeOK, Goes
  <1>2. ASSUME lease # None, Watched' PROVE SomeArmed' \/ \E i \in 1..Len(wire') : Arms(wire'[i])
    <2>1. CASE Arms(y)
      BY <1>1, <2>1, ArmedJoined
    <2>2. CASE StaysArmed /\ ~Arms(Head(wire))
      <3>1. SomeArmed \/ \E i \in 1..Len(wire) : Arms(wire[i])
        BY <1>2, <2>2 DEF ArmedOk, SomeArmed, Watched, StaysArmed
      <3>2. SomeArmed' \/ \E i \in 1..Len(Tail(wire)) : Arms(Tail(wire)[i])
        BY <1>1, <2>2, <3>1, ArmedLeft DEF StaysArmed
      <3> QED
        BY <1>1, <3>2, ArmedJoined
    <2> QED
      BY <1>2, <2>1, <2>2
  <1> QED
    BY <1>2 DEF ArmedOk, SomeArmed, Watched, Arms

LEMMA ArmedEnds ==
    ASSUME HubTypeOK, ArmedOk, lease' = lease, Ends,
           lease # None /\ Watched' => SomeArmed' \/ (StaysArmed /\ ~Arms(Head(wire)))
    PROVE  ArmedOk'
  <1>1. wire \in Seq(Task) /\ wire # <<>> /\ wire' = Tail(wire)
    BY DEF HubTypeOK, Ends
  <1>2. ASSUME lease # None, Watched' PROVE SomeArmed' \/ \E i \in 1..Len(wire') : Arms(wire'[i])
    <2>1. CASE StaysArmed /\ ~Arms(Head(wire))
      <3>1. SomeArmed \/ \E i \in 1..Len(wire) : Arms(wire[i])
        BY <1>2, <2>1 DEF ArmedOk, SomeArmed, Watched, StaysArmed
      <3> QED
        BY <1>1, <2>1, <3>1, ArmedLeft DEF StaysArmed
    <2> QED
      BY <1>2, <2>1
  <1> QED
    BY <1>2 DEF ArmedOk, SomeArmed, Watched, Arms

LEMMA ArmedComes ==
    ASSUME HubTypeOK, ArmedOk, NEW y \in Task, Comes(y),
           lease' # None /\ Watched' => Arms(y) \/ (lease' = lease /\ StaysArmed)
    PROVE  ArmedOk'
  <1>1. wire \in Seq(Task) /\ wire' = Append(wire, y)
    BY DEF HubTypeOK, Comes
  <1>2. ASSUME lease' # None, Watched' PROVE SomeArmed' \/ \E i \in 1..Len(wire') : Arms(wire'[i])
    <2>1. SomeArmed' \/ Arms(y) \/ \E i \in 1..Len(wire) : Arms(wire[i])
      BY <1>2 DEF ArmedOk, SomeArmed, Watched, StaysArmed
    <2> QED
      BY <1>1, <2>1, ArmedJoined
  <1> QED
    BY <1>2 DEF ArmedOk, SomeArmed, Watched, Arms

\* Registration.
EntryOk(c) == conn[c].open /\ (conn[c].device # None \/ conn[c].bound # None) => conn[c].registered
HubJobOk(x) ==
    /\ x.at \in MessageSteps \union PingSteps => x.conn \in Conn
    /\ \A c \in Conn : x.at \in MessageSteps \ {"ticket"} /\ x.conn = c /\ conn[c].open => conn[c].registered

LEMMA RegisteredIs ==
    RegisteredOk <=> (\A c \in Conn : EntryOk(c)) /\ \A i \in 1..Len(wire) : HubJobOk(wire[i])
  BY DEF RegisteredOk, EntryOk, HubJobOk

\* A socket that opens has no job on its way, and none that is open is forgotten.
OpenOk(c) ==
    /\ EntryOk(c)'
    /\ \/ conn'[c].open => conn[c].open /\ (conn[c].registered => conn'[c].registered)
       \/ \A i \in 1..Len(wire) : wire[i].conn # c

LEMMA JobOkKept ==
    ASSUME \A c \in Conn : OpenOk(c), NEW i \in 1..Len(wire), HubJobOk(wire[i])
    PROVE  /\ wire[i].at \in MessageSteps \union PingSteps => wire[i].conn \in Conn
           /\ \A c \in Conn : wire[i].at \in MessageSteps \ {"ticket"} /\ wire[i].conn = c /\ conn'[c].open =>
                 conn'[c].registered
  BY DEF OpenOk, HubJobOk

NextJobOk(x) ==
    /\ x.at \in MessageSteps \union PingSteps => x.conn \in Conn
    /\ \A c \in Conn : x.at \in MessageSteps \ {"ticket"} /\ x.conn = c /\ conn'[c].open => conn'[c].registered

LEMMA RegisteredKept ==
    ASSUME RegisteredOk, \A c \in Conn : OpenOk(c),
           \A i \in 1..Len(wire') :
             (\E j \in 1..Len(wire) : wire'[i] = wire[j]) \/ NextJobOk(wire'[i])
    PROVE  RegisteredOk'
  <1>1. ASSUME NEW i \in 1..Len(wire') PROVE NextJobOk(wire'[i])
    <2>1. CASE \E j \in 1..Len(wire) : wire'[i] = wire[j]
      BY <2>1, JobOkKept, RegisteredIs DEF NextJobOk
    <2> QED
      BY <1>1, <2>1
  <1>2. \A c \in Conn : EntryOk(c)'
    BY DEF OpenOk
  <1> QED
    BY <1>1, <1>2 DEF RegisteredOk, NextJobOk, EntryOk

LEMMA RegisteredGoes ==
    ASSUME HubTypeOK, RegisteredOk, NEW y \in Task, Goes(y), \A c \in Conn : OpenOk(c), NextJobOk(y)
    PROVE  RegisteredOk'
  <1>1. wire \in Seq(Task) /\ wire # <<>> /\ Tail(wire) \in Seq(Task) /\ wire' = Append(Tail(wire), y)
    BY Left DEF HubTypeOK, Goes
  <1>2. /\ Len(Tail(wire)) = Len(wire) - 1 /\ Len(wire) \in Nat \ {0}
        /\ \A i \in 1..Len(wire) - 1 : Tail(wire)[i] = wire[i + 1]
    BY <1>1, Left
  <1>3. /\ Len(wire') = Len(wire) /\ wire'[Len(wire)] = y
        /\ \A i \in 1..Len(wire) - 1 : wire'[i] = Tail(wire)[i]
    BY <1>1, <1>2, Joined
  <1>4. ASSUME NEW i \in 1..Len(wire')
        PROVE  (\E j \in 1..Len(wire) : wire'[i] = wire[j]) \/ NextJobOk(wire'[i])
    <2>1. CASE i = Len(wire)
      BY <1>3, <2>1
    <2>2. CASE i # Len(wire)
      <3>1. i \in 1..Len(wire) /\ Len(wire) \in Nat \ {0}
        BY <1>2, <1>3
      <3>2. i \in 1..Len(wire) - 1 /\ i + 1 \in 1..Len(wire)
        BY <2>2, <3>1
      <3> QED
        BY <1>2, <1>3, <3>2
    <2> QED
      BY <2>1, <2>2
  <1> QED
    BY <1>4, RegisteredKept

LEMMA RegisteredEnds ==
    ASSUME HubTypeOK, RegisteredOk, Ends, \A c \in Conn : OpenOk(c)
    PROVE  RegisteredOk'
  <1>1. wire \in Seq(Task) /\ wire # <<>> /\ wire' = Tail(wire)
    BY DEF HubTypeOK, Ends
  <1>2. /\ Len(wire') = Len(wire) - 1 /\ Len(wire) \in Nat \ {0}
        /\ \A i \in 1..Len(wire) - 1 : wire'[i] = wire[i + 1]
    BY <1>1, Left
  <1>3. ASSUME NEW i \in 1..Len(wire') PROVE \E j \in 1..Len(wire) : wire'[i] = wire[j]
    <2>1. i \in 1..Len(wire) - 1 /\ i + 1 \in 1..Len(wire)
      BY <1>2
    <2> QED
      BY <1>2, <2>1
  <1> QED
    BY <1>3, RegisteredKept

LEMMA RegisteredComes ==
    ASSUME HubTypeOK, RegisteredOk, NEW y \in Task, Comes(y), \A c \in Conn : OpenOk(c), NextJobOk(y)
    PROVE  RegisteredOk'
  <1>1. wire \in Seq(Task) /\ wire' = Append(wire, y)
    BY DEF HubTypeOK, Comes
  <1>2. /\ Len(wire') = Len(wire) + 1 /\ Len(wire) \in Nat /\ wire'[Len(wire) + 1] = y
        /\ \A i \in 1..Len(wire) : wire'[i] = wire[i]
    BY <1>1, Joined
  <1>3. ASSUME NEW i \in 1..Len(wire')
        PROVE  (\E j \in 1..Len(wire) : wire'[i] = wire[j]) \/ NextJobOk(wire'[i])
    BY <1>2
  <1> QED
    BY <1>3, RegisteredKept

-----------------------------------------------------------------------------
(* What the steps do to the sockets' entries *)

Rest == lease' = lease /\ sess' = sess

\* All of an entry but what it was told and whether it plays.
SameSocket(c) ==
    /\ conn'[c].open = conn[c].open /\ conn'[c].registered = conn[c].registered
    /\ conn'[c].device = conn[c].device
SameBinding(c) == conn'[c].bound = conn[c].bound /\ conn'[c].revoked = conn[c].revoked
Untold(c) == SameSocket(c) /\ SameBinding(c) /\ conn'[c].told = conn[c].told

LEMMA TruthKept ==
    ASSUME Rest, NEW c, SameSocket(c), SameBinding(c)
    PROVE  StateFor(c, lease)' = StateFor(c, lease)
  BY DEF StateFor, Rest, SameSocket, SameBinding

LEMMA UntoldNews ==
    ASSUME Rest, NEW c, Untold(c), conn'[c].open, conn'[c].registered
    PROVE  SameNews(c)
  BY TruthKept DEF SameNews, Known, Untold, SameSocket

LEMMA OpenKept ==
    ASSUME RegisteredOk, NEW c \in Conn, SameSocket(c), conn'[c].bound \in {None, conn[c].bound}
    PROVE  OpenOk(c)
  BY DEF RegisteredOk, OpenOk, EntryOk, SameSocket

LEMMA WatchedKept ==
    ASSUME \A c \in Conn : SameSocket(c)
    PROVE  Watched' <=> Watched
  BY DEF Watched, SameSocket

LEMMA TypeGoes ==
    ASSUME HubTypeOK, Rest, conn' \in [Conn -> Entry], timer' \in [tracked : BOOLEAN, lost : BOOLEAN],
           NEW y \in Task, Goes(y)
    PROVE  HubTypeOK'
  <1>1. wire' \in Seq(Task)
    BY Left, Joined DEF HubTypeOK, Goes
  <1> QED
    BY <1>1 DEF HubTypeOK, Rest

LEMMA TypeEnds ==
    ASSUME HubTypeOK, Rest, conn' \in [Conn -> Entry], timer' \in [tracked : BOOLEAN, lost : BOOLEAN], Ends
    PROVE  HubTypeOK'
  <1>1. wire' \in Seq(Task)
    BY Left DEF HubTypeOK, Ends
  <1> QED
    BY <1>1 DEF HubTypeOK, Rest

LEMMA TypeComes ==
    ASSUME HubTypeOK, lease' \in Session \union {None},
           sess' \in [Session -> [device : Device, live : BOOLEAN] \union {None}],
           conn' \in [Conn -> Entry], timer' \in [tracked : BOOLEAN, lost : BOOLEAN],
           NEW y \in Task, Comes(y)
    PROVE  HubTypeOK'
  <1>1. wire' \in Seq(Task)
    BY Joined DEF HubTypeOK, Comes
  <1> QED
    BY <1>1 DEF HubTypeOK

LEMMA HubTypes ==
    ASSUME HubTypeOK
    PROVE  /\ lease \in Session \union {None} /\ conn \in [Conn -> Entry] /\ wire \in Seq(Task)
           /\ timer \in [tracked : BOOLEAN, lost : BOOLEAN]
           /\ sess \in [Session -> [device : Device, live : BOOLEAN] \union {None}]
  BY DEF HubTypeOK

LEMMA FirstIs ==
    ASSUME HubTypeOK, RegisteredOk, wire # <<>>
    PROVE  /\ Head(wire) \in Task /\ Answered \in Task /\ Answered = Head(wire)
           /\ Head(wire).at \in MessageSteps \union PingSteps => Head(wire).conn \in Conn
           /\ \A c \in Conn : Head(wire).at \in MessageSteps \ {"ticket"} /\ Head(wire).conn = c /\ conn[c].open =>
                 conn[c].registered
  <1>1. Head(wire) = wire[1] /\ 1 \in 1..Len(wire) /\ Head(wire) \in Task
    BY Left DEF HubTypeOK
  <1> QED
    BY <1>1 DEF RegisteredOk, Answered

LEMMA TellIs ==
    ASSUME HubTypeOK, NEW c \in Conn, NEW l
    PROVE  LET e == Tell(c, l)
           IN  /\ e \in Entry /\ e.open = conn[c].open /\ e.registered = conn[c].registered
               /\ e.device = conn[c].device /\ e.bound = conn[c].bound /\ e.revoked = conn[c].revoked
               /\ conn[c].open => e.told = StateFor(c, l)
  <1>1. conn[c] \in Entry
    BY DEF HubTypeOK
  <1>2. StateFor(c, l) \in {"available", "owned", "busy"}
    BY DEF StateFor
  <1> QED
    BY <1>1, <1>2 DEF Tell, Entry

\* scheduleExpiry and notify up to their first await.
LEMMA ScheduleIs ==
    ASSUME HubTypeOK, wire # <<>>, NEW x \in Task, ScheduleExpiry(x)
    PROVE  /\ timer' \in [tracked : BOOLEAN, lost : BOOLEAN]
           /\ \E y \in Task : Goes(y) /\ y.at = "arm" /\ y.lease = lease
  <1>1. PICK no \in BOOLEAN : timer' = [timer EXCEPT !.tracked = no]
    BY DEF ScheduleExpiry
  <1>2. timer' \in [tracked : BOOLEAN, lost : BOOLEAN]
    BY <1>1 DEF HubTypeOK
  <1> DEFINE y == ReadLease(Call(x), "arm")
  <1>3. "arm" \in Steps
    BY DEF Steps, HubSteps
  <1>4. y \in Task /\ y.at = "arm" /\ y.lease = lease
    BY <1>3, CallIs, ReadLeaseIs DEF HubTypeOK
  <1>5. Goes(y)
    BY DEF ScheduleExpiry, Goes, Continue
  <1> QED
    BY <1>2, <1>4, <1>5

LEMMA NotifyIs ==
    ASSUME HubTypeOK, wire # <<>>, NEW x \in Task, Notify(x)
    PROVE  \E y \in Task : Goes(y) /\ y.at = "notifyLease" /\ y.lease = lease
  <1> DEFINE y == ReadLease(Call(x), "notifyLease")
  <1>3. "notifyLease" \in Steps
    BY DEF Steps, HubSteps
  <1>4. y \in Task /\ y.at = "notifyLease" /\ y.lease = lease
    BY <1>3, CallIs, ReadLeaseIs DEF HubTypeOK
  <1>5. Goes(y)
    BY DEF Notify, Goes, Continue
  <1> QED
    BY <1>4, <1>5

\* A step that notifies settles all that a job has to settle.
LEMMA NotifiesKeeps ==
    ASSUME HubIInv, Rest, NEW y \in Task, Goes(y), y.at = "notifyLease", y.lease = lease,
           conn' \in [Conn -> Entry], timer' = timer,
           \A c \in Conn : SameSocket(c) /\ conn'[c].bound \in {None, conn[c].bound}
    PROVE  HubIInv'
  <1> USE DEF HubIInv
  <1>1. HubTypeOK'
    BY TypeGoes, HubTypes
  <1>2. ToldOk'
    <2>1. \A c \in Conn : lease # None => Fresh(y, c, lease) /\ Rounds(y) >= 2
      BY DEF Fresh, Tells, Rounds
    <2> QED
      BY <2>1, ToldGoes DEF Rest
  <1>3. BoundOk'
    BY BoundGoes DEF Rest, Unbinds
  <1>4. ArmedOk'
    BY ArmedGoes DEF Rest, Arms
  <1>5. RegisteredOk'
    <2>1. NextJobOk(y)
      BY DEF NextJobOk, MessageSteps, PingSteps
    <2> QED
      BY <2>1, OpenKept, RegisteredGoes
  <1> QED
    BY <1>1, <1>2, <1>3, <1>4, <1>5

\* One that arms the timer next tells those that it tells, and binds no one.
LEMMA SchedulesKeeps ==
    ASSUME HubIInv, Rest, NEW y \in Task, Goes(y), y.at = "arm", y.lease = lease,
           conn' \in [Conn -> Entry], timer' \in [tracked : BOOLEAN, lost : BOOLEAN],
           Head(wire).at # "http", ~Unbinds(Head(wire), lease), Head(wire).at # "bindLease",
           \A c \in Conn :
             /\ SameSocket(c) /\ conn'[c].bound \in {None, conn[c].bound}
             /\ lease # None /\ conn'[c].open /\ conn'[c].registered =>
                  IsTold(c) \/ (~Tells(Head(wire), c) /\ Untold(c))
    PROVE  HubIInv'
  <1> USE DEF HubIInv
  <1>1. HubTypeOK'
    BY TypeGoes
  <1>2. ToldOk'
    <2>1. \A c \in Conn : ~Tells(y, c)
      BY DEF Tells
    <2>2. \A c \in Conn : lease # None /\ conn'[c].open /\ conn'[c].registered => IsTold(c) \/ Silent(c)
      BY UntoldNews DEF Silent
    <2> QED
      BY <2>1, <2>2, ToldGoes DEF Rest
  <1>3. BoundOk'
    <2>1. \A c \in Conn : ~Binds(y, c, lease)
      BY DEF Binds
    <2>2. \A c \in Conn : conn'[c].open => StaysBound(c)
      BY DEF StaysBound, TrueBound, SameSocket
    <2> QED
      BY <2>1, <2>2, BoundGoes DEF Rest
  <1>4. ArmedOk'
    BY ArmedGoes DEF Rest, Arms
  <1>5. RegisteredOk'
    <2>1. NextJobOk(y)
      BY DEF NextJobOk, MessageSteps, PingSteps
    <2> QED
      BY <2>1, OpenKept, RegisteredGoes
  <1> QED
    BY <1>1, <1>2, <1>3, <1>4, <1>5

\* One that ends tells those that it tells, binds no one and arms nothing.
LEMMA EndsKeeps ==
    ASSUME HubIInv, Rest, Ends, timer' = timer, conn' \in [Conn -> Entry],
           Head(wire).at # "http", ~Unbinds(Head(wire), lease), ~Arms(Head(wire)),
           Head(wire).at = "bindLease" => Head(wire).lease = None,
           \A c \in Conn :
             /\ SameSocket(c) /\ conn'[c].bound \in {None, conn[c].bound}
             /\ lease # None /\ conn'[c].open /\ conn'[c].registered =>
                  IsTold(c) \/ (~Tells(Head(wire), c) /\ Untold(c))
    PROVE  HubIInv'
  <1> USE DEF HubIInv
  <1>1. HubTypeOK'
    BY TypeEnds, HubTypes
  <1>2. ToldOk'
    <2>2. \A c \in Conn : lease # None /\ conn'[c].open /\ conn'[c].registered => IsTold(c) \/ Silent(c)
      BY UntoldNews DEF Silent
    <2> QED
      BY <2>2, ToldEnds DEF Rest
  <1>3. BoundOk'
    <2>1. \A c \in Conn : conn'[c].open => StaysBound(c)
      BY DEF StaysBound, TrueBound, SameSocket
    <2> QED
      BY <2>1, BoundEnds DEF Rest
  <1>4. ArmedOk'
    BY ArmedEnds, WatchedKept DEF Rest, StaysArmed, SomeArmed
  <1>5. RegisteredOk'
    BY OpenKept, RegisteredEnds
  <1> QED
    BY <1>1, <1>2, <1>3, <1>4, <1>5

Talk == (MessageSteps \union PingSteps) \ {"ticket"}

\* One of a message or a ping goes on.
LEMMA TalkKeeps ==
    ASSUME HubIInv, Rest, NEW y \in Task, Goes(y), timer' = timer, conn' \in [Conn -> Entry],
           Head(wire).at \in Talk, y.at \in Talk, y.conn = Head(wire).conn,
           y.at \in PingSteps \/ Head(wire).at \in MessageSteps,
           Arms(Head(wire)) => Arms(y), \A c \in Conn : ~Binds(y, c, lease),
           \A c \in Conn :
             /\ SameSocket(c)
             /\ \/ conn'[c].bound \in {None, conn[c].bound}
                \/ Binds(Head(wire), c, lease)
                \/ /\ Head(wire).at = "bindLease" /\ c = Head(wire).conn
                   /\ conn'[c].bound = lease
             /\ lease # None /\ conn'[c].open /\ conn'[c].registered =>
                  \/ Fresh(y, c, lease) /\ Rounds(y) >= 2
                  \/ Advances(Head(wire), y, c)
                  \/ ~Tells(Head(wire), c) /\ ~Tells(y, c) /\ Untold(c)
    PROVE  HubIInv'
  <1> USE DEF HubIInv
  <1>0. /\ wire # <<>> /\ Head(wire).at # "http" /\ ~Unbinds(Head(wire), lease)
        /\ Head(wire).at \in MessageSteps \union PingSteps
    BY DEF Goes, Talk, Unbinds, MessageSteps, PingSteps
  <1>1. HubTypeOK'
    BY TypeGoes, HubTypes
  <1>2. ToldOk'
    <2>1. \A c \in Conn : lease # None /\ conn'[c].open /\ conn'[c].registered =>
             \/ Fresh(y, c, lease) /\ Rounds(y) >= 2
             \/ Known(c) /\ Advances(Head(wire), y, c)
             \/ Silent(c) /\ ~Tells(y, c)
      BY <1>0, UntoldNews DEF Silent, Known, SameSocket
    <2> QED
      BY <2>1, ToldGoes DEF Rest
  <1>3. BoundOk'
    <2>1. ASSUME NEW c \in Conn, lease # None, conn'[c].open PROVE StaysBound(c)
      BY <1>0, <2>1 DEF StaysBound, TrueBound, SameSocket
    <2> QED
      BY <2>1, BoundGoes DEF Rest
  <1>4. ArmedOk'
    BY ArmedGoes, WatchedKept DEF Rest, StaysArmed, SomeArmed
  <1>5. RegisteredOk'
    <2>1. /\ Head(wire).conn \in Conn
          /\ Head(wire).at \in MessageSteps \ {"ticket"} /\ conn[Head(wire).conn].open =>
               conn[Head(wire).conn].registered
      BY <1>0, FirstIs
    <2>2. NextJobOk(y)
      BY <2>1 DEF NextJobOk, Talk, MessageSteps, PingSteps, SameSocket
    <2>3. ASSUME NEW c \in Conn PROVE OpenOk(c)
      <3>1. CASE conn'[c].bound \in {None, conn[c].bound}
        BY <3>1, OpenKept
      <3>2. CASE Head(wire).at = "bindLease" /\ c = Head(wire).conn
        BY <2>1, <3>2 DEF OpenOk, EntryOk, SameSocket, MessageSteps
      <3> QED
        BY <3>1, <3>2 DEF Binds
    <2> QED
      BY <2>2, <2>3, RegisteredGoes
  <1> QED
    BY <1>1, <1>2, <1>3, <1>4, <1>5

-----------------------------------------------------------------------------
(* The replies, one by one *)

LEMMA StillIs ==
    ASSUME HubTypeOK, conn' = conn
    PROVE  conn' \in [Conn -> Entry] /\ \A c \in Conn : Untold(c) /\ SameSocket(c)
  BY DEF HubTypeOK, Untold, SameSocket, SameBinding

\* What one socket is told of the lease that the first job has read.
LEMMA OneTold ==
    ASSUME HubIInv, Rest, NEW k \in Conn, conn' = [conn EXCEPT ![k] = Tell(k, Head(wire).lease)],
           Rounds(Head(wire)) = 1, \A c \in Conn : Tells(Head(wire), c) <=> c = k
    PROVE  /\ conn' \in [Conn -> Entry]
           /\ \A c \in Conn :
                /\ SameSocket(c) /\ conn'[c].bound \in {None, conn[c].bound}
                /\ lease # None /\ conn'[c].open /\ conn'[c].registered =>
                     IsTold(c) \/ (~Tells(Head(wire), c) /\ Untold(c))
  <1> DEFINE l == Head(wire).lease
             e == Tell(k, l)
  <1>1. /\ e \in Entry /\ e.open = conn[k].open /\ e.registered = conn[k].registered
        /\ e.device = conn[k].device /\ e.bound = conn[k].bound /\ e.revoked = conn[k].revoked
        /\ conn[k].open => e.told = StateFor(k, l)
    BY TellIs DEF HubIInv
  <1>2. conn \in [Conn -> Entry]
    BY DEF HubIInv, HubTypeOK
  <1>3. conn' = [conn EXCEPT ![k] = e]
    OBVIOUS
  <1> HIDE DEF e
  <1>4. conn' \in [Conn -> Entry] /\ conn'[k] = e /\ \A c \in Conn : c # k => conn'[c] = conn[c]
    BY <1>1, <1>2, <1>3
  <1>5. ASSUME NEW c \in Conn PROVE SameSocket(c) /\ SameBinding(c)
    BY <1>1, <1>4 DEF SameSocket, SameBinding
  <1>6. ASSUME NEW c \in Conn, c # k PROVE ~Tells(Head(wire), c) /\ Untold(c)
    BY <1>4, <1>5, <1>6 DEF Untold
  <1>7. ASSUME conn'[k].open, conn'[k].registered PROVE IsTold(k)
    <2>1. Known(k) /\ conn'[k].told = StateFor(k, l)
      BY <1>1, <1>4, <1>7 DEF Known
    <2>2. StateFor(k, lease)' = StateFor(k, lease)
      BY <1>5, TruthKept
    <2> QED
      BY <2>1, <2>2 DEF IsTold, Rightly
  <1> QED
    BY <1>4, <1>5, <1>6, <1>7 DEF SameBinding

LEMMA ArmKeeps ==
    ASSUME HubIInv, Arm
    PROVE  HubIInv'
  <1> DEFINE x == Head(wire)
  <1>1. Rest /\ Ends /\ conn' = conn /\ x.at = "arm"
    BY DEF Arm, Replied, TaskEnds, Ends, Rest
  <1>2. x.lease = None => timer' = timer
    BY DEF Arm, Answered
  <1>3. x.lease # None => timer'.tracked /\ timer' \in [tracked : BOOLEAN, lost : BOOLEAN]
    <2>1. (timer.lost \/ timer.tracked) \in BOOLEAN
      OBVIOUS
    <2>2. PICK lost \in BOOLEAN, yes \in BOOLEAN :
            yes /\ (x.lease # None => timer' = [tracked |-> yes, lost |-> lost])
      BY <2>1 DEF Arm, Answered
    <2>3. ASSUME x.lease # None
          PROVE  timer'.tracked = yes /\ timer' \in [tracked : BOOLEAN, lost : BOOLEAN]
      <3>1. timer' = [tracked |-> yes, lost |-> lost]
        BY <2>2, <2>3
      <3> QED
        BY <3>1
    <2> QED
      BY <2>2, <2>3, Zenon
  <1>4. timer' \in [tracked : BOOLEAN, lost : BOOLEAN]
    BY <1>2, <1>3 DEF HubIInv, HubTypeOK
  <1>5. /\ ~Unbinds(x, lease) /\ \A c \in Conn : ~Tells(x, c) /\ ~Binds(x, c, lease)
    BY <1>1 DEF Unbinds, Tells, Binds
  <1>6. conn' \in [Conn -> Entry] /\ \A c \in Conn : Untold(c) /\ SameSocket(c)
    BY <1>1, StillIs DEF HubIInv
  <1> HIDE DEF x
  <1>7. HubTypeOK'
    BY <1>1, <1>4, <1>6, TypeEnds DEF HubIInv
  <1>8. ToldOk'
    <2>1. \A c \in Conn : lease # None /\ conn'[c].open /\ conn'[c].registered => Silent(c)
      BY <1>1, <1>5, <1>6, UntoldNews DEF Silent, x
    <2> QED
      BY <1>1, <2>1, ToldEnds DEF Rest, HubIInv
  <1>9. BoundOk'
    <2>1. \A c \in Conn : conn'[c].open => StaysBound(c)
      BY <1>1, <1>5 DEF StaysBound, TrueBound, x
    <2> QED
      BY <1>1, <2>1, BoundEnds DEF Rest, HubIInv
  <1>10. ArmedOk'
    <2>1. x.lease = None => ~Arms(x)
      BY <1>1 DEF Arms, PingSteps
    <2>2. Watched' => StaysArmed \/ SomeArmed'
      BY <1>2, <1>3, <1>6, WatchedKept DEF StaysArmed, SomeArmed
    <2>3. x.lease # None => SomeArmed'
      BY <1>3 DEF SomeArmed
    <2> QED
      BY <1>1, <2>1, <2>2, <2>3, ArmedEnds DEF Rest, HubIInv, x
  <1>11. RegisteredOk'
    <2>1. \A c \in Conn : OpenOk(c)
      BY <1>6, OpenKept DEF HubIInv, Untold, SameBinding
    <2> QED
      BY <1>1, <2>1, RegisteredEnds DEF HubIInv
  <1> QED
    BY <1>7, <1>8, <1>9, <1>10, <1>11 DEF HubIInv

LEMMA NotifyTellKeeps ==
    ASSUME HubIInv, NotifyTell
    PROVE  HubIInv'
  <1> DEFINE x == Head(wire)
  <1>1. Rest /\ wire # <<>> /\ x.at = "notifyTell" /\ ScheduleExpiry(x) /\ x \in Task
    BY FirstIs DEF NotifyTell, Replied, Rest, Answered, HubIInv
  <1>2. conn' = [c \in Conn |-> IF c \in x.to THEN Tell(c, x.lease) ELSE conn[c]]
    BY DEF NotifyTell, Answered
  <1> HIDE DEF x
  <1>3. /\ timer' \in [tracked : BOOLEAN, lost : BOOLEAN]
        /\ \E y \in Task : Goes(y) /\ y.at = "arm" /\ y.lease = lease
    BY <1>1, ScheduleIs DEF HubIInv
  <1>4. conn \in [Conn -> Entry]
    BY DEF HubIInv, HubTypeOK
  <1>5. ASSUME NEW c \in Conn
        PROVE  /\ conn'[c] \in Entry /\ SameSocket(c) /\ SameBinding(c)
               /\ c \notin x.to => conn'[c] = conn[c]
               /\ c \in x.to /\ conn[c].open => conn'[c].told = StateFor(c, x.lease)
    <2>1. CASE c \in x.to
      <3>1. conn'[c] = Tell(c, x.lease)
        BY <1>2, <2>1
      <3> QED
        BY <2>1, <3>1, TellIs DEF HubIInv, SameSocket, SameBinding
    <2>2. CASE c \notin x.to
      <3>1. conn'[c] = conn[c]
        BY <1>2, <2>2
      <3> QED
        BY <1>4, <2>2, <3>1 DEF SameSocket, SameBinding
    <2> QED
      BY <2>1, <2>2
  <1>6. conn' \in [Conn -> Entry]
    <2>1. \E f : conn' = [c \in Conn |-> f[c]]
      BY <1>2
    <2> QED
      BY <1>5, <2>1
  <1>7. \A c \in Conn : Tells(x, c) <=> c \in x.to
    BY <1>1 DEF Tells
  <1>8. Rounds(x) = 1 /\ ~Unbinds(x, lease)
    BY <1>1 DEF Rounds, Unbinds
  <1>9. ASSUME NEW c \in Conn, conn'[c].open, conn'[c].registered
        PROVE  IsTold(c) \/ (~Tells(x, c) /\ Untold(c))
    <2>1. CASE c \in x.to
      <3>1. StateFor(c, lease)' = StateFor(c, lease)
        BY <1>1, <1>5, TruthKept
      <3>2. Rightly(c)
        BY <1>5, <1>9, <2>1, <3>1 DEF Rightly, SameSocket, x
      <3> QED
        BY <1>5, <1>7, <1>8, <1>9, <2>1, <3>2 DEF IsTold, Known, SameSocket, x
    <2>2. CASE c \notin x.to
      BY <1>5, <1>7, <2>2 DEF Untold
    <2> QED
      BY <2>1, <2>2
  <1> QED
    BY <1>1, <1>3, <1>5, <1>6, <1>8, <1>9, SchedulesKeeps DEF SameBinding, x

LEMMA AuthHelloKeeps ==
    ASSUME HubIInv, AuthHello
    PROVE  HubIInv'
  <1> DEFINE x == Head(wire)
  <1>1. Rest /\ wire # <<>> /\ x.at = "hello" /\ x \in Task /\ x.conn \in Conn
    BY FirstIs DEF AuthHello, Replied, Rest, Answered, HubIInv, MessageSteps
  <1>2. \A c \in Conn : Tells(x, c) <=> c = x.conn
    BY <1>1 DEF Tells
  <1>3. ~Unbinds(x, lease)
    BY <1>1 DEF Unbinds
  <1>4. CASE x.lease = None
    <2>1. conn' = [conn EXCEPT ![x.conn] = Tell(x.conn, x.lease)] /\ ScheduleExpiry(x)
      BY <1>4 DEF AuthHello, Answered
    <2>2. Rounds(x) = 1
      BY <1>1, <1>4 DEF Rounds
    <2>3. /\ timer' \in [tracked : BOOLEAN, lost : BOOLEAN]
          /\ \E y \in Task : Goes(y) /\ y.at = "arm" /\ y.lease = lease
      BY <1>1, <2>1, ScheduleIs DEF HubIInv
    <2> HIDE DEF x
    <2> QED
      BY <1>1, <1>2, <1>3, <2>1, <2>2, <2>3, OneTold, SchedulesKeeps DEF x
  <1>5. CASE x.lease # None
    <2> DEFINE y == [x EXCEPT !.at = "helloTell"]
    <2>1. y \in Task /\ y.at = "helloTell" /\ y.conn = x.conn /\ y.lease = x.lease
      BY <1>1, StepIs DEF Steps, MessageSteps
    <2>2. Goes(y) /\ conn' = conn /\ timer' = timer
      BY <1>1, <1>5 DEF AuthHello, Answered, Goes, Continue
    <2> HIDE DEF y, x
    <2>3. x.at \in Talk /\ y.at \in Talk /\ Arms(y) /\ x.at \in MessageSteps
      BY <1>1, <2>1 DEF Talk, MessageSteps, PingSteps, Arms
    <2>4. \A c \in Conn : ~Binds(y, c, lease)
      BY <2>1 DEF Binds
    <2>5. \A c \in Conn : Advances(x, y, c) \/ (~Tells(x, c) /\ ~Tells(y, c))
      BY <1>1, <1>5, <2>1 DEF Advances, Tells, Rounds
    <2>6. conn' \in [Conn -> Entry] /\ \A c \in Conn : Untold(c) /\ SameSocket(c)
      BY <2>2, StillIs DEF HubIInv
    <2> QED
      BY <1>1, <2>1, <2>2, <2>3, <2>4, <2>5, <2>6, TalkKeeps DEF x
  <1> QED
    BY <1>4, <1>5

LEMMA AuthTellKeeps ==
    ASSUME HubIInv, AuthTell
    PROVE  HubIInv'
  <1> DEFINE x == Head(wire)
  <1>1. /\ Rest /\ wire # <<>> /\ x.at = "helloTell" /\ x \in Task /\ x.conn \in Conn
        /\ conn' = [conn EXCEPT ![x.conn] = Tell(x.conn, x.lease)] /\ ScheduleExpiry(x)
    BY FirstIs DEF AuthTell, Replied, Rest, Answered, HubIInv, MessageSteps
  <1>2. Rounds(x) = 1 /\ ~Unbinds(x, lease) /\ \A c \in Conn : Tells(x, c) <=> c = x.conn
    BY <1>1 DEF Rounds, Unbinds, Tells
  <1>3. /\ timer' \in [tracked : BOOLEAN, lost : BOOLEAN]
        /\ \E y \in Task : Goes(y) /\ y.at = "arm" /\ y.lease = lease
    BY <1>1, ScheduleIs DEF HubIInv
  <1> HIDE DEF x
  <1> QED
    BY <1>1, <1>2, <1>3, OneTold, SchedulesKeeps DEF x

LEMMA TellOneKeeps ==
    ASSUME HubIInv, TellOne
    PROVE  HubIInv'
  <1> DEFINE x == Head(wire)
  <1>1. /\ Rest /\ Ends /\ x.at = "tell" /\ x \in Task /\ x.conn \in Conn /\ timer' = timer
        /\ conn' = [conn EXCEPT ![x.conn] = Tell(x.conn, x.lease)]
    BY FirstIs DEF TellOne, Replied, Rest, Answered, HubIInv, MessageSteps, Ends, TaskEnds
  <1>2. /\ Rounds(x) = 1 /\ ~Unbinds(x, lease) /\ ~Arms(x)
        /\ \A c \in Conn : Tells(x, c) <=> c = x.conn
    BY <1>1 DEF Rounds, Unbinds, Tells, Arms, PingSteps
  <1> HIDE DEF x
  <1> QED
    BY <1>1, <1>2, OneTold, EndsKeeps DEF x

LEMMA HttpReplyKeeps ==
    ASSUME HubIInv, HttpReply
    PROVE  HubIInv'
  <1>1. Rest /\ wire # <<>> /\ conn' = conn /\ timer' = timer /\ Notify(Head(wire)) /\ Head(wire) \in Task
    BY FirstIs DEF HttpReply, Replied, Rest, Answered, HubIInv
  <1>2. \E y \in Task : Goes(y) /\ y.at = "notifyLease" /\ y.lease = lease
    BY <1>1, NotifyIs DEF HubIInv
  <1> QED
    BY <1>1, <1>2, StillIs, NotifiesKeeps DEF HubIInv

LEMMA StateWriteKeeps ==
    ASSUME HubIInv, StateWrite
    PROVE  HubIInv'
  <1>1. Rest /\ wire # <<>> /\ conn' = conn /\ timer' = timer /\ Notify(Head(wire)) /\ Head(wire) \in Task
    BY FirstIs DEF StateWrite, Replied, Rest, Answered, HubIInv
  <1>2. \E y \in Task : Goes(y) /\ y.at = "notifyLease" /\ y.lease = lease
    BY <1>1, NotifyIs DEF HubIInv
  <1> QED
    BY <1>1, <1>2, StillIs, NotifiesKeeps DEF HubIInv

\* A socket that loses its binding.
LEMMA UnbindIs ==
    ASSUME NEW e \in Entry
    PROVE  LET f == Unbind(e)
           IN  f \in Entry /\ f.open = e.open /\ f.registered = e.registered /\ f.device = e.device
                 /\ f.bound = None /\ f.revoked = e.revoked /\ f.told = e.told
  <1>1. PICK no \in BOOLEAN : Unbind(e) = [e EXCEPT !.bound = None, !.playing = no]
    BY DEF Unbind
  <1> QED
    BY <1>1 DEF Entry

LEMMA NotifyLeaseKeeps ==
    ASSUME HubIInv, NotifyLease
    PROVE  HubIInv'
  <1> DEFINE x == Head(wire)
             Kept(c) == IF Loses(conn[c], x.lease)
                          THEN [Unbind(conn[c]) EXCEPT !.revoked = conn[c].bound] ELSE conn[c]
             Told(c) == IF conn[c].registered /\ conn[c].open
                          THEN [Kept(c) EXCEPT !.told = "available"] ELSE Kept(c)
  <1>1. Rest /\ wire # <<>> /\ x.at = "notifyLease" /\ x \in Task
    BY FirstIs DEF NotifyLease, Replied, Rest, Answered, HubIInv
  <1>2. conn \in [Conn -> Entry]
    BY DEF HubIInv, HubTypeOK
  <1>3. ASSUME NEW c \in Conn
        PROVE  /\ Kept(c) \in Entry /\ Kept(c).open = conn[c].open
               /\ Kept(c).registered = conn[c].registered /\ Kept(c).device = conn[c].device
               /\ Kept(c).bound = IF Loses(conn[c], x.lease) THEN None ELSE conn[c].bound
               /\ ~conn[c].registered => Kept(c) = conn[c]
    <2>1. conn[c] \in Entry
      BY <1>2
    <2>2. CASE Loses(conn[c], x.lease)
      <3> DEFINE f == Unbind(conn[c])
      <3>1. f \in Entry /\ f.open = conn[c].open /\ f.registered = conn[c].registered
            /\ f.device = conn[c].device /\ f.bound = None
        BY <2>1, UnbindIs
      <3>2. Kept(c) = [f EXCEPT !.revoked = conn[c].bound] /\ conn[c].registered
        BY <2>2 DEF Loses
      <3> HIDE DEF f, Kept
      <3> QED
        BY <2>1, <2>2, <3>1, <3>2 DEF Entry
    <2>3. CASE ~Loses(conn[c], x.lease)
      BY <2>1, <2>3
    <2> QED
      BY <2>2, <2>3
  <1>4. ASSUME NEW c \in Conn
        PROVE  /\ Told(c) \in Entry /\ Told(c).open = conn[c].open
               /\ Told(c).registered = conn[c].registered /\ Told(c).device = conn[c].device
               /\ Told(c).bound = Kept(c).bound
    <2> HIDE DEF Kept
    <2> QED
      BY <1>3 DEF Entry
  <1>5. CASE x.lease = None
    <2>1. conn' = [c \in Conn |-> Told(c)] /\ ScheduleExpiry(x)
      BY <1>5 DEF NotifyLease, Answered
    <2>2. /\ timer' \in [tracked : BOOLEAN, lost : BOOLEAN]
          /\ \E y \in Task : Goes(y) /\ y.at = "arm" /\ y.lease = lease
      BY <1>1, <2>1, ScheduleIs DEF HubIInv
    <2> HIDE DEF x, Kept, Told
    <2>3. conn' \in [Conn -> Entry] /\ \A c \in Conn : conn'[c] = Told(c)
      BY <1>4, <2>1
    <2>4. ASSUME NEW c \in Conn PROVE SameSocket(c) /\ conn'[c].bound \in {None, conn[c].bound}
      BY <1>3, <1>4, <2>3 DEF SameSocket
    <2>5. ASSUME NEW c \in Conn, lease # None, conn'[c].open, conn'[c].registered PROVE IsTold(c)
      BY <1>1, <1>5, <2>4, <2>5 DEF IsTold, Known, SameSocket, Tells, Rounds, Rightly, x
    <2>6. ~Unbinds(x, lease) \/ lease = None
      BY <1>1, <1>5 DEF Unbinds
    <2>7. CASE lease # None
      BY <1>1, <2>2, <2>3, <2>4, <2>5, <2>6, <2>7, SchedulesKeeps DEF x
    <2>8. CASE lease = None
      <3>1. PICK y \in Task : Goes(y) /\ y.at = "arm" /\ y.lease = lease
        BY <2>2
      <3>2. HubTypeOK'
        BY <1>1, <2>2, <2>3, <3>1, TypeGoes DEF HubIInv
      <3>3. ToldOk' /\ BoundOk' /\ ArmedOk'
        BY <1>1, <2>8 DEF ToldOk, BoundOk, ArmedOk, Rest
      <3>4. NextJobOk(y) /\ \A c \in Conn : OpenOk(c)
        BY <2>4, <3>1, OpenKept DEF NextJobOk, MessageSteps, PingSteps, HubIInv
      <3>5. RegisteredOk'
        BY <3>1, <3>4, RegisteredGoes DEF HubIInv
      <3> QED
        BY <3>2, <3>3, <3>5 DEF HubIInv
    <2> QED
      BY <2>7, <2>8
  <1>6. CASE x.lease # None
    <2> DEFINE cs == {c \in Conn : conn[c].registered}
               y == [x EXCEPT !.at = "notifyTell", !.to = cs]
    <2>1. conn' = [c \in Conn |-> Kept(c)] /\ Goes(y) /\ timer' = timer
      BY <1>1, <1>6 DEF NotifyLease, Answered, Goes, Continue
    <2>2. y \in Task /\ y.at = "notifyTell" /\ y.lease = x.lease /\ y.to = cs
      <3>1. cs \in SUBSET Conn /\ "notifyTell" \in Steps
        BY DEF Steps, HubSteps
      <3>2. x \in Task
        BY <1>1
      <3> HIDE DEF cs, x
      <3> QED
        BY <3>1, <3>2 DEF Task, Steps
    <2> HIDE DEF x, Kept, Told, y
    <2>3. conn' \in [Conn -> Entry] /\ \A c \in Conn : conn'[c] = Kept(c)
      BY <1>3, <2>1
    <2>4. ASSUME NEW c \in Conn PROVE SameSocket(c) /\ conn'[c].bound \in {None, conn[c].bound}
      BY <1>3, <2>3 DEF SameSocket
    <2>5. HubTypeOK'
      BY <1>1, <2>1, <2>2, <2>3, HubTypes, TypeGoes DEF HubIInv
    <2>6. ToldOk'
      <3>1. ASSUME NEW c \in Conn, conn'[c].open, conn'[c].registered PROVE Known(c) /\ Advances(x, y, c)
        BY <1>1, <1>6, <2>2, <2>4, <3>1 DEF Known, Advances, SameSocket, Tells, Rounds
      <3> QED
        BY <1>1, <2>1, <2>2, <3>1, ToldGoes DEF HubIInv, Rest, x
    <2>7. BoundOk'
      <3>1. \A c \in Conn : ~Binds(y, c, lease) /\ ~Binds(x, c, lease)
        BY <1>1, <2>2 DEF Binds
      <3>2. ASSUME NEW c \in Conn, conn'[c].open PROVE StaysBound(c)
        <4>1. conn[c].open
          BY <2>4, <3>2 DEF SameSocket
        <4>2. TrueBound(c) => conn'[c].bound \in {None, lease}
          BY <2>4 DEF TrueBound
        <4>3. Unbinds(x, lease) => conn'[c].bound \in {None, lease}
          <5>1. conn[c].registered \/ conn[c].bound = None
            BY <4>1 DEF HubIInv, RegisteredOk
          <5>2. Unbinds(x, lease) => x.lease = lease
            BY <1>1 DEF Unbinds
          <5> QED
            BY <1>3, <2>3, <5>1, <5>2 DEF Loses
        <4> QED
          BY <1>1, <4>1, <4>2, <4>3 DEF StaysBound, x
      <3> QED
        BY <1>1, <2>1, <2>2, <3>1, <3>2, BoundGoes DEF HubIInv, Rest
    <2>8. ArmedOk'
      BY <1>1, <2>1, <2>2, ArmedGoes DEF HubIInv, Rest, Arms
    <2>9. RegisteredOk'
      <3>1. NextJobOk(y) /\ \A c \in Conn : OpenOk(c)
        BY <2>2, <2>4, OpenKept DEF NextJobOk, MessageSteps, PingSteps, HubIInv
      <3> QED
        BY <2>1, <2>2, <3>1, RegisteredGoes DEF HubIInv
    <2> QED
      BY <2>5, <2>6, <2>7, <2>8, <2>9 DEF HubIInv
  <1> QED
    BY <1>5, <1>6

LEMMA AuthTicketKeeps ==
    ASSUME HubIInv, AuthTicket
    PROVE  HubIInv'
  <1> DEFINE x == Head(wire)
             y == ReadLease(Call(x), "hello")
  <1>0. Rest /\ x.at = "ticket" /\ x \in Task /\ x.conn \in Conn /\ timer' = timer /\ Goes(y)
    BY FirstIs DEF AuthTicket, Replied, Rest, Answered, HubIInv, MessageSteps, Goes, Continue
  <1>k. PICK k \in Conn : k = x.conn
    BY <1>0
  <1>1. Rest /\ x.at = "ticket" /\ x \in Task /\ k \in Conn /\ k = x.conn /\ timer' = timer /\ Goes(y)
    BY <1>0, <1>k
  <1>2. y \in Task /\ y.at = "hello" /\ y.conn = k /\ y.lease = lease
    <2>1. "hello" \in Steps
      BY DEF Steps, MessageSteps
    <2> QED
      BY <1>1, <2>1, CallIs, ReadLeaseIs DEF HubIInv, HubTypeOK
  <1>3. conn \in [Conn -> Entry] /\ x.device \in Device \union {None}
    BY <1>1, TaskTypes DEF HubIInv, HubTypeOK
  <1> HIDE DEF y
  <1>4. PICK yes \in BOOLEAN : yes /\ conn' = [conn EXCEPT ![k].device = x.device, ![k].registered = yes]
    BY <1>k DEF AuthTicket, Answered
  <1>5. PICK e : e = [conn[k] EXCEPT !.device = x.device, !.registered = yes]
    OBVIOUS
  <1>6. conn' = [conn EXCEPT ![k] = e]
    BY <1>1, <1>3, <1>4, <1>5
  <1> HIDE DEF x
  <1>7. /\ e \in Entry /\ e.open = conn[k].open /\ e.registered = yes /\ e.bound = conn[k].bound
    <2>1. conn[k] \in Entry
      BY <1>1, <1>3
    <2> QED
      BY <2>1, <1>3, <1>5 DEF Entry
  <1>8. conn' \in [Conn -> Entry] /\ conn'[k] = e /\ \A c \in Conn : c # k => conn'[c] = conn[c]
    BY <1>1, <1>3, <1>6, <1>7
  <1>9. conn'[k].registered
    <2>1. conn'[k].registered = yes
      BY <1>7, <1>8
    <2> QED
      BY <1>4, <2>1, Zenon
  <1>10. ASSUME NEW c \in Conn PROVE conn'[c].open = conn[c].open /\ conn'[c].bound = conn[c].bound
    BY <1>7, <1>8
  <1>11. HubTypeOK'
    BY <1>1, <1>2, <1>8, HubTypes, TypeGoes DEF HubIInv
  <1>12. ToldOk'
    <2>1. lease # None => Fresh(y, k, lease) /\ Rounds(y) >= 2
      BY <1>2 DEF Fresh, Tells, Rounds
    <2>2. ASSUME NEW c \in Conn, c # k, conn'[c].open, conn'[c].registered PROVE Silent(c) /\ ~Tells(y, c)
      <3>1. Untold(c)
        BY <1>8, <2>2 DEF Untold, SameSocket, SameBinding
      <3>2. SameNews(c)
        BY <1>1, <2>2, <3>1, UntoldNews
      <3> QED
        BY <1>1, <1>2, <2>2, <3>2 DEF Silent, Tells, x
    <2> QED
      BY <1>1, <1>2, <2>1, <2>2, ToldGoes DEF HubIInv, Rest
  <1>13. BoundOk'
    <2>1. ~Unbinds(x, lease) /\ \A c \in Conn : ~Binds(y, c, lease)
      BY <1>1, <1>2 DEF Unbinds, Binds
    <2>2. \A c \in Conn : conn'[c].open => StaysBound(c)
      BY <1>1, <1>10, <2>1 DEF StaysBound, TrueBound, x
    <2> QED
      BY <1>1, <1>2, <2>1, <2>2, BoundGoes DEF HubIInv, Rest
  <1>14. ArmedOk'
    BY <1>1, <1>2, ArmedGoes DEF HubIInv, Rest, Arms
  <1>15. RegisteredOk'
    <2>1. OpenOk(k)
      <3>1. EntryOk(k)'
        BY <1>9, Zenon DEF EntryOk
      <3>2. conn'[k].open => conn[k].open
        BY <1>1, <1>10
      <3> QED
        BY <1>9, <3>1, <3>2, Zenon DEF OpenOk
    <2>2. ASSUME NEW c \in Conn, c # k PROVE OpenOk(c)
      <3>1. SameSocket(c) /\ conn'[c].bound = conn[c].bound
        BY <1>8, <2>2 DEF SameSocket
      <3> QED
        BY <3>1, OpenKept DEF HubIInv
    <2>3. NextJobOk(y)
      BY <1>1, <1>2, <1>9 DEF NextJobOk
    <2> QED
      BY <1>1, <1>2, <2>1, <2>2, <2>3, RegisteredGoes DEF HubIInv
  <1> QED
    BY <1>11, <1>12, <1>13, <1>14, <1>15 DEF HubIInv

LEMMA BindSessionKeeps ==
    ASSUME HubIInv, BindSession
    PROVE  HubIInv'
  <1> DEFINE x == Head(wire)
             y == ReadLease(x, "bindLease")
  <1>1. /\ Rest /\ x.at = "bindSession" /\ x \in Task /\ x.conn \in Conn
        /\ conn' = conn /\ timer' = timer /\ Goes(y)
    BY FirstIs DEF BindSession, Replied, Rest, Answered, HubIInv, MessageSteps, Goes, Continue
  <1>2. y \in Task /\ y.at = "bindLease" /\ y.conn = x.conn /\ y.lease = lease
    BY <1>1, ReadLeaseIs DEF HubIInv, HubTypeOK, Steps, MessageSteps
  <1> HIDE DEF x, y
  <1>3. x.at \in Talk /\ y.at \in Talk /\ x.at \in MessageSteps /\ ~Arms(x)
    BY <1>1, <1>2 DEF Talk, MessageSteps, PingSteps, Arms
  <1>4. \A c \in Conn : ~Binds(y, c, lease)
    BY <1>2 DEF Binds
  <1>5. \A c \in Conn : lease # None =>
          (Fresh(y, c, lease) /\ Rounds(y) >= 2) \/ (~Tells(x, c) /\ ~Tells(y, c))
    BY <1>1, <1>2 DEF Fresh, Rounds, Tells
  <1>6. conn' \in [Conn -> Entry] /\ \A c \in Conn : Untold(c) /\ SameSocket(c) /\ SameBinding(c)
    BY <1>1, StillIs DEF HubIInv, Untold
  <1> QED
    BY <1>1, <1>2, <1>3, <1>4, <1>5, <1>6, TalkKeeps DEF x, SameBinding

LEMMA StateLeaseKeeps ==
    ASSUME HubIInv, StateLease
    PROVE  HubIInv'
  <1> DEFINE x == Head(wire)
             k == x.conn
             b == x.ok /\ OfDevice(x.session, conn[k].device)
             y == [x EXCEPT !.at = "stateSession", !.ok = b]
  <1>1. /\ Rest /\ x.at = "stateLease" /\ x \in Task /\ x.conn \in Conn
        /\ conn' = conn /\ timer' = timer /\ Goes(y)
    BY FirstIs DEF StateLease, Replied, Rest, Answered, HubIInv, MessageSteps, Goes, Continue
  <1>2. b \in BOOLEAN
    OBVIOUS
  <1> HIDE DEF b
  <1>3. y \in Task /\ y.at = "stateSession" /\ y.conn = x.conn
    BY <1>1, <1>2, StepOkIs DEF Steps, MessageSteps
  <1> HIDE DEF x, y, k
  <1>4. x.at \in Talk /\ y.at \in Talk /\ x.at \in MessageSteps /\ ~Arms(x)
    BY <1>1, <1>3 DEF Talk, MessageSteps, PingSteps, Arms
  <1>5. \A c \in Conn : ~Binds(y, c, lease) /\ ~Tells(x, c) /\ ~Tells(y, c)
    BY <1>1, <1>3 DEF Binds, Tells
  <1>6. conn' \in [Conn -> Entry] /\ \A c \in Conn : Untold(c) /\ SameSocket(c) /\ SameBinding(c)
    BY <1>1, StillIs DEF HubIInv, Untold
  <1> QED
    BY <1>1, <1>3, <1>4, <1>5, <1>6, TalkKeeps DEF x, SameBinding

LEMMA StateSessionKeeps ==
    ASSUME HubIInv, StateSession
    PROVE  HubIInv'
  <1> DEFINE x == Head(wire)
             k == x.conn
  <1>1. Rest /\ wire # <<>> /\ x.at = "stateSession" /\ x \in Task /\ k \in Conn /\ timer' = timer
    BY FirstIs DEF StateSession, Replied, Rest, Answered, HubIInv, MessageSteps
  <1>2. x.at \in Talk /\ x.at \in MessageSteps /\ ~Arms(x) /\ \A c \in Conn : ~Tells(x, c)
    BY <1>1 DEF Talk, MessageSteps, PingSteps, Arms, Tells
  <1>3. CASE x.ok /\ x.lease = x.session
    <2> DEFINE y == [Call(x) EXCEPT !.at = "stateWrite"]
    <2>1. Goes(y) /\ conn' = [conn EXCEPT ![k].playing = x.play]
      BY <1>1, <1>3 DEF StateSession, Answered, Goes, Continue
    <2>2. y \in Task /\ y.at = "stateWrite" /\ y.conn = k
      BY <1>1, CallIs, StepIs DEF Steps, MessageSteps
    <2> HIDE DEF y
    <2>3. conn \in [Conn -> Entry] /\ x.play \in BOOLEAN
      BY <1>1, TaskTypes DEF HubIInv, HubTypeOK
    <2>4. PICK e : e = [conn[k] EXCEPT !.playing = x.play]
      OBVIOUS
    <2>5. conn' = [conn EXCEPT ![k] = e]
      BY <2>1, <2>3, <2>4
    <2> HIDE DEF k, x
    <2>6. /\ e \in Entry /\ e.open = conn[k].open /\ e.registered = conn[k].registered
          /\ e.device = conn[k].device /\ e.bound = conn[k].bound /\ e.revoked = conn[k].revoked
          /\ e.told = conn[k].told
      BY <1>1, <2>3, <2>4 DEF Entry
    <2>7. conn' \in [Conn -> Entry] /\ conn'[k] = e /\ \A c \in Conn : c # k => conn'[c] = conn[c]
      BY <1>1, <2>3, <2>5, <2>6
    <2>8. \A c \in Conn : Untold(c) /\ SameSocket(c) /\ SameBinding(c)
      BY <2>6, <2>7 DEF Untold, SameSocket, SameBinding
    <2>9. y.at \in Talk /\ \A c \in Conn : ~Tells(y, c) /\ ~Binds(y, c, lease)
      BY <2>2 DEF Talk, MessageSteps, Tells, Binds
    <2> QED
      BY <1>1, <1>2, <2>1, <2>2, <2>7, <2>8, <2>9, TalkKeeps DEF x, k, SameBinding
  <1>4. CASE ~(x.ok /\ x.lease = x.session)
    <2> DEFINE y == ReadLease(Call(x), "rejectLease")
    <2>1. Goes(y) /\ conn' = conn
      BY <1>1, <1>4 DEF StateSession, Answered, Goes, Continue
    <2>2. y \in Task /\ y.at = "rejectLease" /\ y.conn = k /\ y.lease = lease
      <3>1. "rejectLease" \in Steps
        BY DEF Steps, MessageSteps
      <3> QED
        BY <1>1, <3>1, CallIs, ReadLeaseIs DEF HubIInv, HubTypeOK
    <2> HIDE DEF x, y, k
    <2>3. \A c \in Conn : lease # None => (Fresh(y, c, lease) /\ Rounds(y) >= 2) \/ ~Tells(y, c)
      BY <2>2 DEF Fresh, Rounds, Tells
    <2>4. y.at \in Talk /\ \A c \in Conn : ~Binds(y, c, lease)
      BY <2>2 DEF Talk, MessageSteps, Binds
    <2>5. conn' \in [Conn -> Entry] /\ \A c \in Conn : Untold(c) /\ SameSocket(c) /\ SameBinding(c)
      BY <2>1, StillIs DEF HubIInv, Untold
    <2> QED
      BY <1>1, <1>2, <2>1, <2>2, <2>3, <2>4, <2>5, TalkKeeps DEF x, k, SameBinding
  <1> QED
    BY <1>3, <1>4

\* A socket is told, at once if there is no lease, and binds if it may.
LEMMA TellOrReadKeeps ==
    ASSUME HubIInv, Rest, timer' = timer, wire # <<>>, NEW e \in Entry,
           Head(wire).at \in {"bindLease", "rejectLease"},
           TellOrRead(Head(wire), e),
           LET d == conn[Head(wire).conn]
           IN  /\ e.open = d.open /\ e.registered = d.registered /\ e.device = d.device
               /\ e.bound = d.bound \/ (/\ Head(wire).at = "bindLease"
                                        /\ e.bound = Head(wire).session
                                        /\ Head(wire).lease = Head(wire).session)
    PROVE  HubIInv'
  <1> DEFINE x == Head(wire)
  <1>0. x \in Task /\ x.conn \in Conn
    BY FirstIs DEF HubIInv, MessageSteps
  <1>k. PICK k \in Conn : k = x.conn
    BY <1>0
  <1>1. x \in Task /\ k \in Conn /\ k = x.conn
    BY <1>0, <1>k
  <1>2. /\ x.at \in Talk /\ x.at \in MessageSteps /\ ~Arms(x) /\ x.at # "http" /\ ~Unbinds(x, lease)
        /\ \A c \in Conn : Tells(x, c) <=> c = k
    BY <1>1 DEF Talk, MessageSteps, PingSteps, Arms, Tells, Unbinds
  <1>3. conn \in [Conn -> Entry]
    BY DEF HubIInv, HubTypeOK
  <1>4. CASE x.lease = None
    <2> DEFINE f == IF e.open THEN [e EXCEPT !.told = "available"] ELSE e
    <2>1. Ends /\ conn' = [conn EXCEPT ![k] = f]
      BY <1>4, <1>k DEF TellOrRead, Ends, TaskEnds
    <2>2. /\ f \in Entry /\ f.open = e.open /\ f.registered = e.registered
          /\ f.device = e.device /\ f.bound = e.bound
      BY DEF Entry
    <2> HIDE DEF f, x
    <2>3. conn' \in [Conn -> Entry] /\ conn'[k] = f /\ \A c \in Conn : c # k => conn'[c] = conn[c]
      BY <1>1, <1>3, <2>1, <2>2
    <2>4. \A c \in Conn : SameSocket(c) /\ conn'[c].bound \in {None, conn[c].bound}
      BY <1>1, <1>4, <2>2, <2>3 DEF SameSocket, x
    <2>5. \A c \in Conn : c # k => ~Tells(x, c) /\ Untold(c)
      BY <1>2, <2>3 DEF Untold, SameSocket, SameBinding
    <2>6. lease # None /\ conn'[k].open /\ conn'[k].registered => IsTold(k)
      BY <1>1, <1>2, <1>4, <2>4 DEF IsTold, Known, SameSocket, Rounds, Rightly, x
    <2> QED
      BY <1>2, <1>4, <2>1, <2>3, <2>4, <2>5, <2>6, EndsKeeps DEF x
  <1>5. CASE x.lease # None
    <2> DEFINE y == [Call(x) EXCEPT !.at = "tell", !.lease = x.lease]
    <2>1. Goes(y) /\ conn' = [conn EXCEPT ![k] = e]
      BY <1>5, <1>k DEF TellOrRead, Goes, Continue
    <2>2. y \in Task /\ y.at = "tell" /\ y.conn = k /\ y.lease = x.lease
      <3>1. "tell" \in Steps /\ x.lease \in Session \union {None}
        BY <1>1, TaskTypes DEF Steps, MessageSteps
      <3>2. PICK z \in Task : z = Call(x) /\ z.conn = k
        BY <1>1, CallIs
      <3>3. y = [z EXCEPT !.at = "tell", !.lease = x.lease]
        BY <3>2
      <3>4. PICK l \in Session \union {None} : l = x.lease
        BY <3>1
      <3>5. y = [z EXCEPT !.at = "tell", !.lease = l]
        BY <3>3, <3>4
      <3> HIDE DEF x, y
      <3>6. y \in Task /\ y.at = "tell" /\ y.conn = z.conn /\ y.lease = l
        BY <3>1, <3>2, <3>5 DEF Task, Steps
      <3> QED
        BY <3>2, <3>4, <3>6
    <2> HIDE DEF y, x
    <2>3. conn' \in [Conn -> Entry] /\ conn'[k] = e /\ \A c \in Conn : c # k => conn'[c] = conn[c]
      BY <1>1, <1>3, <2>1
    <2>4. \A c \in Conn : SameSocket(c)
      BY <1>1, <2>3 DEF SameSocket, x
    <2>5. \A c \in Conn : c # k => ~Tells(x, c) /\ ~Tells(y, c) /\ Untold(c)
      BY <1>2, <2>2, <2>3 DEF Untold, SameSocket, SameBinding, Tells
    <2>6. Advances(x, y, k)
      <3>1. Rounds(x) = 2 /\ Rounds(y) = 1
        BY <1>5, <2>2 DEF Rounds, x
      <3> QED
        BY <1>1, <1>2, <2>2, <3>1 DEF Advances, Tells
    <2>7. \/ conn'[k].bound = conn[k].bound \/ Binds(x, k, lease)
          \/ x.at = "bindLease" /\ conn'[k].bound = lease
      BY <1>1, <1>5, <2>3 DEF Binds, x
    <2>8. y.at \in Talk /\ \A c \in Conn : ~Binds(y, c, lease)
      BY <2>2 DEF Talk, MessageSteps, Binds
    <2> QED
      BY <1>1, <1>2, <2>1, <2>2, <2>3, <2>4, <2>5, <2>6, <2>7, <2>8, TalkKeeps DEF x
  <1> QED
    BY <1>4, <1>5

LEMMA RejectLeaseKeeps ==
    ASSUME HubIInv, RejectLease
    PROVE  HubIInv'
  <1> DEFINE x == Head(wire)
  <1>1. /\ Rest /\ wire # <<>> /\ timer' = timer /\ x.at = "rejectLease" /\ x.conn \in Conn
        /\ TellOrRead(x, conn[x.conn])
    BY FirstIs DEF RejectLease, Replied, Rest, Answered, HubIInv, MessageSteps
  <1>2. conn[x.conn] \in Entry
    BY <1>1 DEF HubIInv, HubTypeOK
  <1> QED
    BY <1>1, <1>2, TellOrReadKeeps

LEMMA BindLeaseKeeps ==
    ASSUME HubIInv, BindLease
    PROVE  HubIInv'
  <1> DEFINE x == Head(wire)
             d == conn[x.conn]
  <1>1. Rest /\ wire # <<>> /\ timer' = timer /\ x.at = "bindLease" /\ x.conn \in Conn /\ x \in Task
    BY FirstIs DEF BindLease, Replied, Rest, Answered, HubIInv, MessageSteps
  <1>2. d \in Entry /\ x.session \in Session \union {None}
    BY <1>1, TaskTypes DEF HubIInv, HubTypeOK
  <1>3. PICK no \in BOOLEAN :
          TellOrRead(x, IF x.ok /\ x.lease = x.session
                          THEN [d EXCEPT !.bound = x.session, !.revoked = None, !.playing = no]
                          ELSE d)
    BY DEF BindLease, Answered
  <1> DEFINE e == IF x.ok /\ x.lease = x.session
                    THEN [d EXCEPT !.bound = x.session, !.revoked = None, !.playing = no] ELSE d
  <1> HIDE DEF x, d
  <1>4. /\ e \in Entry /\ e.open = d.open /\ e.registered = d.registered /\ e.device = d.device
        /\ e.bound = d.bound \/ (e.bound = x.session /\ x.lease = x.session)
    BY <1>2 DEF Entry
  <1>5. TellOrRead(x, e)
    BY <1>3
  <1> HIDE DEF e
  <1> QED
    BY <1>1, <1>4, <1>5, TellOrReadKeeps DEF x, d

\* One connection loses its binding.
LEMMA UnbindOne ==
    ASSUME HubTypeOK, NEW k \in Conn, conn' = [conn EXCEPT ![k] = Unbind(@)]
    PROVE  /\ conn' \in [Conn -> Entry]
           /\ \A c \in Conn : SameSocket(c) /\ conn'[c].bound \in {None, conn[c].bound}
  <1> DEFINE f == Unbind(conn[k])
  <1>1. conn \in [Conn -> Entry] /\ conn' = [conn EXCEPT ![k] = f]
    BY DEF HubTypeOK
  <1>2. /\ f \in Entry /\ f.open = conn[k].open /\ f.registered = conn[k].registered
        /\ f.device = conn[k].device /\ f.bound = None
    BY <1>1, UnbindIs
  <1> HIDE DEF f
  <1> QED
    BY <1>1, <1>2 DEF SameSocket

LEMMA PingSessionKeeps ==
    ASSUME HubIInv, PingSession
    PROVE  HubIInv'
  <1> DEFINE x == Head(wire)
             k == x.conn
  <1>1. Rest /\ wire # <<>> /\ timer' = timer /\ x.at = "pingSession" /\ k \in Conn /\ x \in Task
    BY FirstIs DEF PingSession, Replied, Rest, Answered, HubIInv, PingSteps
  <1>2. CASE x.ok
    <2> DEFINE b == lease # None /\ lease = conn[k].bound
               y == [x EXCEPT !.at = "pingRefresh", !.ok = b]
    <2>1. Goes(y) /\ conn' = conn
      BY <1>1, <1>2 DEF PingSession, Answered, Goes, Continue
    <2>2. b \in BOOLEAN
      OBVIOUS
    <2> HIDE DEF b
    <2>3. y \in Task /\ y.at = "pingRefresh" /\ y.conn = x.conn
      BY <1>1, <2>2, StepOkIs DEF Steps, PingSteps
    <2> HIDE DEF x, y, k
    <2>4. x.at \in Talk /\ y.at \in Talk /\ y.at \in PingSteps /\ Arms(y)
      BY <1>1, <2>3 DEF Talk, PingSteps, Arms
    <2>5. \A c \in Conn : ~Binds(y, c, lease) /\ ~Tells(x, c) /\ ~Tells(y, c)
      BY <1>1, <2>3 DEF Binds, Tells
    <2>6. conn' \in [Conn -> Entry] /\ \A c \in Conn : Untold(c) /\ SameSocket(c) /\ SameBinding(c)
      BY <2>1, StillIs DEF HubIInv, Untold
    <2> QED
      BY <1>1, <2>1, <2>3, <2>4, <2>5, <2>6, TalkKeeps DEF x, SameBinding
  <1>3. CASE ~x.ok
    <2>1. Notify(x) /\ conn' = [conn EXCEPT ![k] = Unbind(@)]
      BY <1>3 DEF PingSession, Answered
    <2>2. \E y \in Task : Goes(y) /\ y.at = "notifyLease" /\ y.lease = lease
      BY <1>1, <2>1, NotifyIs DEF HubIInv
    <2> QED
      BY <1>1, <2>1, <2>2, UnbindOne, NotifiesKeeps DEF HubIInv
  <1> QED
    BY <1>2, <1>3

LEMMA PingRefreshKeeps ==
    ASSUME HubIInv, PingRefresh
    PROVE  HubIInv'
  <1> DEFINE x == Head(wire)
             k == x.conn
  <1>1. Rest /\ wire # <<>> /\ x.at = "pingRefresh" /\ k \in Conn /\ x \in Task
    BY FirstIs DEF PingRefresh, Replied, Rest, Answered, HubIInv, PingSteps
  <1>2. CASE x.ok
    <2>1. ScheduleExpiry(x) /\ conn' = conn
      BY <1>2 DEF PingRefresh, Answered
    <2>2. /\ timer' \in [tracked : BOOLEAN, lost : BOOLEAN]
          /\ \E y \in Task : Goes(y) /\ y.at = "arm" /\ y.lease = lease
      BY <1>1, <2>1, ScheduleIs DEF HubIInv
    <2> HIDE DEF x, k
    <2>3. ~Unbinds(x, lease) /\ \A c \in Conn : ~Tells(x, c)
      BY <1>1 DEF Unbinds, Tells
    <2>4. conn' \in [Conn -> Entry] /\ \A c \in Conn : Untold(c) /\ SameSocket(c)
      BY <2>1, StillIs DEF HubIInv
    <2> QED
      BY <1>1, <2>1, <2>2, <2>3, <2>4, SchedulesKeeps DEF x
  <1>3. CASE ~x.ok
    <2>1. Notify(x) /\ conn' = [conn EXCEPT ![k] = Unbind(@)] /\ timer' = timer
      BY <1>3 DEF PingRefresh, Answered
    <2>2. \E y \in Task : Goes(y) /\ y.at = "notifyLease" /\ y.lease = lease
      BY <1>1, <2>1, NotifyIs DEF HubIInv
    <2> QED
      BY <1>1, <2>1, <2>2, UnbindOne, NotifiesKeeps DEF HubIInv
  <1> QED
    BY <1>2, <1>3

LEMMA TimerReplyKeeps ==
    ASSUME HubIInv, TimerReply
    PROVE  HubIInv'
  <1> DEFINE x == Head(wire)
  <1>1. Rest /\ wire # <<>> /\ x.at = "timer" /\ x \in Task /\ conn' = conn
    BY FirstIs DEF TimerReply, Replied, Rest, Answered, HubIInv
  <1>2. CASE x.lease # None
    <2>1. ScheduleExpiry(x)
      BY <1>2 DEF TimerReply, Answered
    <2>2. /\ timer' \in [tracked : BOOLEAN, lost : BOOLEAN]
          /\ \E y \in Task : Goes(y) /\ y.at = "arm" /\ y.lease = lease
      BY <1>1, <2>1, ScheduleIs DEF HubIInv
    <2> HIDE DEF x
    <2>3. ~Unbinds(x, lease) /\ \A c \in Conn : ~Tells(x, c)
      BY <1>1 DEF Unbinds, Tells
    <2>4. conn' \in [Conn -> Entry] /\ \A c \in Conn : Untold(c) /\ SameSocket(c)
      BY <1>1, StillIs DEF HubIInv
    <2> QED
      BY <1>1, <2>2, <2>3, <2>4, SchedulesKeeps DEF x
  <1>3. CASE x.lease = None
    <2>1. Notify(x) /\ timer' = timer
      BY <1>3 DEF TimerReply, Answered
    <2>2. \E y \in Task : Goes(y) /\ y.at = "notifyLease" /\ y.lease = lease
      BY <1>1, <2>1, NotifyIs DEF HubIInv
    <2> QED
      BY <1>1, <2>1, <2>2, StillIs, NotifiesKeeps DEF HubIInv
  <1> QED
    BY <1>2, <1>3

-----------------------------------------------------------------------------
(* What comes in between two replies *)

\* A message or a timer comes in, of a socket that is registered if it is one.
LEMMA IncomingKeeps ==
    ASSUME HubIInv, Rest, NEW y \in Task, Comes(y), conn' = conn,
           timer' \in [tracked : BOOLEAN, lost : BOOLEAN],
           y.at \in {"bindSession", "stateLease", "rejectLease", "pingSession", "timer"},
           y.at # "timer" => y.conn \in Conn /\ conn[y.conn].device # None /\ timer' = timer,
           y.at = "rejectLease" => y.lease = lease
    PROVE  HubIInv'
  <1>1. conn' \in [Conn -> Entry] /\ \A c \in Conn : Untold(c) /\ SameSocket(c) /\ SameBinding(c)
    BY StillIs DEF HubIInv, Untold
  <1>2. HubTypeOK'
    BY <1>1, HubTypes, TypeComes DEF HubIInv, Rest
  <1>3. ToldOk'
    <2>1. \A c \in Conn : lease # None => (Fresh(y, c, lease) /\ Rounds(y) >= 2) \/ ~Tells(y, c)
      BY DEF Fresh, Rounds, Tells
    <2> QED
      BY <1>1, <2>1, UntoldNews, ToldComes DEF HubIInv, Rest
  <1>4. BoundOk'
    <2>1. \A c \in Conn : ~Binds(y, c, lease)
      BY DEF Binds
    <2> QED
      BY <2>1, BoundComes DEF HubIInv, Rest
  <1>5. ArmedOk'
    <2>1. Arms(y) \/ timer' = timer
      BY DEF Arms
    <2> QED
      BY <1>1, <2>1, WatchedKept, ArmedComes DEF HubIInv, Rest, StaysArmed, SomeArmed
  <1>6. RegisteredOk'
    <2>1. \A c \in Conn : OpenOk(c)
      BY <1>1, OpenKept DEF HubIInv, SameBinding
    <2>2. NextJobOk(y)
      BY DEF NextJobOk, MessageSteps, PingSteps, HubIInv, RegisteredOk
    <2> QED
      BY <2>1, <2>2, RegisteredComes DEF HubIInv
  <1> QED
    BY <1>2, <1>3, <1>4, <1>5, <1>6 DEF HubIInv

LEMMA ServerTask ==
    ASSUME HubTypeOK, NEW step \in Steps
    PROVE  LET y == NewTask(step, "server", None)
               z == ReadLease(y, step)
           IN  y \in Task /\ y.at = step /\ z \in Task /\ z.at = step /\ z.lease = lease
  <1>1. NewTask(step, "server", None) \in Task /\ NewTask(step, "server", None).at = step
    BY NewTaskIs
  <1> QED
    BY <1>1, ReadLeaseIs DEF HubTypeOK

LEMMA BindKeeps ==
    ASSUME HubIInv, NEW c \in Conn, NEW s \in Session, Bind(c, s)
    PROVE  HubIInv'
  <1> DEFINE b == OfDevice(s, conn[c].device)
  <1>1. PICK n \in Task : n = NewTask("bindSession", "message", c) /\ n.at = "bindSession" /\ n.conn = c
    BY NewTaskIs DEF Steps, MessageSteps
  <1>2. b \in BOOLEAN
    BY DEF OfDevice, Live
  <1>3. /\ Comes([n EXCEPT !.session = s, !.ok = b]) /\ Rest /\ conn' = conn /\ timer' = timer
        /\ conn[c].device # None
    BY <1>1 DEF Bind, Ready, Send, Comes, Rest
  <1> HIDE DEF b
  <1>4. PICK y \in Task : Comes(y) /\ y.at = "bindSession" /\ y.conn = c
    <2>1. PICK y : y = [n EXCEPT !.session = s, !.ok = b]
      OBVIOUS
    <2>2. y \in Task /\ y.at = n.at /\ y.conn = n.conn
      BY <1>2, <2>1 DEF Task
    <2> QED
      BY <1>1, <1>3, <2>1, <2>2
  <1> QED
    BY <1>3, <1>4, HubTypes, IncomingKeeps DEF HubIInv

LEMMA StateKeeps ==
    ASSUME HubIInv, NEW c \in Conn, NEW s \in Session, NEW play \in BOOLEAN, NEW inOrder \in BOOLEAN,
           State(c, s, play, inOrder)
    PROVE  HubIInv'
  <1>1. PICK n \in Task : n = NewTask("stateLease", "message", c) /\ n.conn = c
    BY NewTaskIs DEF Steps, MessageSteps
  <1>2. PICK m \in Task : m = [n EXCEPT !.session = s, !.play = play, !.ok = inOrder] /\ m.conn = c
    <2>1. PICK m : m = [n EXCEPT !.session = s, !.play = play, !.ok = inOrder]
      OBVIOUS
    <2>2. m \in Task /\ m.conn = n.conn
      BY <2>1 DEF Task
    <2> QED
      BY <1>1, <2>1, <2>2
  <1>3. PICK step \in {"stateLease", "rejectLease"} :
          /\ Comes(ReadLease(m, step)) /\ Rest /\ conn' = conn /\ timer' = timer
          /\ conn[c].device # None
    BY <1>1, <1>2 DEF State, Ready, Send, Comes, Rest
  <1>4. step \in Steps /\ lease \in Session \union {None}
    BY <1>3, HubTypes DEF Steps, MessageSteps, HubIInv
  <1>5. PICK y \in Task : Comes(y) /\ y.at = step /\ y.conn = c /\ y.lease = lease
    BY <1>2, <1>3, <1>4, ReadLeaseIs
  <1> QED
    BY <1>3, <1>5, HubTypes, IncomingKeeps DEF HubIInv

LEMMA PingKeeps ==
    ASSUME HubIInv, NEW c \in Conn, Ping(c)
    PROVE  HubIInv'
  <1> DEFINE b == OfDevice(conn[c].bound, conn[c].device)
  <1>1. PICK n \in Task : n = NewTask("pingSession", "ping", c) /\ n.at = "pingSession" /\ n.conn = c
    BY NewTaskIs DEF Steps, PingSteps
  <1>2. b \in BOOLEAN
    BY DEF OfDevice, Live
  <1>3. /\ Comes([n EXCEPT !.ok = b]) /\ Rest /\ conn' = conn /\ timer' = timer
        /\ conn[c].device # None
    BY <1>1 DEF Ping, Send, Comes, Rest
  <1> HIDE DEF b
  <1>4. PICK y \in Task : Comes(y) /\ y.at = "pingSession" /\ y.conn = c
    <2>1. [n EXCEPT !.ok = b] \in Task /\ [n EXCEPT !.ok = b].at = "pingSession" /\ [n EXCEPT !.ok = b].conn = c
      BY <1>1, <1>2 DEF Task
    <2> QED
      BY <1>3, <2>1
  <1> QED
    BY <1>3, <1>4, HubTypes, IncomingKeeps DEF HubIInv

LEMMA TimerKeeps ==
    ASSUME HubIInv, Timer
    PROVE  HubIInv'
  <1>1. /\ Comes(ReadLease(NewTask("timer", "server", None), "timer")) /\ Rest /\ conn' = conn
    BY DEF Timer, Send, Comes, Rest
  <1>2. PICK tracked \in BOOLEAN, lost \in BOOLEAN :
          timer' = [timer EXCEPT !.tracked = tracked] \/ timer' = [timer EXCEPT !.lost = lost]
    BY DEF Timer
  <1>3. timer' \in [tracked : BOOLEAN, lost : BOOLEAN]
    BY <1>2, HubTypes DEF HubIInv
  <1>4. PICK y \in Task : Comes(y) /\ y.at = "timer" /\ y.lease = lease
    BY <1>1, ServerTask DEF Steps, HubSteps, HubIInv
  <1> QED
    BY <1>1, <1>3, <1>4, IncomingKeeps

LEMMA ConnectKeeps ==
    ASSUME HubIInv, NEW k \in Conn, NEW d \in Device, Connect(k, d)
    PROVE  HubIInv'
  <1>1. PICK n \in Task : n = NewTask("ticket", "message", k) /\ n.at = "ticket" /\ n.conn = k
    <2>1. "ticket" \in Steps /\ k \in Conn \union {None}
      BY DEF Steps, MessageSteps
    <2> QED
      BY <2>1, NewTaskIs
  <1>2. PICK y \in Task : Comes(y) /\ y.at = "ticket" /\ y.conn = k
    <2>1. Comes([n EXCEPT !.device = d])
      BY <1>1 DEF Connect, Send, Comes
    <2> QED
      BY <1>1, <2>1, DeviceIs
  <1>3. Rest /\ timer' = timer /\ ~conn[k].registered /\ \A i \in 1..Len(wire) : wire[i].conn # k
    BY DEF Connect, Rest
  <1>4. PICK yes \in BOOLEAN, no \in BOOLEAN : yes /\ ~no
    OBVIOUS
  <1>5. PICK e : e = [open |-> yes, registered |-> no, device |-> None, bound |-> None,
                      revoked |-> None, playing |-> no, told |-> "nothing"]
    OBVIOUS
  <1>6. e \in Entry /\ e.registered = no /\ e.device = None /\ e.bound = None
    BY <1>5 DEF Entry
  <1>7. conn' = [conn EXCEPT ![k] = e]
    <2>1. e = [NoEntry EXCEPT !.open = TRUE]
      <3>1. NoEntry = [open |-> no, registered |-> no, device |-> None, bound |-> None,
                       revoked |-> None, playing |-> no, told |-> "nothing"]
        BY <1>4 DEF NoEntry
      <3>2. [NoEntry EXCEPT !.open = TRUE] = [NoEntry EXCEPT !.open = yes]
        BY <1>4
      <3> QED
        BY <1>5, <3>1, <3>2
    <2> QED
      BY <2>1 DEF Connect
  <1>8. conn' \in [Conn -> Entry] /\ conn'[k] = e /\ \A c \in Conn : c # k => conn'[c] = conn[c]
    BY <1>6, <1>7, HubTypes DEF HubIInv
  <1>9. ~conn'[k].registered /\ conn'[k].device = None /\ conn'[k].bound = None
    <2>1. conn'[k].registered = no /\ conn'[k].device = None /\ conn'[k].bound = None
      BY <1>6, <1>8
    <2> QED
      BY <1>4, <2>1, Zenon
  <1>10. \A c \in Conn : c # k => Untold(c) /\ SameSocket(c) /\ conn'[c].bound = conn[c].bound
    BY <1>8 DEF Untold, SameSocket, SameBinding
  <1>11. HubTypeOK'
    BY <1>2, <1>3, <1>8, HubTypes, TypeComes DEF HubIInv, Rest
  <1>12. ToldOk'
    <2>1. \A c \in Conn : ~Tells(y, c)
      BY <1>2 DEF Tells
    <2>2. \A c \in Conn : conn'[c].open /\ conn'[c].registered => SameNews(c)
      BY <1>3, <1>9, <1>10, UntoldNews
    <2> QED
      BY <1>2, <1>3, <2>1, <2>2, ToldComes DEF HubIInv, Rest
  <1>13. BoundOk'
    <2>1. \A c \in Conn : ~Binds(y, c, lease)
      BY <1>2 DEF Binds
    <2>2. \A c \in Conn : conn'[c].open =>
             (conn[c].open /\ conn'[c].bound = conn[c].bound) \/ NewlyOpen(c)
      BY <1>3, <1>9, <1>10 DEF NewlyOpen, SameSocket
    <2> QED
      BY <1>2, <1>3, <2>1, <2>2, BoundComes DEF HubIInv, Rest
  <1>14. ArmedOk'
    BY <1>2, <1>3, ArmedComes DEF HubIInv, Rest, Arms
  <1>15. RegisteredOk'
    <2>1. OpenOk(k)
      BY <1>3, <1>9 DEF OpenOk, EntryOk
    <2>2. \A c \in Conn : c # k => OpenOk(c)
      BY <1>10, OpenKept DEF HubIInv
    <2>3. NextJobOk(y)
      BY <1>2 DEF NextJobOk
    <2> QED
      BY <1>2, <2>1, <2>2, <2>3, RegisteredComes DEF HubIInv
  <1> QED
    BY <1>11, <1>12, <1>13, <1>14, <1>15 DEF HubIInv

\* What changes no job.
LEMMA HubQuietKeeps ==
    ASSUME HubIInv, HubTypeOK', lease' = lease, wire' = wire, timer' = timer, \A c \in Conn : OpenOk(c),
           \A c \in Conn :
             /\ conn'[c].registered => conn[c].registered
             /\ conn'[c].open => conn[c].open /\ conn'[c].bound = conn[c].bound
             /\ lease # None /\ conn'[c].open /\ conn'[c].registered => SameNews(c)
    PROVE  HubIInv'
  <1>1. ToldOk'
    <2>1. ASSUME NEW c \in Conn, lease # None, conn'[c].open, conn'[c].registered
          PROVE  News(wire, c, lease, conn'[c].told = StateFor(c, lease)')
      <3>1. SameNews(c)
        BY <2>1
      <3>2. News(wire, c, lease, conn[c].told = StateFor(c, lease))
        BY <2>1, <3>1, NewsTold DEF SameNews, Known, HubIInv
      <3> QED
        BY <3>1, <3>2 DEF SameNews
    <2> QED
      BY <2>1, NewsToldNext
  <1>2. BoundOk'
    <2>1. ASSUME NEW c \in Conn, lease # None, conn'[c].open
          PROVE  Binding(wire, c, lease, conn'[c].bound \in {None, lease})
      BY <2>1, BindingBound DEF HubIInv
    <2> QED
      BY <2>1, BindingBoundNext
  <1>3. ArmedOk'
    BY DEF HubIInv, ArmedOk, Arms
  <1>4. RegisteredOk'
    BY RegisteredKept DEF HubIInv
  <1> QED
    BY <1>1, <1>2, <1>3, <1>4 DEF HubIInv

LEMMA CloseKeeps ==
    ASSUME HubIInv, NEW k \in Conn, Close(k)
    PROVE  HubIInv'
  <1>1. Rest
    BY DEF Close, Rest
  <1>2. PICK no \in BOOLEAN : ~no /\ conn' = [conn EXCEPT ![k].open = no, ![k].registered = no]
    BY DEF Close
  <1>3. PICK e : e = [conn[k] EXCEPT !.open = no, !.registered = no]
    OBVIOUS
  <1>4. conn \in [Conn -> Entry] /\ conn[k] \in Entry /\ timer \in [tracked : BOOLEAN, lost : BOOLEAN]
    BY HubTypes DEF HubIInv
  <1>5. conn' = [conn EXCEPT ![k] = e]
    BY <1>2, <1>3, <1>4
  <1>6. e \in Entry /\ e.open = no /\ e.registered = no
    BY <1>3, <1>4 DEF Entry
  <1>7. conn' \in [Conn -> Entry] /\ conn'[k] = e /\ \A c \in Conn : c # k => conn'[c] = conn[c]
    BY <1>4, <1>5, <1>6
  <1>8. ~conn'[k].open /\ ~conn'[k].registered
    <2>1. conn'[k].open = no /\ conn'[k].registered = no
      BY <1>6, <1>7
    <2> QED
      BY <1>2, <2>1, Zenon
  <1>9. \A c \in Conn : c # k => Untold(c) /\ SameSocket(c) /\ conn'[c].bound = conn[c].bound
    BY <1>7 DEF Untold, SameSocket, SameBinding
  <1>10. \A c \in Conn : OpenOk(c)
    <2>1. OpenOk(k)
      BY <1>8 DEF OpenOk, EntryOk
    <2> QED
      BY <1>9, <2>1, OpenKept DEF HubIInv
  <1>11. \A c \in Conn : conn'[c].open /\ conn'[c].registered => SameNews(c)
    BY <1>1, <1>8, <1>9, UntoldNews
  <1>12. \A c \in Conn : /\ conn'[c].open => conn[c].open /\ conn'[c].bound = conn[c].bound
                         /\ conn'[c].registered => conn[c].registered
    BY <1>8, <1>9 DEF SameSocket
  <1>13. CASE conn[k].bound # None
    <2>1. PICK y \in Task : Comes(y) /\ y.at = "arm" /\ y.lease = lease
      <3>1. Comes(ReadLease(NewTask("arm", "server", None), "arm"))
        BY <1>13 DEF Close, Send, Comes
      <3> QED
        BY <3>1, ServerTask DEF Steps, HubSteps, HubIInv
    <2>2. timer' \in [tracked : BOOLEAN, lost : BOOLEAN]
      <3>1. PICK f \in BOOLEAN : timer' = [timer EXCEPT !.tracked = f]
        BY <1>13 DEF Close
      <3> QED
        BY <1>4, <3>1
    <2>3. HubTypeOK'
      BY <1>1, <1>7, <2>1, <2>2, HubTypes, TypeComes DEF HubIInv, Rest
    <2>4. ToldOk'
      <3>1. \A c \in Conn : ~Tells(y, c)
        BY <2>1 DEF Tells
      <3> QED
        BY <1>1, <1>11, <2>1, <3>1, ToldComes DEF HubIInv, Rest
    <2>5. BoundOk'
      <3>1. \A c \in Conn : ~Binds(y, c, lease)
        BY <2>1 DEF Binds
      <3> QED
        BY <1>1, <1>12, <2>1, <3>1, BoundComes DEF HubIInv, Rest
    <2>6. ArmedOk'
      BY <1>1, <2>1, ArmedComes DEF HubIInv, Rest, Arms
    <2>7. RegisteredOk'
      <3>1. NextJobOk(y)
        BY <2>1 DEF NextJobOk, MessageSteps, PingSteps
      <3> QED
        BY <1>10, <2>1, <3>1, RegisteredComes DEF HubIInv
    <2> QED
      BY <2>3, <2>4, <2>5, <2>6, <2>7 DEF HubIInv
  <1>14. CASE conn[k].bound = None
    <2>1. timer' = timer /\ wire' = wire
      BY <1>14 DEF Close
    <2>2. HubTypeOK'
      BY <1>1, <1>7, <2>1 DEF HubIInv, HubTypeOK, Rest
    <2> QED
      BY <1>1, <1>10, <1>11, <1>12, <2>1, <2>2, HubQuietKeeps DEF Rest
  <1> QED
    BY <1>13, <1>14

LEMMA SessionEndsKeeps ==
    ASSUME HubIInv, NEW s \in Session, SessionEnds(s)
    PROVE  HubIInv'
  <1>1. lease' = lease /\ conn' = conn /\ timer' = timer /\ wire' = wire /\ sess[s] # None
    BY DEF SessionEnds, Live
  <1>2. sess \in [Session -> [device : Device, live : BOOLEAN] \union {None}]
    BY HubTypes DEF HubIInv
  <1>3. PICK r : \E no \in BOOLEAN : r = [sess[s] EXCEPT !.live = no] /\ sess' = [sess EXCEPT ![s] = r]
    <2>1. PICK no \in BOOLEAN : sess' = [sess EXCEPT ![s].live = no]
      BY DEF SessionEnds
    <2> QED
      BY <1>2, <2>1
  <1>4. sess[s] \in [device : Device, live : BOOLEAN]
    BY <1>1, <1>2
  <1>5. r \in [device : Device, live : BOOLEAN] /\ r.device = sess[s].device
    BY <1>3, <1>4
  <1>6. /\ sess' \in [Session -> [device : Device, live : BOOLEAN] \union {None}]
        /\ \A l \in Session : sess'[l].device = sess[l].device
    BY <1>2, <1>3, <1>5
  <1>7. HubTypeOK'
    BY <1>1, <1>6 DEF HubIInv, HubTypeOK
  <1>8. \A c \in Conn : OpenOk(c)
    BY <1>1 DEF HubIInv, RegisteredOk, OpenOk, EntryOk
  <1>9. ASSUME NEW c \in Conn, lease # None, conn'[c].open, conn'[c].registered PROVE SameNews(c)
    <2>1. lease \in Session
      BY <1>9, HubTypes DEF HubIInv
    <2>2. StateFor(c, lease)' = StateFor(c, lease)
      BY <1>1, <1>6, <2>1 DEF StateFor
    <2> QED
      BY <1>1, <1>9, <2>2 DEF SameNews, Known
  <1> QED
    BY <1>1, <1>7, <1>8, <1>9, HubQuietKeeps

\* A route that changes the lease notifies later.
LEMMA HttpKeeps ==
    ASSUME HubIInv, HubTypeOK', conn' = conn, timer' = timer, NEW y \in Task, Comes(y), y.at = "http"
    PROVE  HubIInv'
  <1>1. ToldOk'
    <2>1. Rounds(y) >= 2 /\ \A c \in Conn : Fresh(y, c, lease')
      BY DEF Rounds, Fresh
    <2> QED
      BY <2>1, ToldComes DEF HubIInv
  <1>2. BoundOk'
    <2>1. Unbinds(y, lease')
      BY DEF Unbinds
    <2> QED
      BY <2>1, BoundComes DEF HubIInv
  <1>3. ArmedOk'
    BY ArmedComes DEF HubIInv, Arms
  <1>4. RegisteredOk'
    <2>1. NextJobOk(y)
      BY DEF NextJobOk, MessageSteps, PingSteps
    <2>2. \A c \in Conn : OpenOk(c)
      BY DEF HubIInv, RegisteredOk, OpenOk, EntryOk
    <2> QED
      BY <2>1, <2>2, RegisteredComes DEF HubIInv
  <1> QED
    BY <1>1, <1>2, <1>3, <1>4 DEF HubIInv

LEMMA HttpAcquireKeeps ==
    ASSUME HubIInv, NEW d \in Device, NEW s \in Session, HttpAcquire(d, s)
    PROVE  HubIInv'
  <1>1. PICK y \in Task : Comes(y) /\ y.at = "http"
    <2>1. Comes(NewTask("http", "server", None))
      BY DEF HttpAcquire, Send, Comes
    <2> QED
      BY <2>1, ServerTask DEF Steps, HubSteps, HubIInv
  <1>2. PICK yes \in BOOLEAN : sess' = [sess EXCEPT ![s] = [device |-> d, live |-> yes]]
    BY DEF HttpAcquire
  <1>3. sess' \in [Session -> [device : Device, live : BOOLEAN] \union {None}]
    BY <1>2, HubTypes DEF HubIInv
  <1>4. lease' = s /\ conn' = conn /\ timer' = timer
    BY DEF HttpAcquire
  <1>5. HubTypeOK'
    BY <1>1, <1>3, <1>4, HubTypes, TypeComes DEF HubIInv
  <1> QED
    BY <1>1, <1>4, <1>5, HttpKeeps

LEMMA HttpVacateKeeps ==
    ASSUME HubIInv, HttpVacate
    PROVE  HubIInv'
  <1>1. PICK y \in Task : Comes(y) /\ y.at = "http"
    <2>1. Comes(NewTask("http", "server", None))
      BY DEF HttpVacate, Send, Comes
    <2> QED
      BY <2>1, ServerTask DEF Steps, HubSteps, HubIInv
  <1>2. lease' = None /\ sess' = sess /\ conn' = conn /\ timer' = timer
    BY DEF HttpVacate
  <1>3. HubTypeOK'
    BY <1>1, <1>2, HubTypes, TypeComes DEF HubIInv
  <1> QED
    BY <1>1, <1>2, <1>3, HttpKeeps

LEMMA LeaseExpiresKeeps ==
    ASSUME HubIInv, LeaseExpires
    PROVE  HubIInv'
  <1>1. lease' = None /\ sess' = sess /\ conn' = conn /\ timer' = timer /\ wire' = wire
    BY DEF LeaseExpires
  <1>2. HubTypeOK'
    BY <1>1 DEF HubIInv, HubTypeOK
  <1>3. ToldOk' /\ BoundOk' /\ ArmedOk'
    BY <1>1 DEF ToldOk, BoundOk, ArmedOk
  <1>4. RegisteredOk'
    BY <1>1 DEF HubIInv, RegisteredOk
  <1> QED
    BY <1>2, <1>3, <1>4 DEF HubIInv

\* A server that has just started.
LEMMA StartIsOk ==
    ASSUME HubTypeOK, conn = [c \in Conn |-> NoEntry], wire = <<>>
    PROVE  HubIInv
  <1>1. PICK no \in BOOLEAN : NoEntry =
          [open |-> no, registered |-> no, device |-> None, bound |-> None,
           revoked |-> None, playing |-> no, told |-> "nothing"] /\ ~no
    BY DEF NoEntry
  <1>2. \A c \in Conn : conn[c].open = no /\ conn[c].registered = no
    BY <1>1
  <1>3. \A c \in Conn : ~conn[c].open /\ ~conn[c].registered
    BY <1>1, <1>2, Zenon
  <1>4. \A i \in 1..Len(wire) : FALSE
    OBVIOUS
  <1>5. ToldOk /\ BoundOk /\ ArmedOk
    BY <1>3 DEF ToldOk, BoundOk, ArmedOk
  <1>6. RegisteredOk
    BY <1>3, <1>4 DEF RegisteredOk
  <1> QED
    BY <1>5, <1>6 DEF HubIInv

LEMMA StartTypes ==
    ASSUME NEW cs, cs = [c \in Conn |-> NoEntry], NEW t, t = [tracked |-> FALSE, lost |-> FALSE]
    PROVE  cs \in [Conn -> Entry] /\ t \in [tracked : BOOLEAN, lost : BOOLEAN] /\ <<>> \in Seq(Task)
  <1>1. PICK no \in BOOLEAN : ~no
    OBVIOUS
  <1>2. NoEntry = [open |-> no, registered |-> no, device |-> None, bound |-> None,
                   revoked |-> None, playing |-> no, told |-> "nothing"]
    BY <1>1 DEF NoEntry
  <1>3. NoEntry \in Entry
    BY <1>2 DEF Entry
  <1>4. t = [tracked |-> no, lost |-> no]
    BY <1>1
  <1>5. <<>> \in Seq(Task)
    BY EmptySeq
  <1> QED
    BY <1>3, <1>4, <1>5

LEMMA RestartKeeps ==
    ASSUME HubIInv, Restart
    PROVE  HubIInv'
  <1>1. /\ conn' = [c \in Conn |-> NoEntry] /\ wire' = <<>> /\ timer' = [tracked |-> FALSE, lost |-> FALSE]
        /\ lease' = lease /\ sess' = sess
    BY DEF Restart
  <1>2. HubTypeOK'
    BY <1>1, StartTypes, HubTypes DEF HubIInv, HubTypeOK
  <1>3. PICK no \in BOOLEAN : NoEntry =
          [open |-> no, registered |-> no, device |-> None, bound |-> None,
           revoked |-> None, playing |-> no, told |-> "nothing"] /\ ~no
    BY DEF NoEntry
  <1>4. \A c \in Conn : conn'[c].open = no /\ conn'[c].registered = no
    BY <1>1, <1>3
  <1>5. \A c \in Conn : ~conn'[c].open /\ ~conn'[c].registered
    BY <1>3, <1>4, Zenon
  <1>6. ToldOk' /\ BoundOk' /\ ArmedOk'
    BY <1>5 DEF ToldOk, BoundOk, ArmedOk
  <1>7. RegisteredOk'
    BY <1>1, <1>5 DEF RegisteredOk
  <1> QED
    BY <1>2, <1>6, <1>7 DEF HubIInv

-----------------------------------------------------------------------------
(* Theorems *)

LEMMA ReplyKeeps ==
    ASSUME HubIInv, Reply
    PROVE  HubIInv'
  BY ArmKeeps, NotifyLeaseKeeps, NotifyTellKeeps, AuthTicketKeeps, AuthHelloKeeps, AuthTellKeeps,
     BindSessionKeeps, BindLeaseKeeps, TellOneKeeps, StateLeaseKeeps, StateSessionKeeps, StateWriteKeeps,
     RejectLeaseKeeps, PingSessionKeeps, PingRefreshKeeps, TimerReplyKeeps, HttpReplyKeeps
     DEF Reply

LEMMA HubInitially == HubInit => HubIInv
  <1> SUFFICES ASSUME HubInit PROVE HubIInv
    OBVIOUS
  <1>1. HubTypeOK
    BY StartTypes DEF HubInit, HubTypeOK
  <1> QED
    BY <1>1, StartIsOk DEF HubInit

LEMMA HubKeeps == HubIInv /\ [HubNext]_hubVars => HubIInv'
  <1> SUFFICES ASSUME HubIInv, [HubNext]_hubVars PROVE HubIInv'
    OBVIOUS
  <1>1. CASE Reply
    BY <1>1, ReplyKeeps
  <1>2. ASSUME NEW c \in Conn,
               \/ \E d \in Device : Connect(c, d)
               \/ \E s \in Session : Bind(c, s)
               \/ \E s \in Session, play, inOrder \in BOOLEAN : State(c, s, play, inOrder)
               \/ Ping(c)
               \/ Close(c)
        PROVE  HubIInv'
    BY <1>2, ConnectKeeps, BindKeeps, StateKeeps, PingKeeps, CloseKeeps
  <1>3. CASE Timer \/ Restart \/ HttpVacate \/ LeaseExpires
    BY <1>3, TimerKeeps, RestartKeeps, HttpVacateKeeps, LeaseExpiresKeeps
  <1>4. CASE (\E d \in Device, s \in Session : HttpAcquire(d, s)) \/ \E s \in Session : SessionEnds(s)
    BY <1>4, HttpAcquireKeeps, SessionEndsKeeps
  <1>5. CASE UNCHANGED hubVars
    BY <1>5 DEF hubVars, HubIInv, HubTypeOK, RegisteredOk, ToldOk, BoundOk, ArmedOk, StateFor,
       NoneStale, Covered, Stale, Fresh, Tells, Before, Rounds, Unbound, Unbinds, Binds, Arms
  <1> QED
    BY <1>1, <1>2, <1>3, <1>4, <1>5 DEF HubNext

\* The inductive invariant holds: for any number of sockets, sessions and jobs
\* in flight, whatever comes in between two replies (playback-socket.js).
THEOREM HubInvariant == HubSpec => []HubIInv
  BY HubInitially, HubKeeps, PTL DEF HubSpec

\* The hub's state is of its types, and at rest no socket stays bound to a
\* session that does not hold the lease there is (notify, playback-socket.js:94).
THEOREM HubIsTrue == HubSpec => []HubInv
  <1>1. HubIInv => HubInv
    BY DEF HubIInv, HubInv, RestBound, AtRest, BoundOk, Unbound
  <1> QED
    BY <1>1, HubInvariant, PTL

\* At rest every registered socket has been told the truth: no answer that was
\* read earlier is sent after a later one (sendTo and notify).
THEOREM SocketsAreTold == HubSpec => []RestTold
  <1>1. HubIInv => RestTold
    BY DEF HubIInv, RestTold, AtRest, ToldOk, Covered
  <1> QED
    BY <1>1, HubInvariant, PTL

\* At rest, while someone holds the lease and someone watches, a timer is armed
\* that will notice the lease's end (scheduleExpiry).
THEOREM TimerIsArmed == HubSpec => []RestArmed
  <1>1. HubIInv => RestArmed
    BY DEF HubIInv, RestArmed, AtRest, ArmedOk
  <1> QED
    BY <1>1, HubInvariant, PTL

-----------------------------------------------------------------------------
(* Uploads *)

Worked(u) == job # Null /\ job.upload = u
Handed(u) == Contains(media[u], "handed")
Queueing(a, u) == ask[a] # Null /\ ask[a].upload = u /\ ask[a].at \in {"list", "add", "undo"}
Queued(u) == \E a \in Handler : Queueing(a, u)
Once(seq, u) == \A i, j \in 1..Len(seq) : seq[i] = u /\ seq[j] = u => i = j

\* A stop of the worker may leave one medium behind.
Allowed == IF "worker" \in faults THEN 1 ELSE 0

BeforeClean == {"mark", "list", "read", "assemble", "insert", "copy", "update", "hand"}

\* The life of an upload up to its first completion.
YoungOk(u) ==
    /\ dir[u] = "new" =>
         /\ asked[u] = 0 /\ (sweep # Null => sweep.upload # u)
         /\ \A a \in Handler : ask[a] # Null => ask[a].upload # u
    /\ asked[u] = 0 =>
         status[u] = "none" /\ media[u] = <<>> /\ ~Queued(u) /\ ~Entered(u) /\ ~Worked(u)

AskOk(a) ==
    ask[a] # Null =>
        /\ ask[a].at = "del" => dir[ask[a].upload] = "gone"
        /\ ask[a].at = "undo" => "redis" \in faults

JobOk ==
    job # Null =>
        /\ job.at \in {"assemble", "insert"} => Len(media[job.upload]) <= Allowed
        /\ job.at \in {"copy", "update", "hand"} => Len(media[job.upload]) > 0
        /\ job.at \in {"copy", "update"} => Last(media[job.upload]) = "husk"
        /\ job.at \in BeforeClean => job.ok
        /\ job.at \in {"clean", "settle"} /\ job.ok => Handed(job.upload)
        /\ job.at = "settle" => dir[job.upload] # "open"

\* What an upload has become.
MediaOk(u) ==
    /\ Len(media[u]) <= 1 + Allowed
    /\ dir[u] = "open" /\ ~(Worked(u) /\ job.at \in {"copy", "update", "hand", "clean"}) =>
         Len(media[u]) <= Allowed
    /\ status[u] = "completed" => Handed(u)

Calm(u) == faults \intersect {"worker", "redis"} = {} /\ asked[u] # 2

\* The one trace of the job of an upload.
TraceOk(u) ==
    Calm(u) =>
        /\ \A a, b \in Handler : Queueing(a, u) /\ Queueing(b, u) => a = b
        /\ Queued(u) => ~Contains(stream, u) /\ ~Worked(u) /\ ~Handed(u) /\ status[u] # "failed"
        /\ Contains(stream, u) => Once(stream, u) /\ ~Worked(u) /\ ~Handed(u) /\ status[u] # "failed"
        /\ Worked(u) /\ job.at \in BeforeClean => ~Handed(u) /\ status[u] # "failed"
        /\ Worked(u) /\ job.at \in {"clean", "settle"} => status[u] # "failed" /\ (job.ok \/ ~Handed(u))
        /\ status[u] = "failed" => ~Handed(u)

LeftOk == faults \intersect {"worker", "redis"} = {} => left = <<>>

\* A job that is being ended is not what an upload waits for.
WaitOk(u) ==
    u \notin cut /\ status[u] \in Waiting =>
        /\ Entered(u) \/ Marking(u) \/ Worked(u)
        /\ u \in active \/ Marking(u) \/ Entered(u)
        /\ Worked(u) /\ job.at \in {"unlist", "ack"} => Entered(u) \/ Queued(u)

\* Between the two looks of the sweep a status that was waiting is not lost
\* while the directory is there.
SweepOk ==
    sweep # Null /\ sweep.busy /\ faults \intersect {"day", "redis"} = {} =>
        /\ sweep.at = "status" => status[sweep.upload] \in Waiting \/ dir[sweep.upload] # "open"
        /\ sweep.at = "stat" => dir[sweep.upload] # "open"
        /\ sweep.at # "rm"

UploadIInv ==
    /\ TypeOK /\ JobOk /\ LeftOk /\ SweepOk
    /\ \A a \in Handler : AskOk(a)
    /\ \A u \in Upload : YoungOk(u) /\ MediaOk(u) /\ TraceOk(u) /\ WaitOk(u)

-----------------------------------------------------------------------------
(* Sequences of uploads and of media *)

LEMMA AppendFacts ==
    ASSUME NEW S, NEW s \in Seq(S), NEW x \in S
    PROVE  /\ Append(s, x) \in Seq(S)
           /\ Len(Append(s, x)) = Len(s) + 1 /\ Last(Append(s, x)) = x
           /\ \A u : Contains(Append(s, x), u) <=> Contains(s, u) \/ u = x
           /\ ~Contains(s, x) => Once(Append(s, x), x)
           /\ \A u : u # x /\ Once(s, u) => Once(Append(s, x), u)
  <1> DEFINE t == Append(s, x)
  <1>1. /\ t \in Seq(S) /\ Len(t) = Len(s) + 1 /\ Len(s) \in Nat
        /\ \A i \in 1..Len(s) : t[i] = s[i]
        /\ t[Len(s) + 1] = x
    BY AppendProperties, LenProperties
  <1> HIDE DEF t
  <1>2. \A u : Contains(t, u) <=> Contains(s, u) \/ u = x
    BY <1>1 DEF Contains
  <1>3. ~Contains(s, x) => Once(t, x)
    BY <1>1 DEF Contains, Once
  <1>4. \A u : u # x /\ Once(s, u) => Once(t, u)
    BY <1>1 DEF Once
  <1>5. Last(t) = x
    BY <1>1 DEF Last
  <1> QED
    BY <1>1, <1>2, <1>3, <1>4, <1>5 DEF t

LEMMA TailFacts ==
    ASSUME NEW S, NEW s \in Seq(S), s # <<>>
    PROVE  /\ Head(s) \in S /\ Tail(s) \in Seq(S)
           /\ Contains(s, Head(s))
           /\ \A u : u # Head(s) => (Contains(Tail(s), u) <=> Contains(s, u))
           /\ \A u : Once(s, u) => Once(Tail(s), u)
           /\ Once(s, Head(s)) => ~Contains(Tail(s), Head(s))
  <1> DEFINE t == Tail(s)
             h == Head(s)
  <1>1. /\ h \in S /\ t \in Seq(S) /\ Len(t) = Len(s) - 1 /\ Len(s) \in Nat \ {0}
        /\ \A i \in 1..Len(t) : t[i] = s[i + 1]
    BY HeadTailProperties, LenProperties, EmptySeq
  <1>2. h = s[1]
    OBVIOUS
  <1> HIDE DEF t, h
  <1>3. Contains(s, h)
    BY <1>1, <1>2 DEF Contains
  <1>4. ASSUME NEW u, u # h, Contains(s, u) PROVE Contains(t, u)
    <2>1. PICK i \in 1..Len(s) : s[i] = u
      BY <1>4 DEF Contains
    <2>2. i # 1 /\ i - 1 \in 1..Len(t) /\ t[i - 1] = s[i]
      BY <1>1, <1>2, <1>4, <2>1
    <2> QED
      BY <2>1, <2>2 DEF Contains
  <1>5. ASSUME NEW u, Contains(t, u) PROVE Contains(s, u)
    BY <1>1, <1>5 DEF Contains
  <1>6. ASSUME NEW u, Once(s, u) PROVE Once(t, u)
    <2> SUFFICES ASSUME NEW i \in 1..Len(t), NEW j \in 1..Len(t), t[i] = u, t[j] = u PROVE i = j
      BY DEF Once
    <2>1. i + 1 \in 1..Len(s) /\ j + 1 \in 1..Len(s) /\ s[i + 1] = u /\ s[j + 1] = u
      BY <1>1
    <2> QED
      BY <1>6, <2>1 DEF Once
  <1>7. ASSUME Once(s, h), Contains(t, h) PROVE FALSE
    <2>1. PICK i \in 1..Len(t) : t[i] = h
      BY <1>7 DEF Contains
    <2>2. i + 1 \in 1..Len(s) /\ 1 \in 1..Len(s) /\ s[i + 1] = h /\ s[1] = h /\ i + 1 # 1
      BY <1>1, <1>2, <2>1
    <2> QED
      BY <1>7, <2>2 DEF Once
  <1> QED
    BY <1>1, <1>3, <1>4, <1>5, <1>6, <1>7 DEF t, h

LEMMA EmptyFacts == \A u : ~Contains(<<>>, u) /\ Len(<<>>) = 0
  BY DEF Contains

\* Setting the last element of a sequence.
WithLast(s, x) == [s EXCEPT ![Len(s)] = x]

LEMMA LastFacts ==
    ASSUME NEW S, NEW s \in Seq(S), Len(s) > 0, NEW x \in S
    PROVE  /\ WithLast(s, x) \in Seq(S) /\ Len(WithLast(s, x)) = Len(s)
           /\ Contains(WithLast(s, x), x)
           /\ \A u : Contains(s, u) /\ Last(s) # u => Contains(WithLast(s, x), u)
           /\ \A u : Contains(WithLast(s, x), u) /\ u # x => Contains(s, u)
  <1> DEFINE t == WithLast(s, x)
  <1>1. /\ Len(s) \in Nat \ {0} /\ t \in Seq(S) /\ Len(t) = Len(s)
        /\ \A j \in 1..Len(s) : t[j] = IF j = Len(s) THEN x ELSE s[j]
    BY ExceptSeq, LenProperties DEF WithLast
  <1> HIDE DEF t
  <1>2. Contains(t, x)
    <2>1. Len(t) \in 1..Len(t) /\ t[Len(t)] = x
      BY <1>1
    <2> QED
      BY <2>1 DEF Contains
  <1>3. \A u : Contains(s, u) /\ Last(s) # u => Contains(t, u)
    BY <1>1 DEF Contains, Last
  <1>4. \A u : Contains(t, u) /\ u # x => Contains(s, u)
    BY <1>1 DEF Contains
  <1> QED
    BY <1>1, <1>2, <1>3, <1>4 DEF t

-----------------------------------------------------------------------------
(* How requests and the worker go on *)

LEMMA GoFacts ==
    ASSUME TypeOK, NEW a \in Handler, ask[a] # Null,
           NEW step \in {"store", "status", "mark", "list", "add", "undo", "del"}, Go(a, step)
    PROVE  /\ ask' \in [Handler -> Request \union {Null}]
           /\ ask'[a] # Null /\ ask'[a].upload = ask[a].upload /\ ask'[a].at = step
           /\ \A b \in Handler : b # a => ask'[b] = ask[b]
  <1> DEFINE q == [ask[a] EXCEPT !.at = step]
  <1>1. ask[a] \in Request
    BY DEF TypeOK
  <1>2. q \in Request /\ q.upload = ask[a].upload /\ q.at = step
    BY <1>1 DEF Request
  <1>3. ask' = [ask EXCEPT ![a] = q]
    BY DEF Go
  <1> HIDE DEF q
  <1> QED
    BY <1>2, <1>3, NobodyAssumption DEF TypeOK

LEMMA BeginFacts ==
    ASSUME TypeOK, NEW a \in Handler, NEW u \in Upload,
           NEW step \in {"store", "status", "mark", "list", "add", "undo", "del"}, Begin(a, u, step)
    PROVE  /\ ask' \in [Handler -> Request \union {Null}]
           /\ ask[a] = Null /\ ask'[a] # Null /\ ask'[a].upload = u /\ ask'[a].at = step
           /\ \A b \in Handler : b # a => ask'[b] = ask[b]
  BY NobodyAssumption DEF TypeOK, Begin, Request

LEMMA EndFacts ==
    ASSUME TypeOK, NEW a \in Handler, End(a)
    PROVE  /\ ask' \in [Handler -> Request \union {Null}] /\ ask'[a] = Null
           /\ \A b \in Handler : b # a => ask'[b] = ask[b]
  BY DEF TypeOK, End

JobSteps == BeforeClean \union {"clean", "settle", "unlist", "ack"}

LEMMA JobFacts ==
    ASSUME TypeOK, job # Null, NEW step \in JobSteps, Step(step) \/ Throw(step)
    PROVE  /\ job' \in Job /\ job' # Null /\ job'.upload = job.upload /\ job'.at = step
           /\ Step(step) => job'.ok = job.ok
           /\ Throw(step) => ~job'.ok
  <1>1. job \in Job
    BY DEF TypeOK
  <1>2. job' \in Job /\ job'.upload = job.upload /\ job'.at = step
    BY <1>1 DEF Job, JobSteps, BeforeClean, Step, Throw
  <1>3. (Step(step) => job'.ok = job.ok) /\ (Throw(step) => ~job'.ok)
    BY <1>1 DEF Job, Step, Throw
  <1> QED
    BY <1>2, <1>3, NobodyAssumption

\* A step that queues, marks and works nothing.  Directories may go, requests
\* come, end and go on, and the sweep may go on.
LEMMA QuietKeeps ==
    ASSUME UploadIInv, UNCHANGED <<status, stream, left, job, media, past>>,
           active \subseteq active', active' \subseteq Upload,
           dir' \in [Upload -> {"new", "open", "gone"}], part' \in [Upload -> SUBSET Chunk],
           \A u \in Upload : dir'[u] = dir[u] \/ (dir[u] # "new" /\ dir'[u] = "gone"),
           ask' \in [Handler -> Request \union {Null}], sweep' \in Sweep \union {Null},
           \A a \in Handler, u \in Upload : Queueing(a, u)' <=> Queueing(a, u),
           \A a \in Handler : ask'[a] # Null => dir[ask'[a].upload] # "new" /\ AskOk(a)',
           SweepOk', sweep' # Null => dir[sweep'.upload] # "new"
    PROVE  UploadIInv'
  <1>1. TypeOK'
    BY DEF UploadIInv, TypeOK, past
  <1>2. JobOk' /\ LeftOk'
    <2>1. job # Null => job.upload \in Upload
      BY DEF UploadIInv, TypeOK, Job
    <2> QED
      BY <2>1 DEF UploadIInv, JobOk, LeftOk, Allowed, Handed, past
  <1>3. ASSUME NEW u \in Upload PROVE YoungOk(u)'
    BY DEF UploadIInv, YoungOk, Queued, Entered, Worked, past
  <1>4. ASSUME NEW u \in Upload PROVE MediaOk(u)' /\ TraceOk(u)'
    BY DEF UploadIInv, MediaOk, TraceOk, Calm, Allowed, Handed, Worked, Queued, past
  <1>5. ASSUME NEW u \in Upload PROVE WaitOk(u)'
    <2>1. Marking(u)' <=> Marking(u)
      BY DEF Marking, Queueing
    <2>2. (Entered(u)' <=> Entered(u)) /\ (Queued(u)' <=> Queued(u)) /\ (Worked(u)' <=> Worked(u))
      BY DEF Entered, Queued, Worked
    <2> QED
      BY <2>1, <2>2 DEF UploadIInv, WaitOk, past
  <1>6. ASSUME NEW a \in Handler PROVE AskOk(a)'
    BY DEF AskOk
  <1> QED
    BY <1>1, <1>2, <1>3, <1>4, <1>5, <1>6 DEF UploadIInv

\* A step of the worker at its upload.
LEMMA JobKeeps ==
    ASSUME UploadIInv, job # Null, job' \in Job, job' # Null, NEW u \in Upload,
           job.upload = u, job'.upload = u,
           UNCHANGED <<stream, left, ask, sweep, asked>>,
           faults \subseteq faults', faults' \subseteq Faults,
           cut \subseteq cut', cut' \subseteq Upload, active' \subseteq Upload,
           dir' \in [Upload -> {"new", "open", "gone"}], part' \in [Upload -> SUBSET Chunk],
           status' \in [Upload -> Status], media' \in [Upload -> Seq({"husk", "stored", "handed"})],
           \A v \in Upload : v # u =>
               /\ dir'[v] = dir[v] /\ status'[v] = status[v] /\ media'[v] = media[v]
               /\ v \in active' <=> v \in active,
           dir'[u] \in {dir[u], "gone"},
           JobOk', SweepOk', MediaOk(u)', TraceOk(u)', WaitOk(u)'
    PROVE  UploadIInv'
  <1>1. TypeOK'
    BY DEF UploadIInv, TypeOK
  <1>2. LeftOk'
    BY DEF UploadIInv, LeftOk
  <1>3. ASSUME NEW a \in Handler PROVE AskOk(a)'
    BY <1>1 DEF UploadIInv, AskOk, TypeOK, Request
  <1>4. asked[u] # 0 /\ dir[u] # "new"
    BY DEF UploadIInv, YoungOk, Worked
  <1>5. ASSUME NEW v \in Upload PROVE YoungOk(v)'
    BY <1>4 DEF UploadIInv, YoungOk, Queued, Queueing, Entered, Worked
  <1>6. ASSUME NEW v \in Upload, v # u PROVE MediaOk(v)' /\ TraceOk(v)' /\ WaitOk(v)'
    <2>1. ~Worked(v) /\ ~Worked(v)' /\ (Queued(v)' <=> Queued(v)) /\ (Handed(v)' <=> Handed(v))
      BY <1>6 DEF Worked, Queued, Queueing, Handed
    <2>2. (Entered(v)' <=> Entered(v)) /\ (Marking(v)' <=> Marking(v))
      BY <1>6 DEF Entered, Marking
    <2>3. MediaOk(v)'
      BY <1>6, <2>1 DEF UploadIInv, TypeOK, MediaOk, Allowed
    <2>4. TraceOk(v)'
      BY <1>6, <2>1 DEF UploadIInv, TraceOk, Calm, Queueing
    <2> QED
      BY <1>6, <2>1, <2>2, <2>3, <2>4 DEF UploadIInv, WaitOk
  <1> QED
    BY <1>1, <1>2, <1>3, <1>5, <1>6 DEF UploadIInv

\* A step of a request at its upload that leaves directory and worker alone.
LEMMA RequestKeeps ==
    ASSUME UploadIInv, NEW a \in Handler, ask[a] # Null, NEW u \in Upload, ask[a].upload = u,
           UNCHANGED <<dir, part, active, left, job, media, sweep>>,
           faults \subseteq faults', faults' \subseteq Faults,
           cut \subseteq cut', cut' \subseteq Upload,
           stream' \in Seq(Upload), status' \in [Upload -> Status], asked' \in [Upload -> 0..2],
           ask' \in [Handler -> Request \union {Null}],
           \A b \in Handler : b # a => ask'[b] = ask[b],
           ask'[a] # Null => ask'[a].upload = u,
           \A v \in Upload : v # u =>
               /\ status'[v] = status[v] /\ asked'[v] = asked[v]
               /\ Contains(stream', v) <=> Contains(stream, v)
               /\ Once(stream, v) => Once(stream', v),
           AskOk(a)', SweepOk', YoungOk(u)', MediaOk(u)', TraceOk(u)', WaitOk(u)'
    PROVE  UploadIInv'
  <1>1. TypeOK'
    BY DEF UploadIInv, TypeOK
  <1>2. JobOk' /\ LeftOk'
    <2>1. job # Null => job.upload \in Upload /\ Len(media[job.upload]) \in Nat
      BY DEF UploadIInv, TypeOK, Job
    <2> QED
      BY <2>1 DEF UploadIInv, JobOk, LeftOk, Allowed, Handed
  <1>3. ASSUME NEW b \in Handler PROVE AskOk(b)'
    BY DEF UploadIInv, AskOk
  <1>4. ASSUME NEW v \in Upload, v # u PROVE YoungOk(v)' /\ MediaOk(v)' /\ TraceOk(v)' /\ WaitOk(v)'
    <2>1. \A b \in Handler : Queueing(b, v)' <=> Queueing(b, v)
      BY <1>4 DEF Queueing
    <2>2. (Queued(v)' <=> Queued(v)) /\ (Worked(v)' <=> Worked(v)) /\ (Handed(v)' <=> Handed(v))
      BY <2>1 DEF Queued, Worked, Handed
    <2>3. (Entered(v)' <=> Entered(v)) /\ (Marking(v)' <=> Marking(v))
      BY <1>4, <2>1 DEF Entered, Marking, Queueing
    <2>4. YoungOk(v)'
      BY <1>4, <2>2, <2>3 DEF UploadIInv, YoungOk
    <2>5. MediaOk(v)'
      BY <1>4, <2>2 DEF UploadIInv, TypeOK, MediaOk, Allowed
    <2>6. TraceOk(v)'
      BY <1>4, <2>1, <2>2 DEF UploadIInv, TraceOk, Calm
    <2> QED
      BY <1>4, <2>2, <2>3, <2>4, <2>5, <2>6 DEF UploadIInv, WaitOk
  <1> QED
    BY <1>1, <1>2, <1>3, <1>4 DEF UploadIInv

-----------------------------------------------------------------------------
(* The requests *)

LEMMA QuietRequestsKeep ==
    ASSUME UploadIInv, NEW a \in Handler, NEW u \in Upload,
           \/ PostChunk(a, u) \/ StoreChunk(a) \/ PostComplete(a, u) \/ ReadStatus(a)
           \/ ListQueued(a) \/ DeleteUpload(a, u)
    PROVE  UploadIInv'
  <1>0. TypeOK /\ SweepOk /\ (sweep # Null => sweep.upload \in Upload)
    BY DEF UploadIInv, TypeOK, Sweep
  <1>1. ask[a] # Null => ask[a].upload \in Upload /\ dir[ask[a].upload] # "new"
    BY DEF UploadIInv, TypeOK, Request, YoungOk
  <1>2. \A b \in Handler : ask[b] # Null => dir[ask[b].upload] # "new" /\ AskOk(b)
    BY DEF UploadIInv, TypeOK, Request, YoungOk
  <1>3. sweep # Null => dir[sweep.upload] # "new"
    BY <1>0 DEF UploadIInv, YoungOk
  <1>4. /\ UNCHANGED <<status, stream, left, job, media, past, sweep>>
        /\ active \subseteq active' /\ active' \subseteq Upload
        /\ dir' \in [Upload -> {"new", "open", "gone"}] /\ part' \in [Upload -> SUBSET Chunk]
        /\ \A v \in Upload : dir'[v] = dir[v] \/ (dir[v] # "new" /\ dir'[v] = "gone")
    <2>1. CASE StoreChunk(a)
      <3>1. part' \in [Upload -> SUBSET Chunk]
        <4>1. ask[a].upload \in Upload
          BY <1>1, <2>1 DEF StoreChunk, Asking
        <4>2. PICK c \in Chunk : \/ part' = [part EXCEPT ![ask[a].upload] = @ \union {c}]
                                 \/ part' = part
          BY <2>1, TotalAssumption DEF StoreChunk, Chunk
        <4>3. part \in [Upload -> SUBSET Chunk] /\ part[ask[a].upload] \union {c} \in SUBSET Chunk
          BY <1>0, <4>1 DEF TypeOK
        <4> HIDE DEF Chunk
        <4> QED
          BY <4>1, <4>2, <4>3
      <3> QED
        BY <1>0, <2>1, <3>1 DEF TypeOK, StoreChunk, redis, past
    <2>2. CASE ListQueued(a)
      BY <1>0, <1>1, <2>2 DEF TypeOK, ListQueued, session, past, Asking
    <2>3. CASE DeleteUpload(a, u)
      BY <1>0, <2>3 DEF TypeOK, DeleteUpload, RemoveDir, redis, past
    <2>4. CASE PostChunk(a, u) \/ PostComplete(a, u) \/ ReadStatus(a)
      BY <1>0, <2>4 DEF TypeOK, PostChunk, PostComplete, ReadStatus, session, redis, past
    <2> QED
      BY <2>1, <2>2, <2>3, <2>4
  <1>5. CASE PostChunk(a, u) \/ PostComplete(a, u) \/ DeleteUpload(a, u)
    <2>1. /\ ask' \in [Handler -> Request \union {Null}] /\ ask[a] = Null /\ ask'[a] # Null
          /\ ask'[a].upload = u /\ ask'[a].at \in {"store", "status", "del"} /\ dir[u] # "new"
          /\ ask'[a].at = "del" => dir'[u] = "gone"
          /\ \A b \in Handler : b # a => ask'[b] = ask[b]
      BY <1>0, <1>5, BeginFacts DEF PostChunk, PostComplete, DeleteUpload, RemoveDir, TypeOK
    <2>2. \A b \in Handler, v \in Upload : Queueing(b, v)' <=> Queueing(b, v)
      BY <2>1 DEF Queueing
    <2>3. \A b \in Handler : ask'[b] # Null => dir[ask'[b].upload] # "new" /\ AskOk(b)'
      BY <1>2, <1>4, <2>1 DEF AskOk, past, TypeOK, Request
    <2>4. SweepOk'
      BY <1>0, <1>4 DEF SweepOk, past
    <2> QED
      BY <1>0, <1>3, <1>4, <2>1, <2>2, <2>3, <2>4, QuietKeeps DEF TypeOK
  <1>6. CASE StoreChunk(a) \/ ReadStatus(a) \/ ListQueued(a)
    <2>1. /\ ask' \in [Handler -> Request \union {Null}] /\ ask[a] # Null
          /\ ask'[a] # Null => /\ ask'[a].upload = ask[a].upload
                               /\ ask'[a].at \in {"mark", "add"}
          /\ (ask'[a] # Null /\ ask'[a].at = "add") <=> ask[a].at = "list"
          /\ ask[a].at \in {"store", "status", "list"}
          /\ \A b \in Handler : b # a => ask'[b] = ask[b]
      BY <1>0, <1>6, GoFacts, EndFacts DEF StoreChunk, ReadStatus, ListQueued, Asking
    <2>2. \A b \in Handler, v \in Upload : Queueing(b, v)' <=> Queueing(b, v)
      BY <2>1 DEF Queueing
    <2>3. \A b \in Handler : ask'[b] # Null => dir[ask'[b].upload] # "new" /\ AskOk(b)'
      BY <1>2, <1>4, <2>1 DEF AskOk, past, TypeOK, Request
    <2>4. SweepOk'
      BY <1>0, <1>4 DEF SweepOk, past
    <2> QED
      BY <1>0, <1>3, <1>4, <2>1, <2>2, <2>3, <2>4, QuietKeeps DEF TypeOK
  <1> QED
    BY <1>5, <1>6

\* The SET, after which a second one means a second job.
LEMMA MarkQueuedKeeps ==
    ASSUME UploadIInv, NEW a \in Handler, MarkQueued(a)
    PROVE  UploadIInv'
  <1>0. PICK u \in Upload : ask[a] # Null /\ ask[a].upload = u
    BY DEF UploadIInv, TypeOK, Request, MarkQueued, Asking
  <1>1. /\ TypeOK /\ ask[a].at = "mark" /\ asked[u] \in 0..2
        /\ dir[u] # "new"
    BY <1>0 DEF UploadIInv, TypeOK, Request, MarkQueued, Asking, YoungOk
  <1>2. /\ ask' \in [Handler -> Request \union {Null}]
        /\ ask'[a] # Null /\ ask'[a].upload = u /\ ask'[a].at = "list"
        /\ \A b \in Handler : b # a => ask'[b] = ask[b]
    BY <1>0, <1>1, GoFacts DEF MarkQueued
  <1>3. /\ status' \in [Upload -> Status] /\ status'[u] = "queued"
        /\ asked' \in [Upload -> 0..2] /\ asked'[u] = (IF asked[u] = 2 THEN 2 ELSE asked[u] + 1)
        /\ \A v \in Upload : v # u => status'[v] = status[v] /\ asked'[v] = asked[v]
        /\ UNCHANGED <<dir, part, active, stream, left, job, media, sweep, cut, faults>>
    BY <1>0, <1>1 DEF TypeOK, MarkQueued, Set, Status, Waiting, session
  <1>4. AskOk(a)' /\ SweepOk'
    BY <1>0, <1>1, <1>2, <1>3 DEF UploadIInv, AskOk, SweepOk, TypeOK, Sweep, Waiting
  <1>5. YoungOk(u)' /\ MediaOk(u)'
    BY <1>0, <1>1, <1>3 DEF UploadIInv, YoungOk, MediaOk, Allowed, Worked, Handed
  <1>6. TraceOk(u)'
    <2>1. ASSUME Calm(u)' PROVE asked[u] = 0 /\ media[u] = <<>>
      BY <1>0, <1>1, <1>3, <2>1 DEF UploadIInv, Calm, YoungOk
    <2>2. ASSUME Calm(u)' PROVE \A b \in Handler : Queueing(b, u)' => b = a
      BY <1>0, <1>1, <1>2, <2>1, <2>2 DEF UploadIInv, Queueing, Queued, YoungOk
    <2>3. ASSUME Calm(u)' PROVE ~Entered(u) /\ ~Worked(u) /\ ~Handed(u)
      BY <1>0, <1>1, <2>1, <2>3, EmptyFacts DEF UploadIInv, YoungOk, Handed
    <2> QED
      BY <1>0, <1>1, <1>3, <2>2, <2>3 DEF TraceOk, Entered, Worked, Handed
  <1>7. WaitOk(u)'
    BY <1>0, <1>1, <1>2 DEF WaitOk, Marking, Queued, Queueing
  <1> QED
    BY <1>0, <1>1, <1>2, <1>3, <1>4, <1>5, <1>6, <1>7, RequestKeeps DEF UploadIInv, TypeOK

\* The XADD, and one whose answer is an error.
LEMMA AddKeeps ==
    ASSUME UploadIInv, NEW a \in Handler, AddJob(a) \/ AddFails(a)
    PROVE  UploadIInv'
  <1>0. PICK u \in Upload : ask[a] # Null /\ ask[a].upload = u
    BY DEF UploadIInv, TypeOK, Request, AddJob, AddFails, Asking
  <1>1. /\ TypeOK /\ ask[a].at = "add"
        /\ dir[u] # "new" /\ asked[u] # 0 /\ Queueing(a, u)
    BY <1>0 DEF UploadIInv, TypeOK, Request, AddJob, AddFails, Asking, YoungOk, Queued, Queueing
  <1>2. /\ ask' \in [Handler -> Request \union {Null}]
        /\ AddJob(a) => ask'[a] = Null
        /\ AddFails(a) => ask'[a] # Null /\ ask'[a].upload = u /\ ask'[a].at = "undo"
        /\ \A b \in Handler : b # a => ask'[b] = ask[b]
    BY <1>0, <1>1, GoFacts, EndFacts DEF AddJob, AddFails
  <1>3. /\ UNCHANGED <<dir, part, status, active, left, job, media, sweep, asked, cut>>
        /\ faults \subseteq faults' /\ faults' \subseteq Faults
        /\ AddFails(a) => "redis" \in faults'
        /\ AddJob(a) => stream' = Append(stream, u)
        /\ stream' = stream \/ stream' = Append(stream, u)
    BY <1>0, <1>1 DEF TypeOK, AddJob, AddFails, Fault, Faults, session, past
  <1>4. /\ stream' \in Seq(Upload)
        /\ \A v \in Upload : v # u => /\ Contains(stream', v) <=> Contains(stream, v)
                                      /\ Once(stream, v) => Once(stream', v)
        /\ AddJob(a) => Contains(stream', u) /\ (~Contains(stream, u) => Once(stream', u))
        /\ Contains(stream, u) => Contains(stream', u)
    <2>1. CASE stream' = stream /\ ~AddJob(a)
      BY <1>1, <2>1 DEF TypeOK
    <2>2. CASE stream' = Append(stream, u)
      BY <1>1, <2>2, AppendFacts DEF TypeOK
    <2> QED
      BY <1>3, <2>1, <2>2
  <1>5. AskOk(a)' /\ SweepOk'
    BY <1>0, <1>1, <1>2, <1>3 DEF UploadIInv, AskOk, SweepOk
  <1>6. YoungOk(u)' /\ MediaOk(u)'
    BY <1>0, <1>1, <1>3 DEF UploadIInv, TypeOK, YoungOk, MediaOk, Allowed, Worked, Handed
  <1>7. TraceOk(u)'
    <2>1. ASSUME Calm(u)' PROVE AddJob(a) /\ Calm(u)
      BY <1>3, <2>1 DEF Calm
    <2>2. ASSUME Calm(u)' PROVE \A b \in Handler : ~Queueing(b, u)'
      BY <1>0, <1>1, <1>2, <2>1, <2>2 DEF UploadIInv, TraceOk, Queueing
    <2>3. ASSUME Calm(u)' PROVE ~Contains(stream, u) /\ ~Worked(u) /\ ~Handed(u) /\ status[u] # "failed"
      BY <1>0, <1>1, <2>1, <2>3 DEF UploadIInv, TraceOk, Queued
    <2> QED
      BY <1>3, <1>4, <2>1, <2>2, <2>3 DEF TraceOk, Queued, Worked, Handed
  <1>8. WaitOk(u)'
    <2>1. Entered(u)' \/ Queued(u)'
      BY <1>2, <1>4 DEF AddJob, Entered, Queued, Queueing
    <2> QED
      BY <2>1 DEF WaitOk, Marking, Queued, Queueing
  <1> QED
    BY <1>0, <1>1, <1>2, <1>3, <1>4, <1>5, <1>6, <1>7, <1>8, RequestKeeps DEF UploadIInv, TypeOK

\* The DEL of a request whose XADD has failed, one that fails as well, and
\* the one of DELETE.
LEMMA UndoKeeps ==
    ASSUME UploadIInv, NEW a \in Handler, UndoQueued(a) \/ UndoFails(a) \/ DeleteStatus(a)
    PROVE  UploadIInv'
  <1>0. PICK u \in Upload : ask[a] # Null /\ ask[a].upload = u
    BY DEF UploadIInv, TypeOK, Request, UndoQueued, UndoFails, DeleteStatus, Asking
  <1>1. /\ TypeOK /\ ask[a].at \in {"undo", "del"}
        /\ dir[u] # "new" /\ (ask[a].at = "undo" => "redis" \in faults)
        /\ ask[a].at = "del" => dir[u] = "gone"
    BY <1>0 DEF UploadIInv, TypeOK, Request, UndoQueued, UndoFails, DeleteStatus, Asking, YoungOk, AskOk
  <1>2. /\ ask' \in [Handler -> Request \union {Null}] /\ ask'[a] = Null
        /\ \A b \in Handler : b # a => ask'[b] = ask[b]
    BY <1>0, <1>1, EndFacts DEF UndoQueued, UndoFails, DeleteStatus
  <1>3. /\ UNCHANGED <<dir, part, active, stream, left, job, media, sweep, asked, faults>>
        /\ cut \subseteq cut' /\ cut' \subseteq Upload
        /\ status' \in [Upload -> Status]
        /\ status'[u] = "none" \/ (status' = status /\ u \in cut' /\ ask[a].at = "undo")
        /\ \A v \in Upload : v # u => status'[v] = status[v]
    BY <1>0, <1>1 DEF TypeOK, UndoQueued, UndoFails, DeleteStatus, Asking, Set, Status, session, redis, past
  <1>4. AskOk(a)' /\ SweepOk'
    BY <1>0, <1>1, <1>2, <1>3 DEF UploadIInv, AskOk, SweepOk, TypeOK, Sweep
  <1>5. \A b \in Handler : Queueing(b, u)' => Queueing(b, u)
    BY <1>2 DEF Queueing
  <1>6. YoungOk(u)' /\ MediaOk(u)'
    BY <1>0, <1>1, <1>3, <1>5 DEF UploadIInv, TypeOK, YoungOk, MediaOk, Allowed, Worked, Handed, Queued, Entered
  <1>7. TraceOk(u)'
    <2>1. Calm(u)' => Calm(u) /\ status'[u] = "none"
      BY <1>0, <1>1, <1>3 DEF Calm
    <2>2. UNCHANGED <<stream, job, media>> /\ (Queued(u)' => Queued(u))
      BY <1>3, <1>5 DEF Queued
    <2> QED
      BY <1>0, <1>1, <1>5, <2>1, <2>2 DEF UploadIInv, TraceOk, Worked, Handed
  <1>8. WaitOk(u)'
    BY <1>0, <1>1, <1>3 DEF WaitOk, Waiting
  <1> QED
    BY <1>0, <1>1, <1>2, <1>3, <1>4, <1>6, <1>7, <1>8, RequestKeeps DEF UploadIInv, TypeOK

-----------------------------------------------------------------------------
(* The worker *)

\* The worker takes a job from the stream, or one that was left.
LEMMA TakeKeeps ==
    ASSUME UploadIInv, ReadJob \/ Reclaim
    PROVE  UploadIInv'
  <1>1. TypeOK /\ job = Null
    BY DEF UploadIInv, ReadJob, Reclaim
  <1>2. PICK u \in Upload : /\ job' = NewJob(u) /\ Entered(u)
                            /\ ReadJob => stream # <<>> /\ u = Head(stream) /\ stream' = Tail(stream) /\ left' = left
                            /\ Reclaim => left # <<>> /\ u = Head(left) /\ left' = Tail(left) /\ stream' = stream
    BY <1>1, TailFacts DEF ReadJob, Reclaim, TypeOK, Entered
  <1>3. /\ UNCHANGED <<dir, part, status, active, media, ask, sweep, asked, cut, faults>>
        /\ job' \in Job /\ job' # Null /\ job'.upload = u /\ job'.at = "mark" /\ job'.ok
    <2>1. NewJob(u) \in Job /\ NewJob(u).upload = u /\ NewJob(u).at = "mark" /\ NewJob(u).ok
      BY TotalAssumption DEF NewJob, Job
    <2> QED
      BY <1>2, <2>1, NobodyAssumption DEF ReadJob, Reclaim, session, past
  <1>4. /\ stream' \in Seq(Upload) /\ left' \in Seq(Upload)
        /\ \A v \in Upload : v # u => (Entered(v)' <=> Entered(v))
        /\ \A v \in Upload : /\ Contains(stream', v) => Contains(stream, v)
                             /\ Once(stream, v) => Once(stream', v)
        /\ ReadJob => Contains(stream, u) /\ (Once(stream, u) => ~Contains(stream', u))
    <2>0. stream \in Seq(Upload) /\ left \in Seq(Upload)
      BY <1>1 DEF TypeOK
    <2>1. CASE ReadJob
      <3>1. stream # <<>> /\ u = Head(stream) /\ stream' = Tail(stream) /\ left' = left
        BY <1>2, <2>1
      <3>2. /\ Tail(stream) \in Seq(Upload) /\ Contains(stream, u)
            /\ \A v : v # u => (Contains(Tail(stream), v) <=> Contains(stream, v))
            /\ \A v : Once(stream, v) => Once(Tail(stream), v)
            /\ Once(stream, u) => ~Contains(Tail(stream), u)
        BY <2>0, <3>1, TailFacts
      <3> QED
        BY <2>0, <3>1, <3>2 DEF Entered
    <2>2. CASE Reclaim /\ ~ReadJob
      <3>1. left # <<>> /\ u = Head(left) /\ left' = Tail(left) /\ stream' = stream
        BY <1>2, <2>2
      <3>2. /\ Tail(left) \in Seq(Upload)
            /\ \A v : v # u => (Contains(Tail(left), v) <=> Contains(left, v))
        BY <2>0, <3>1, TailFacts
      <3> QED
        BY <2>0, <2>2, <3>1, <3>2 DEF Entered
    <2> QED
      BY <2>1, <2>2
  <1>5. TypeOK'
    BY <1>1, <1>3, <1>4 DEF TypeOK
  <1>6. JobOk' /\ SweepOk'
    BY <1>3 DEF UploadIInv, JobOk, SweepOk, BeforeClean
  <1>7. LeftOk'
    BY <1>2, <1>3 DEF UploadIInv, LeftOk, ReadJob, Reclaim
  <1>8. ASSUME NEW a \in Handler PROVE AskOk(a)'
    BY <1>3 DEF UploadIInv, AskOk
  <1>9. ASSUME NEW v \in Upload PROVE YoungOk(v)' /\ MediaOk(v)'
    BY <1>1, <1>2, <1>3, <1>4 DEF UploadIInv, YoungOk, MediaOk, Allowed, Handed, Queued, Queueing, Worked
  <1>10. ASSUME NEW v \in Upload PROVE TraceOk(v)'
    <2>1. UNCHANGED <<faults, asked>> /\ (Calm(v)' => Calm(v))
      BY <1>3 DEF Calm
    <2>2. (Queued(v)' <=> Queued(v)) /\ (Handed(v)' <=> Handed(v))
          /\ \A a \in Handler : Queueing(a, v)' <=> Queueing(a, v)
      BY <1>3 DEF Queued, Queueing, Handed
    <2>3. Calm(v) => ReadJob
      BY <1>2 DEF UploadIInv, LeftOk, Calm, ReadJob, Reclaim
    <2> QED
      BY <1>2, <1>3, <1>4, <2>1, <2>2, <2>3 DEF UploadIInv, TraceOk, Worked, BeforeClean
  <1>11. ASSUME NEW v \in Upload PROVE WaitOk(v)'
    <2>1. CASE v = u
      BY <1>3, <2>1 DEF WaitOk, Marking, Worked
    <2>2. CASE v # u
      BY <1>1, <1>3, <1>4, <2>2 DEF UploadIInv, WaitOk, Marking, Worked
    <2> QED
      BY <2>1, <2>2
  <1> QED
    BY <1>5, <1>6, <1>7, <1>8, <1>9, <1>10, <1>11 DEF UploadIInv

\* The two commands before the job: the SET and the SADD.
LEMMA BeginsKeep ==
    ASSUME UploadIInv, MarkProcessing \/ ListProcessing
    PROVE  UploadIInv'
  <1>1. PICK u \in Upload : TypeOK /\ job # Null /\ job.upload = u
    BY DEF UploadIInv, TypeOK, Job, MarkProcessing, ListProcessing, Doing
  <1>2. /\ job' \in Job /\ job' # Null /\ job'.upload = u /\ job'.ok = job.ok
        /\ job.at \in {"mark", "list"} /\ job'.at \in {"list", "read"}
        /\ MarkProcessing => job'.at = "list"
    BY <1>1, JobFacts DEF MarkProcessing, ListProcessing, Doing, JobSteps, BeforeClean
  <1>3. /\ UNCHANGED <<dir, part, media, stream, left, ask, sweep, asked, cut, faults>>
        /\ status' \in [Upload -> Status] /\ active' \subseteq Upload
        /\ \A v \in Upload : v # u => status'[v] = status[v] /\ (v \in active' <=> v \in active)
        /\ MarkProcessing => status'[u] = "processing"
        /\ ListProcessing => status' = status /\ u \in active'
    BY <1>1 DEF TypeOK, MarkProcessing, ListProcessing, Set, Status, Waiting, session, past
  <1>4. JobOk' /\ SweepOk'
    BY <1>1, <1>2, <1>3 DEF UploadIInv, TypeOK, JobOk, SweepOk, BeforeClean, Waiting, Sweep
  <1>5. MediaOk(u)' /\ TraceOk(u)'
    <2>1. UNCHANGED <<faults, asked, media>>
          /\ \A a \in Handler : Queueing(a, u)' <=> Queueing(a, u)
      BY <1>3 DEF Queueing
    <2>2. status'[u] = status[u] \/ status'[u] = "processing"
      BY <1>3
    <2> QED
      BY <1>1, <1>2, <1>3, <2>1, <2>2
         DEF UploadIInv, MediaOk, TraceOk, Calm, Allowed, Handed, Worked, Queued, BeforeClean
  <1>6. WaitOk(u)'
    BY <1>1, <1>2, <1>3 DEF WaitOk, Marking, Worked, MarkProcessing, ListProcessing
  <1> QED
    BY <1>1, <1>2, <1>3, <1>4, <1>5, <1>6, JobKeeps DEF TypeOK

\* What the job does to the directory, and what it reads there.
LEMMA FilesKeep ==
    ASSUME UploadIInv, ReadManifest \/ Assemble \/ Copy \/ Clean
    PROVE  UploadIInv'
  <1>1. PICK u \in Upload : TypeOK /\ job # Null /\ job.upload = u
    BY DEF UploadIInv, TypeOK, Job, ReadManifest, Assemble, Copy, Clean, Doing
  <1>2. /\ job' \in Job /\ job' # Null /\ job'.upload = u
        /\ \/ job.at = "read" /\ job'.at = "assemble" /\ job'.ok = job.ok /\ dir[u] = "open"
           \/ job.at = "read" /\ job'.at = "settle" /\ ~job'.ok /\ dir[u] # "open"
           \/ job.at = "assemble" /\ job'.at \in {"assemble", "insert"} /\ job'.ok = job.ok
           \/ job.at = "copy" /\ job'.at = "update" /\ job'.ok = job.ok
           \/ job.at \in {"assemble", "copy"} /\ job'.at = "clean" /\ ~job'.ok
           \/ job.at = "clean" /\ job'.at = "settle" /\ job'.ok = job.ok /\ dir'[u] = "gone"
    <2>1. CASE ReadManifest
      BY <1>1, <2>1, JobFacts DEF ReadManifest, Doing, JobSteps, BeforeClean
    <2>2. CASE Assemble /\ job.next \in part[job.upload]
      <3>1. job \in Job /\ job.at = "assemble" /\ job.next \in 1..Total
        BY <1>1, <2>2 DEF TypeOK, Assemble, Doing, Chunk
      <3>2. job' = [job EXCEPT !.next = job.next + 1,
                               !.at = IF job.next = Total THEN "insert" ELSE job.at]
        BY <2>2 DEF Assemble
      <3>3. job' \in Job /\ job'.upload = u /\ job'.at \in {"assemble", "insert"} /\ job'.ok = job.ok
        <4>1. job.next \in 1..Total /\ Total \in Nat
          BY <1>1, <2>2, <3>1, TotalAssumption DEF TypeOK, Chunk
        <4>2. job.next + 1 \in 1..Total + 1
          BY <4>1
        <4>3. job'.upload = u /\ job'.at \in {"assemble", "insert"} /\ job'.ok = job.ok
              /\ job'.next = job.next + 1 /\ DOMAIN job' = DOMAIN job
          BY <1>1, <3>1, <3>2 DEF Job
        <4> QED
          BY <1>1, <3>1, <3>2, <4>2, <4>3 DEF Job
      <3> QED
        BY <1>1, <3>1, <3>3, NobodyAssumption
    <2>3. CASE Assemble /\ job.next \notin part[job.upload]
      BY <1>1, <2>3, JobFacts DEF Assemble, Doing, JobSteps, BeforeClean
    <2>4. CASE Copy
      BY <1>1, <2>4, JobFacts DEF Copy, Doing, JobSteps, BeforeClean
    <2>5. CASE Clean
      BY <1>1, <2>5, JobFacts DEF Clean, RemoveDir, Doing, JobSteps, BeforeClean, TypeOK
    <2> QED
      BY <2>1, <2>2, <2>3, <2>4, <2>5
  <1>3. /\ UNCHANGED <<status, active, media, stream, left, ask, sweep, asked, cut, faults>>
        /\ dir' \in [Upload -> {"new", "open", "gone"}] /\ part' \in [Upload -> SUBSET Chunk]
        /\ dir'[u] \in {dir[u], "gone"}
        /\ \A v \in Upload : v # u => dir'[v] = dir[v]
    BY <1>1 DEF TypeOK, ReadManifest, Assemble, Copy, Clean, RemoveDir, session, redis, past
  <1>4. Len(media[u]) \in Nat /\ Allowed' = Allowed
    BY <1>1, <1>3 DEF TypeOK, Allowed
  <1>5. JobOk'
    BY <1>1, <1>2, <1>3, <1>4 DEF UploadIInv, JobOk, MediaOk, Handed, BeforeClean, Worked
  <1>6. SweepOk'
    BY <1>1, <1>3 DEF UploadIInv, SweepOk, TypeOK, Sweep
  <1>7. MediaOk(u)'
    BY <1>1, <1>2, <1>3, <1>4 DEF UploadIInv, MediaOk, JobOk, Handed, Worked
  <1>8. TraceOk(u)'
    BY <1>1, <1>2, <1>3 DEF UploadIInv, TraceOk, JobOk, Calm, Handed, Worked, Queued, Queueing, BeforeClean
  <1>9. WaitOk(u)'
    BY <1>1, <1>2, <1>3 DEF UploadIInv, WaitOk, Marking, Worked, Entered, Queued, Queueing
  <1> QED
    BY <1>1, <1>2, <1>3, <1>5, <1>6, <1>7, <1>8, <1>9, JobKeeps DEF TypeOK

\* The row of the medium: inserted, with its file, handed over.
LEMMA MediaKeep ==
    ASSUME UploadIInv, Insert \/ Update \/ HandOver
    PROVE  UploadIInv'
  <1>1. PICK u \in Upload : TypeOK /\ job # Null /\ job.upload = u
    BY DEF UploadIInv, TypeOK, Job, Insert, Update, HandOver, Doing
  <1>2. /\ media[u] \in Seq({"husk", "stored", "handed"}) /\ Len(media[u]) \in Nat
        /\ dir[u] # "new" /\ Allowed \in {0, 1}
    BY <1>1, LenProperties DEF UploadIInv, TypeOK, YoungOk, Worked, Allowed
  <1>3. /\ UNCHANGED <<dir, part, status, active, stream, left, ask, sweep, asked, cut>>
        /\ faults \subseteq faults' /\ faults' \subseteq Faults
        /\ job' \in Job /\ job' # Null /\ job'.upload = u
    BY <1>1, JobFacts DEF TypeOK, Insert, Update, HandOver, Doing, JobSteps, BeforeClean, Fault, Faults,
       session, redis, past
  <1>4. \/ /\ job.at = "insert" /\ job'.at = "copy" /\ job'.ok = job.ok
           /\ media' = [media EXCEPT ![u] = Append(media[u], "husk")] /\ faults' = faults
        \/ /\ job.at \in {"insert", "hand"} /\ job'.at = "clean" /\ ~job'.ok /\ media' = media
           /\ job.at = "insert" => faults' = faults
           /\ job.at = "hand" => "redis" \in faults'
        \/ /\ job.at = "update" /\ job'.at = "hand" /\ job'.ok = job.ok /\ faults' = faults
           /\ media' = [media EXCEPT ![u] = [media[u] EXCEPT ![Len(media[u])] = "stored"]]
        \/ /\ job.at = "hand" /\ job'.at = "clean" /\ job'.ok = job.ok /\ faults' = faults
           /\ media' = [media EXCEPT ![u] = [media[u] EXCEPT ![Len(media[u])] = "handed"]]
    BY <1>1, JobFacts DEF Insert, Update, HandOver, Row, Doing, JobSteps, BeforeClean, Fault, past
  <1>5. /\ media' \in [Upload -> Seq({"husk", "stored", "handed"})]
        /\ \A v \in Upload : v # u => media'[v] = media[v]
        /\ Handed(u) => Handed(u)'
        /\ job'.at = "copy" =>
             Len(media'[u]) = Len(media[u]) + 1 /\ Last(media'[u]) = "husk" /\ (Handed(u)' => Handed(u))
        /\ job'.at # "copy" => Len(media'[u]) = Len(media[u])
        /\ job'.at = "hand" /\ Handed(u)' => Handed(u)
        /\ job'.at = "clean" => (job'.ok => Handed(u)') /\ (job'.ok \/ media' = media)
    <2>1. CASE job.at = "insert" /\ job'.at = "copy"
      <3>1. media' = [media EXCEPT ![u] = Append(media[u], "husk")]
        BY <1>4, <2>1
      <3>2. /\ Append(media[u], "husk") \in Seq({"husk", "stored", "handed"})
            /\ Len(Append(media[u], "husk")) = Len(media[u]) + 1 /\ Last(Append(media[u], "husk")) = "husk"
            /\ Contains(Append(media[u], "husk"), "handed") <=> Contains(media[u], "handed")
        BY <1>2, AppendFacts
      <3> QED
        BY <1>1, <2>1, <3>1, <3>2 DEF TypeOK, Handed
    <2>2. CASE media' = media /\ job'.at = "clean" /\ ~job'.ok
      BY <1>1, <2>2 DEF TypeOK, Handed
    <2>3. ASSUME NEW x \in {"stored", "handed"},
                 media' = [media EXCEPT ![u] = [media[u] EXCEPT ![Len(media[u])] = x]],
                 job.at \in {"update", "hand"}
          PROVE  /\ media' \in [Upload -> Seq({"husk", "stored", "handed"})]
                 /\ \A v \in Upload : v # u => media'[v] = media[v]
                 /\ Len(media'[u]) = Len(media[u]) /\ (x = "handed" => Handed(u)')
                 /\ job.at = "update" /\ Handed(u) => Handed(u)'
                 /\ x = "stored" /\ Handed(u)' => Handed(u)
      <3> DEFINE States == {"husk", "stored", "handed"}
                 m == media[u]
                 t == WithLast(m, x)
      <3>1. m \in Seq(States) /\ Len(m) > 0 /\ x \in States /\ (job.at = "update" => Last(m) = "husk")
        BY <1>1, <1>2, <2>3 DEF UploadIInv, JobOk
      <3>2. media' = [media EXCEPT ![u] = t]
        BY <2>3 DEF WithLast
      <3>3. /\ t \in Seq(States) /\ Len(t) = Len(m) /\ Contains(t, x)
            /\ \A y : Contains(m, y) /\ Last(m) # y => Contains(t, y)
            /\ \A y : Contains(t, y) /\ y # x => Contains(m, y)
        <4> HIDE DEF States, m
        <4>1. t \in Seq(States) /\ Len(t) = Len(m)
          BY <3>1, LastFacts
        <4>2. Contains(t, x)
          BY <3>1, LastFacts
        <4>3. \A y : Contains(m, y) /\ Last(m) # y => Contains(t, y)
          BY <3>1, LastFacts
        <4>4. \A y : Contains(t, y) /\ y # x => Contains(m, y)
          BY <3>1, LastFacts
        <4> QED
          BY <4>1, <4>2, <4>3, <4>4
      <3> HIDE DEF States, t
      <3> QED
        BY <1>1, <3>1, <3>2, <3>3 DEF TypeOK, Handed, States
    <2>4. CASE job.at = "update" /\ job'.at = "hand"
      BY <1>4, <2>3, <2>4
    <2>5. CASE job.at = "hand" /\ job'.ok /\ job'.at = "clean"
      BY <1>4, <2>3, <2>5 DEF Handed
    <2> QED
      BY <1>1, <1>4, <2>1, <2>2, <2>4, <2>5 DEF UploadIInv, JobOk, BeforeClean
  <1>6. JobOk'
    BY <1>1, <1>2, <1>3, <1>4, <1>5 DEF UploadIInv, JobOk, BeforeClean
  <1>7. SweepOk'
    BY <1>3 DEF UploadIInv, SweepOk
  <1>8. MediaOk(u)'
    <2>1. job.at = "insert" => Len(media[u]) <= Allowed
      BY <1>1 DEF UploadIInv, JobOk
    <2>2. Allowed' \in Nat /\ Allowed <= Allowed'
      BY <1>3 DEF Allowed
    <2>3. /\ Len(media'[u]) <= 1 + Allowed'
          /\ Worked(u)' /\ job'.at \in {"copy", "update", "hand", "clean"}
      BY <1>1, <1>2, <1>3, <1>4, <1>5, <2>1, <2>2 DEF UploadIInv, MediaOk, Worked
    <2> QED
      BY <1>1, <1>3, <1>5, <2>3 DEF UploadIInv, MediaOk
  <1>9. TraceOk(u)'
    <2>1. Calm(u)' => Calm(u) /\ faults' = faults
      BY <1>3, <1>4 DEF Calm
    <2>2. (Queued(u)' <=> Queued(u)) /\ \A a \in Handler : Queueing(a, u)' <=> Queueing(a, u)
      BY <1>3 DEF Queued, Queueing
    <2>3. Calm(u) => /\ ~Queued(u) /\ ~Contains(stream, u) /\ ~Handed(u) /\ status[u] # "failed"
                     /\ \A a, b \in Handler : Queueing(a, u) /\ Queueing(b, u) => a = b
      BY <1>1, <1>4 DEF UploadIInv, TraceOk, Worked, BeforeClean
    <2>5. Calm(u)' => (job'.at \in BeforeClean => ~Handed(u)') /\ (job'.ok \/ ~Handed(u)')
      BY <1>4, <1>5, <2>1, <2>3 DEF Handed, BeforeClean
    <2> QED
      BY <1>3, <2>1, <2>2, <2>3, <2>5 DEF TraceOk, Worked
  <1>10. WaitOk(u)'
    BY <1>1, <1>3, <1>4 DEF UploadIInv, WaitOk, Marking, Worked, Entered, Queued, Queueing
  <1> QED
    BY <1>1, <1>3, <1>5, <1>6, <1>7, <1>8, <1>9, <1>10, JobKeeps DEF TypeOK

\* The outcome, and the errors that end a job without one.
LEMMA OutcomeKeeps ==
    ASSUME UploadIInv, Settle \/ SettleFails \/ MarkFails \/ Unlist
    PROVE  UploadIInv'
  <1>1. PICK u \in Upload : TypeOK /\ job # Null /\ job.upload = u
    BY DEF UploadIInv, TypeOK, Job, Settle, SettleFails, MarkFails, Unlist, Doing
  <1>2. /\ UNCHANGED <<dir, part, media, stream, left, ask, sweep, asked>>
        /\ faults \subseteq faults' /\ faults' \subseteq Faults
        /\ cut \subseteq cut' /\ cut' \subseteq Upload
        /\ status' \in [Upload -> Status] /\ active' \subseteq Upload
        /\ \A v \in Upload : v # u => status'[v] = status[v] /\ (v \in active' <=> v \in active)
        /\ job' \in Job /\ job' # Null /\ job'.upload = u
    BY <1>1, JobFacts DEF TypeOK, Settle, SettleFails, MarkFails, Unlist, Doing, Set, Status, Fault, Faults,
       JobSteps, BeforeClean, session, redis, past
  <1>3. \/ /\ job.at = "settle" /\ job'.at = "unlist" /\ faults' = faults /\ cut' = cut
           /\ status'[u] = IF job.ok THEN "completed" ELSE "failed"
        \/ /\ job.at = "settle" /\ job'.at = "settle" /\ ~job'.ok /\ status' = status /\ active' = active
           /\ "redis" \in faults' /\ cut' = cut
        \/ /\ job.at \in {"settle", "mark"} /\ job'.at = "ack" /\ u \in cut' /\ "redis" \in faults'
           /\ status' = status /\ active' = active
        \/ /\ job.at = "unlist" /\ job'.at = "ack" /\ status' = status /\ faults' = faults /\ cut' = cut
    BY <1>1, JobFacts DEF TypeOK, Settle, SettleFails, MarkFails, Unlist, Doing, Set, Fault,
       JobSteps, BeforeClean, redis, past
  <1>4. JobOk'
    BY <1>1, <1>2, <1>3 DEF UploadIInv, JobOk, BeforeClean
  <1>5. SweepOk'
    BY <1>1, <1>2, <1>3 DEF UploadIInv, SweepOk, JobOk, TypeOK, Sweep, Waiting
  <1>6. MediaOk(u)'
    <2>1. Len(media[u]) \in Nat /\ Allowed' \in Nat /\ Allowed \in Nat /\ Allowed <= Allowed'
      BY <1>1, <1>2 DEF TypeOK, Allowed
    <2> QED
      BY <1>1, <1>2, <1>3, <2>1 DEF UploadIInv, MediaOk, JobOk, Handed, Worked
  <1>7. TraceOk(u)'
    BY <1>1, <1>2, <1>3 DEF UploadIInv, TraceOk, Calm, Handed, Worked, Queued, Queueing, BeforeClean
  <1>8. WaitOk(u)'
    BY <1>1, <1>2, <1>3 DEF UploadIInv, WaitOk, Marking, Worked, Entered, Queued, Queueing, Waiting
  <1> QED
    BY <1>1, <1>2, <1>4, <1>5, <1>6, <1>7, <1>8, JobKeeps DEF TypeOK

\* The end of the job, acknowledged or left for the next worker.
LEMMA JobEndKeeps ==
    ASSUME UploadIInv, Acknowledge \/ AcknowledgeFails \/ WorkerCrash
    PROVE  UploadIInv'
  <1>1. PICK u \in Upload : TypeOK /\ job # Null /\ job.upload = u
    BY DEF UploadIInv, TypeOK, Job, Acknowledge, AcknowledgeFails, WorkerCrash, Doing
  <1>2. /\ UNCHANGED <<dir, part, status, active, media, stream, ask, sweep, asked, cut>> /\ job' = Null
        /\ \/ job.at = "ack" /\ faults' = faults /\ left' = left
           \/ job.at = "ack" /\ "redis" \in faults' /\ left' = Append(left, u)
           \/ "worker" \in faults' /\ "worker" \notin faults /\ left' = Append(left, u)
        /\ faults \subseteq faults' /\ faults' \subseteq Faults
    BY <1>1 DEF TypeOK, Acknowledge, AcknowledgeFails, WorkerCrash, Doing, Fault, Faults, session, redis, past
  <1>3. /\ left' \in Seq(Upload)
        /\ \A v \in Upload : Entered(v) => Entered(v)'
        /\ \A v \in Upload : v # u /\ Entered(v)' => Entered(v)
        /\ left' = left \/ Entered(u)'
    <2>1. CASE left' = left
      BY <1>1, <1>2, <2>1 DEF TypeOK, Entered
    <2>2. CASE left' = Append(left, u)
      <3>1. left \in Seq(Upload)
        BY <1>1 DEF TypeOK
      <3>2. left' \in Seq(Upload) /\ \A v : Contains(left', v) <=> Contains(left, v) \/ v = u
        BY <2>2, <3>1, AppendFacts
      <3> QED
        BY <1>2, <3>2 DEF Entered
    <2> QED
      BY <1>2, <2>1, <2>2
  <1>4. TypeOK'
    BY <1>1, <1>2, <1>3 DEF TypeOK
  <1>5. JobOk' /\ SweepOk' /\ LeftOk'
    BY <1>2 DEF UploadIInv, JobOk, SweepOk, LeftOk
  <1>6. ASSUME NEW a \in Handler PROVE AskOk(a)'
    BY <1>2 DEF UploadIInv, AskOk
  <1>7. asked[u] # 0
    BY <1>1 DEF UploadIInv, YoungOk, Worked
  <1>8. ASSUME NEW v \in Upload PROVE YoungOk(v)'
    BY <1>2, <1>3, <1>7 DEF UploadIInv, YoungOk, Queued, Queueing, Worked
  <1>9. ASSUME NEW v \in Upload PROVE MediaOk(v)' /\ TraceOk(v)'
    <2>1. Len(media[v]) \in Nat /\ Allowed' \in Nat /\ Allowed \in Nat /\ Allowed <= Allowed'
      BY <1>1, <1>2 DEF TypeOK, Allowed
    <2>2. "worker" \in faults' /\ "worker" \notin faults => Len(media[v]) <= Allowed'
      BY <2>1 DEF UploadIInv, MediaOk, Allowed
    <2>3. MediaOk(v)'
      BY <1>1, <1>2, <2>1, <2>2 DEF UploadIInv, MediaOk, Handed, Worked
    <2>4. TraceOk(v)'
      BY <1>2 DEF UploadIInv, TraceOk, Calm, Handed, Worked, Queued, Queueing
    <2> QED
      BY <2>3, <2>4
  <1>10. ASSUME NEW v \in Upload PROVE WaitOk(v)'
    <2>1. Queued(v)' <=> Queued(v)
      BY <1>2 DEF Queued, Queueing
    <2>2. v \notin cut /\ status[v] \in Waiting => Entered(v)' \/ Queued(v)
      BY <1>1, <1>2, <1>3 DEF UploadIInv, WaitOk, Marking, Worked, Queued, Queueing
    <2>3. Queued(v)' => Marking(v)'
      BY DEF Queued, Queueing, Marking
    <2> QED
      BY <1>2, <2>1, <2>2, <2>3 DEF WaitOk, Worked
  <1> QED
    BY <1>4, <1>5, <1>6, <1>8, <1>9, <1>10 DEF UploadIInv

-----------------------------------------------------------------------------
(* The sweep, time, a new upload and a stop of the server *)

LEMMA SweepKeeps ==
    ASSUME UploadIInv, (\E u \in Upload : SweepLook(u)) \/ SweepStatus \/ SweepStat \/ SweepRemove
    PROVE  UploadIInv'
  <1>1. /\ TypeOK /\ SweepOk
        /\ \A a \in Handler : ask[a] # Null => dir[ask[a].upload] # "new" /\ AskOk(a)
    BY DEF UploadIInv, TypeOK, Request, YoungOk
  <1>2. sweep # Null => sweep.upload \in Upload /\ dir[sweep.upload] # "new"
    BY DEF UploadIInv, TypeOK, Sweep, YoungOk
  <1>3. /\ UNCHANGED <<status, stream, left, job, media, past, active, ask>>
        /\ dir' \in [Upload -> {"new", "open", "gone"}] /\ part' \in [Upload -> SUBSET Chunk]
        /\ \A u \in Upload : dir'[u] = dir[u] \/ (dir[u] # "new" /\ dir'[u] = "gone")
    BY <1>1, <1>2 DEF TypeOK, SweepLook, SweepStatus, SweepStat, SweepRemove, RemoveDir, session, redis
  <1>4. /\ sweep' \in Sweep \union {Null} /\ SweepOk'
        /\ sweep' # Null => dir[sweep'.upload] # "new"
    <2>1. CASE \E u \in Upload : SweepLook(u)
      <3>1. PICK u \in Upload : SweepLook(u)
        BY <2>1
      <3>2. /\ sweep' \in Sweep /\ sweep'.upload = u /\ sweep'.at = "status" /\ dir[u] = "open"
            /\ sweep'.busy => status[u] \in Waiting
        BY <3>1 DEF SweepLook, Sweep, InUse
      <3> QED
        BY <1>3, <3>2 DEF SweepOk
    <2>2. CASE SweepStatus
      <3>1. CASE sweep' = Null
        BY <3>1 DEF SweepOk
      <3>2. CASE sweep' = [sweep EXCEPT !.at = "stat"]
        <4>1. sweep \in Sweep /\ sweep.at = "status" /\ status[sweep.upload] \notin Waiting
              /\ UNCHANGED <<dir, faults>>
          BY <1>1, <2>2, <3>2, NobodyAssumption
             DEF SweepStatus, SweepOn, InUse, TypeOK, Sweep, session, past
        <4>2. sweep' \in Sweep /\ sweep'.upload = sweep.upload /\ sweep'.at = "stat" /\ sweep'.busy = sweep.busy
          BY <3>2, <4>1 DEF Sweep
        <4> QED
          BY <1>1, <1>2, <4>1, <4>2, NobodyAssumption DEF SweepOk
      <3> QED
        BY <2>2, <3>1, <3>2 DEF SweepStatus, SweepOn
    <2>3. CASE SweepStat
      <3>1. CASE sweep' = Null
        BY <3>1 DEF SweepOk
      <3>2. CASE sweep' = [sweep EXCEPT !.at = "rm"]
        <4>1. sweep \in Sweep /\ sweep.at = "stat" /\ dir[sweep.upload] = "open"
              /\ UNCHANGED <<dir, faults>>
          BY <1>1, <2>3, <3>2, NobodyAssumption DEF SweepStat, SweepOn, TypeOK, Sweep, session, past
        <4>2. sweep' \in Sweep /\ sweep'.upload = sweep.upload /\ sweep'.at = "rm" /\ sweep'.busy = sweep.busy
          BY <3>2, <4>1 DEF Sweep
        <4> QED
          BY <1>1, <1>2, <4>1, <4>2, NobodyAssumption DEF SweepOk
      <3> QED
        BY <2>3, <3>1, <3>2 DEF SweepStat, SweepOn
    <2>4. CASE SweepRemove
      BY <2>4 DEF SweepRemove, SweepOk
    <2> QED
      BY <2>1, <2>2, <2>3, <2>4
  <1>5. \A a \in Handler : AskOk(a)'
    BY <1>1, <1>3 DEF AskOk, past, TypeOK, Request
  <1> QED
    BY <1>1, <1>3, <1>4, <1>5, QuietKeeps DEF TypeOK, Queueing

LEMMA PostUploadKeeps ==
    ASSUME UploadIInv, NEW u \in Upload, PostUpload(u)
    PROVE  UploadIInv'
  <1>1. /\ TypeOK /\ dir[u] = "new" /\ media[u] = <<>> /\ ~Worked(u)
        /\ \A a \in Handler : ask[a] # Null => ask[a].upload # u
        /\ sweep # Null => sweep.upload # u
    BY DEF UploadIInv, PostUpload, YoungOk
  <1>2. /\ UNCHANGED <<part, status, active, stream, left, job, media, ask, sweep, asked, cut, faults>>
        /\ dir' \in [Upload -> {"new", "open", "gone"}] /\ dir'[u] = "open"
        /\ \A v \in Upload : v # u => dir'[v] = dir[v]
    BY <1>1 DEF PostUpload, TypeOK, redis, past
  <1>3. TypeOK'
    BY <1>1, <1>2 DEF TypeOK
  <1>4. JobOk'
    BY <1>1, <1>2 DEF UploadIInv, TypeOK, Job, JobOk, Worked, Allowed, Handed
  <1>5. SweepOk' /\ LeftOk'
    BY <1>1, <1>2 DEF UploadIInv, TypeOK, Sweep, SweepOk, LeftOk
  <1>6. ASSUME NEW a \in Handler PROVE AskOk(a)'
    BY <1>1, <1>2 DEF UploadIInv, TypeOK, Request, AskOk
  <1>7. ASSUME NEW v \in Upload PROVE YoungOk(v)' /\ MediaOk(v)' /\ TraceOk(v)' /\ WaitOk(v)'
    <2>1. YoungOk(v)'
      BY <1>1, <1>2 DEF UploadIInv, YoungOk, Queued, Queueing, Entered, Worked
    <2>2. MediaOk(v)'
      BY <1>1, <1>2, EmptyFacts DEF UploadIInv, MediaOk, Allowed, Handed, Worked
    <2>3. TraceOk(v)'
      BY <1>2 DEF UploadIInv, TraceOk, Calm, Handed, Worked, Queued, Queueing
    <2>4. WaitOk(v)'
      BY <1>2 DEF UploadIInv, WaitOk, Marking, Entered, Worked, Queued, Queueing
    <2> QED
      BY <2>1, <2>2, <2>3, <2>4
  <1> QED
    BY <1>3, <1>4, <1>5, <1>6, <1>7 DEF UploadIInv

LEMMA ExpireKeeps ==
    ASSUME UploadIInv, NEW u \in Upload, Expire(u)
    PROVE  UploadIInv'
  <1>1. /\ TypeOK
        /\ UNCHANGED <<dir, part, active, stream, left, job, media, ask, sweep, asked, cut>>
        /\ faults' = faults \union {"day"} /\ faults' \subseteq Faults
        /\ status' \in [Upload -> Status] /\ status'[u] = "none"
        /\ \A v \in Upload : v # u => status'[v] = status[v]
    BY DEF UploadIInv, Expire, TypeOK, Set, Status, Fault, Faults, session
  <1>2. TypeOK' /\ JobOk' /\ LeftOk' /\ SweepOk'
    BY <1>1 DEF UploadIInv, TypeOK, JobOk, LeftOk, SweepOk, Allowed, Handed
  <1>3. ASSUME NEW a \in Handler PROVE AskOk(a)'
    BY <1>1 DEF UploadIInv, AskOk
  <1>4. ASSUME NEW v \in Upload PROVE YoungOk(v)' /\ MediaOk(v)' /\ TraceOk(v)' /\ WaitOk(v)'
    <2>1. YoungOk(v)'
      BY <1>1 DEF UploadIInv, YoungOk, Queued, Queueing, Entered, Worked
    <2>2. MediaOk(v)'
      BY <1>1 DEF UploadIInv, MediaOk, Allowed, Handed, Worked
    <2>3. TraceOk(v)'
      BY <1>1 DEF UploadIInv, TraceOk, Calm, Handed, Worked, Queued, Queueing
    <2>4. WaitOk(v)'
      BY <1>1 DEF UploadIInv, WaitOk, Marking, Entered, Worked, Queued, Queueing, Waiting
    <2> QED
      BY <2>1, <2>2, <2>3, <2>4
  <1> QED
    BY <1>2, <1>3, <1>4 DEF UploadIInv

LEMMA ServerCrashKeeps ==
    ASSUME UploadIInv, ServerCrash
    PROVE  UploadIInv'
  <1>1. /\ TypeOK
        /\ UNCHANGED <<dir, part, status, active, stream, left, job, media, asked>>
        /\ faults' = faults \union {"server"} /\ faults' \subseteq Faults
        /\ sweep' = Null /\ \A a \in Handler : ask'[a] = Null
        /\ ask' \in [Handler -> Request \union {Null}]
        /\ cut' \subseteq Upload /\ \A v \in Upload : v \in cut' <=> v \in cut \/ Queued(v)
    BY DEF UploadIInv, ServerCrash, TypeOK, Fault, Faults, Queued, Queueing, session, redis
  <1>2. TypeOK' /\ JobOk' /\ LeftOk' /\ SweepOk'
    BY <1>1 DEF UploadIInv, TypeOK, JobOk, LeftOk, SweepOk, Allowed, Handed
  <1>3. ASSUME NEW a \in Handler PROVE AskOk(a)'
    BY <1>1 DEF AskOk
  <1>4. ASSUME NEW v \in Upload PROVE YoungOk(v)' /\ MediaOk(v)' /\ TraceOk(v)' /\ WaitOk(v)'
    <2>1. YoungOk(v)'
      BY <1>1 DEF UploadIInv, YoungOk, Queued, Queueing, Entered, Worked
    <2>2. MediaOk(v)'
      BY <1>1 DEF UploadIInv, MediaOk, Allowed, Handed, Worked
    <2>3. TraceOk(v)'
      BY <1>1 DEF UploadIInv, TraceOk, Calm, Handed, Worked, Queued, Queueing
    <2>4. WaitOk(v)'
      BY <1>1 DEF UploadIInv, WaitOk, Marking, Entered, Worked, Queued, Queueing, Waiting
    <2> QED
      BY <2>1, <2>2, <2>3, <2>4
  <1> QED
    BY <1>2, <1>3, <1>4 DEF UploadIInv

-----------------------------------------------------------------------------
(* The theorems *)

LEMMA UploadIInvInit == Init => UploadIInv
  <1> SUFFICES ASSUME Init PROVE UploadIInv
    OBVIOUS
  <1>1. TypeOK
    BY DEF Init, TypeOK, Status
  <1>2. JobOk /\ LeftOk /\ SweepOk /\ \A a \in Handler : AskOk(a)
    BY DEF Init, JobOk, LeftOk, SweepOk, AskOk
  <1>3. ASSUME NEW u \in Upload PROVE YoungOk(u) /\ MediaOk(u) /\ TraceOk(u) /\ WaitOk(u)
    BY EmptyFacts DEF Init, YoungOk, MediaOk, TraceOk, WaitOk, Queued, Queueing, Entered, Worked, Handed,
       Allowed, Waiting
  <1> QED
    BY <1>1, <1>2, <1>3 DEF UploadIInv

LEMMA UploadIInvNext == UploadIInv /\ [Next]_vars => UploadIInv'
  <1> SUFFICES ASSUME UploadIInv, [Next]_vars PROVE UploadIInv'
    OBVIOUS
  <1>1. CASE \E u \in Upload : PostUpload(u) \/ SweepLook(u) \/ Expire(u)
    BY <1>1, PostUploadKeeps, SweepKeeps, ExpireKeeps
  <1>2. CASE \E a \in Handler :
                \/ \E u \in Upload : PostChunk(a, u) \/ PostComplete(a, u) \/ DeleteUpload(a, u)
                \/ Serve(a) \/ AddFails(a) \/ UndoFails(a)
    <2>1. PICK a \in Handler :
                \/ \E u \in Upload : PostChunk(a, u) \/ PostComplete(a, u) \/ DeleteUpload(a, u)
                \/ Serve(a) \/ AddFails(a) \/ UndoFails(a)
      BY <1>2
    <2>2. CASE StoreChunk(a) \/ ReadStatus(a) \/ ListQueued(a)
      <3>1. PICK u : u \in Upload
        BY <2>2 DEF UploadIInv, TypeOK, Request, StoreChunk, ReadStatus, ListQueued, Asking
      <3> QED
        BY <2>2, <3>1, QuietRequestsKeep
    <2> QED
      BY <2>1, <2>2, QuietRequestsKeep, MarkQueuedKeeps, AddKeeps, UndoKeeps DEF Serve
  <1>3. CASE Work \/ MarkFails \/ SettleFails \/ AcknowledgeFails \/ WorkerCrash
    BY <1>3, TakeKeeps, BeginsKeep, FilesKeep, MediaKeep, OutcomeKeeps, JobEndKeeps DEF Work
  <1>4. CASE SweepStatus \/ SweepStat \/ SweepRemove \/ ServerCrash
    BY <1>4, SweepKeeps, ServerCrashKeeps
  <1>5. CASE UNCHANGED vars
    <2>1. UNCHANGED <<status, stream, left, job, media, past, active, dir, part, ask, sweep>>
      BY <1>5 DEF vars, past
    <2>2. \A a \in Handler : AskOk(a)' /\ (ask[a] # Null => dir[ask[a].upload] # "new")
      BY <2>1 DEF UploadIInv, AskOk, past, TypeOK, Request, YoungOk
    <2>3. SweepOk' /\ (sweep # Null => dir[sweep.upload] # "new")
      BY <2>1 DEF UploadIInv, SweepOk, past, TypeOK, Sweep, YoungOk
    <2> QED
      BY <2>1, <2>2, <2>3, QuietKeeps DEF UploadIInv, TypeOK, Queueing
  <1> QED
    BY <1>1, <1>2, <1>3, <1>4, <1>5 DEF Next

\* The invariant, for any number of uploads, chunks and requests at once and any
\* combination of faults.
THEOREM UploadInvariant == Spec => []UploadIInv
  BY UploadIInvInit, UploadIInvNext, PTL DEF Spec

\* However often an upload is completed, its job delivered or its directory
\* swept or deleted under the worker, it becomes one medium (two if the worker
\* has stopped once), a status of completed means a medium that was handed over,
\* and one of failed, without fault or second completion, that there is none
\* (media.js:375).
THEOREM UploadsAreOnce == Spec => []UploadInv
  <1>1. UploadIInv => UploadInv
    <2> SUFFICES ASSUME UploadIInv PROVE UploadInv
      OBVIOUS
    <2>1. TypeOK /\ CompletedIsStored
      BY DEF UploadIInv, MediaOk, CompletedIsStored, Handed
    <2>2. OneMedium
      BY DEF UploadIInv, MediaOk, OneMedium, Allowed
    <2>3. FailedMadeNothing
      BY DEF UploadIInv, TypeOK, TraceOk, FailedMadeNothing, Handed, Calm
    <2> QED
      BY <2>1, <2>2, <2>3 DEF UploadInv
  <1> QED
    BY <1>1, UploadInvariant, PTL

\* An upload that is said to wait has an entry, a request or the worker behind
\* it and is on the list, whichever handlers stand between which two commands
\* (upload-completion-queue.js:43).
THEOREM WaitingIsServed == Spec => []WaitingIsWorked
  <1>1. UploadIInv => WaitingIsWorked
    BY DEF UploadIInv, WaitOk, WaitingIsWorked, WaitingHasJob, WaitingIsListed, Worked
  <1> QED
    BY <1>1, UploadInvariant, PTL

\* The sweep asks for requests, then for the status, then for the age, one await
\* each; what was in use when it came is spared although everything may change
\* in between (upload-cleanup.js:70).
THEOREM SweepSpares == Spec => SweepSparesWaiting
  <1>1. UploadIInv => [ \A u \in Upload :
          SweepRemove /\ sweep.upload = u /\ status[u] \in Waiting
            => ~sweep.busy \/ faults \intersect {"day", "redis"} # {} ]_vars
    BY DEF UploadIInv, SweepOk, SweepRemove
  <1> QED
    BY <1>1, UploadInvariant, PTL DEF SweepSparesWaiting
=============================================================================

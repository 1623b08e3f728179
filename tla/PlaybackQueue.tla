----------------------------- MODULE PlaybackQueue -----------------------------
(***************************************************************************)
(* The play queue of one address: three Redis keys (the queue, the index   *)
(* of the current medium, a revision) and the routes that change them.     *)
(*                                                                         *)
(* Every tab and device behind the address shares the queue.  Most routes  *)
(* read it, compute the new queue and write it in a transaction, with      *)
(* awaits in between.  An action is one Redis command, or the commands     *)
(* that are sent together, with the code up to the next await; req holds   *)
(* what a handler has read and is about to write.  A request arrives with  *)
(* its first command on these keys; one that is refused before leaves no   *)
(* trace (exclusiveQueueConflict, an invalid or inaccessible medium).      *)
(*                                                                         *)
(* Abstractions: which media a category or the likes hold, and which are   *)
(* accessible, is any choice.  The keys' time to live of seven days ends   *)
(* only while no request runs.  Replies, the window that GET shows, and    *)
(* queue:trigger are left out.                                             *)
(***************************************************************************)
EXTENDS Integers, Sequences, SequencesExt

CONSTANTS
    Media,        \* media ids
    Req,          \* slots for requests in flight (a bound)
    MaxRevision,  \* changes of the queue (a bound)
    NoMedium

ASSUME MediaAssumption == IsFiniteSet(Media) /\ NoMedium \notin Media \union Nat
ASSUME ReqAssumption == IsFiniteSet(Req)
ASSUME MaxRevisionAssumption == MaxRevision \in Nat

VARIABLES
    queue,     \* queue:<ip>, the media ids in order
    index,     \* queue:index:<ip>, counted from 0; NoMedium when there is no key
    revision,  \* queue:revision:<ip>, 0 when there is no key
    req        \* the requests in flight

queueVars == <<queue, index, revision, req>>

-----------------------------------------------------------------------------
(* Queues *)

\* The ids of a queue are distinct.
Queues == {q \in SeqOf(Media, Cardinality(Media)) : IsInjective(q)}

At0(q, i) == q[i + 1]
Has(q, m) == m \in Range(q)
IndexOf(q, m) == (CHOOSE k \in DOMAIN q : q[k] = m) - 1

Clamp(q, i) == IF q = <<>> THEN 0 ELSE Min({Max({i, 0}), Len(q) - 1})

\* Number.parseInt(storedIndex || "0", 10)
Stored(i) == IF i = NoMedium THEN 0 ELSE i

\* currentMediaId of a queue and the index that is stored with it
MediumAt(q, i) == IF q = <<>> THEN NoMedium ELSE At0(q, Clamp(q, Stored(i)))

Without(q, m) == IF Has(q, m) THEN RemoveAt(q, IndexOf(q, m) + 1) ELSE q

\* ids.indexOf(startId), or the beginning
StartIndex(q, start) == IF Has(q, start) THEN IndexOf(q, start) ELSE 0

-----------------------------------------------------------------------------
(* Types *)

Op == {"append", "playNext", "order", "window", "remove", "shuffle", "clear",
       "next", "prev", "select"}

\* Of a request: its next step, what it asked for, what it has read, and
\* what it is about to write.
Request ==
    [op : Op,
     at : {"read", "replace", "delete", "index", "set", "bump"},
     medium : Media \union {NoMedium},
     ids : Queues,
     offset : Nat,
     seenQueue : Queues,
     seenIndex : Nat \union {NoMedium},
     seenLength : Nat,
     newQueue : Queues,
     newIndex : Nat]

QueueTypeOK ==
    /\ queue \in Seq(Media)
    /\ index \in Nat \union {NoMedium}
    /\ revision \in 0..MaxRevision
    /\ req \in [Req -> Request \union {NoMedium}]

QueueInit ==
    /\ queue = <<>> /\ index = NoMedium /\ revision = 0
    /\ req = [r \in Req |-> NoMedium]

At(r, step) == req[r] # NoMedium /\ req[r].at = step
Answer(r) == req' = [req EXCEPT ![r] = NoMedium]

Blank == [op |-> "clear", at |-> "bump", medium |-> NoMedium, ids |-> <<>>, offset |-> 0,
          seenQueue |-> <<>>, seenIndex |-> NoMedium, seenLength |-> 0,
          newQueue |-> <<>>, newIndex |-> 0]

\* A slot for a request, and room for the revisions of all that are in flight.
Free(r) ==
    /\ req[r] = NoMedium
    /\ revision + Cardinality({p \in Req : req[p] # NoMedium}) < MaxRevision

Go(r, request) == req' = [req EXCEPT ![r] = request]
GoBump(r) == Go(r, Blank)

-----------------------------------------------------------------------------
(* What the routes make of the queue *)

\* The members of both queues come in the same order.
SameOrder(p, q, members) ==
    \A a, b \in members : IndexOf(p, a) < IndexOf(p, b) <=> IndexOf(q, a) < IndexOf(q, b)

\* What ids.filter leaves of ids when only the given ones pass: one queue.
Filtered(ids, passing) == {q \in Queues : Range(q) = passing /\ SameOrder(q, ids, passing)}

AppendedTo(q, ids) == {q \o added : added \in Filtered(ids, Range(ids) \ Range(q))}

PlayedNext(q, current, m) ==
    LET rest == Without(q, m)
    IN InsertAt(rest, IF current = NoMedium THEN 1 ELSE IndexOf(rest, current) + 2, m)

SameMembers(ids, others) == Len(ids) = Len(others) /\ Range(ids) \subseteq Range(others)

\* existing in PUT /window/order: the part of the queue that is reordered
Window(q, offset, ids) == SubSeq(q, offset + 1, Min({offset + Len(ids), Len(q)}))

\* A mutant of Spliced that forgets that offsets are counted from 0.
SplicedOff(q, offset, ids) ==
    SubSeq(q, 1, offset) \o ids \o SubSeq(q, offset + Len(ids) + 2, Len(q))

Spliced(q, offset, ids) ==
    SubSeq(q, 1, offset) \o ids \o SubSeq(q, offset + Len(ids) + 1, Len(q))

\* A mutant of IndexAfterRemoval that leaves the index where it was.
IndexKept(q, i, m) == Clamp(Without(q, m), i)

IndexAfterRemoval(q, i, m) ==
    Clamp(Without(q, m), IF IndexOf(q, m) < i THEN i - 1 ELSE i)

ShufflesOf(q, m) == {<<m>> \o rest : rest \in {s \in Queues : SameMembers(s, Without(q, m))}}

CurrentMedium == MediumAt(queue, index)

\* The queue and the index have been read; q and i will be written.
Plan(r, request, q, i) ==
    Go(r, [request EXCEPT !.at = "replace", !.seenQueue = queue, !.seenIndex = index,
                          !.newQueue = q, !.newIndex = i])
Rewrite(r, request, q) == Plan(r, request, q, StartIndex(q, CurrentMedium))

-----------------------------------------------------------------------------
(* Requests: the first command of each route *)

\* POST /auto, /auto/likes and /auto/:categoryId replace the queue unread.
AutoQueue(r) ==
    /\ Free(r)
    /\ \E ids \in Queues \ {<<>>}, start \in Media \union {NoMedium} :
          queue' = ids /\ index' = StartIndex(ids, start)
    /\ GoBump(r)
    /\ UNCHANGED revision

\* POST /items/likes and /items/category/:categoryId
AppendAll(r) ==
    /\ Free(r)
    /\ \E ids \in Queues \ {<<>>} :
          \E q \in AppendedTo(queue, ids) :
             Rewrite(r, [Blank EXCEPT !.op = "append", !.ids = ids], q)
    /\ UNCHANGED <<queue, index, revision>>

PlayNext(r) ==
    /\ Free(r)
    /\ \E m \in Media \ {CurrentMedium} :
          Rewrite(r, [Blank EXCEPT !.op = "playNext", !.medium = m],
                  PlayedNext(queue, CurrentMedium, m))
    /\ UNCHANGED <<queue, index, revision>>

Order(r) ==
    /\ Free(r)
    /\ \E ids \in Queues :
          SameMembers(ids, queue) /\ Rewrite(r, [Blank EXCEPT !.op = "order"], ids)
    /\ UNCHANGED <<queue, index, revision>>

\* PUT /window/order first compares revisions: here the client's is the
\* current one.  Then it reads the queue.
OrderWindow(r) ==
    /\ Free(r)
    /\ Go(r, [Blank EXCEPT !.op = "window", !.at = "read"])
    /\ UNCHANGED <<queue, index, revision>>

ReadWindow(r) ==
    /\ At(r, "read")
    /\ \/ \E ids \in Queues \ {<<>>}, offset \in 0..Len(queue) :
             /\ SameMembers(ids, Window(queue, offset, ids))
             /\ Rewrite(r, [req[r] EXCEPT !.ids = ids, !.offset = offset],
                        Spliced(queue, offset, ids))
       \/ Answer(r)
    /\ UNCHANGED <<queue, index, revision>>

RemoveItem(r) ==
    /\ Free(r)
    /\ \E m \in Range(queue) :
          Plan(r, [Blank EXCEPT !.op = "remove", !.medium = m], Without(queue, m),
               IndexAfterRemoval(queue, Clamp(queue, Stored(index)), m))
    /\ UNCHANGED <<queue, index, revision>>

Shuffle(r) ==
    /\ Free(r) /\ Len(queue) > 1
    /\ \E q \in ShufflesOf(queue, CurrentMedium) :
          Rewrite(r, [Blank EXCEPT !.op = "shuffle"], q)
    /\ UNCHANGED <<queue, index, revision>>

Clear(r) ==
    /\ Free(r)
    /\ Go(r, [Blank EXCEPT !.at = "delete", !.seenQueue = queue])
    /\ UNCHANGED <<queue, index, revision>>

\* A mutant of AddItem that does not look whether the medium is there.
AddAgain(r) ==
    /\ Free(r)
    /\ \E m \in Media : queue' = Append(queue, m)
    /\ index' = IF queue = <<>> THEN 0 ELSE index
    /\ GoBump(r)
    /\ UNCHANGED revision

\* The script of POST /items
AddItem(r) ==
    /\ Free(r)
    /\ \E m \in Media : queue' = IF Has(queue, m) THEN queue ELSE Append(queue, m)
    /\ index' = IF queue = <<>> THEN 0 ELSE index
    /\ GoBump(r)
    /\ UNCHANGED revision

GoNext(r) ==
    /\ Free(r) /\ queue # <<>>
    /\ Go(r, [Blank EXCEPT !.op = "next", !.at = "index", !.seenLength = Len(queue)])
    /\ UNCHANGED <<queue, index, revision>>

GoPrev(r) ==
    /\ Free(r) /\ Stored(index) > 0
    /\ Go(r, [Blank EXCEPT !.op = "prev", !.at = "set", !.newIndex = Stored(index) - 1])
    /\ UNCHANGED <<queue, index, revision>>

Select(r) ==
    /\ Free(r)
    /\ \E m \in Range(queue) :
          Go(r, [Blank EXCEPT !.op = "select", !.at = "set", !.newIndex = IndexOf(queue, m)])
    /\ UNCHANGED <<queue, index, revision>>

-----------------------------------------------------------------------------
(* The other commands *)

\* The transaction of replaceQueue and of DELETE /items/:mediaId.  Appending
\* nothing is no change for the revision.
Replace(r) ==
    /\ At(r, "replace")
    /\ queue' = req[r].newQueue
    /\ index' = IF req[r].newQueue = <<>> THEN NoMedium ELSE req[r].newIndex
    /\ IF req[r].op = "append" /\ req[r].newQueue = req[r].seenQueue
         THEN Answer(r) ELSE GoBump(r)
    /\ UNCHANGED revision

\* DELETE /
Delete(r) ==
    /\ At(r, "delete")
    /\ queue' = <<>> /\ index' = NoMedium
    /\ IF req[r].seenQueue = <<>> THEN Answer(r) ELSE GoBump(r)
    /\ UNCHANGED revision

\* POST /next reads the index after the length of the queue.
Advance(r) ==
    /\ At(r, "index")
    /\ LET i == Stored(index)
       IN Go(r, [req[r] EXCEPT !.at = "set", !.seenIndex = i,
                               !.newIndex = Min({i + 1, req[r].seenLength - 1})])
    /\ UNCHANGED <<queue, index, revision>>

\* The SET of POST /next, /prev and /select
SetIndex(r) ==
    /\ At(r, "set")
    /\ index' = req[r].newIndex
    /\ IF req[r].op = "next" /\ req[r].newIndex = req[r].seenIndex
         THEN Answer(r) ELSE GoBump(r)
    /\ UNCHANGED <<queue, revision>>

Bump(r) ==
    /\ At(r, "bump")
    /\ revision' = revision + 1
    /\ Answer(r)
    /\ UNCHANGED <<queue, index>>

\* The server stops, or a call fails.
Abort(r) ==
    /\ req[r] # NoMedium
    /\ Answer(r)
    /\ UNCHANGED <<queue, index, revision>>

Expire ==
    /\ \A r \in Req : req[r] = NoMedium
    /\ queue' = <<>> /\ index' = NoMedium
    /\ revision' \in {revision, 0}
    /\ UNCHANGED req

-----------------------------------------------------------------------------

Arrive(r) ==
    \/ AutoQueue(r) \/ AppendAll(r) \/ PlayNext(r) \/ Order(r) \/ OrderWindow(r)
    \/ RemoveItem(r) \/ Shuffle(r) \/ Clear(r) \/ AddItem(r)
    \/ GoNext(r) \/ GoPrev(r) \/ Select(r)

Continue(r) ==
    \/ ReadWindow(r) \/ Replace(r) \/ Delete(r) \/ Advance(r) \/ SetIndex(r) \/ Bump(r)

QueueNext == (\E r \in Req : Arrive(r) \/ Continue(r) \/ Abort(r)) \/ Expire

QueueSpec == QueueInit /\ [][QueueNext]_queueVars

-----------------------------------------------------------------------------
(* Properties *)

\* However the requests of several tabs interleave, no medium is queued twice
\* (the routes read, compute and write; POST /items looks and pushes).
UniqueItems == IsInjective(queue)

\* Nobody changed the queue between what the handler read and what it writes.
Undisturbed(r) ==
    At(r, "replace") /\ queue = req[r].seenQueue /\ index = req[r].seenIndex

\* Where the player is after the request o rewrote the queue q with index i:
\* the current medium stays, also when the index that was stored points behind
\* the queue; when it is removed, the one behind it comes in its place, or the
\* last.
CurrentAfter(o, q, i) ==
    LET k == Clamp(q, Stored(i))
        current == MediumAt(q, i)
    IN IF o.op # "remove" \/ o.medium # current THEN current
       ELSE IF Len(q) = 1 THEN NoMedium
       ELSE IF k + 1 < Len(q) THEN At0(q, k + 1) ELSE At0(q, k - 1)

\* What the request o asked for is added or removed and nothing else, and the
\* others keep their order unless it was to change it; what is to play next
\* comes right behind the current medium, and a window is reordered within its
\* bounds.
AsAsked(o, before, i, after) ==
    LET others == Range(before) \ {o.medium}
    IN CASE o.op \in {"order", "shuffle"} -> SameMembers(after, before)
         [] o.op = "window" ->
              /\ SameMembers(after, before)
              /\ \A k \in DOMAIN before :
                    k <= o.offset \/ k > o.offset + Len(o.ids) => after[k] = before[k]
         [] o.op = "append" ->
              /\ Range(after) = Range(before) \union Range(o.ids)
              /\ IsPrefix(before, after)
         [] o.op = "playNext" ->
              /\ Range(after) = Range(before) \union {o.medium}
              /\ SameOrder(after, before, others)
              /\ before # <<>> =>
                   IndexOf(after, o.medium) = IndexOf(after, MediumAt(before, i)) + 1
         [] o.op = "remove" ->
              /\ Range(after) = others
              /\ SameOrder(after, before, others)
         [] OTHER -> TRUE

\* A rewrite that nobody disturbed (queue.js:566) does what was asked for and
\* leaves the player at the medium it was at.
RewritesAsAsked ==
    [][ \A r \in Req :
          Undisturbed(r) /\ Replace(r) =>
            /\ AsAsked(req[r], queue, index, queue')
            /\ CurrentMedium # NoMedium => CurrentMedium' = CurrentAfter(req[r], queue, index) ]_queueVars

\* What holds of the stored queue after any races: types, and no medium twice
\* (queue.js:439).
QueueInv == QueueTypeOK /\ UniqueItems
=============================================================================

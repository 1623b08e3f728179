---------------------------- MODULE Clients_proofs ----------------------------
(***************************************************************************)
(* Proofs about what runs on the clients beside the players.               *)
(*                                                                         *)
(* PlaybackFeed: that news of the last revision reaches every tab that     *)
(* reads, and what a link may carry.  Of the lease's last revision there   *)
(* is, for the client's connection once the hub has accepted it, news on   *)
(* the wire, news held back for a slow reader, or a client that has shown  *)
(* it; and news of the last revision tells the truth, because every change *)
(* of the lease raises the revision.  A client that remembers revisions of *)
(* a server before a restart has the greeting still to read, which resets  *)
(* them.  Upwards, the reports of one session ascend on every link, are    *)
(* never below what the hub's entry took last, and stand behind the bind   *)
(* that precedes them; the latest report of the holder is the last it said.*)
(*                                                                         *)
(* OfflineDownloads: that rows, files and server agree as far as the phone *)
(* can know, and that no queued job is forgotten.  The invariant says of   *)
(* each step of a job which files there may be, that the job knows the row *)
(* it found until it writes its own, and that a removal has its track to   *)
(* itself; and that versions only grow until one is withdrawn for good, so *)
(* that what was judged stale remains so however late the answer is        *)
(* written.                                                                *)
(***************************************************************************)
EXTENDS PlaybackFeed, OfflineDownloads, SequenceTheorems, TLAPS

-----------------------------------------------------------------------------
(* The feed: the invariant *)

Owners == Tab \union {Other, Nothing}
Truth(h) == IF h = Nothing THEN "available" ELSE IF h \in Tab THEN "owned" ELSE "busy"

\* News of the last revision tells the truth.
NewsTrue(n, h, rev) == n.revision <= rev /\ (n.revision = rev => n.state = Truth(h))
DownTrue(e, h, rev) ==
    /\ \A i \in 1..Len(e.down) : e.down[i].type = "lease.state" => NewsTrue(e.down[i], h, rev)
    /\ e.held # Nothing => NewsTrue(e.held, h, rev)

\* News of the last revision is under way.
Coming(e, rev) ==
    \/ \E i \in 1..Len(e.down) : e.down[i].type = "lease.state" /\ e.down[i].revision = rev
    \/ e.held # Nothing /\ e.held.revision = rev

\* The greeting is the first of what the client reads, or has been read.
Greeted(d) == \A i \in 1..Len(d) : d[i].type # "socket.ready"
Greeting(d) ==
    /\ d # <<>> /\ d[1].type = "socket.ready"
    /\ \A i \in 2..Len(d) : d[i].type # "socket.ready"

\* Reports of a session are sent in the order of their numbers.
InOrder(u) ==
    \A i, j \in 1..Len(u) :
        /\ i <= j /\ u[i].type = "playback.state" /\ u[j].type = "playback.state"
        /\ u[i].session = u[j].session
        => u[i].sequence <= u[j].sequence
NotBelow(u, s, n) ==
    \A i \in 1..Len(u) : u[i].type = "playback.state" /\ u[i].session = s => n <= u[i].sequence
NotAbove(u, s, n) ==
    \A i \in 1..Len(u) : u[i].type = "playback.state" /\ u[i].session = s => u[i].sequence <= n
Speaks(m) == m.type = "session.bind" \/ m.type = "playback.state"
KnownOnly(u, known) == \A i \in 1..Len(u) : Speaks(u[i]) => u[i].session \in known
Silent(u) == \A i \in 1..Len(u) : u[i].type # "auth"

LinkOk(e, h, known) ==
    /\ e.bound \in {Nothing, h}
    /\ e.revoked # Nothing => e.revoked \in known /\ e.revoked # h
    /\ KnownOnly(e.up, known) /\ InOrder(e.up) /\ (e.bound # Nothing => NotBelow(e.up, e.bound, e.sequence))
    /\ e.ready => Silent(e.up)
    /\ ~e.ready => e.bound = Nothing /\ e.down = <<>> /\ e.held = Nothing
                   /\ Len(e.up) <= 1 /\ \A i \in 1..Len(e.up) : e.up[i].type = "auth"

\* The bind of a session comes before its reports, and its latest report is the
\* last of what is said of it.
BindUnderWay(u, s) ==
    \E i \in 1..Len(u) : /\ u[i].type = "session.bind" /\ u[i].session = s
                         /\ \A j \in 1..i : u[j].type = "playback.state" => u[j].session # s
LatestUnderWay(u, s, latest) ==
    \E i \in 1..Len(u) : u[i] = latest /\ \A j \in (i + 1)..Len(u) : Speaks(u[j]) => u[j].session # s
NothingUnderWay(u, s) == \A i \in 1..Len(u) : Speaks(u[i]) => u[i].session # s

HolderOk(e, svc) ==
    LET s == svc.session IN
    /\ e.bound = s => e.sequence <= svc.sequence
    /\ e.bound = s \/ BindUnderWay(e.up, s)
    /\ svc.latest # Nothing =>
          \/ LatestUnderWay(e.up, s, svc.latest)
          \/ NothingUnderWay(e.up, s) /\ e.bound = s /\ e.playing = (svc.latest.action = "play")

\* The entry of the client's connection, before and after the client has read
\* the greeting.
ClosedOk(e) == e.ready => e.up = <<>> /\ e.bound = Nothing /\ Greeting(e.down)
OpenOk(e, h, rev, svc, last, told) ==
    /\ e.ready /\ Greeted(e.down)
    /\ last # Nothing => NewsTrue([revision |-> last, state |-> told], h, rev)
    /\ svc.session # Nothing => NotAbove(e.up, svc.session, svc.sequence)
    /\ svc.session # Nothing /\ svc.session = h => HolderOk(e, svc)

FeedOk(e, h, rev, st, last) == e.ready => DownTrue(e, h, rev) /\ (Coming(e, rev) \/ (st = "ready" /\ last = rev))

CurrentOk(e, h, rev, st, svc, last, told) ==
    /\ FeedOk(e, h, rev, st, last)
    /\ st = "closed" => ClosedOk(e)
    /\ st = "ready" => OpenOk(e, h, rev, svc, last, told)

WorldOk ==
    /\ holder \in Tab => holder \in made
    /\ service.session # Nothing => service.session \in made
    /\ player.session # Nothing => service.session = player.session
    /\ service.latest # Nothing =>
          service.session # Nothing /\ service.latest.session = service.session
          /\ service.latest.sequence = service.sequence
    /\ current = Nothing => status = "closed"

LinksOk == \A l \in Link : link[l] # Nothing => LinkOk(link[l], holder, made)
InUseOk ==
    current # Nothing /\ link[current] # Nothing =>
        CurrentOk(link[current], holder, revision, status, service, lastRevision, shown)

FeedIInv == FeedTypeOK /\ WorldOk /\ LinksOk /\ InUseOk

-----------------------------------------------------------------------------
(* What the server sends *)

Same(e, f) ==
    /\ f.up = e.up /\ f.ready = e.ready /\ f.bound = e.bound /\ f.revoked = e.revoked
    /\ f.playing = e.playing /\ f.sequence = e.sequence

\* More was sent, none of it a greeting.
Grown(d, g) ==
    /\ Len(g) >= Len(d) /\ \A i \in 1..Len(d) : g[i] = d[i]
    /\ \A i \in (Len(d) + 1)..Len(g) : g[i].type # "socket.ready"

LEMMA GrownTwice ==
    ASSUME NEW d \in Seq(ToClient), NEW g \in Seq(ToClient), NEW k \in Seq(ToClient), Grown(d, g), Grown(g, k)
    PROVE  Grown(d, k)
  BY DEF Grown

LEMMA GrownGreets ==
    ASSUME NEW d \in Seq(ToClient), NEW g \in Seq(ToClient), Grown(d, g)
    PROVE  (Greeted(d) => Greeted(g)) /\ (Greeting(d) => Greeting(g))
  <1>1. \A i \in 1..Len(g) : i \in 1..Len(d) \/ i \in (Len(d) + 1)..Len(g)
    OBVIOUS
  <1>2. Greeted(d) => Greeted(g)
    BY <1>1 DEF Grown, Greeted
  <1>3. Greeting(d) => Greeting(g)
    <2> SUFFICES ASSUME Greeting(d) PROVE Greeting(g)
      OBVIOUS
    <2>1. Len(d) >= 1 /\ Len(g) >= 1 /\ g # <<>> /\ g[1] = d[1]
      BY DEF Greeting, Grown
    <2>2. \A i \in 2..Len(g) : i \in 2..Len(d) \/ i \in (Len(d) + 1)..Len(g)
      OBVIOUS
    <2> QED
      BY <2>1, <2>2 DEF Grown, Greeting
  <1> QED
    BY <1>2, <1>3

LEMMA AppendGrows ==
    ASSUME NEW d \in Seq(ToClient), NEW m \in ToClient, m.type # "socket.ready"
    PROVE  /\ Append(d, m) \in Seq(ToClient) /\ Grown(d, Append(d, m)) /\ Len(Append(d, m)) = Len(d) + 1
           /\ \A i \in 1..Len(d) : Append(d, m)[i] = d[i]
           /\ Append(d, m)[Len(d) + 1] = m
  BY DEF Grown

LEMMA SentFacts ==
    ASSUME NEW e \in LinkEntry, NEW m \in ToClient, NEW f, f = Sent(e, m), f # Nothing
    PROVE  /\ f \in LinkEntry /\ Same(e, f)
           /\ \/ f.down = Append(e.down, m) /\ f.held = e.held
              \/ m.type = "lease.state" /\ f.down = e.down /\ f.held = m
  <1>1. e # Nothing
    BY FeedAssumption
  <1>2. (f = [e EXCEPT !.held = m] /\ m.type = "lease.state") \/ f = [e EXCEPT !.down = Append(@, m)]
    BY <1>1 DEF Sent
  <1>3. CASE f = [e EXCEPT !.held = m] /\ m.type = "lease.state"
    <2>1. m \in News
      BY <1>3 DEF ToClient
    <2> QED
      BY <1>3, <2>1 DEF LinkEntry, Same
  <1>4. CASE f = [e EXCEPT !.down = Append(@, m)]
    <2>1. Append(e.down, m) \in Seq(ToClient)
      BY DEF LinkEntry
    <2> QED
      BY <1>4, <2>1 DEF LinkEntry, Same
  <1> QED
    BY <1>2, <1>3, <1>4

LEMMA SentGrows ==
    ASSUME NEW e \in LinkEntry, NEW m \in ToClient, NEW f, f = Sent(e, m), f # Nothing, m.type # "socket.ready"
    PROVE  Grown(e.down, f.down)
  <1>1. e.down \in Seq(ToClient)
    BY DEF LinkEntry
  <1>2. Grown(e.down, e.down)
    BY <1>1 DEF Grown
  <1>3. Grown(e.down, Append(e.down, m))
    BY <1>1, AppendGrows
  <1>4. f.down = e.down \/ f.down = Append(e.down, m)
    BY SentFacts
  <1> QED
    BY <1>2, <1>3, <1>4

\* The bound entry is told what holds.
LEMMA NewsIsTrue ==
    ASSUME NEW e \in LinkEntry, NEW h \in Owners, NEW rev \in 0..MaxRevision, e.bound \in {Nothing, h}, e.revoked # h \/ h = Nothing
    PROVE  /\ NewsFor(e, h, rev) \in News /\ NewsFor(e, h, rev) \in ToClient
           /\ NewsFor(e, h, rev).type = "lease.state"
           /\ NewsFor(e, h, rev).revision = rev /\ NewsFor(e, h, rev).state = Truth(h)
           /\ NewsTrue(NewsFor(e, h, rev), h, rev)
  BY FeedAssumption DEF NewsFor, News, States, ToClient, Truth, NewsTrue, Owners

\* News that is sent after others keeps what is under way true.
LEMMA SentNews ==
    ASSUME NEW e \in LinkEntry, NEW h \in Owners, NEW rev \in 0..MaxRevision, NEW m \in News,
           NEW f, f = Sent(e, m), f # Nothing, m.revision = rev, NewsTrue(m, h, rev)
    PROVE  Coming(f, rev) /\ (DownTrue(e, h, rev) => DownTrue(f, h, rev))
  <1> DEFINE d == e.down
  <1>1. /\ d \in Seq(ToClient) /\ m \in ToClient /\ m.type = "lease.state" /\ m # Nothing
        /\ Len(d) \in Nat
    BY FeedAssumption DEF LinkEntry, ToClient, News
  <1>2. CASE f.down = d /\ f.held = m
    BY <1>1, <1>2 DEF Coming, DownTrue
  <1>3. CASE f.down = Append(d, m) /\ f.held = e.held
    <2>1. /\ Len(f.down) = Len(d) + 1 /\ f.down[Len(d) + 1] = m /\ \A i \in 1..Len(d) : f.down[i] = d[i]
      BY <1>1, <1>3
    <2>2. \A i \in 1..Len(f.down) : i \in 1..Len(d) \/ i = Len(d) + 1
      BY <1>1, <2>1
    <2>3. Len(d) + 1 \in 1..Len(f.down)
      BY <1>1, <2>1
    <2>4. Coming(f, rev)
      BY <1>1, <2>1, <2>3 DEF Coming
    <2>5. DownTrue(e, h, rev) => DownTrue(f, h, rev)
      BY <1>3, <2>1, <2>2 DEF DownTrue
    <2> QED
      BY <2>4, <2>5
  <1> QED
    BY <1>1, <1>2, <1>3, SentFacts

LEMMA TellFeeds ==
    ASSUME NEW e \in LinkEntry, NEW h \in Owners, NEW rev \in 0..MaxRevision, e.bound \in {Nothing, h},
           e.revoked # h \/ h = Nothing, NEW f, f = TellState(e, h, rev), f # Nothing
    PROVE  /\ f \in LinkEntry /\ Same(e, f) /\ Grown(e.down, f.down) /\ Coming(f, rev)
           /\ DownTrue(e, h, rev) => DownTrue(f, h, rev)
  <1>1. e # Nothing /\ f = Sent(e, NewsFor(e, h, rev))
    BY FeedAssumption DEF TellState
  <1>2. /\ NewsFor(e, h, rev) \in News /\ NewsFor(e, h, rev) \in ToClient /\ NewsFor(e, h, rev).type # "socket.ready"
        /\ NewsFor(e, h, rev).revision = rev /\ NewsTrue(NewsFor(e, h, rev), h, rev)
    BY NewsIsTrue
  <1>3. f \in LinkEntry /\ Same(e, f)
    BY <1>1, <1>2, SentFacts
  <1>4. Grown(e.down, f.down)
    BY <1>1, <1>2, SentGrows
  <1>5. Coming(f, rev) /\ (DownTrue(e, h, rev) => DownTrue(f, h, rev))
    BY <1>1, <1>2, SentNews
  <1> QED
    BY <1>3, <1>4, <1>5

\* What is not news changes nothing about the news.
LEMMA SentOther ==
    ASSUME NEW e \in LinkEntry, NEW h \in Owners, NEW rev \in Nat, NEW m \in ToClient, m.type # "lease.state",
           NEW f, f = Sent(e, m), f # Nothing
    PROVE  f.held = e.held /\ f.down = Append(e.down, m) /\ (DownTrue(e, h, rev) => DownTrue(f, h, rev))
  <1>1. f.held = e.held /\ f.down = Append(e.down, m)
    BY SentFacts
  <1>2. e.down \in Seq(ToClient)
    BY DEF LinkEntry
  <1>3. Len(f.down) = Len(e.down) + 1 /\ f.down[Len(e.down) + 1] = m /\ \A i \in 1..Len(e.down) : f.down[i] = e.down[i]
    BY <1>1, <1>2
  <1>4. \A i \in 1..Len(f.down) : i \in 1..Len(e.down) \/ i = Len(e.down) + 1
    BY <1>2, <1>3
  <1> QED
    BY <1>1, <1>3, <1>4 DEF DownTrue

\* News of earlier revisions need not be true.
LEMMA OldNews ==
    ASSUME NEW e, NEW h, NEW g, NEW rev \in Nat, NEW new \in Nat, rev < new, DownTrue(e, h, rev),
           e \in LinkEntry
    PROVE  DownTrue(e, g, new)
  <1>1. \A n \in News : NewsTrue(n, h, rev) => NewsTrue(n, g, new)
    BY FeedAssumption DEF NewsTrue, News
  <1>2. \A i \in 1..Len(e.down) : e.down[i].type = "lease.state" => e.down[i] \in News
    BY DEF LinkEntry, ToClient
  <1>3. e.held # Nothing => e.held \in News
    BY DEF LinkEntry
  <1> QED
    BY <1>1, <1>2, <1>3 DEF DownTrue

-----------------------------------------------------------------------------
(* A notification *)

\* What a change of the lease may be: a session is made for it, or it is not
\* the player's.
Moves(h, g, known, new) ==
    /\ h \in Owners /\ g \in Owners /\ known \subseteq new /\ new \subseteq Tab
    /\ h \in Tab => h \in known
    /\ g = h \/ g \in {Other, Nothing} \/ (g \in Tab /\ g \notin known)

LEMMA LinkMoves ==
    ASSUME NEW e \in LinkEntry, NEW h, NEW g, NEW known, NEW new, LinkOk(e, h, known), Moves(h, g, known, new),
           e.bound \in {Nothing, g}
    PROVE  LinkOk(e, g, new) /\ (e.revoked # g \/ g = Nothing)
  <1>1. e.revoked # Nothing => e.revoked \in new /\ e.revoked # g
    BY FeedAssumption DEF LinkOk, Moves, Owners
  <1>2. KnownOnly(e.up, new)
    BY DEF LinkOk, Moves, KnownOnly
  <1> QED
    BY <1>1, <1>2 DEF LinkOk

LEMMA SameLink ==
    ASSUME NEW e \in LinkEntry, NEW f \in LinkEntry, NEW h, NEW known, LinkOk(e, h, known), Same(e, f), e.ready
    PROVE  LinkOk(f, h, known)
  BY DEF LinkOk, Same

LEMMA ToldFacts ==
    ASSUME NEW e \in LinkEntry, NEW h, NEW g, NEW known, NEW new, LinkOk(e, h, known), Moves(h, g, known, new),
           NEW rev \in 0..MaxRevision, NEW f, f = Told(e, g, rev), f # Nothing
    PROVE  /\ f \in LinkEntry /\ LinkOk(f, g, new)
           /\ f.up = e.up /\ f.ready = e.ready /\ f.sequence = e.sequence
           /\ (e.bound \in {Nothing, g} => f.bound = e.bound /\ f.playing = e.playing)
           /\ (e.bound \notin {Nothing, g} => f.bound = Nothing)
           /\ Grown(e.down, f.down) /\ (e.ready => Coming(f, rev))
           /\ (DownTrue(e, g, rev) => DownTrue(f, g, rev))
  <1>1. /\ e # Nothing /\ e.down \in Seq(ToClient) /\ g \in Owners /\ h \in Owners
        /\ e.bound \in Tab \union {Nothing} /\ Len(e.down) \in Nat
    BY FeedAssumption DEF LinkEntry, Moves
  <1>2. CASE ~e.ready
    <2>1. f = e /\ e.bound = Nothing
      BY <1>1, <1>2 DEF Told, LinkOk
    <2>2. Grown(e.down, e.down)
      BY <1>1 DEF Grown
    <2> QED
      BY <1>1, <1>2, <2>1, <2>2, LinkMoves
  <1>3. CASE e.ready /\ (e.bound = Nothing \/ e.bound = g)
    <2>1. f = TellState(e, g, rev)
      BY <1>1, <1>3 DEF Told
    <2>2. LinkOk(e, g, new) /\ (e.revoked # g \/ g = Nothing)
      BY <1>3, LinkMoves
    <2>3. /\ f \in LinkEntry /\ Same(e, f) /\ Grown(e.down, f.down) /\ Coming(f, rev)
          /\ (DownTrue(e, g, rev) => DownTrue(f, g, rev))
      BY <1>1, <1>3, <2>1, <2>2, TellFeeds
    <2>4. LinkOk(f, g, new)
      BY <1>3, <2>2, <2>3, SameLink
    <2> QED
      BY <1>3, <2>3, <2>4 DEF Same
  <1>4. CASE e.ready /\ e.bound # Nothing /\ e.bound # g
    <2> DEFINE lost == [e EXCEPT !.revoked = e.bound, !.bound = Nothing, !.playing = FALSE]
               message == [type |-> "lease.lost", session |-> e.bound]
               sent == Sent(lost, message)
    <2>1. e.bound \in Tab /\ e.bound = h /\ e.bound \in known
      BY <1>1, <1>4 DEF LinkOk, Moves
    <2>2. lost \in LinkEntry /\ message \in ToClient
      BY <1>1, <2>1 DEF LinkEntry, ToClient
    <2>3. /\ lost.up = e.up /\ lost.ready /\ lost.sequence = e.sequence /\ lost.bound = Nothing
          /\ lost.down = e.down /\ lost.held = e.held /\ lost.revoked = e.bound
      BY <1>4 DEF LinkEntry
    <2>4. LinkOk(lost, g, new)
      <3>1. KnownOnly(e.up, new)
        BY DEF LinkOk, Moves, KnownOnly
      <3>2. e.bound \in new
        BY <2>1 DEF Moves
      <3> QED
        BY <1>4, <2>3, <3>1, <3>2 DEF LinkOk
    <2>5. f = TellState(sent, g, rev) /\ sent # Nothing
      BY <1>1, <1>4 DEF Told, TellState
    <2>6. sent \in LinkEntry /\ Same(lost, sent)
      BY <2>2, <2>5, SentFacts
    <2>7. Grown(e.down, sent.down)
      BY <2>2, <2>3, <2>5, SentGrows
    <2>8. DownTrue(e, g, rev) => DownTrue(sent, g, rev)
      <3>1. DownTrue(e, g, rev) => DownTrue(lost, g, rev)
        BY <2>3 DEF DownTrue
      <3>2. DownTrue(lost, g, rev) => DownTrue(sent, g, rev)
        BY <1>1, <2>2, <2>5, SentOther
      <3> QED
        BY <3>1, <3>2
    <2>9. LinkOk(sent, g, new) /\ sent.bound = Nothing /\ sent.revoked # g
      BY <1>4, <2>2, <2>3, <2>4, <2>6, SameLink DEF Same
    <2>10. /\ f \in LinkEntry /\ Same(sent, f) /\ Grown(sent.down, f.down) /\ Coming(f, rev)
           /\ (DownTrue(sent, g, rev) => DownTrue(f, g, rev))
      BY <1>1, <2>5, <2>6, <2>9, TellFeeds
    <2>11. sent.ready /\ sent.up = e.up /\ sent.sequence = e.sequence
      BY <2>3, <2>6 DEF Same
    <2>12. LinkOk(f, g, new)
      BY <2>6, <2>9, <2>10, <2>11, SameLink
    <2>13. Grown(e.down, f.down)
      <3>1. sent.down \in Seq(ToClient) /\ f.down \in Seq(ToClient)
        BY <2>6, <2>10 DEF LinkEntry
      <3> QED
        BY <1>1, <2>7, <2>10, <3>1, GrownTwice
    <2>14. f.up = e.up /\ f.ready = e.ready /\ f.sequence = e.sequence /\ f.bound = Nothing
      BY <1>4, <2>9, <2>10, <2>11 DEF Same
    <2> HIDE DEF lost, message, sent
    <2> QED
      BY <1>4, <2>8, <2>10, <2>12, <2>13, <2>14
  <1> QED
    BY <1>1, <1>2, <1>3, <1>4

-----------------------------------------------------------------------------
(* What the server handles *)

Services == [session : Tab \union {Nothing}, latest : Report \union {Nothing}, sequence : 0..MaxSequence]

LEMMA TailFacts ==
    ASSUME NEW S, NEW u \in Seq(S), u # <<>>
    PROVE  /\ Tail(u) \in Seq(S) /\ Len(Tail(u)) = Len(u) - 1 /\ Head(u) = u[1] /\ 1 \in 1..Len(u)
           /\ \A i \in 1..Len(Tail(u)) : Tail(u)[i] = u[i + 1] /\ i + 1 \in 2..Len(u)
           /\ \A i \in 2..Len(u) : i - 1 \in 1..Len(Tail(u)) /\ Tail(u)[i - 1] = u[i]
  OBVIOUS

LEMMA TailKeeps ==
    ASSUME NEW u \in Seq(ToServer), u # <<>>, NEW known, KnownOnly(u, known), InOrder(u)
    PROVE  /\ KnownOnly(Tail(u), known) /\ InOrder(Tail(u)) /\ (Silent(u) => Silent(Tail(u)))
           /\ \A s, n : NotBelow(u, s, n) => NotBelow(Tail(u), s, n)
           /\ \A s, n : NotAbove(u, s, n) => NotAbove(Tail(u), s, n)
  <1> DEFINE v == Tail(u)
  <1>1. \A i \in 1..Len(v) : v[i] = u[i + 1] /\ i + 1 \in 1..Len(u)
    BY TailFacts
  <1>2. \A i, j \in 1..Len(v) : i <= j => i + 1 <= j + 1
    OBVIOUS
  <1> HIDE DEF v
  <1>3. KnownOnly(v, known)
    BY <1>1 DEF KnownOnly
  <1>4. InOrder(v)
    BY <1>1, <1>2 DEF InOrder
  <1>5. Silent(u) => Silent(v)
    BY <1>1 DEF Silent
  <1>6. \A s, n : NotBelow(u, s, n) => NotBelow(v, s, n)
    BY <1>1 DEF NotBelow
  <1>7. \A s, n : NotAbove(u, s, n) => NotAbove(v, s, n)
    BY <1>1 DEF NotAbove
  <1> QED
    BY <1>3, <1>4, <1>5, <1>6, <1>7 DEF v

\* What is under way remains so when something else has arrived.
LEMMA BindRemains ==
    ASSUME NEW u \in Seq(ToServer), u # <<>>, NEW s, BindUnderWay(u, s),
           u[1].type # "session.bind" \/ u[1].session # s
    PROVE  BindUnderWay(Tail(u), s)
  <1> DEFINE v == Tail(u)
  <1>1. PICK i \in 1..Len(u) : /\ u[i].type = "session.bind" /\ u[i].session = s
                               /\ \A j \in 1..i : u[j].type = "playback.state" => u[j].session # s
    BY DEF BindUnderWay
  <1>2. i \in 2..Len(u) /\ i - 1 \in 1..Len(v) /\ v[i - 1] = u[i]
    BY <1>1, TailFacts
  <1>3. ASSUME NEW j \in 1..(i - 1) PROVE v[j] = u[j + 1] /\ j + 1 \in 1..i
    <2>1. j \in 1..Len(v) /\ j + 1 \in 1..i
      BY <1>2
    <2> QED
      BY <2>1, TailFacts
  <1> HIDE DEF v
  <1>4. BindUnderWay(v, s)
    BY <1>1, <1>2, <1>3 DEF BindUnderWay
  <1> QED
    BY <1>4 DEF v

LEMMA LatestRemains ==
    ASSUME NEW u \in Seq(ToServer), u # <<>>, NEW s, NEW latest, LatestUnderWay(u, s, latest)
    PROVE  LatestUnderWay(Tail(u), s, latest) \/ (u[1] = latest /\ NothingUnderWay(Tail(u), s))
  <1> DEFINE v == Tail(u)
  <1>1. PICK i \in 1..Len(u) : u[i] = latest /\ \A j \in (i + 1)..Len(u) : Speaks(u[j]) => u[j].session # s
    BY DEF LatestUnderWay
  <1>2. \A j \in 1..Len(v) : v[j] = u[j + 1] /\ j + 1 \in 2..Len(u)
    BY TailFacts
  <1>3. CASE i = 1
    <2>1. NothingUnderWay(v, s)
      BY <1>1, <1>2, <1>3 DEF NothingUnderWay
    <2> QED
      BY <1>1, <1>3, <2>1
  <1>4. CASE i # 1
    <2>1. i - 1 \in 1..Len(v) /\ v[i - 1] = u[i]
      BY <1>4, TailFacts
    <2>2. ASSUME NEW j \in ((i - 1) + 1)..Len(v) PROVE v[j] = u[j + 1] /\ j + 1 \in (i + 1)..Len(u)
      <3>1. j \in 1..Len(v) /\ j + 1 >= i + 1
        BY <1>4
      <3> QED
        BY <1>2, <3>1
    <2> HIDE DEF v
    <2>3. LatestUnderWay(v, s, latest)
      BY <1>1, <2>1, <2>2 DEF LatestUnderWay
    <2> QED
      BY <2>3 DEF v
  <1> QED
    BY <1>3, <1>4

LEMMA NothingRemains ==
    ASSUME NEW u \in Seq(ToServer), u # <<>>, NEW s, NothingUnderWay(u, s)
    PROVE  NothingUnderWay(Tail(u), s)
  <1>1. \A j \in 1..Len(Tail(u)) : Tail(u)[j] = u[j + 1] /\ j + 1 \in 1..Len(u)
    BY TailFacts
  <1> QED
    BY <1>1 DEF NothingUnderWay

LEMMA HolderRemains ==
    ASSUME NEW e \in LinkEntry, e.up # <<>>, NEW svc \in Services, HolderOk(e, svc),
           Speaks(e.up[1]) => e.up[1].session # svc.session,
           svc.latest # Nothing => svc.latest.session = svc.session,
           NEW t, t = [e EXCEPT !.up = Tail(@)]
    PROVE  HolderOk(t, svc)
  <1> DEFINE u == e.up
             s == svc.session
  <1>1. /\ u \in Seq(ToServer) /\ t.up = Tail(u) /\ t.bound = e.bound /\ t.sequence = e.sequence
        /\ t.playing = e.playing
    BY DEF LinkEntry
  <1>2. e.bound = s => t.bound = s /\ t.sequence <= svc.sequence
    BY <1>1 DEF HolderOk
  <1>3. t.bound = s \/ BindUnderWay(t.up, s)
    <2>1. u[1].type # "session.bind" \/ u[1].session # s
      BY DEF Speaks
    <2> QED
      BY <1>1, <2>1, BindRemains DEF HolderOk
  <1>4. svc.latest # Nothing => Speaks(svc.latest) /\ svc.latest.session = s
    BY DEF Speaks, Services, Report
  <1>5. svc.latest # Nothing => \/ LatestUnderWay(t.up, s, svc.latest)
                                \/ NothingUnderWay(t.up, s) /\ e.bound = s /\ e.playing = (svc.latest.action = "play")
    <2> SUFFICES ASSUME svc.latest # Nothing
                 PROVE  \/ LatestUnderWay(t.up, s, svc.latest)
                        \/ NothingUnderWay(t.up, s) /\ e.bound = s /\ e.playing = (svc.latest.action = "play")
      OBVIOUS
    <2>1. CASE LatestUnderWay(u, s, svc.latest)
      BY <1>1, <1>4, <2>1, LatestRemains
    <2>2. CASE NothingUnderWay(u, s) /\ e.bound = s /\ e.playing = (svc.latest.action = "play")
      BY <1>1, <2>2, NothingRemains
    <2> QED
      BY <2>1, <2>2 DEF HolderOk
  <1> QED
    BY <1>1, <1>2, <1>3, <1>5 DEF HolderOk

\* A message has been taken from a link whose holder is content.
LEMMA TakenOk ==
    ASSUME NEW e \in LinkEntry, NEW h, NEW known, LinkOk(e, h, known), e.up # <<>>, e.ready,
           NEW t, t = [e EXCEPT !.up = Tail(@)]
    PROVE  /\ t \in LinkEntry /\ LinkOk(t, h, known) /\ t.ready /\ t.up = Tail(e.up) /\ t.down = e.down
           /\ t.held = e.held /\ t.bound = e.bound /\ t.sequence = e.sequence /\ t.revoked = e.revoked
  <1>1. /\ e.up \in Seq(ToServer) /\ Tail(e.up) \in Seq(ToServer)
    BY DEF LinkEntry
  <1>2. /\ t \in LinkEntry /\ t.ready /\ t.up = Tail(e.up) /\ t.down = e.down
        /\ t.held = e.held /\ t.bound = e.bound /\ t.sequence = e.sequence /\ t.revoked = e.revoked
    BY <1>1 DEF LinkEntry
  <1>3. KnownOnly(e.up, known) /\ InOrder(e.up)
    BY DEF LinkOk
  <1>4. /\ KnownOnly(Tail(e.up), known) /\ InOrder(Tail(e.up)) /\ (Silent(e.up) => Silent(Tail(e.up)))
        /\ (NotBelow(e.up, e.bound, e.sequence) => NotBelow(Tail(e.up), e.bound, e.sequence))
    BY <1>1, <1>3, TailKeeps
  <1> QED
    BY <1>2, <1>4 DEF LinkOk

-----------------------------------------------------------------------------
(* How the entry in use changes *)

\* What is sent to it.
LEMMA CurrentTold ==
    ASSUME NEW e \in LinkEntry, NEW f \in LinkEntry, NEW h, NEW rev, NEW st, NEW svc, NEW last, NEW told,
           CurrentOk(e, h, rev, st, svc, last, told), Same(e, f), Grown(e.down, f.down), e.ready,
           DownTrue(e, h, rev) => DownTrue(f, h, rev), Coming(f, rev)
    PROVE  CurrentOk(f, h, rev, st, svc, last, told)
  <1>1. (Greeted(e.down) => Greeted(f.down)) /\ (Greeting(e.down) => Greeting(f.down))
    <2>1. e.down \in Seq(ToClient) /\ f.down \in Seq(ToClient)
      BY DEF LinkEntry
    <2> QED
      BY <2>1, GrownGreets
  <1>2. FeedOk(f, h, rev, st, last)
    BY DEF FeedOk, CurrentOk
  <1>3. st = "closed" => ClosedOk(f)
    BY <1>1 DEF CurrentOk, ClosedOk, Same
  <1>4. HolderOk(e, svc) => HolderOk(f, svc)
    BY DEF HolderOk, Same
  <1>5. st = "ready" => OpenOk(f, h, rev, svc, last, told)
    BY <1>1, <1>4 DEF CurrentOk, OpenOk, Same
  <1> QED
    BY <1>2, <1>3, <1>5 DEF CurrentOk

\* A notification.
LEMMA CurrentNotified ==
    ASSUME NEW e \in LinkEntry, NEW h, NEW g, NEW known, NEW new, LinkOk(e, h, known), Moves(h, g, known, new),
           NEW rev \in Nat, rev + 1 \in 0..MaxRevision, NEW f, f = Told(e, g, rev + 1), f # Nothing,
           NEW st, NEW svc \in Services, NEW last \in 0..MaxRevision \union {Nothing}, NEW told,
           CurrentOk(e, h, rev, st, svc, last, told), svc.session # Nothing => svc.session \in known
    PROVE  CurrentOk(f, g, rev + 1, st, svc, last, told)
  <1>1. /\ f \in LinkEntry /\ f.up = e.up /\ f.ready = e.ready /\ f.sequence = e.sequence
        /\ (e.bound \in {Nothing, g} => f.bound = e.bound /\ f.playing = e.playing)
        /\ (e.bound \notin {Nothing, g} => f.bound = Nothing)
        /\ Grown(e.down, f.down) /\ (e.ready => Coming(f, rev + 1))
        /\ (DownTrue(e, g, rev + 1) => DownTrue(f, g, rev + 1))
    BY ToldFacts
  <1>2. (Greeted(e.down) => Greeted(f.down)) /\ (Greeting(e.down) => Greeting(f.down))
    <2>1. e.down \in Seq(ToClient) /\ f.down \in Seq(ToClient)
      BY <1>1 DEF LinkEntry
    <2> QED
      BY <1>1, <2>1, GrownGreets
  <1>3. e.ready => DownTrue(f, g, rev + 1)
    <2>1. DownTrue(e, h, rev) => DownTrue(e, g, rev + 1)
      BY OldNews
    <2> QED
      BY <1>1, <2>1 DEF CurrentOk, FeedOk
  <1>4. FeedOk(f, g, rev + 1, st, last)
    BY <1>1, <1>3 DEF FeedOk
  <1>5. st = "closed" => ClosedOk(f)
    BY <1>1, <1>2 DEF CurrentOk, ClosedOk
  <1>6. st = "ready" => OpenOk(f, g, rev + 1, svc, last, told)
    <2> SUFFICES ASSUME st = "ready" PROVE OpenOk(f, g, rev + 1, svc, last, told)
      OBVIOUS
    <2>1. OpenOk(e, h, rev, svc, last, told)
      BY DEF CurrentOk
    <2>2. last # Nothing => NewsTrue([revision |-> last, state |-> told], g, rev + 1)
      BY <2>1 DEF OpenOk, NewsTrue
    <2>3. svc.session # Nothing /\ svc.session = g => HolderOk(f, svc)
      <3> SUFFICES ASSUME svc.session # Nothing, svc.session = g PROVE HolderOk(f, svc)
        OBVIOUS
      <3>1. g = h
        BY FeedAssumption DEF Moves, Services
      <3>2. HolderOk(e, svc) /\ f.bound = e.bound /\ f.playing = e.playing
        BY <1>1, <2>1, <3>1 DEF OpenOk, LinkOk
      <3> QED
        BY <1>1, <3>2 DEF HolderOk
    <2> QED
      BY <1>1, <1>2, <2>1, <2>2, <2>3 DEF OpenOk
  <1> QED
    BY <1>4, <1>5, <1>6 DEF CurrentOk

-----------------------------------------------------------------------------
(* The server's steps keep the invariant *)

\* What the invariant says of a link.
LEMMA LinkFacts ==
    ASSUME FeedIInv, NEW l \in Link, link[l] # Nothing
    PROVE  /\ link[l] \in LinkEntry /\ LinkOk(link[l], holder, made)
           /\ l = current => CurrentOk(link[l], holder, revision, status, service, lastRevision, shown)
  BY FeedAssumption DEF FeedIInv, FeedTypeOK, LinksOk, InUseOk

LEMMA WorldFacts ==
    ASSUME FeedIInv
    PROVE  /\ holder \in Owners /\ service \in Services /\ (service.session # Nothing => service.session \in made)
           /\ (service.latest # Nothing => service.latest.session = service.session)
           /\ lastRevision \in 0..MaxRevision \union {Nothing} /\ revision \in 0..MaxRevision /\ made \subseteq Tab
           /\ Moves(holder, holder, made, made)
  BY DEF FeedIInv, FeedTypeOK, WorldOk, Owners, Services, Moves

\* One entry has changed.
LEMMA OneLink ==
    ASSUME FeedIInv, NEW l \in Link, NEW f \in LinkEntry \union {Nothing}, link' = [link EXCEPT ![l] = f],
           UNCHANGED <<holder, revision, ClientSide, restarts>>,
           f # Nothing => LinkOk(f, holder, made),
           f # Nothing /\ l = current => CurrentOk(f, holder, revision, status, service, lastRevision, shown)
    PROVE  FeedIInv'
  <1>1. FeedTypeOK'
    BY DEF FeedIInv, FeedTypeOK, ClientSide
  <1>2. WorldOk'
    BY DEF FeedIInv, WorldOk, ClientSide
  <1>3. LinksOk'
    BY DEF FeedIInv, FeedTypeOK, LinksOk, ClientSide
  <1>4. InUseOk'
    BY DEF FeedIInv, FeedTypeOK, InUseOk, ClientSide
  <1> QED
    BY <1>1, <1>2, <1>3, <1>4 DEF FeedIInv

\* All of them have been notified of a lease that may have changed.
LEMMA NotifyKeeps ==
    ASSUME FeedIInv, NEW entries \in [Link -> LinkEntry \union {Nothing}], NEW g, NotifyLinks(entries, g),
           holder' = g, g \in Owners, g = holder \/ g \in {Other, Nothing}, UNCHANGED <<ClientSide, restarts>>,
           \A l \in Link : entries[l] # Nothing =>
               /\ LinkOk(entries[l], holder, made)
               /\ l = current => CurrentOk(entries[l], holder, revision, status, service, lastRevision, shown)
    PROVE  FeedIInv'
  <1>1. /\ revision \in Nat /\ revision + 1 \in 0..MaxRevision /\ revision' = revision + 1
        /\ Moves(holder, g, made, made)
    BY FeedAssumption DEF NotifyLinks, FeedIInv, FeedTypeOK, WorldOk, Moves, Owners
  <1>2. link' = [l \in Link |-> Told(entries[l], g, revision + 1)]
    BY DEF NotifyLinks
  <1>3. ASSUME NEW l \in Link, link'[l] # Nothing
        PROVE  /\ link'[l] \in LinkEntry /\ LinkOk(link'[l], g, made)
               /\ l = current => CurrentOk(link'[l], g, revision + 1, status, service, lastRevision, shown)
    <2>1. link'[l] = Told(entries[l], g, revision + 1)
      BY <1>2
    <2>2. entries[l] \in LinkEntry
      BY <1>3, <2>1 DEF Told
    <2>3. entries[l] # Nothing
      BY <2>2, FeedAssumption
    <2>4. link'[l] \in LinkEntry /\ LinkOk(link'[l], g, made)
      BY <1>1, <1>3, <2>1, <2>2, <2>3, ToldFacts
    <2>5. l = current => CurrentOk(link'[l], g, revision + 1, status, service, lastRevision, shown)
      BY <1>1, <1>3, <2>1, <2>2, <2>3, WorldFacts, CurrentNotified
    <2> QED
      BY <2>4, <2>5
  <1>4. FeedTypeOK'
    <2>1. link' \in [Link -> LinkEntry \union {Nothing}]
      BY <1>2, <1>3
    <2> QED
      BY <1>1, <2>1 DEF FeedIInv, FeedTypeOK, ClientSide, Owners
  <1>5. WorldOk'
    BY FeedAssumption DEF FeedIInv, WorldOk, ClientSide
  <1>6. LinksOk'
    BY <1>3 DEF LinksOk, ClientSide
  <1>7. InUseOk'
    <2>1. current' \in Link \union {Nothing}
      BY <1>4 DEF FeedTypeOK
    <2> QED
      BY <1>1, <1>3, <2>1 DEF InUseOk, ClientSide
  <1> QED
    BY <1>4, <1>5, <1>6, <1>7 DEF FeedIInv

LEMMA PingKeeps == FeedIInv /\ (\E l \in Link : PingLink(l)) => FeedIInv'
  <1> SUFFICES ASSUME FeedIInv, NEW l \in Link, PingLink(l) PROVE FeedIInv'
    OBVIOUS
  <1> DEFINE e == link[l]
             n == e.held
             t == [e EXCEPT !.held = Nothing]
             f == Sent(t, n)
  <1>1. /\ e \in LinkEntry /\ LinkOk(e, holder, made) /\ e # Nothing /\ n # Nothing /\ Len(e.down) < LowMark
        /\ (l = current => CurrentOk(e, holder, revision, status, service, lastRevision, shown))
        /\ link' = [link EXCEPT ![l] = f] /\ UNCHANGED <<holder, revision, ClientSide, restarts>>
    BY LinkFacts DEF PingLink
  <1>2. /\ n \in News /\ n \in ToClient /\ n.type = "lease.state" /\ e.ready
    BY <1>1 DEF LinkEntry, News, ToClient, LinkOk
  <1>3. /\ t \in LinkEntry /\ t.down = e.down /\ t.held = Nothing /\ Same(e, t)
    BY <1>1 DEF LinkEntry, Same
  <1>4. CASE f = Nothing
    BY <1>1, <1>4, OneLink
  <1>5. CASE f # Nothing
    <2>1. f = [t EXCEPT !.down = Append(@, n)]
      BY <1>1, <1>3, <1>5, FeedAssumption DEF Sent, LinkEntry
    <2>2. f \in LinkEntry /\ Same(t, f)
      BY <1>2, <1>3, <1>5, SentFacts
    <2>3. Same(e, f) /\ f.down = Append(e.down, n) /\ f.held = Nothing
      BY <1>3, <2>1, <2>2 DEF Same, LinkEntry
    <2>4. LinkOk(f, holder, made)
      BY <1>1, <1>2, <2>2, <2>3, SameLink
    <2>5. ASSUME l = current PROVE CurrentOk(f, holder, revision, status, service, lastRevision, shown)
      <3> DEFINE d == e.down
      <3>1. d \in Seq(ToClient) /\ Len(d) \in Nat
        BY <1>1 DEF LinkEntry
      <3>2. Grown(d, f.down)
        BY <1>2, <2>3, <3>1, AppendGrows
      <3>3. /\ Len(f.down) = Len(d) + 1 /\ f.down[Len(d) + 1] = n /\ \A i \in 1..Len(d) : f.down[i] = d[i]
        BY <1>2, <2>3, <3>1
      <3>4. (\A i \in 1..Len(f.down) : i \in 1..Len(d) \/ i = Len(d) + 1) /\ Len(d) + 1 \in 1..Len(f.down)
        BY <3>1, <3>3
      <3>5. /\ CurrentOk(e, holder, revision, status, service, lastRevision, shown)
            /\ DownTrue(e, holder, revision) /\ (Coming(e, revision) \/ (status = "ready" /\ lastRevision = revision))
        BY <1>1, <1>2, <2>5 DEF CurrentOk, FeedOk
      <3>6. DownTrue(f, holder, revision)
        BY <1>1, <2>3, <3>3, <3>4, <3>5 DEF DownTrue
      <3>7. Coming(e, revision) => Coming(f, revision)
        <4>1. \A i \in 1..Len(d) : i \in 1..Len(f.down) /\ f.down[i] = d[i]
          BY <3>1, <3>3
        <4>2. Len(d) + 1 \in 1..Len(f.down) /\ f.down[Len(d) + 1] = e.held /\ e.held.type = "lease.state"
          BY <1>2, <3>3, <3>4
        <4> HIDE DEF f, t, n
        <4> QED
          BY <4>1, <4>2 DEF Coming
      <3> HIDE DEF d, f, t, n
      <3>8. (Greeted(e.down) => Greeted(f.down)) /\ (Greeting(e.down) => Greeting(f.down))
        BY <2>2, <3>1, <3>2, GrownGreets DEF LinkEntry, d
      <3>9. HolderOk(e, service) => HolderOk(f, service)
        BY <2>3 DEF HolderOk, Same
      <3> QED
        BY <2>3, <3>5, <3>6, <3>7, <3>8, <3>9 DEF CurrentOk, FeedOk, ClosedOk, OpenOk, Same
    <2> QED
      BY <1>1, <2>2, <2>4, <2>5, OneLink
  <1> QED
    BY <1>4, <1>5

\* A message is at the head of what the client sent.
LEMMA ArrivedFacts ==
    ASSUME FeedIInv, NEW l \in Link, NEW type, Arrived(l, type), NEW u, u = link[l].up
    PROVE  /\ link[l] # Nothing /\ u # <<>> /\ u[1] \in ToServer /\ u[1].type = type /\ Head(u) = u[1]
           /\ 1 \in 1..Len(u) /\ u \in Seq(ToServer)
  <1>1. link[l] \in LinkEntry
    BY LinkFacts DEF Arrived
  <1>2. u \in Seq(ToServer) /\ u # <<>>
    BY <1>1 DEF Arrived, LinkEntry
  <1>3. Head(u) = u[1] /\ 1 \in 1..Len(u) /\ u[1] \in ToServer
    BY <1>2
  <1> QED
    BY <1>2, <1>3 DEF Arrived

LEMMA AuthenticateKeeps == FeedIInv /\ (\E l \in Link : Authenticate(l)) => FeedIInv'
  <1> SUFFICES ASSUME FeedIInv, NEW l \in Link, Authenticate(l) PROVE FeedIInv'
    OBVIOUS
  <1> DEFINE e == link[l]
             t == [Taken(l) EXCEPT !.ready = TRUE]
             greeting == [type |-> "socket.ready"]
             sent == Sent(t, greeting)
             f == TellState(sent, holder, revision)
  <1>1. /\ e # Nothing /\ e.up # <<>> /\ e.up[1].type = "auth" /\ 1 \in 1..Len(e.up) /\ e.up \in Seq(ToServer)
    BY ArrivedFacts DEF Authenticate
  <1>2. /\ e \in LinkEntry /\ LinkOk(e, holder, made)
        /\ (l = current => CurrentOk(e, holder, revision, status, service, lastRevision, shown))
    BY <1>1, LinkFacts
  <1>3. /\ ~e.ready /\ e.bound = Nothing /\ e.down = <<>> /\ e.held = Nothing /\ Len(e.up) = 1
    <2>1. ~e.ready
      BY <1>1, <1>2 DEF LinkOk, Silent
    <2>2. Len(e.up) = 1
      <3>1. Len(e.up) <= 1
        BY <1>2, <2>1 DEF LinkOk
      <3>2. Len(e.up) \in Nat /\ 1 \in 1..Len(e.up)
        BY <1>1
      <3> DEFINE n == Len(e.up)
      <3>3. n <= 1 /\ n \in Nat /\ 1 \in 1..n
        BY <3>1, <3>2
      <3> HIDE DEF n
      <3>4. n = 1
        BY <3>3
      <3> QED
        BY <3>4 DEF n
    <2>3. e.bound = Nothing /\ e.down = <<>> /\ e.held = Nothing
      BY <1>2, <2>1 DEF LinkOk
    <2> QED
      BY <2>1, <2>2, <2>3
  <1>4. link' = [link EXCEPT ![l] = f] /\ UNCHANGED <<holder, revision, ClientSide, restarts>>
    BY DEF Authenticate
  <1>5. CASE f = Nothing
    BY <1>4, <1>5, OneLink
  <1>6. CASE f # Nothing
    <2>1. Tail(e.up) = <<>>
      <3>1. Tail(e.up) \in Seq(ToServer) /\ Len(Tail(e.up)) = 0
        BY <1>1, <1>3, TailFacts
      <3> QED
        BY <3>1, EmptySeq
    <2>10. t = [e EXCEPT !.up = <<>>, !.ready = TRUE] /\ <<>> \in Seq(ToServer)
      <3>1. Taken(l) = [e EXCEPT !.up = <<>>] /\ <<>> \in Seq(ToServer)
        <4>1. <<>> \in Seq(ToServer)
          OBVIOUS
        <4>2. Taken(l) = [e EXCEPT !.up = Tail(e.up)]
          BY DEF Taken
        <4> QED
          BY <2>1, <4>1, <4>2
      <3> QED
        BY <1>2, <3>1 DEF LinkEntry
    <2>2. /\ t \in LinkEntry /\ t.up = <<>> /\ t.ready /\ t.bound = Nothing /\ t.down = <<>> /\ t.held = Nothing
          /\ t.revoked = e.revoked
      BY <1>2, <1>3, <2>10 DEF LinkEntry
    <2>3. LinkOk(t, holder, made)
      BY <1>2, <2>2 DEF LinkOk, KnownOnly, InOrder, Silent
    <2>4. greeting \in ToClient /\ sent # Nothing
      BY <1>6 DEF ToClient, TellState
    <2>5. sent \in LinkEntry /\ Same(t, sent) /\ sent.down = <<greeting>> /\ sent.held = Nothing
      <3>1. greeting.type # "lease.state"
        OBVIOUS
      <3>2. sent = Sent(t, greeting) /\ t \in LinkEntry /\ t.down = <<>> /\ t.held = Nothing
        BY <2>2
      <3> HIDE DEF t, sent, greeting
      <3>3. sent \in LinkEntry /\ Same(t, sent) /\ sent.held = t.held /\ sent.down = Append(t.down, greeting)
        BY <2>4, <3>1, <3>2, SentFacts
      <3>4. sent.down = <<greeting>>
        BY <3>2, <3>3
      <3> QED
        BY <3>2, <3>3, <3>4
    <2>6. LinkOk(sent, holder, made) /\ sent.bound = Nothing /\ (sent.revoked # holder \/ holder = Nothing)
      <3>1. LinkOk(sent, holder, made)
        BY <2>2, <2>3, <2>5, SameLink
      <3> QED
        BY <2>2, <2>5, <3>1 DEF LinkOk, Same
    <2>7. /\ f \in LinkEntry /\ Same(sent, f) /\ Grown(sent.down, f.down) /\ Coming(f, revision)
          /\ (DownTrue(sent, holder, revision) => DownTrue(f, holder, revision))
      BY <1>6, <2>5, <2>6, TellFeeds, WorldFacts
    <2>8. LinkOk(f, holder, made)
      BY <2>2, <2>5, <2>6, <2>7, SameLink DEF Same
    <2>9. ASSUME l = current PROVE CurrentOk(f, holder, revision, status, service, lastRevision, shown)
      <3>1. status = "closed"
        BY <1>2, <1>3, <2>9 DEF CurrentOk, OpenOk, FeedIInv, FeedTypeOK
      <3>2. DownTrue(sent, holder, revision) /\ Greeting(sent.down)
        <4>1. \A i \in 1..1 : i = 1
          OBVIOUS
        <4>2. greeting.type = "socket.ready"
          OBVIOUS
        <4> HIDE DEF sent, greeting
        <4>3. /\ Len(sent.down) = 1 /\ sent.down[1] = greeting /\ sent.down # <<>>
          BY <2>5
        <4>4. DownTrue(sent, holder, revision)
          BY <2>5, <4>1, <4>2, <4>3 DEF DownTrue
        <4>5. Greeting(sent.down)
          BY <4>2, <4>3 DEF Greeting
        <4> QED
          BY <4>4, <4>5
      <3>3. Greeting(f.down)
        BY <2>5, <2>7, <3>2, GrownGreets DEF LinkEntry
      <3>4. f.up = <<>> /\ f.bound = Nothing
        BY <2>2, <2>5, <2>7 DEF Same
      <3> HIDE DEF f, sent
      <3> QED
        BY <2>7, <3>1, <3>2, <3>3, <3>4 DEF CurrentOk, FeedOk, ClosedOk
    <2> QED
      BY <1>4, <2>7, <2>8, <2>9, OneLink
  <1> QED
    BY <1>5, <1>6

\* An entry is told what holds, once or after a refusal.
LEMMA TellKeeps ==
    ASSUME FeedIInv, NEW l \in Link, NEW t \in LinkEntry, t.ready, LinkOk(t, holder, made),
           l = current => CurrentOk(t, holder, revision, status, service, lastRevision, shown),
           link' = [link EXCEPT ![l] = TellState(t, holder, revision)],
           UNCHANGED <<holder, revision, ClientSide, restarts>>
    PROVE  FeedIInv'
  <1> DEFINE f == TellState(t, holder, revision)
  <1>1. CASE f = Nothing
    BY <1>1, OneLink
  <1>2. CASE f # Nothing
    <2>1. /\ t.bound \in {Nothing, holder} /\ (t.revoked # holder \/ holder = Nothing)
      BY DEF LinkOk
    <2>2. /\ f \in LinkEntry /\ Same(t, f) /\ Grown(t.down, f.down) /\ Coming(f, revision)
          /\ (DownTrue(t, holder, revision) => DownTrue(f, holder, revision))
      BY <1>2, <2>1, TellFeeds, WorldFacts
    <2>3. LinkOk(f, holder, made)
      BY <2>2, SameLink
    <2>4. ASSUME l = current PROVE CurrentOk(f, holder, revision, status, service, lastRevision, shown)
      BY <2>2, <2>4, CurrentTold DEF CurrentOk, FeedOk
    <2> QED
      BY <2>2, <2>3, <2>4, OneLink
  <1> QED
    BY <1>1, <1>2

\* A message is refused: nothing but what the client is told changes.
LEMMA RejectedKeeps ==
    ASSUME FeedIInv, NEW l \in Link, NEW t \in LinkEntry, t.ready, LinkOk(t, holder, made),
           l = current => CurrentOk(t, holder, revision, status, service, lastRevision, shown),
           link' = [link EXCEPT ![l] = Rejected(t)],
           UNCHANGED <<holder, revision, ClientSide, restarts>>
    PROVE  FeedIInv'
  <1> DEFINE refusal == [type |-> "not.owner"]
             sent == Sent(t, refusal)
  <1>1. link' = [link EXCEPT ![l] = TellState(sent, holder, revision)]
    BY DEF Rejected
  <1>2. refusal \in ToClient /\ refusal.type # "lease.state" /\ refusal.type # "socket.ready"
    BY DEF ToClient
  <1>3. CASE sent = Nothing
    <2>1. link' = [link EXCEPT ![l] = Nothing]
      BY <1>1, <1>3 DEF TellState
    <2> QED
      BY <2>1, OneLink
  <1>4. CASE sent # Nothing
    <2>1. /\ sent \in LinkEntry /\ Same(t, sent) /\ sent.held = t.held /\ sent.down = Append(t.down, refusal)
          /\ (DownTrue(t, holder, revision) => DownTrue(sent, holder, revision))
          /\ Grown(t.down, sent.down)
      <3>1. revision \in Nat /\ holder \in Owners
        BY WorldFacts, FeedAssumption
      <3> QED
        BY <1>2, <1>4, <3>1, SentFacts, SentOther, SentGrows
    <2>2. LinkOk(sent, holder, made) /\ sent.ready
      BY <2>1, SameLink DEF Same
    <2>3. Coming(t, revision) => Coming(sent, revision)
      <3>1. t.down \in Seq(ToClient)
        BY DEF LinkEntry
      <3>2. Len(sent.down) = Len(t.down) + 1 /\ \A i \in 1..Len(t.down) : sent.down[i] = t.down[i] /\ i \in 1..Len(sent.down)
        BY <1>2, <2>1, <3>1
      <3> HIDE DEF sent
      <3> QED
        BY <2>1, <3>2 DEF Coming
    <2>4. ASSUME l = current PROVE CurrentOk(sent, holder, revision, status, service, lastRevision, shown)
      <3>1. CurrentOk(t, holder, revision, status, service, lastRevision, shown)
        BY <2>4
      <3>2. FeedOk(sent, holder, revision, status, lastRevision)
        BY <2>1, <2>3, <3>1 DEF CurrentOk, FeedOk
      <3>3. (Greeted(t.down) => Greeted(sent.down)) /\ (Greeting(t.down) => Greeting(sent.down))
        BY <2>1, GrownGreets DEF LinkEntry
      <3>4. HolderOk(t, service) => HolderOk(sent, service)
        BY <2>1 DEF HolderOk, Same
      <3> HIDE DEF sent
      <3> QED
        BY <2>1, <3>1, <3>2, <3>3, <3>4 DEF CurrentOk, ClosedOk, OpenOk, Same
    <2> HIDE DEF sent
    <2> QED
      BY <1>1, <2>1, <2>2, <2>4, TellKeeps
  <1> QED
    BY <1>3, <1>4

\* An entry that is ready has taken a message; its session need not be known
\* to the entry in use as before.
LEMMA TakenCurrent ==
    ASSUME FeedIInv, NEW l \in Link, l = current, NEW e, e = link[l], e # Nothing, e.up # <<>>, e.ready,
           NEW t \in LinkEntry, t.up = Tail(e.up), t.ready, t.down = e.down, t.held = e.held,
           service.session # Nothing /\ service.session = holder => HolderOk(t, service)
    PROVE  /\ CurrentOk(t, holder, revision, status, service, lastRevision, shown)
           /\ service.session # Nothing => NotAbove(e.up, service.session, service.sequence)
           /\ service.session # Nothing /\ service.session = holder => HolderOk(e, service)
  <1>1. /\ e \in LinkEntry /\ LinkOk(e, holder, made)
        /\ CurrentOk(e, holder, revision, status, service, lastRevision, shown)
    BY LinkFacts
  <1>2. status = "ready"
    BY <1>1 DEF CurrentOk, ClosedOk, FeedIInv, FeedTypeOK
  <1>3. OpenOk(e, holder, revision, service, lastRevision, shown) /\ status # "closed"
    BY <1>1, <1>2 DEF CurrentOk
  <1>4. service.session # Nothing =>
            NotAbove(e.up, service.session, service.sequence) /\ NotAbove(t.up, service.session, service.sequence)
    <2>1. KnownOnly(e.up, made) /\ InOrder(e.up) /\ e.up \in Seq(ToServer)
      BY <1>1 DEF LinkOk, LinkEntry
    <2> QED
      BY <1>3, <2>1, TailKeeps DEF OpenOk
  <1>5. FeedOk(t, holder, revision, status, lastRevision)
    BY <1>1 DEF CurrentOk, FeedOk, DownTrue, Coming
  <1>6. OpenOk(t, holder, revision, service, lastRevision, shown)
    BY <1>3, <1>4 DEF OpenOk
  <1> QED
    BY <1>3, <1>4, <1>5, <1>6 DEF CurrentOk, OpenOk

\* Before it is ready an entry gets nothing but an auth.
LEMMA HeardIsReady ==
    ASSUME FeedIInv, NEW l \in Link, NEW type, Arrived(l, type), type # "auth"
    PROVE  link[l].ready
  BY ArrivedFacts, LinkFacts DEF LinkOk

LEMMA BindKeeps == FeedIInv /\ (\E l \in Link : BindEntry(l)) => FeedIInv'
  <1> SUFFICES ASSUME FeedIInv, NEW l \in Link, BindEntry(l) PROVE FeedIInv'
    OBVIOUS
  <1> DEFINE e == link[l]
             u == e.up
             s == Head(u).session
             t == Taken(l)
             b == [t EXCEPT !.bound = s, !.revoked = Nothing, !.sequence = 0, !.playing = FALSE]
  <1>1. /\ e # Nothing /\ u # <<>> /\ u[1].type = "session.bind" /\ u[1] \in ToServer /\ 1 \in 1..Len(u)
        /\ Head(u) = u[1] /\ u \in Seq(ToServer) /\ e.ready
    BY ArrivedFacts, HeardIsReady DEF BindEntry
  <1>2. /\ e \in LinkEntry /\ LinkOk(e, holder, made)
    BY <1>1, LinkFacts
  <1>3. s \in Tab /\ s \in made /\ s = u[1].session
    <2>1. u[1].session \in Tab
      BY <1>1 DEF ToServer, Report
    <2>2. u[1].session \in made
      BY <1>1, <1>2 DEF LinkOk, KnownOnly, Speaks
    <2> QED
      BY <1>1, <2>1, <2>2
  <1>4. t = [e EXCEPT !.up = Tail(@)]
    BY DEF Taken
  <1>5. /\ t \in LinkEntry /\ LinkOk(t, holder, made) /\ t.ready /\ t.up = Tail(u) /\ t.down = e.down
        /\ t.held = e.held /\ t.bound = e.bound /\ t.sequence = e.sequence /\ t.revoked = e.revoked
    BY <1>1, <1>2, <1>4, TakenOk
  <1>6. UNCHANGED <<holder, revision, ClientSide, restarts>>
    BY DEF BindEntry
  <1>7. CASE holder # s
    <2>1. link' = [link EXCEPT ![l] = Rejected(t)]
      BY <1>7 DEF BindEntry
    <2>2. ASSUME l = current, service.session # Nothing, service.session = holder PROVE HolderOk(t, service)
      <3>1. HolderOk(e, service)
        BY <1>1, <1>2, <2>2, LinkFacts DEF CurrentOk, OpenOk, ClosedOk, FeedIInv, FeedTypeOK
      <3>2. Speaks(u[1]) => u[1].session # service.session
        BY <1>3, <1>7, <2>2
      <3>3. service \in Services /\ (service.latest # Nothing => service.latest.session = service.session)
        BY WorldFacts
      <3> QED
        BY <1>1, <1>2, <1>4, <3>1, <3>2, <3>3, HolderRemains
    <2>3. l = current => CurrentOk(t, holder, revision, status, service, lastRevision, shown)
      BY <1>1, <1>5, <2>2, TakenCurrent
    <2> HIDE DEF t
    <2> QED
      BY <1>5, <1>6, <2>1, <2>3, RejectedKeeps
  <1>8. CASE holder = s
    <2>1. link' = [link EXCEPT ![l] = TellState(b, holder, revision)]
      BY <1>8 DEF BindEntry
    <2>2. /\ b \in LinkEntry /\ b.up = t.up /\ b.ready /\ b.down = t.down /\ b.held = t.held /\ b.bound = s
          /\ b.revoked = Nothing /\ b.sequence = 0
      <3>1. 0 \in 0..MaxSequence
        BY FeedAssumption
      <3> HIDE DEF t
      <3> QED
        BY <1>3, <1>5, <3>1 DEF LinkEntry
    <2>3. LinkOk(b, holder, made)
      <3>1. NotBelow(b.up, b.bound, b.sequence)
        <4>1. b.up \in Seq(ToServer) /\ b.sequence = 0
          BY <2>2 DEF LinkEntry
        <4>2. \A m \in ToServer : m.type = "playback.state" => 0 <= m.sequence
          BY FeedAssumption DEF ToServer, Report
        <4> HIDE DEF b
        <4> QED
          BY <4>1, <4>2 DEF NotBelow
      <3> QED
        BY <1>5, <1>8, <2>2, <3>1 DEF LinkOk
    <2>4. ASSUME l = current, service.session # Nothing, service.session = holder PROVE HolderOk(b, service)
      <3>1. HolderOk(e, service)
        BY <1>1, <1>2, <2>4, LinkFacts DEF CurrentOk, OpenOk, ClosedOk, FeedIInv, FeedTypeOK
      <3>2. service \in Services /\ (service.latest # Nothing => service.latest.session = service.session)
        BY WorldFacts
      <3>3. b.bound = service.session /\ b.sequence <= service.sequence
        BY <1>8, <2>2, <2>4, <3>2 DEF Services
      <3>4. service.latest # Nothing => LatestUnderWay(b.up, service.session, service.latest)
        <4> SUFFICES ASSUME service.latest # Nothing PROVE LatestUnderWay(b.up, service.session, service.latest)
          OBVIOUS
        <4>1. ~NothingUnderWay(u, service.session)
          BY <1>1, <1>3, <1>8, <2>4 DEF NothingUnderWay, Speaks
        <4>2. LatestUnderWay(u, service.session, service.latest)
          BY <3>1, <4>1 DEF HolderOk
        <4>3. u[1] # service.latest
          BY <1>1, <3>2 DEF Services, Report
        <4>4. LatestUnderWay(Tail(u), service.session, service.latest)
          BY <1>1, <4>2, <4>3, LatestRemains
        <4> QED
          BY <1>5, <2>2, <4>4
      <3> HIDE DEF b
      <3> QED
        BY <3>3, <3>4 DEF HolderOk
    <2>5. l = current => CurrentOk(b, holder, revision, status, service, lastRevision, shown)
      <3>1. b.up = Tail(u) /\ b.down = e.down /\ b.held = e.held
        BY <1>5, <2>2
      <3> HIDE DEF b
      <3> QED
        BY <1>1, <2>2, <2>4, <3>1, TakenCurrent
    <2> HIDE DEF b
    <2> QED
      BY <1>6, <2>1, <2>2, <2>3, <2>5, TellKeeps
  <1> QED
    BY <1>7, <1>8

LEMMA ReportKeeps == FeedIInv /\ (\E l \in Link : ReportState(l)) => FeedIInv'
  <1> SUFFICES ASSUME FeedIInv, NEW l \in Link, ReportState(l) PROVE FeedIInv'
    OBVIOUS
  <1> DEFINE e == link[l]
             u == e.up
             r == Head(u)
             s == service.session
             t == Taken(l)
             b == [t EXCEPT !.sequence = r.sequence, !.playing = r.action = "play"]
  <1>1. /\ e # Nothing /\ u # <<>> /\ u[1].type = "playback.state" /\ u[1] \in ToServer /\ 1 \in 1..Len(u)
        /\ r = u[1] /\ u \in Seq(ToServer) /\ e.ready
    BY ArrivedFacts, HeardIsReady DEF ReportState
  <1>2. /\ e \in LinkEntry /\ LinkOk(e, holder, made)
    BY <1>1, LinkFacts
  <1>3. r \in Report
    BY <1>1 DEF ToServer, Report
  <1>4. t = [e EXCEPT !.up = Tail(@)]
    BY DEF Taken
  <1>5. /\ t \in LinkEntry /\ LinkOk(t, holder, made) /\ t.ready /\ t.up = Tail(u) /\ t.down = e.down
        /\ t.held = e.held /\ t.bound = e.bound /\ t.sequence = e.sequence /\ t.revoked = e.revoked
    BY <1>1, <1>2, <1>4, TakenOk
  <1>6. UNCHANGED <<holder, ClientSide, restarts>>
    BY DEF ReportState
  <1>7. service \in Services /\ (service.latest # Nothing => service.latest.session = service.session)
    BY WorldFacts
  <1>8. ASSUME l = current, s # Nothing, s = holder
        PROVE  HolderOk(e, service) /\ NotAbove(u, s, service.sequence)
    BY <1>1, <1>2, <1>8, LinkFacts DEF CurrentOk, OpenOk, ClosedOk, FeedIInv, FeedTypeOK
  <1>9. CASE Accepted(e, r)
    <2>1. NotifyLinks([link EXCEPT ![l] = b], holder)
      BY <1>9 DEF ReportState
    <2>2. r.session = e.bound /\ holder = e.bound
      BY <1>9 DEF Accepted
    <2>3. /\ b \in LinkEntry /\ b.up = t.up /\ b.ready /\ b.down = t.down /\ b.held = t.held /\ b.bound = t.bound
          /\ b.revoked = t.revoked /\ b.sequence = r.sequence /\ b.playing = (r.action = "play")
      <3>1. r.sequence \in 0..MaxSequence
        BY <1>3, FeedAssumption DEF Report
      <3> HIDE DEF t, r
      <3> QED
        BY <1>5, <3>1 DEF LinkEntry
    <2>4. LinkOk(b, holder, made)
      <3>1. NotBelow(b.up, b.bound, b.sequence)
        <4>1. \A i \in 2..Len(u) : u[i].type = "playback.state" /\ u[i].session = e.bound => u[1].sequence <= u[i].sequence
          BY <1>1, <1>2, <2>2 DEF LinkOk, InOrder
        <4>2. \A i \in 1..Len(Tail(u)) : Tail(u)[i] = u[i + 1] /\ i + 1 \in 2..Len(u)
          BY <1>1, TailFacts
        <4>3. b.up = Tail(u) /\ b.bound = e.bound /\ b.sequence = u[1].sequence
          BY <1>1, <1>5, <2>3
        <4> HIDE DEF b
        <4> QED
          BY <4>1, <4>2, <4>3 DEF NotBelow
      <3> HIDE DEF b, t
      <3> QED
        BY <1>5, <2>3, <3>1 DEF LinkOk
    <2>5. ASSUME l = current, s # Nothing, s = holder PROVE HolderOk(b, service)
      <3>1. b.bound = s /\ b.sequence <= service.sequence
        <4>1. u[1].sequence <= service.sequence
          BY <1>1, <1>8, <2>2, <2>5 DEF NotAbove
        <4> QED
          BY <1>1, <1>5, <2>2, <2>3, <2>5, <4>1
      <3>2. service.latest # Nothing =>
              \/ LatestUnderWay(b.up, s, service.latest)
              \/ NothingUnderWay(b.up, s) /\ b.playing = (service.latest.action = "play")
        <4> SUFFICES ASSUME service.latest # Nothing
                     PROVE  \/ LatestUnderWay(b.up, s, service.latest)
                            \/ NothingUnderWay(b.up, s) /\ b.playing = (service.latest.action = "play")
          OBVIOUS
        <4>1. ~NothingUnderWay(u, s)
          BY <1>1, <2>2, <2>5 DEF NothingUnderWay, Speaks
        <4>2. LatestUnderWay(u, s, service.latest)
          BY <1>8, <2>5, <4>1 DEF HolderOk
        <4>3. LatestUnderWay(Tail(u), s, service.latest) \/ (u[1] = service.latest /\ NothingUnderWay(Tail(u), s))
          BY <1>1, <4>2, LatestRemains
        <4>4. b.up = Tail(u) /\ b.playing = (u[1].action = "play")
          BY <1>1, <1>5, <2>3
        <4> HIDE DEF b
        <4> QED
          BY <4>3, <4>4
      <3> HIDE DEF b
      <3> QED
        BY <3>1, <3>2 DEF HolderOk
    <2>6. l = current => CurrentOk(b, holder, revision, status, service, lastRevision, shown)
      <3>1. b.up = Tail(u) /\ b.down = e.down /\ b.held = e.held
        BY <1>5, <2>3
      <3> HIDE DEF b
      <3> QED
        BY <1>1, <2>3, <2>5, <3>1, TakenCurrent
    <2> HIDE DEF b
    <2> DEFINE entries == [link EXCEPT ![l] = b]
    <2>7. entries \in [Link -> LinkEntry \union {Nothing}]
      BY <2>3 DEF FeedIInv, FeedTypeOK
    <2>8. ASSUME NEW k \in Link, entries[k] # Nothing
          PROVE  /\ LinkOk(entries[k], holder, made)
                 /\ k = current => CurrentOk(entries[k], holder, revision, status, service, lastRevision, shown)
      <3>1. CASE k = l
        BY <2>4, <2>6, <3>1 DEF FeedIInv, FeedTypeOK
      <3>2. CASE k # l
        <4>1. entries[k] = link[k]
          BY <3>2 DEF FeedIInv, FeedTypeOK
        <4> QED
          BY <2>8, <4>1, LinkFacts
      <3> QED
        BY <3>1, <3>2
    <2>9. NotifyLinks(entries, holder) /\ holder' = holder /\ holder \in Owners /\ UNCHANGED <<ClientSide, restarts>>
      BY <1>6, <2>1, WorldFacts
    <2> HIDE DEF entries
    <2> QED
      BY <2>7, <2>8, <2>9, NotifyKeeps
  <1>10. CASE ~Accepted(e, r)
    <2>1. link' = [link EXCEPT ![l] = Rejected(t)] /\ UNCHANGED revision
      BY <1>10 DEF ReportState
    <2>2. ASSUME l = current, s # Nothing, s = holder PROVE HolderOk(t, service)
      <3>1. HolderOk(e, service)
        BY <1>8, <2>2
      <3>2. u[1].session # s
        <4>1. CASE e.bound = s
          <5>1. u[1].session = s => e.sequence <= u[1].sequence
            BY <1>1, <1>2, <2>2, <4>1 DEF LinkOk, NotBelow
          <5>2. e.sequence \in Nat /\ u[1].sequence \in Nat
            BY <1>1, <1>2, <1>3, FeedAssumption DEF LinkEntry, Report
          <5> QED
            BY <1>1, <1>10, <2>2, <4>1, <5>1, <5>2 DEF Accepted
        <4>2. CASE e.bound # s
          <5>1. BindUnderWay(u, s)
            BY <3>1, <4>2 DEF HolderOk
          <5>2. PICK i \in 1..Len(u) : \A j \in 1..i : u[j].type = "playback.state" => u[j].session # s
            BY <5>1 DEF BindUnderWay
          <5>3. 1 \in 1..i
            BY <5>2
          <5> QED
            BY <1>1, <5>2, <5>3
        <4> QED
          BY <4>1, <4>2
      <3> QED
        BY <1>1, <1>2, <1>4, <1>7, <3>1, <3>2, HolderRemains
    <2>3. l = current => CurrentOk(t, holder, revision, status, service, lastRevision, shown)
      BY <1>1, <1>5, <2>2, TakenCurrent
    <2>4. UNCHANGED <<holder, revision, ClientSide, restarts>>
      BY <1>6, <2>1
    <2> HIDE DEF t
    <2> QED
      BY <1>5, <2>1, <2>3, <2>4, RejectedKeeps
  <1> QED
    BY <1>9, <1>10

LEMMA CleanupKeeps == FeedIInv /\ (\E l \in Link : Cleanup(l)) => FeedIInv'
  BY OneLink DEF Cleanup

LEMMA RestartKeeps == FeedIInv /\ RestartHub => FeedIInv'
  <1> SUFFICES ASSUME FeedIInv, RestartHub PROVE FeedIInv'
    OBVIOUS
  <1>1. /\ link' = [l \in Link |-> Nothing] /\ revision' = 0 /\ restarts' = restarts + 1 /\ restarts < MaxRestarts
        /\ UNCHANGED <<holder, ClientSide>>
    BY DEF RestartHub
  <1>2. FeedTypeOK'
    BY <1>1, FeedAssumption DEF FeedIInv, FeedTypeOK, ClientSide
  <1>3. WorldOk'
    BY <1>1 DEF FeedIInv, WorldOk, ClientSide
  <1>4. LinksOk' /\ InUseOk'
    BY <1>1, <1>2 DEF LinksOk, InUseOk, ClientSide, FeedTypeOK
  <1> QED
    BY <1>2, <1>3, <1>4 DEF FeedIInv

LEMMA OthersKeep == FeedIInv /\ (Expire \/ OthersChange) => FeedIInv'
  <1> SUFFICES ASSUME FeedIInv, Expire \/ OthersChange PROVE FeedIInv'
    OBVIOUS
  <1>1. PICK g \in {Other, Nothing} : holder' = g /\ NotifyLinks(link, g) /\ UNCHANGED <<ClientSide, restarts>>
    BY DEF Expire, OthersChange, Lease
  <1>2. link \in [Link -> LinkEntry \union {Nothing}] /\ g \in Owners
    BY DEF FeedIInv, FeedTypeOK, Owners
  <1> QED
    BY <1>1, <1>2, LinkFacts, NotifyKeeps

-----------------------------------------------------------------------------
(* What the client says *)

LEMMA AppendFacts ==
    ASSUME NEW S, NEW u \in Seq(S), NEW m \in S, NEW v, v = u \o <<m>>
    PROVE  /\ v \in Seq(S) /\ Len(v) = Len(u) + 1 /\ v[Len(u) + 1] = m /\ Len(u) + 1 \in 1..Len(v)
           /\ Len(u) \in Nat
           /\ \A i \in 1..Len(u) : v[i] = u[i] /\ i \in 1..Len(v)
           /\ \A i \in 1..Len(v) : i \in 1..Len(u) \/ i = Len(u) + 1
  OBVIOUS

\* What was under way remains so, and is followed.
LEMMA SaidKeeps ==
    ASSUME NEW u \in Seq(ToServer), NEW m \in ToServer, NEW v, v = u \o <<m>>, NEW known,
           KnownOnly(u, known), InOrder(u), Silent(u), Speaks(m), m.session \in known,
           m.type = "playback.state" => NotAbove(u, m.session, m.sequence)
    PROVE  /\ KnownOnly(v, known) /\ InOrder(v) /\ Silent(v)
           /\ \A s \in Tab : BindUnderWay(u, s) => BindUnderWay(v, s)
  <1> DEFINE n == Len(u) + 1
  <1>1. /\ v[n] = m /\ n \in 1..Len(v) /\ (\A i \in 1..Len(u) : v[i] = u[i] /\ i \in 1..Len(v) /\ i < n)
        /\ \A i \in 1..Len(v) : i \in 1..Len(u) \/ i = n
    BY AppendFacts
  <1> HIDE DEF n
  <1>2. KnownOnly(v, known)
    BY <1>1 DEF KnownOnly
  <1>3. Silent(v)
    BY <1>1 DEF Silent, Speaks
  <1>4. InOrder(v)
    <2> SUFFICES ASSUME NEW i \in 1..Len(v), NEW j \in 1..Len(v), i <= j, v[i].type = "playback.state",
                        v[j].type = "playback.state", v[i].session = v[j].session
                 PROVE  v[i].sequence <= v[j].sequence
      BY DEF InOrder
    <2>1. CASE i \in 1..Len(u) /\ j \in 1..Len(u)
      BY <1>1, <2>1 DEF InOrder
    <2>2. CASE i \in 1..Len(u) /\ j = n
      BY <1>1, <2>2 DEF NotAbove
    <2>3. CASE i = n
      <3>1. j = n
        BY <1>1, <2>3
      <3>2. m.sequence \in Nat
        BY <1>1, <2>3, FeedAssumption DEF ToServer, Report
      <3> QED
        BY <1>1, <2>3, <3>1, <3>2
    <2> QED
      BY <1>1, <2>1, <2>2, <2>3
  <1>5. ASSUME NEW s \in Tab, BindUnderWay(u, s) PROVE BindUnderWay(v, s)
    <2>1. PICK i \in 1..Len(u) : /\ u[i].type = "session.bind" /\ u[i].session = s
                                 /\ \A j \in 1..i : u[j].type = "playback.state" => u[j].session # s
      BY <1>5 DEF BindUnderWay
    <2>2. \A j \in 1..i : j \in 1..Len(u)
      BY <2>1
    <2> QED
      BY <1>1, <2>1, <2>2 DEF BindUnderWay
  <1> QED
    BY <1>2, <1>3, <1>4, <1>5

LEMMA SaidFollows ==
    ASSUME NEW u \in Seq(ToServer), NEW m \in ToServer, NEW v, v = u \o <<m>>
    PROVE  /\ \A s, q : NotBelow(u, s, q) /\ (m.type = "playback.state" /\ m.session = s => q <= m.sequence)
                            => NotBelow(v, s, q)
           /\ m.type = "session.bind" => \A s, q : NotAbove(u, s, q) => NotAbove(v, s, q)
  <1> DEFINE n == Len(u) + 1
  <1>1. /\ v[n] = m /\ n \in 1..Len(v) /\ (\A i \in 1..Len(u) : v[i] = u[i] /\ i \in 1..Len(v) /\ i < n)
        /\ \A i \in 1..Len(v) : i \in 1..Len(u) \/ i = n
    BY AppendFacts
  <1> HIDE DEF n
  <1> QED
    BY <1>1 DEF NotBelow, NotAbove

\* A report is the last that is said of its session.
LEMMA ReportFollows ==
    ASSUME NEW u \in Seq(ToServer), NEW m \in Report, NEW v, v = u \o <<m>>, NEW q \in Nat,
           NotAbove(u, m.session, q), q <= m.sequence
    PROVE  /\ NotAbove(u, m.session, m.sequence) /\ NotAbove(v, m.session, m.sequence)
           /\ LatestUnderWay(v, m.session, m)
  <1> DEFINE n == Len(u) + 1
  <1>1. m \in ToServer /\ m.sequence \in Nat /\ \A x \in ToServer : x.type = "playback.state" => x.sequence \in Nat
    BY FeedAssumption DEF ToServer, Report
  <1>2. /\ v[n] = m /\ n \in 1..Len(v) /\ (\A i \in 1..Len(u) : v[i] = u[i] /\ i \in 1..Len(v) /\ i < n)
        /\ (\A i \in 1..Len(v) : i \in 1..Len(u) \/ i = n) /\ \A i \in (n + 1)..Len(v) : FALSE
    BY <1>1, AppendFacts
  <1>3. NotAbove(u, m.session, m.sequence)
    BY <1>1 DEF NotAbove
  <1> HIDE DEF n
  <1>4. NotAbove(v, m.session, m.sequence)
    BY <1>1, <1>2, <1>3 DEF NotAbove
  <1>5. LatestUnderWay(v, m.session, m)
    BY <1>2 DEF LatestUnderWay
  <1> QED
    BY <1>3, <1>4, <1>5

\* A session that nobody has spoken of is bound first.
LEMMA BindFollows ==
    ASSUME NEW u \in Seq(ToServer), NEW m \in ToServer, m.type = "session.bind", NEW v, v = u \o <<m>>,
           NothingUnderWay(u, m.session)
    PROVE  BindUnderWay(v, m.session) /\ \A q : NotAbove(v, m.session, q)
  <1> DEFINE n == Len(u) + 1
  <1>1. /\ v[n] = m /\ n \in 1..Len(v) /\ (\A i \in 1..Len(u) : v[i] = u[i] /\ i \in 1..Len(v) /\ i < n)
        /\ (\A i \in 1..Len(v) : i \in 1..Len(u) \/ i = n) /\ \A i \in 1..n : i \in 1..Len(u) \/ i = n
    BY AppendFacts
  <1> HIDE DEF n
  <1>2. ASSUME NEW i \in 1..Len(v), v[i].type = "playback.state" PROVE v[i].session # m.session
    BY <1>1, <1>2 DEF NothingUnderWay, Speaks
  <1>3. \A i \in 1..n : i \in 1..Len(v)
    BY <1>1
  <1>4. BindUnderWay(v, m.session)
    BY <1>1, <1>2, <1>3 DEF BindUnderWay
  <1>5. \A q : NotAbove(v, m.session, q)
    BY <1>2 DEF NotAbove
  <1> QED
    BY <1>4, <1>5

-----------------------------------------------------------------------------
(* The client's steps keep the invariant *)

LEMMA InUseKeeps ==
    ASSUME FeedIInv, current # Nothing, NEW f \in LinkEntry, link' = [link EXCEPT ![current] = f],
           LinkOk(f, holder, made), UNCHANGED <<holder, revision, current, made>>,
           CurrentOk(f, holder, revision, status', service', lastRevision', shown')
    PROVE  LinksOk' /\ InUseOk' /\ link' \in [Link -> LinkEntry \union {Nothing}]
  BY DEF FeedIInv, FeedTypeOK, LinksOk, InUseOk

\* What the client reads.
LEMMA ReadFacts ==
    ASSUME FeedIInv, NEW type, Incoming(type), NEW e, e = link[current], NEW t, t = [e EXCEPT !.down = Tail(@)]
    PROVE  /\ e \in LinkEntry /\ t \in LinkEntry /\ LinkOk(e, holder, made) /\ LinkOk(t, holder, made)
           /\ CurrentOk(e, holder, revision, status, service, lastRevision, shown)
           /\ e.ready /\ Head(e.down) = e.down[1] /\ e.down[1] \in ToClient /\ e.down[1].type = type
           /\ t.up = e.up /\ t.ready /\ t.bound = e.bound /\ t.sequence = e.sequence /\ t.playing = e.playing
           /\ link' = Read => link' = [link EXCEPT ![current] = t]
           /\ current # Nothing /\ current \in Link
  <1>1. current \in Link /\ e # Nothing /\ e.down # <<>> /\ current # Nothing
    BY DEF Incoming, FeedIInv, FeedTypeOK
  <1>2. /\ e \in LinkEntry /\ LinkOk(e, holder, made)
        /\ CurrentOk(e, holder, revision, status, service, lastRevision, shown)
    BY <1>1, LinkFacts
  <1>3. e.down \in Seq(ToClient)
    BY <1>2 DEF LinkEntry
  <1>4. /\ Tail(e.down) \in Seq(ToClient) /\ Head(e.down) = e.down[1] /\ e.down[1] \in ToClient
    BY <1>1, <1>3
  <1>5. e.ready
    BY <1>1, <1>2 DEF LinkOk
  <1>6. /\ t \in LinkEntry /\ t.up = e.up /\ t.ready /\ t.bound = e.bound /\ t.sequence = e.sequence /\ t.playing = e.playing
        /\ t.revoked = e.revoked
    BY <1>2, <1>4, <1>5 DEF LinkEntry
  <1>7. LinkOk(t, holder, made)
    BY <1>2, <1>5, <1>6 DEF LinkOk
  <1>8. link' = Read => link' = [link EXCEPT ![current] = t]
    BY DEF Read
  <1> QED
    BY <1>1, <1>2, <1>4, <1>5, <1>6, <1>7, <1>8 DEF Incoming

LEMMA ReadNews ==
    ASSUME FeedIInv, NEW type, Incoming(type), NEW e, e = link[current], NEW t, t = [e EXCEPT !.down = Tail(@)]
    PROVE  /\ DownTrue(t, holder, revision)
           /\ Coming(e, revision) => Coming(t, revision) \/ (type = "lease.state" /\ e.down[1].revision = revision)
           /\ type = "lease.state" => NewsTrue(e.down[1], holder, revision) /\ e.down[1] \in News
           /\ (Greeted(e.down) \/ Greeting(e.down) => Greeted(t.down))
           /\ IF type = "socket.ready" THEN status = "closed" /\ ClosedOk(e)
              ELSE status = "ready" /\ OpenOk(e, holder, revision, service, lastRevision, shown)
  <1>1. /\ e \in LinkEntry /\ t \in LinkEntry /\ e.down # <<>> /\ e.down[1].type = type /\ e.ready
        /\ CurrentOk(e, holder, revision, status, service, lastRevision, shown) /\ e.down[1] \in ToClient
    BY ReadFacts DEF Incoming
  <1>2. e.down \in Seq(ToClient) /\ t.down = Tail(e.down) /\ t.held = e.held
    BY <1>1 DEF LinkEntry
  <1>3. /\ 1 \in 1..Len(e.down) /\ \A i \in 1..Len(t.down) : t.down[i] = e.down[i + 1] /\ i + 1 \in 2..Len(e.down)
        /\ \A i \in 2..Len(e.down) : i - 1 \in 1..Len(t.down) /\ t.down[i - 1] = e.down[i]
    BY <1>1, <1>2, TailFacts
  <1>4. \A i \in 1..Len(e.down) : i = 1 \/ i \in 2..Len(e.down)
    BY <1>2
  <1>5. \A i \in 2..Len(e.down) : i \in 1..Len(e.down)
    BY <1>2
  <1>6. DownTrue(e, holder, revision)
    BY <1>1 DEF CurrentOk, FeedOk
  <1>7. DownTrue(t, holder, revision)
    BY <1>2, <1>3, <1>5, <1>6 DEF DownTrue
  <1>8. Coming(e, revision) => Coming(t, revision) \/ (type = "lease.state" /\ e.down[1].revision = revision)
    <2> SUFFICES ASSUME Coming(e, revision), ~Coming(t, revision) PROVE type = "lease.state" /\ e.down[1].revision = revision
      OBVIOUS
    <2>1. PICK i \in 1..Len(e.down) : e.down[i].type = "lease.state" /\ e.down[i].revision = revision
      BY <1>2 DEF Coming
    <2>2. i = 1
      BY <1>3, <1>4, <2>1 DEF Coming
    <2> QED
      BY <1>1, <2>1, <2>2
  <1>9. type = "lease.state" => NewsTrue(e.down[1], holder, revision) /\ e.down[1] \in News
    BY <1>1, <1>3, <1>6 DEF DownTrue, ToClient
  <1>10. Greeted(e.down) \/ Greeting(e.down) => Greeted(t.down)
    BY <1>3, <1>5 DEF Greeted, Greeting
  <1>11. IF type = "socket.ready" THEN status = "closed" /\ ClosedOk(e)
         ELSE status = "ready" /\ OpenOk(e, holder, revision, service, lastRevision, shown)
    <2>1. status \in {"closed", "ready"}
      BY DEF FeedIInv, FeedTypeOK
    <2> QED
      BY <1>1, <1>3, <2>1 DEF CurrentOk, ClosedOk, OpenOk, Greeted, Greeting
  <1> QED
    BY <1>7, <1>8, <1>9, <1>10, <1>11

\* Reading it when it is ready, what follows from the news apart.
LEMMA ReadOpen ==
    ASSUME FeedIInv, NEW type, Incoming(type), type # "socket.ready", NEW e, e = link[current],
           NEW t, t = [e EXCEPT !.down = Tail(@)], NEW svc, svc = service \/ svc.session = Nothing,
           NEW last, NEW told, last # Nothing => NewsTrue([revision |-> last, state |-> told], holder, revision),
           Coming(e, revision) \/ lastRevision = revision => Coming(t, revision) \/ last = revision
    PROVE  CurrentOk(t, holder, revision, status, svc, last, told)
  <1>1. /\ e.ready /\ t.ready /\ t.up = e.up /\ t.bound = e.bound /\ t.sequence = e.sequence /\ t.playing = e.playing
        /\ CurrentOk(e, holder, revision, status, service, lastRevision, shown)
    BY ReadFacts
  <1>2. /\ DownTrue(t, holder, revision) /\ (Greeted(e.down) => Greeted(t.down))
        /\ status = "ready" /\ OpenOk(e, holder, revision, service, lastRevision, shown)
    <2>1. DownTrue(t, holder, revision) /\ (Greeted(e.down) => Greeted(t.down))
      BY ReadNews
    <2>2. IF type = "socket.ready" THEN status = "closed" /\ ClosedOk(e)
          ELSE status = "ready" /\ OpenOk(e, holder, revision, service, lastRevision, shown)
      BY ReadNews
    <2> QED
      BY <2>1, <2>2
  <1>3. FeedOk(t, holder, revision, status, last)
    BY <1>1, <1>2 DEF CurrentOk, FeedOk
  <1>4. HolderOk(e, service) => HolderOk(t, service)
    BY <1>1 DEF HolderOk
  <1>5. OpenOk(t, holder, revision, svc, last, told)
    BY <1>1, <1>2, <1>4 DEF OpenOk
  <1> QED
    BY <1>2, <1>3, <1>5 DEF CurrentOk

LEMMA ReadyKeeps == FeedIInv /\ SocketReady => FeedIInv'
  <1> SUFFICES ASSUME FeedIInv, SocketReady PROVE FeedIInv'
    OBVIOUS
  <1> DEFINE e == link[current]
             t == [e EXCEPT !.down = Tail(@)]
             s == service.session
             latest == service.latest
             said == BindMessage(s) \o LatestMessage(latest)
             f == [t EXCEPT !.up = said]
  <1>1. /\ Incoming("socket.ready") /\ status' = "ready" /\ lastRevision' = Nothing
        /\ link' = Uplink(Read, said)
        /\ UNCHANGED <<holder, revision, current, service, shown, player, made, restarts>>
    BY DEF SocketReady
  <1>2. /\ e \in LinkEntry /\ t \in LinkEntry /\ LinkOk(t, holder, made) /\ t.ready /\ t.up = e.up /\ t.bound = e.bound
        /\ CurrentOk(e, holder, revision, status, service, lastRevision, shown) /\ e.ready
        /\ current # Nothing /\ current \in Link /\ e # Nothing
    BY <1>1, ReadFacts DEF Incoming
  <1>3. /\ status = "closed" /\ ClosedOk(e) /\ DownTrue(t, holder, revision) /\ Greeted(t.down)
        /\ (Coming(e, revision) => Coming(t, revision))
    BY <1>1, <1>2, ReadNews DEF ClosedOk
  <1>4. t.up = <<>> /\ t.bound = Nothing
    BY <1>2, <1>3 DEF ClosedOk
  <1>5. /\ service \in Services /\ (s # Nothing => s \in made) /\ made \subseteq Tab
        /\ (latest # Nothing => s # Nothing /\ latest.session = s /\ latest.sequence = service.sequence)
    BY WorldFacts DEF FeedIInv, WorldOk
  <1>7. /\ said \in Seq(ToServer) /\ KnownOnly(said, made) /\ InOrder(said) /\ Silent(said)
        /\ s # Nothing => NotAbove(said, s, service.sequence) /\ BindUnderWay(said, s)
                          /\ (latest # Nothing => LatestUnderWay(said, s, latest))
    <2>1. CASE s = Nothing
      <3>1. said = <<>> /\ Len(said) = 0
        BY <1>5, <2>1 DEF BindMessage, LatestMessage
      <3> HIDE DEF said
      <3> QED
        BY <2>1, <3>1 DEF KnownOnly, InOrder, Silent
    <2>2. CASE s # Nothing
      <3> DEFINE bind == [type |-> "session.bind", session |-> s]
                 none == <<>>
                 one == none \o <<bind>>
                 two == one \o <<latest>>
      <3>1. bind \in ToServer /\ s \in Tab /\ s \in made
        BY <1>5, <2>2 DEF ToServer
      <3>2. none \in Seq(ToServer) /\ KnownOnly(none, made) /\ InOrder(none) /\ Silent(none) /\ NothingUnderWay(none, s)
        BY DEF KnownOnly, InOrder, Silent, NothingUnderWay
      <3>3. one \in Seq(ToServer) /\ one = <<bind>>
        BY <3>1
      <3>4. Speaks(bind) /\ bind.session = s /\ bind.type = "session.bind"
        BY DEF Speaks
      <3> HIDE DEF bind, none, one
      <3>5. KnownOnly(one, made) /\ InOrder(one) /\ Silent(one) /\ BindUnderWay(one, s) /\ \A q : NotAbove(one, s, q)
        <4>1. KnownOnly(one, made) /\ InOrder(one) /\ Silent(one)
          BY <3>1, <3>2, <3>4, SaidKeeps DEF one
        <4>2. BindUnderWay(one, s) /\ \A q : NotAbove(one, s, q)
          BY <3>1, <3>2, <3>4, BindFollows DEF one
        <4> QED
          BY <4>1, <4>2
      <3>6. CASE latest = Nothing
        <4>1. said = one
          BY <2>2, <3>3, <3>6 DEF BindMessage, LatestMessage, bind
        <4> HIDE DEF said
        <4> QED
          BY <3>3, <3>5, <3>6, <4>1
      <3>7. CASE latest # Nothing
        <4>1. said = two
          BY <2>2, <3>3, <3>7 DEF BindMessage, LatestMessage, bind
        <4>2. /\ latest \in Report /\ latest \in ToServer /\ latest.session = s /\ latest.sequence = service.sequence
              /\ latest.sequence \in Nat /\ Speaks(latest) /\ latest.type = "playback.state"
          BY <1>5, <3>7, FeedAssumption DEF Services, Report, ToServer, Speaks
        <4>3. two \in Seq(ToServer)
          BY <3>3, <4>2, AppendFacts
        <4>4. KnownOnly(two, made) /\ InOrder(two) /\ Silent(two) /\ BindUnderWay(two, s)
          BY <3>1, <3>3, <3>5, <4>2, SaidKeeps
        <4>5. NotAbove(two, s, service.sequence) /\ LatestUnderWay(two, s, latest)
          <5>1. NotAbove(one, latest.session, latest.sequence) /\ latest.sequence <= latest.sequence
            BY <3>5, <4>2
          <5>2. NotAbove(two, latest.session, latest.sequence) /\ LatestUnderWay(two, latest.session, latest)
            BY <3>3, <4>2, <5>1, ReportFollows
          <5> HIDE DEF two
          <5> QED
            BY <4>2, <5>2
        <4> HIDE DEF said, two
        <4> QED
          BY <4>1, <4>3, <4>4, <4>5
      <3> QED
        BY <3>6, <3>7
    <2> QED
      BY <2>1, <2>2
  <1>6. link' = [link EXCEPT ![current] = f]
    <2> HIDE DEF said
    <2>1. Read = [link EXCEPT ![current] = t] /\ link \in [Link -> LinkEntry \union {Nothing}]
      BY DEF Read, FeedIInv, FeedTypeOK
    <2>2. Read[current] = t /\ t # Nothing
      BY <1>2, <2>1, FeedAssumption
    <2>3. Uplink(Read, said) = [Read EXCEPT ![current] = [t EXCEPT !.up = <<>> \o said]]
      BY <1>2, <1>4, <2>2 DEF Uplink
    <2>4. said \in Seq(ToServer)
      BY <1>7
    <2>5. <<>> \o said = said
      BY <2>4
    <2> HIDE DEF t
    <2>6. [Read EXCEPT ![current] = f] = [link EXCEPT ![current] = f]
      BY <1>2, <2>1
    <2> QED
      BY <1>1, <2>3, <2>5, <2>6
  <1> HIDE DEF said
  <1>8. /\ f \in LinkEntry /\ f.up = said /\ f.ready /\ f.bound = Nothing /\ f.revoked = t.revoked /\ f.down = t.down
        /\ f.held = t.held
    <2> HIDE DEF t
    <2> QED
      BY <1>2, <1>4, <1>7 DEF LinkEntry
  <1>9. LinkOk(f, holder, made)
    <2> HIDE DEF t, f
    <2> QED
      BY <1>2, <1>7, <1>8 DEF LinkOk
  <1>10. CurrentOk(f, holder, revision, status', service', lastRevision', shown')
    <2>1. Coming(f, revision) /\ DownTrue(f, holder, revision)
      <3>1. Coming(e, revision)
        BY <1>2, <1>3 DEF CurrentOk, FeedOk
      <3> HIDE DEF t, f
      <3> QED
        BY <1>3, <1>8, <3>1 DEF Coming, DownTrue
    <2> HIDE DEF t, f
    <2>2. s # Nothing => HolderOk(f, service)
      BY <1>7, <1>8 DEF HolderOk
    <2>3. OpenOk(f, holder, revision, service, Nothing, shown)
      BY <1>3, <1>7, <1>8, <2>2 DEF OpenOk
    <2> QED
      BY <1>1, <2>1, <2>3 DEF CurrentOk, FeedOk
  <1>11. LinksOk' /\ InUseOk' /\ link' \in [Link -> LinkEntry \union {Nothing}]
    <2> HIDE DEF f
    <2> QED
      BY <1>1, <1>2, <1>6, <1>8, <1>9, <1>10, InUseKeeps
  <1>12. FeedTypeOK'
    BY <1>1, <1>11 DEF FeedIInv, FeedTypeOK
  <1>13. WorldOk'
    BY <1>1, <1>2 DEF FeedIInv, WorldOk
  <1> QED
    BY <1>11, <1>12, <1>13 DEF FeedIInv

LEMMA StateKeeps == FeedIInv /\ LeaseState => FeedIInv'
  <1> SUFFICES ASSUME FeedIInv, LeaseState PROVE FeedIInv'
    OBVIOUS
  <1> DEFINE e == link[current]
             t == [e EXCEPT !.down = Tail(@)]
             n == Head(e.down)
             takes == lastRevision = Nothing \/ n.revision >= lastRevision
  <1>1. /\ Incoming("lease.state") /\ link' = Read
        /\ UNCHANGED <<holder, revision, current, status, made, restarts>>
        /\ IF takes THEN lastRevision' = n.revision /\ shown' = n.state /\ Observe(n.state)
           ELSE UNCHANGED <<lastRevision, shown, service, player>>
    BY DEF LeaseState
  <1>2. /\ e \in LinkEntry /\ t \in LinkEntry /\ LinkOk(t, holder, made) /\ n = e.down[1]
        /\ link' = [link EXCEPT ![current] = t] /\ current # Nothing
    BY <1>1, ReadFacts
  <1>3. /\ NewsTrue(n, holder, revision) /\ n \in News
        /\ (Coming(e, revision) => Coming(t, revision) \/ n.revision = revision)
        /\ OpenOk(e, holder, revision, service, lastRevision, shown)
    BY <1>1, <1>2, ReadNews
  <1>4. /\ service' = service \/ service'.session = Nothing
        /\ service' \in Services /\ player' \in [session : Tab \union {Nothing}, playing : BOOLEAN, stale : BOOLEAN]
        /\ WorldOk'
    <2>1. /\ player \in [session : Tab \union {Nothing}, playing : BOOLEAN, stale : BOOLEAN] /\ service \in Services
          /\ WorldOk
      BY DEF FeedIInv, FeedTypeOK, Services
    <2>2. CASE service' = Bound(Nothing) /\ player' = Dropped
      <3>1. service'.session = Nothing /\ service'.latest = Nothing /\ service' \in Services /\ player'.session = Nothing
            /\ player' \in [session : Tab \union {Nothing}, playing : BOOLEAN, stale : BOOLEAN]
        BY <2>1, <2>2, FeedAssumption DEF Bound, Dropped, Services
      <3> QED
        BY <1>1, <2>1, <3>1 DEF WorldOk
    <2>3. CASE player' = [player EXCEPT !.stale = TRUE] /\ UNCHANGED service
      <3>1. player'.session = player.session
            /\ player' \in [session : Tab \union {Nothing}, playing : BOOLEAN, stale : BOOLEAN]
        BY <2>1, <2>3
      <3> QED
        BY <1>1, <2>1, <2>3, <3>1 DEF WorldOk
    <2>4. CASE UNCHANGED <<service, player>>
      BY <1>1, <2>1, <2>4 DEF WorldOk
    <2> QED
      BY <1>1, <2>2, <2>3, <2>4 DEF Observe
  <1>5. /\ lastRevision' # Nothing => NewsTrue([revision |-> lastRevision', state |-> shown'], holder, revision)
        /\ Coming(e, revision) \/ lastRevision = revision => Coming(t, revision) \/ lastRevision' = revision
        /\ lastRevision' \in 0..MaxRevision \union {Nothing} /\ shown' \in States \union {Nothing}
    <2>1. /\ lastRevision \in 0..MaxRevision \union {Nothing} /\ revision \in 0..MaxRevision
          /\ n.revision \in 0..MaxRevision /\ n.state \in States /\ n.revision <= revision
          /\ shown \in States \union {Nothing}
      BY <1>3 DEF FeedIInv, FeedTypeOK, News, NewsTrue
    <2>2. lastRevision # Nothing => NewsTrue([revision |-> lastRevision, state |-> shown], holder, revision)
                                    /\ lastRevision \in Nat /\ lastRevision <= revision
      BY <1>3, <2>1 DEF OpenOk, NewsTrue
    <2> HIDE DEF n, t, e
    <2>3. CASE takes
      <3>1. lastRevision' = n.revision /\ shown' = n.state
        BY <1>1, <2>3
      <3>2. NewsTrue([revision |-> lastRevision', state |-> shown'], holder, revision)
        BY <1>3, <3>1 DEF NewsTrue
      <3>3. lastRevision = revision => n.revision = revision
        BY <2>1, <2>3, FeedAssumption
      <3> QED
        BY <1>3, <2>1, <3>1, <3>2, <3>3
    <2>4. CASE ~takes
      <3>1. lastRevision' = lastRevision /\ shown' = shown /\ lastRevision # Nothing /\ n.revision < lastRevision
        BY <1>1, <2>1, <2>4
      <3>2. n.revision # revision
        BY <2>1, <2>2, <3>1
      <3> QED
        BY <1>3, <2>1, <2>2, <3>1, <3>2
    <2> QED
      BY <2>3, <2>4
  <1>6. CurrentOk(t, holder, revision, status, service', lastRevision', shown')
    BY <1>1, <1>4, <1>5, ReadOpen
  <1>7. LinksOk' /\ InUseOk' /\ link' \in [Link -> LinkEntry \union {Nothing}]
    BY <1>1, <1>2, <1>6, InUseKeeps
  <1>8. FeedTypeOK'
    BY <1>1, <1>4, <1>5, <1>7 DEF FeedIInv, FeedTypeOK, Services
  <1> QED
    BY <1>4, <1>7, <1>8 DEF FeedIInv

LEMMA LostKeeps == FeedIInv /\ (LeaseLost \/ NotOwner) => FeedIInv'
  <1> SUFFICES ASSUME FeedIInv, LeaseLost \/ NotOwner PROVE FeedIInv'
    OBVIOUS
  <1> DEFINE e == link[current]
             t == [e EXCEPT !.down = Tail(@)]
  <1>1. PICK type \in {"lease.lost", "not.owner"} :
            /\ Incoming(type) /\ link' = Read /\ player' \in {Dropped, player}
            /\ UNCHANGED <<holder, revision, current, status, service, lastRevision, shown, made, restarts>>
    BY DEF LeaseLost, NotOwner
  <1>2. /\ t \in LinkEntry /\ LinkOk(t, holder, made) /\ link' = [link EXCEPT ![current] = t] /\ current # Nothing
    BY <1>1, ReadFacts
  <1>3. /\ (Coming(e, revision) => Coming(t, revision)) /\ OpenOk(e, holder, revision, service, lastRevision, shown)
    BY <1>1, ReadNews
  <1>4. CurrentOk(t, holder, revision, status, service, lastRevision, shown)
    <2>1. lastRevision # Nothing => NewsTrue([revision |-> lastRevision, state |-> shown], holder, revision)
      BY <1>3 DEF OpenOk
    <2> QED
      BY <1>1, <1>3, <2>1, ReadOpen
  <1>5. LinksOk' /\ InUseOk' /\ link' \in [Link -> LinkEntry \union {Nothing}]
    BY <1>1, <1>2, <1>4, InUseKeeps
  <1>6. /\ player' \in [session : Tab \union {Nothing}, playing : BOOLEAN, stale : BOOLEAN]
        /\ player'.session = Nothing \/ player' = player
    <2>1. player \in [session : Tab \union {Nothing}, playing : BOOLEAN, stale : BOOLEAN]
      BY DEF FeedIInv, FeedTypeOK
    <2>2. Dropped.session = Nothing /\ Dropped \in [session : Tab \union {Nothing}, playing : BOOLEAN, stale : BOOLEAN]
      BY <2>1 DEF Dropped
    <2> QED
      BY <1>1, <2>1, <2>2
  <1>7. FeedTypeOK'
    BY <1>1, <1>5, <1>6 DEF FeedIInv, FeedTypeOK
  <1>8. WorldOk'
    BY <1>1, <1>6 DEF FeedIInv, WorldOk
  <1> QED
    BY <1>5, <1>7, <1>8 DEF FeedIInv

\* What concerns the player alone.
LEMMA OthersStay ==
    ASSUME FeedIInv, UNCHANGED <<holder, revision, link, current, status, service, lastRevision, shown, made>>
    PROVE  LinksOk' /\ InUseOk' /\ link' \in [Link -> LinkEntry \union {Nothing}]
  BY DEF FeedIInv, FeedTypeOK, LinksOk, InUseOk

LEMMA PublishFacts ==
    ASSUME FeedIInv, NEW action \in Actions, status = "ready", Publish(action),
           UNCHANGED <<holder, revision, current, status, lastRevision, shown, made>>
    PROVE  /\ LinksOk' /\ InUseOk' /\ link' \in [Link -> LinkEntry \union {Nothing}]
           /\ service' \in Services /\ service'.session = service.session
           /\ service'.latest # Nothing =>
                 service'.session # Nothing /\ service'.latest.session = service'.session
                 /\ service'.latest.sequence = service'.sequence
  <1> DEFINE e == link[current]
             s == service.session
             sequence == IF service.sequence < MaxSequence THEN service.sequence + 1 ELSE MaxSequence
             report == [type |-> "playback.state", session |-> s, sequence |-> sequence, action |-> action]
             f == [e EXCEPT !.up = @ \o <<report>>]
  <1>1. /\ service \in Services /\ (s # Nothing => s \in made /\ s \in Tab)
        /\ service.latest # Nothing =>
              s # Nothing /\ service.latest.session = s /\ service.latest.sequence = service.sequence
    BY FeedAssumption DEF FeedIInv, FeedTypeOK, WorldOk, Services
  <1>2. CASE s = Nothing
    <2>1. UNCHANGED <<service, link>>
      BY <1>2 DEF Publish
    <2> QED
      BY <1>1, <2>1, OthersStay
  <1>3. CASE s # Nothing
    <2>1. service' = [service EXCEPT !.latest = report, !.sequence = sequence] /\ link' = Uplink(link, <<report>>)
      BY <1>3 DEF Publish
    <2>2. /\ sequence \in Nat /\ sequence \in 1..MaxSequence /\ sequence \in 0..MaxSequence
          /\ service.sequence <= sequence /\ service.sequence \in Nat
      BY <1>1, FeedAssumption DEF Services
    <2> HIDE DEF sequence
    <2>3. /\ report \in Report /\ report \in ToServer /\ Speaks(report) /\ report # Nothing
          /\ report.session = s /\ report.sequence = sequence /\ report.type = "playback.state"
      <3>1. report \in Report
        BY <1>1, <1>3, <2>2 DEF Report
      <3>2. report \in ToServer /\ report # Nothing
        BY <3>1, FeedAssumption DEF ToServer
      <3> QED
        BY <3>1, <3>2 DEF Speaks
    <2> HIDE DEF report
    <2>4. /\ service' \in Services /\ service'.session = s /\ service'.latest = report
          /\ service'.sequence = sequence
      BY <1>1, <2>1, <2>2, <2>3 DEF Services
    <2>5. current # Nothing /\ current \in Link /\ link \in [Link -> LinkEntry \union {Nothing}]
      BY DEF FeedIInv, FeedTypeOK, WorldOk
    <2>6. CASE e = Nothing
      <3>1. link' = link
        BY <2>1, <2>6 DEF Uplink
      <3>2. LinksOk' /\ InUseOk'
        BY <2>6, <3>1 DEF FeedIInv, LinksOk, InUseOk
      <3> QED
        BY <1>3, <2>3, <2>4, <2>5, <3>1, <3>2
    <2>7. CASE e # Nothing
      <3>1. /\ e \in LinkEntry /\ LinkOk(e, holder, made)
            /\ CurrentOk(e, holder, revision, status, service, lastRevision, shown)
        BY <2>5, <2>7, LinkFacts
      <3>2. OpenOk(e, holder, revision, service, lastRevision, shown)
        BY <3>1 DEF CurrentOk
      <3>3. e.up \in Seq(ToServer) /\ e.ready /\ NotAbove(e.up, s, service.sequence)
        BY <1>3, <3>1, <3>2 DEF LinkEntry, OpenOk
      <3>4. link' = [link EXCEPT ![current] = f]
        BY <2>1, <2>5, <2>7 DEF Uplink
      <3>5. KnownOnly(e.up, made) /\ InOrder(e.up) /\ Silent(e.up)
        BY <3>1, <3>3 DEF LinkOk
      <3> DEFINE v == e.up \o <<report>>
      <3>6. v \in Seq(ToServer)
        BY <2>3, <3>3, AppendFacts
      <3>7. /\ f \in LinkEntry /\ f.up = v /\ f.ready /\ f.bound = e.bound /\ f.sequence = e.sequence
            /\ f.playing = e.playing /\ f.down = e.down /\ f.held = e.held /\ f.revoked = e.revoked
        BY <3>1, <3>3, <3>6 DEF LinkEntry
      <3>8. NotAbove(e.up, s, sequence) /\ NotAbove(v, s, sequence) /\ LatestUnderWay(v, s, report)
        <4>1. NotAbove(e.up, report.session, service.sequence) /\ service.sequence <= report.sequence
          BY <2>2, <2>3, <3>3
        <4>2. /\ NotAbove(e.up, report.session, report.sequence) /\ NotAbove(v, report.session, report.sequence)
              /\ LatestUnderWay(v, report.session, report)
          BY <2>2, <2>3, <3>3, <4>1, ReportFollows
        <4> HIDE DEF v, f, e
        <4> QED
          BY <2>3, <4>2
      <3>9. /\ KnownOnly(v, made) /\ InOrder(v) /\ Silent(v)
            /\ \A x \in Tab : BindUnderWay(e.up, x) => BindUnderWay(v, x)
        <4>1. NotAbove(e.up, report.session, report.sequence) /\ report.session \in made
          BY <1>1, <1>3, <2>3, <3>8
        <4> QED
          BY <2>3, <3>3, <3>5, <4>1, SaidKeeps
      <3>10. HolderOk(e, service) => e.bound = s \/ BindUnderWay(e.up, s)
        BY DEF HolderOk
      <3>11. e.bound # Nothing => NotBelow(v, e.bound, e.sequence)
        <4> SUFFICES ASSUME e.bound # Nothing PROVE NotBelow(v, e.bound, e.sequence)
          OBVIOUS
        <4>1. NotBelow(e.up, e.bound, e.sequence) /\ e.bound = holder
          BY <3>1 DEF LinkOk
        <4>2. e.bound = s => e.sequence <= service.sequence
          BY <1>3, <3>2, <4>1 DEF OpenOk, HolderOk
        <4>3. e.bound = s => e.sequence <= sequence
          <5>1. e.sequence \in Nat
            BY <3>1, FeedAssumption DEF LinkEntry
          <5> QED
            BY <2>2, <4>2, <5>1
        <4>4. report.type = "playback.state" /\ report.session = e.bound => e.sequence <= report.sequence
          BY <2>3, <4>3
        <4> QED
          <5>1. \A x, q : NotBelow(e.up, x, q) /\ (report.type = "playback.state" /\ report.session = x => q <= report.sequence)
                            => NotBelow(v, x, q)
            <6>1. e.up \in Seq(ToServer) /\ report \in ToServer /\ v = e.up \o <<report>>
              BY <2>3, <3>3
            <6> HIDE DEF v
            <6> QED
              BY <6>1, SaidFollows
          <5> HIDE DEF v
          <5> QED
            BY <4>1, <4>4, <5>1
      <3> HIDE DEF f, v
      <3>12. LinkOk(f, holder, made)
        BY <3>1, <3>7, <3>9, <3>11 DEF LinkOk
      <3>13. s = holder => HolderOk(f, service')
        <4> SUFFICES ASSUME s = holder PROVE HolderOk(f, service')
          OBVIOUS
        <4>1. HolderOk(e, service)
          BY <1>3, <3>2 DEF OpenOk
        <4>2. e.bound = s => e.sequence <= sequence
          <5>1. e.sequence \in Nat
            BY <3>1, FeedAssumption DEF LinkEntry
          <5> QED
            BY <2>2, <4>1, <5>1 DEF HolderOk
        <4>3. f.bound = s \/ BindUnderWay(f.up, s)
          BY <1>1, <1>3, <3>7, <3>9, <3>10, <4>1
        <4> QED
          BY <2>4, <3>7, <3>8, <4>2, <4>3 DEF HolderOk
      <3>14. CurrentOk(f, holder, revision, status', service', lastRevision', shown')
        <4>1. FeedOk(f, holder, revision, status, lastRevision)
          <5>1. FeedOk(e, holder, revision, status, lastRevision)
            BY <3>1 DEF CurrentOk
          <5>2. (DownTrue(e, holder, revision) => DownTrue(f, holder, revision)) /\ (Coming(e, revision) => Coming(f, revision))
            BY <3>7 DEF DownTrue, Coming
          <5> QED
            BY <3>3, <3>7, <5>1, <5>2 DEF FeedOk
        <4>2. OpenOk(f, holder, revision, service', lastRevision, shown)
          BY <2>4, <3>2, <3>7, <3>8, <3>13 DEF OpenOk
        <4> QED
          BY <4>1, <4>2 DEF CurrentOk
      <3>15. LinksOk' /\ InUseOk' /\ link' \in [Link -> LinkEntry \union {Nothing}]
        BY <2>5, <3>4, <3>7, <3>12, <3>14, InUseKeeps
      <3> QED
        BY <1>3, <2>3, <2>4, <3>15
    <2> QED
      BY <2>6, <2>7
  <1> QED
    BY <1>2, <1>3

LEMMA PlayerKeeps == FeedIInv /\ (Play \/ Pause \/ Progress \/ HeartbeatLost) => FeedIInv'
  <1> SUFFICES ASSUME FeedIInv, Play \/ Pause \/ Progress \/ HeartbeatLost PROVE FeedIInv'
    OBVIOUS
  <1>1. /\ UNCHANGED <<holder, revision, current, status, lastRevision, shown, made, restarts>>
        /\ player' \in [session : Tab \union {Nothing}, playing : BOOLEAN, stale : BOOLEAN]
        /\ player'.session \in {player.session, Nothing}
    <2>1. player \in [session : Tab \union {Nothing}, playing : BOOLEAN, stale : BOOLEAN]
      BY DEF FeedIInv, FeedTypeOK
    <2>2. CASE Play
      BY <2>1, <2>2 DEF Play
    <2>3. CASE Pause
      <3>1. player' = [player EXCEPT !.playing = FALSE, !.stale = @ \/ status # "ready"]
            /\ (player.stale \/ status # "ready") \in BOOLEAN
        BY <2>3 DEF Pause
      <3> QED
        BY <2>1, <2>3, <3>1 DEF Pause
    <2>4. CASE Progress
      BY <2>1, <2>4 DEF Progress
    <2>5. CASE HeartbeatLost
      <3>1. Dropped.session = Nothing /\ Dropped \in [session : Tab \union {Nothing}, playing : BOOLEAN, stale : BOOLEAN]
        BY <2>1 DEF Dropped
      <3> QED
        BY <2>5, <3>1 DEF HeartbeatLost
    <2> QED
      BY <2>2, <2>3, <2>4, <2>5
  <1>2. UNCHANGED <<service, link>> \/ \E action \in Actions : status = "ready" /\ Publish(action)
    BY DEF Play, Pause, Progress, HeartbeatLost, SayOnSocket, Actions
  <1>3. /\ LinksOk' /\ InUseOk' /\ link' \in [Link -> LinkEntry \union {Nothing}]
        /\ service' \in Services /\ service'.session = service.session
        /\ service'.latest # Nothing =>
              service'.session # Nothing /\ service'.latest.session = service'.session
              /\ service'.latest.sequence = service'.sequence
    <2>1. CASE UNCHANGED <<service, link>>
      BY <1>1, <2>1, OthersStay DEF FeedIInv, FeedTypeOK, WorldOk, Services
    <2>2. CASE \E action \in Actions : status = "ready" /\ Publish(action)
      BY <1>1, <2>2, PublishFacts
    <2> QED
      BY <1>2, <2>1, <2>2
  <1>4. FeedTypeOK'
    BY <1>1, <1>3 DEF FeedIInv, FeedTypeOK, Services
  <1>5. WorldOk'
    BY <1>1, <1>3 DEF FeedIInv, WorldOk
  <1> QED
    BY <1>3, <1>4, <1>5 DEF FeedIInv

LEMMA OpenKeeps == FeedIInv /\ (\E l \in Link : OpenLink(l)) => FeedIInv'
  <1> SUFFICES ASSUME FeedIInv, NEW l \in Link, OpenLink(l) PROVE FeedIInv'
    OBVIOUS
  <1> DEFINE auth == [type |-> "auth"]
             f == [ready |-> FALSE, bound |-> Nothing, revoked |-> Nothing, playing |-> FALSE, sequence |-> 0,
                   held |-> Nothing, up |-> <<auth>>, down |-> <<>>]
  <1>1. /\ current = Nothing /\ current' = l /\ link' = [link EXCEPT ![l] = f] /\ l # Nothing
        /\ UNCHANGED <<holder, revision, status, service, lastRevision, shown, player, made, restarts>>
    BY FeedAssumption DEF OpenLink
  <1>2. f \in LinkEntry
    <2>1. <<auth>> \in Seq(ToServer) /\ <<>> \in Seq(ToClient)
      BY DEF ToServer
    <2>2. 0 \in 0..MaxSequence
      BY FeedAssumption
    <2> QED
      BY <2>1, <2>2 DEF LinkEntry
  <1>3. LinkOk(f, holder, made)
    <2>1. Len(f.up) = 1 /\ \A i \in 1..Len(f.up) : f.up[i].type = "auth"
      OBVIOUS
    <2>2. /\ ~f.ready /\ f.bound = Nothing /\ f.revoked = Nothing /\ f.down = <<>> /\ f.held = Nothing
      OBVIOUS
    <2> HIDE DEF f
    <2>3. KnownOnly(f.up, made) /\ InOrder(f.up)
      BY <2>1 DEF KnownOnly, InOrder, Speaks
    <2> QED
      BY <2>1, <2>2, <2>3 DEF LinkOk
  <1>4. CurrentOk(f, holder, revision, status, service, lastRevision, shown)
    <2>1. status = "closed" /\ ~f.ready
      BY <1>1 DEF FeedIInv, WorldOk
    <2> HIDE DEF f
    <2> QED
      BY <2>1 DEF CurrentOk, FeedOk, ClosedOk
  <1> HIDE DEF f
  <1>5. FeedTypeOK'
    BY <1>1, <1>2 DEF FeedIInv, FeedTypeOK
  <1>6. WorldOk'
    BY <1>1 DEF FeedIInv, WorldOk
  <1>7. LinksOk'
    BY <1>1, <1>3 DEF FeedIInv, FeedTypeOK, LinksOk
  <1>8. InUseOk'
    BY <1>1, <1>4 DEF FeedIInv, FeedTypeOK, InUseOk
  <1> QED
    BY <1>5, <1>6, <1>7, <1>8 DEF FeedIInv

LEMMA CutFacts ==
    ASSUME NEW u \in Seq(ToServer), NEW n \in 0..Len(u), NEW v, v = SubSeq(u, 1, n)
    PROVE  v \in Seq(ToServer) /\ Len(v) = n /\ \A i \in 1..Len(v) : v[i] = u[i] /\ i \in 1..Len(u)
  OBVIOUS

LEMMA BreakKeeps == FeedIInv /\ Break => FeedIInv'
  <1> SUFFICES ASSUME FeedIInv, Break PROVE FeedIInv'
    OBVIOUS
  <1>1. /\ current # Nothing /\ current' = Nothing /\ status' = "closed"
        /\ player' = [player EXCEPT !.stale = @ \/ (player.session # Nothing /\ ~player.playing)]
        /\ UNCHANGED <<holder, revision, service, lastRevision, shown, made, restarts>>
    BY DEF Break
  <1>2. current \in Link /\ link \in [Link -> LinkEntry \union {Nothing}]
    BY <1>1 DEF FeedIInv, FeedTypeOK
  <1>3. link' \in [Link -> LinkEntry \union {Nothing}] /\ LinksOk'
    <2>1. CASE link' = link
      BY <1>1, <1>2, <2>1 DEF FeedIInv, LinksOk
    <2>2. CASE link' # link
      <3> DEFINE e == link[current]
      <3>1. PICK n \in 0..Len(e.up) : e # Nothing /\ link' = [link EXCEPT ![current].up = SubSeq(@, 1, n)]
        BY <2>2 DEF Break
      <3> DEFINE v == SubSeq(e.up, 1, n)
                 f == [e EXCEPT !.up = v]
      <3>2. e \in LinkEntry /\ LinkOk(e, holder, made)
        BY <1>2, <3>1, LinkFacts
      <3>3. e.up \in Seq(ToServer)
        BY <3>2 DEF LinkEntry
      <3>4. v \in Seq(ToServer) /\ Len(v) = n /\ \A i \in 1..Len(v) : v[i] = e.up[i] /\ i \in 1..Len(e.up)
        BY <3>3, CutFacts
      <3>5. link' = [link EXCEPT ![current] = f]
        BY <1>2, <3>1
      <3> HIDE DEF v
      <3>6. /\ f \in LinkEntry /\ f.up = v /\ f.ready = e.ready /\ f.bound = e.bound /\ f.sequence = e.sequence
            /\ f.down = e.down /\ f.held = e.held /\ f.revoked = e.revoked
        BY <3>2, <3>4 DEF LinkEntry
      <3>7. /\ KnownOnly(e.up, made) => KnownOnly(v, made)
            /\ InOrder(e.up) => InOrder(v)
            /\ Silent(e.up) => Silent(v)
            /\ NotBelow(e.up, e.bound, e.sequence) => NotBelow(v, e.bound, e.sequence)
        BY <3>4 DEF KnownOnly, InOrder, Silent, NotBelow
      <3>8. Len(e.up) <= 1 => Len(v) <= 1
        <4>1. Len(e.up) \in Nat
          BY <3>3
        <4> QED
          BY <3>4, <4>1
      <3> HIDE DEF f
      <3>9. LinkOk(f, holder, made)
        BY <3>2, <3>4, <3>6, <3>7, <3>8 DEF LinkOk
      <3> QED
        BY <1>1, <1>2, <3>5, <3>6, <3>9 DEF FeedIInv, LinksOk
    <2> QED
      BY <2>1, <2>2
  <1>4. /\ player' \in [session : Tab \union {Nothing}, playing : BOOLEAN, stale : BOOLEAN]
        /\ player'.session = player.session
    <2>1. player \in [session : Tab \union {Nothing}, playing : BOOLEAN, stale : BOOLEAN]
          /\ (player.stale \/ (player.session # Nothing /\ ~player.playing)) \in BOOLEAN
      BY DEF FeedIInv, FeedTypeOK
    <2> QED
      BY <1>1, <2>1
  <1>5. FeedTypeOK'
    BY <1>1, <1>3, <1>4 DEF FeedIInv, FeedTypeOK
  <1>6. WorldOk'
    BY <1>1, <1>4 DEF FeedIInv, WorldOk
  <1>7. InUseOk'
    BY <1>1 DEF InUseOk
  <1> QED
    BY <1>3, <1>5, <1>6, <1>7 DEF FeedIInv

LEMMA StartKeeps == FeedIInv /\ (\E s \in Tab : StartSession(s)) => FeedIInv'
  <1> SUFFICES ASSUME FeedIInv, NEW s \in Tab, StartSession(s) PROVE FeedIInv'
    OBVIOUS
  <1> DEFINE notified == [l \in Link |-> Told(link[l], s, revision + 1)]
             bind == [type |-> "session.bind", session |-> s]
  <1>1. /\ s \notin made /\ made' = made \union {s} /\ holder' = s /\ revision' = revision + 1 /\ revision < MaxRevision
        /\ player' = [session |-> s, playing |-> FALSE, stale |-> FALSE] /\ service' = Bound(s)
        /\ link' = IF status = "ready" THEN Uplink(notified, <<bind>>) ELSE notified
        /\ UNCHANGED <<current, status, lastRevision, shown, restarts>>
    BY FeedAssumption DEF StartSession, BindMessage
  <1>2. /\ Moves(holder, s, made, made') /\ made' \subseteq Tab /\ revision \in Nat /\ revision + 1 \in 0..MaxRevision
        /\ s # Nothing
    <2>1. /\ made \subseteq Tab /\ holder \in Owners /\ (holder \in Tab => holder \in made) /\ revision \in 0..MaxRevision
      BY DEF FeedIInv, FeedTypeOK, WorldOk, Owners
    <2> QED
      BY <1>1, <2>1, FeedAssumption DEF Moves, Owners
  <1>3. service'.session = s /\ service'.latest = Nothing /\ service'.sequence = 0 /\ service' \in Services
    BY <1>1, FeedAssumption DEF Bound, Services
  <1>4. link \in [Link -> LinkEntry \union {Nothing}] /\ current \in Link \union {Nothing}
    BY DEF FeedIInv, FeedTypeOK
  <1>5. ASSUME NEW l \in Link, notified[l] # Nothing
        PROVE  /\ link[l] \in LinkEntry /\ LinkOk(link[l], holder, made) /\ notified[l] \in LinkEntry
               /\ LinkOk(notified[l], s, made') /\ notified[l].up = link[l].up /\ notified[l].bound = Nothing
               /\ l = current => CurrentOk(notified[l], s, revision + 1, status, service, lastRevision, shown)
    <2> DEFINE f == notified[l]
    <2>1. f = Told(link[l], s, revision + 1)
      OBVIOUS
    <2>2. link[l] # Nothing
      BY <1>5, <2>1 DEF Told
    <2>3. link[l] \in LinkEntry /\ LinkOk(link[l], holder, made)
      BY <2>2, LinkFacts
    <2> HIDE DEF f
    <2>4. /\ f \in LinkEntry /\ LinkOk(f, s, made') /\ f.up = link[l].up
          /\ (link[l].bound \in {Nothing, s} => f.bound = link[l].bound)
          /\ (link[l].bound \notin {Nothing, s} => f.bound = Nothing)
      BY <1>2, <1>5, <2>1, <2>3, ToldFacts DEF f
    <2>5. link[l].bound # s
      BY <1>1, <1>2, <2>3 DEF LinkOk, Moves
    <2>6. l = current => CurrentOk(f, s, revision + 1, status, service, lastRevision, shown)
      BY <1>2, <1>5, <2>1, <2>2, <2>3, LinkFacts, WorldFacts, CurrentNotified DEF f
    <2> QED
      BY <2>3, <2>4, <2>5, <2>6 DEF f
  <1> HIDE DEF notified, bind
  <1>6. notified \in [Link -> LinkEntry \union {Nothing}]
    BY <1>5 DEF notified
  <1>7. ASSUME status # "ready" \/ notified[current] = Nothing
        PROVE  LinksOk' /\ InUseOk' /\ link' \in [Link -> LinkEntry \union {Nothing}]
    <2>1. link' = notified
      <3>1. Uplink(notified, <<bind>>) = notified \/ notified[current] # Nothing
        BY DEF Uplink
      <3> QED
        BY <1>1, <1>7, <3>1
    <2>2. LinksOk'
      BY <1>1, <1>5, <2>1 DEF LinksOk
    <2>3. ASSUME current # Nothing, notified[current] # Nothing
          PROVE  CurrentOk(notified[current], s, revision + 1, status, service', lastRevision, shown)
      <3>1. status = "closed"
        BY <1>7, <2>3 DEF FeedIInv, FeedTypeOK
      <3>2. CurrentOk(notified[current], s, revision + 1, status, service, lastRevision, shown)
        BY <1>4, <1>5, <2>3
      <3> QED
        BY <3>1, <3>2 DEF CurrentOk
    <2>4. InUseOk'
      BY <1>1, <2>1, <2>3 DEF InUseOk
    <2> QED
      BY <1>6, <2>1, <2>2, <2>4
  <1>8. ASSUME status = "ready", notified[current] # Nothing
        PROVE  LinksOk' /\ InUseOk' /\ link' \in [Link -> LinkEntry \union {Nothing}]
    <2> DEFINE e == notified[current]
               u == link[current].up
               v == u \o <<bind>>
               f == [e EXCEPT !.up = v]
    <2>1. current # Nothing /\ current \in Link
      BY <1>4, <1>8 DEF FeedIInv, WorldOk
    <2>2. /\ e \in LinkEntry /\ LinkOk(e, s, made') /\ e.up = u /\ e.bound = Nothing
          /\ CurrentOk(e, s, revision + 1, status, service, lastRevision, shown)
          /\ LinkOk(link[current], holder, made)
      BY <1>5, <1>8, <2>1
    <2>3. u \in Seq(ToServer)
      BY <2>2 DEF LinkEntry
    <2>4. bind \in ToServer /\ Speaks(bind) /\ bind.session = s /\ bind.type = "session.bind" /\ bind.session \in made'
      BY <1>1 DEF ToServer, Speaks, bind
    <2>5. link' = [notified EXCEPT ![current] = f]
      <3>1. Uplink(notified, <<bind>>) = [notified EXCEPT ![current].up = @ \o <<bind>>]
        BY <1>8, <2>1 DEF Uplink
      <3> QED
        BY <1>1, <1>6, <1>8, <2>1, <2>2, <3>1
    <2>6. v \in Seq(ToServer)
      BY <2>3, <2>4, AppendFacts
    <2>7. NothingUnderWay(u, s)
      BY <1>1, <2>2 DEF LinkOk, KnownOnly, NothingUnderWay
    <2>8. OpenOk(e, s, revision + 1, service, lastRevision, shown) /\ e.ready
      BY <1>8, <2>2 DEF CurrentOk, OpenOk
    <2>9. KnownOnly(u, made') /\ InOrder(u) /\ Silent(u)
      BY <2>2, <2>8 DEF LinkOk
    <2>10. KnownOnly(v, made') /\ InOrder(v) /\ Silent(v)
      <3>1. bind.type = "playback.state" => NotAbove(u, bind.session, bind.sequence)
        BY <2>4
      <3> DEFINE known == made'
      <3>2. KnownOnly(u, known) /\ InOrder(u) /\ Silent(u) /\ bind.session \in known
        BY <2>4, <2>9
      <3> HIDE DEF known, u
      <3>3. KnownOnly(v, known) /\ InOrder(v) /\ Silent(v)
        BY <2>3, <2>4, <3>1, <3>2, SaidKeeps
      <3> QED
        BY <3>3 DEF known
    <2>11. BindUnderWay(v, s) /\ \A q : NotAbove(v, s, q)
      BY <2>3, <2>4, <2>7, BindFollows
    <2> HIDE DEF e, v
    <2>12. /\ f \in LinkEntry /\ f.up = v /\ f.ready /\ f.bound = Nothing /\ f.sequence = e.sequence
           /\ f.down = e.down /\ f.held = e.held /\ f.revoked = e.revoked
      BY <2>2, <2>6, <2>8 DEF LinkEntry
    <2> HIDE DEF f
    <2>13. LinkOk(f, s, made')
      BY <2>2, <2>10, <2>12 DEF LinkOk
    <2>14. CurrentOk(f, s, revision + 1, status, service', lastRevision, shown)
      <3>1. FeedOk(f, s, revision + 1, status, lastRevision)
        <4>1. FeedOk(e, s, revision + 1, status, lastRevision)
          BY <2>2 DEF CurrentOk
        <4>2. /\ DownTrue(e, s, revision + 1) => DownTrue(f, s, revision + 1)
              /\ Coming(e, revision + 1) => Coming(f, revision + 1)
          BY <2>12 DEF DownTrue, Coming
        <4> QED
          BY <2>8, <2>12, <4>1, <4>2 DEF FeedOk
      <3>2. HolderOk(f, service')
        BY <1>2, <1>3, <2>11, <2>12 DEF HolderOk
      <3>3. OpenOk(f, s, revision + 1, service', lastRevision, shown)
        BY <1>3, <2>8, <2>11, <2>12, <3>2 DEF OpenOk
      <3> QED
        BY <1>8, <3>1, <3>3 DEF CurrentOk
    <2>15. link'[current] = f /\ link' \in [Link -> LinkEntry \union {Nothing}]
           /\ \A l \in Link : l # current => link'[l] = notified[l]
      BY <1>6, <2>1, <2>5, <2>12
    <2>16. LinksOk'
      BY <1>1, <1>5, <2>13, <2>15 DEF LinksOk
    <2>17. InUseOk'
      BY <1>1, <2>14, <2>15 DEF InUseOk
    <2> QED
      BY <2>15, <2>16, <2>17
  <1>9. LinksOk' /\ InUseOk' /\ link' \in [Link -> LinkEntry \union {Nothing}]
    BY <1>7, <1>8
  <1>10. FeedTypeOK'
    BY <1>1, <1>2, <1>3, <1>9 DEF FeedIInv, FeedTypeOK, Services
  <1>11. WorldOk'
    BY <1>1, <1>3 DEF FeedIInv, WorldOk
  <1> QED
    BY <1>9, <1>10, <1>11 DEF FeedIInv

-----------------------------------------------------------------------------
(* The theorems *)

LEMMA FeedStart == FeedInit => FeedIInv
  BY FeedAssumption DEF FeedInit, FeedIInv, FeedTypeOK, WorldOk, LinksOk, InUseOk

LEMMA FeedStep == FeedIInv /\ [FeedNext]_feedVars => FeedIInv'
  <1> SUFFICES ASSUME FeedIInv, [FeedNext]_feedVars PROVE FeedIInv'
    OBVIOUS
  <1>1. CASE UNCHANGED feedVars
    BY <1>1 DEF feedVars, FeedIInv, FeedTypeOK, WorldOk, LinksOk, InUseOk
  <1>2. CASE FeedNext
    BY <1>2, PingKeeps, AuthenticateKeeps, BindKeeps, ReportKeeps, CleanupKeeps, OpenKeeps, RestartKeeps,
       OthersKeep, BreakKeeps, ReadyKeeps, StateKeeps, LostKeeps, StartKeeps, PlayerKeeps DEF FeedNext
  <1> QED
    BY <1>1, <1>2

\* The invariant of the feed holds in every state, for any marks of the back
\* pressure and any number of connections, sessions and restarts.
THEOREM FeedInvariant == FeedSpec => []FeedIInv
  <1> QED
    BY FeedStart, FeedStep, PTL DEF FeedSpec

\* Whatever the server holds back for a slow receiver and whatever process it
\* is, a client that has read everything shows the lease as it is: of the last
\* revision there is always news on the wire, held back, or shown
\* (playback-socket.js:53).
THEOREM NewsIsShown == FeedSpec => []NewsArrives
  <1>1. FeedIInv => NewsArrives
    <2> SUFFICES ASSUME FeedIInv, Quiet PROVE shown = NewsFor(link[current], holder, revision).state
      BY DEF NewsArrives
    <2> DEFINE e == link[current]
    <2>1. /\ current # Nothing /\ e # Nothing /\ status = "ready" /\ current \in Link
          /\ e.down = <<>> /\ e.held = Nothing
      BY DEF Quiet, FeedIInv, FeedTypeOK
    <2>2. /\ e \in LinkEntry /\ LinkOk(e, holder, made)
          /\ CurrentOk(e, holder, revision, status, service, lastRevision, shown)
      BY <2>1, LinkFacts
    <2>3. OpenOk(e, holder, revision, service, lastRevision, shown) /\ e.ready
      BY <2>1, <2>2 DEF CurrentOk, OpenOk
    <2>4. Len(e.down) = 0
      BY <2>1
    <2>5. ~Coming(e, revision)
      BY <2>1, <2>4 DEF Coming
    <2>6. lastRevision = revision /\ revision # Nothing
      BY <2>2, <2>3, <2>5, FeedAssumption DEF CurrentOk, FeedOk, FeedIInv, FeedTypeOK
    <2>7. shown = Truth(holder)
      BY <2>3, <2>6 DEF OpenOk, NewsTrue
    <2>8. NewsFor(e, holder, revision).state = Truth(holder)
      BY <2>2, WorldFacts, NewsIsTrue DEF LinkOk
    <2> QED
      BY <2>7, <2>8
  <1> QED
    BY <1>1, FeedInvariant, PTL

\* The owner's reports are accepted in the order in which it made them, on each
\* of its connections, and a reconnect ends with the session bound and the last
\* report applied (playback-socket.js:208).
THEOREM ReportsAreTaken == FeedSpec => []FeedInv
  <1>1. FeedIInv => OwnReportsAccepted
    <2> SUFFICES ASSUME FeedIInv, NEW l \in Link, Arrived(l, "playback.state"),
                        Head(link[l].up).session = link[l].bound
                 PROVE  Head(link[l].up).sequence >= link[l].sequence
      BY DEF OwnReportsAccepted
    <2> DEFINE e == link[l]
    <2>1. /\ e # Nothing /\ e.up[1].type = "playback.state" /\ Head(e.up) = e.up[1] /\ 1 \in 1..Len(e.up)
          /\ e.up[1] \in ToServer
      BY ArrivedFacts
    <2>2. e \in LinkEntry /\ LinkOk(e, holder, made)
      BY <2>1, LinkFacts
    <2>3. e.up[1].session \in Tab /\ e.up[1].sequence \in Nat /\ e.sequence \in Nat
      BY <2>1, <2>2, FeedAssumption DEF ToServer, Report, LinkEntry
    <2>4. e.sequence <= e.up[1].sequence
      BY <2>1, <2>2, <2>3, FeedAssumption DEF LinkOk, NotBelow
    <2> QED
      BY <2>1, <2>3, <2>4
  <1>2. FeedIInv => ReconnectRestores
    <2> SUFFICES ASSUME FeedIInv, Quiet, holder \in Tab
                 PROVE  /\ player.session = holder => link[current].bound = holder
                        /\ link[current].bound = service.session /\ service.latest # Nothing =>
                              link[current].playing = (service.latest.action = "play")
      BY DEF ReconnectRestores
    <2> DEFINE e == link[current]
    <2>1. /\ current # Nothing /\ e # Nothing /\ status = "ready" /\ current \in Link /\ e.up = <<>>
          /\ holder # Nothing
      BY FeedAssumption DEF Quiet, FeedIInv, FeedTypeOK
    <2>2. /\ e \in LinkEntry /\ LinkOk(e, holder, made)
          /\ CurrentOk(e, holder, revision, status, service, lastRevision, shown)
      BY <2>1, LinkFacts
    <2>3. service.session = holder => HolderOk(e, service)
      BY <2>1, <2>2 DEF CurrentOk, OpenOk
    <2>4. Len(e.up) = 0
      BY <2>1
    <2>5. ~BindUnderWay(e.up, service.session) /\ ~LatestUnderWay(e.up, service.session, service.latest)
      BY <2>4 DEF BindUnderWay, LatestUnderWay
    <2>6. player.session = holder => service.session = holder
      BY <2>1 DEF FeedIInv, WorldOk
    <2>7. service.latest # Nothing => service.session # Nothing
      BY DEF FeedIInv, WorldOk
    <2>8. e.bound = service.session /\ service.latest # Nothing => service.session = holder
      BY <2>2, <2>7 DEF LinkOk
    <2> HIDE DEF e
    <2>9. player.session = holder => e.bound = holder
      BY <2>3, <2>5, <2>6 DEF HolderOk
    <2>10. e.bound = service.session /\ service.latest # Nothing => e.playing = (service.latest.action = "play")
      BY <2>3, <2>5, <2>8 DEF HolderOk
    <2> QED
      BY <2>9, <2>10 DEF e
  <1>3. FeedIInv => FeedInv
    BY <1>1, <1>2 DEF FeedInv, FeedIInv
  <1> QED
    BY <1>3, FeedInvariant, PTL

-----------------------------------------------------------------------------
(* The downloads of the phone: the invariant *)

ProcState == [at : {"rest", "refuse", "start", "download", "unlink", "move", "save", "drop", "done", "caught"},
         version : 0..MaxVersion, existing : 0..MaxVersion]
HandType == [op : {"none", "cancel", "remove", "remove all", "assets"}, on : SUBSET Track,
             at : {"begin", "patch", "files", "rows", "save"}, seen : [Track -> Row]]

\* What the user does is at a step of what he does.
HandStepOk ==
    /\ hand \in HandType
    /\ hand.op = "none" <=> hand.at = "begin"
    /\ hand.op = "none" => hand.on = {}
    /\ hand.op = "assets" <=> hand.at = "save"
    /\ hand.op = "cancel" => hand.at = "patch"

\* A version that the server does not offer any more was replaced by a later one, or
\* is no longer offered at all.
NotAfter(v, o) == o = 0 \/ v <= o
StaleOk(r, o) == r.status = "stale" => r.version # 0 /\ (o = 0 \/ r.version < o)
VersionsOk(t) ==
    /\ NotAfter(row[t].version, offered[t]) /\ NotAfter(job[t].version, offered[t])
    /\ NotAfter(proc[t].version, offered[t]) /\ NotAfter(hand.seen[t].version, offered[t])
    /\ NotAfter(late.job[t].version, offered[t])
ProcOk(t) ==
    /\ proc[t].at = "rest" => proc[t] = Resting
    /\ proc[t].at # "rest" => proc[t].version # 0

\* No file but that of the row, which is there.
JustItsFile(t) ==
    /\ disk[t] \subseteq {row[t].version}
    /\ row[t].version # 0 => row[t].version \in disk[t]

\* What a job has done so far: it knows the row that it found until it writes its own.
FilesOfJob(t) ==
    /\ proc[t].at \in {"refuse", "start", "download", "unlink", "caught", "done"} => JustItsFile(t)
    /\ proc[t].at \in {"refuse", "start", "download", "unlink", "move", "save"}
         => proc[t].existing = row[t].version
    /\ proc[t].at = "move" =>
         /\ disk[t] \subseteq {row[t].version}
         /\ row[t].version \notin {0, proc[t].version} => row[t].version \in disk[t]
    /\ proc[t].at = "save" =>
         /\ disk[t] \subseteq {row[t].version, proc[t].version} /\ proc[t].version \in disk[t]
         /\ row[t].version # 0 => row[t].version \in disk[t]
    /\ proc[t].at = "drop" =>
         /\ disk[t] \subseteq {proc[t].existing, proc[t].version} /\ proc[t].version \in disk[t]
         /\ row[t].version = proc[t].version

\* At rest: the row's file, unless a removal has taken it.
FilesAtRest(t) ==
    /\ proc[t].at = "rest" =>
         \/ JustItsFile(t)
         \/ hand.at = "rows" /\ t \in hand.on /\ disk[t] = {}
    /\ hand.at = "rows" /\ t \in hand.on => disk[t] = {}

\* Removals and refetches have the track to themselves, and know its row.
HandOk(t) ==
    t \in hand.on /\ hand.op # "cancel" =>
        /\ proc[t].at = "rest"
        /\ hand.seen[t].version = row[t].version /\ StaleOk(hand.seen[t], offered[t])

TrackOk(t) ==
    /\ FilesOfJob(t) /\ FilesAtRest(t) /\ HandOk(t)
    /\ StaleOk(row[t], offered[t]) /\ StaleOk(checking[t], offered[t])

DownloadsIInv ==
    /\ DownloadsTypeOK /\ HandStepOk
    /\ \A t \in Track : VersionsOk(t) /\ ProcOk(t)
    /\ QueuedIsSeen
    /\ \A t \in Track \ crossed : TrackOk(t)

-----------------------------------------------------------------------------
(* What a refresh shows *)

Begun(p, j, r) == Queued(j) /\ p.at \in {"start", "refuse"} /\ p.version = j.version /\ p.existing = r.version

LEMMA DownloadsTypes == DownloadsTypeOK =>
    /\ proc \in [Track -> ProcState]
    /\ Resting \in ProcState /\ NoRow \in Row /\ NoRecord \in Job
  <1>1. 0 \in 0..MaxVersion
    BY DownloadsAssumption
  <1>2. DownloadsTypeOK => proc \in [Track -> ProcState]
    BY DEF DownloadsTypeOK, ProcState
  <1>3. Resting \in ProcState
    BY <1>1 DEF ProcState, Resting
  <1>4. NoRow \in Row /\ NoRecord \in Job
    BY <1>1 DEF NoRow, NoRecord, Row, Job
  <1> QED
    BY <1>2, <1>3, <1>4

LEMMA ShownFacts ==
    ASSUME NEW jobs \in [Track -> Job], NEW rows \in [Track -> Row], NEW busy \in BOOLEAN,
           Shown(jobs, rows, busy)
    PROVE  \/ /\ pumping' = busy /\ proc' = proc
              /\ busy \/ \A t \in Track : ~Queued(jobs[t])
           \/ /\ ~busy /\ pumping' = TRUE /\ proc' \in [Track -> ProcState]
              /\ \A t \in Track : proc'[t] = Resting \/ Begun(proc'[t], jobs[t], rows[t])
  <1> DEFINE waiting == {t \in Track : Queued(jobs[t])}
  <1>1. CASE busy \/ waiting = {}
    BY <1>1 DEF Shown
  <1>2. CASE ~(busy \/ waiting = {})
    <2>1. pumping' = TRUE /\ ~busy
      BY <1>2 DEF Shown
    <2>2. PICK chosen \in SUBSET waiting :
             proc' = [t \in Track |->
                        IF t \in chosen THEN [at |-> IF connected' THEN "start" ELSE "refuse",
                                              version |-> jobs[t].version, existing |-> rows[t].version]
                        ELSE Resting]
      BY <1>2 DEF Shown
    <2>3. ASSUME NEW t \in Track
          PROVE  proc'[t] \in ProcState /\ (proc'[t] = Resting \/ Begun(proc'[t], jobs[t], rows[t]))
      <3>1. jobs[t].version \in 0..MaxVersion /\ rows[t].version \in 0..MaxVersion
        BY DEF Job, Row
      <3>2. CASE t \in chosen
        <4>1. Queued(jobs[t])
          BY <3>2
        <4>2. proc'[t] = [at |-> IF connected' THEN "start" ELSE "refuse",
                          version |-> jobs[t].version, existing |-> rows[t].version]
          BY <2>2, <3>2
        <4> QED
          BY <3>1, <4>1, <4>2 DEF Begun, ProcState
      <3>3. CASE t \notin chosen
        <4>1. proc'[t] = Resting
          BY <2>2, <3>3
        <4> QED
          BY <4>1, DownloadsAssumption DEF Resting, ProcState
      <3> QED
        BY <3>2, <3>3
    <2>4. proc' \in [Track -> ProcState]
      BY <2>2, <2>3
    <2> QED
      BY <2>1, <2>3, <2>4
  <1> QED
    BY <1>1, <1>2

-----------------------------------------------------------------------------
(* Parts that a step leaves alone *)

LEMMA TrackStays ==
    ASSUME NEW t \in Track, TrackOk(t), row'[t] = row[t], disk'[t] = disk[t], proc'[t] = proc[t],
           offered'[t] = offered[t], checking'[t] = checking[t], hand' = hand
    PROVE  TrackOk(t)'
  BY DEF TrackOk, FilesOfJob, FilesAtRest, JustItsFile, HandOk, StaleOk

LEMMA VersionsStay ==
    ASSUME NEW t \in Track, VersionsOk(t), row'[t] = row[t], job'[t].version \in {0, job[t].version},
           proc'[t].version \in {0, proc[t].version}, hand'.seen[t].version \in {0, hand.seen[t].version},
           late'.job[t].version \in {0, late.job[t].version}, offered'[t] = offered[t],
           offered[t] \in Nat
    PROVE  VersionsOk(t)'
  BY DEF VersionsOk, NotAfter

LEMMA CrossedGrows == DownloadsNext => \A t \in Track : t \notin crossed' => t \notin crossed /\ ~Crossing(t)
  BY DEF DownloadsNext

-----------------------------------------------------------------------------
(* The steps of a job *)

\* What a step of t's job may do.
JobStep(t) ==
    /\ proc[t].at # "rest"
    /\ \/ proc' = [proc EXCEPT ![t] = Resting]
       \/ \E step \in {"download", "unlink", "move", "save", "drop", "done", "caught"} :
             proc' = [proc EXCEPT ![t].at = step]
    /\ \/ job' = job
       \/ job' = [job EXCEPT ![t] = NoRecord]
       \/ \E state \in {"paused", "cancelled", "failed", "downloading"} : job' = [job EXCEPT ![t].state = state]
    /\ \/ row' = row
       \/ row' = [row EXCEPT ![t] = [version |-> proc[t].version, status |-> "ready"]]
    /\ \/ disk' = disk
       \/ \E v \in 0..MaxVersion : disk' = [disk EXCEPT ![t] = @ \ {v}]
       \/ disk' = [disk EXCEPT ![t] = @ \union {proc[t].version}]
    /\ cancelled' \subseteq cancelled /\ paused' \subseteq paused
    /\ UNCHANGED <<offered, pumping, late, hand, checking, connected, relaunches>>

LEMMA PatchedIs ==
    ASSUME NEW t \in Track, NEW state \in {"paused", "cancelled", "failed", "downloading"}, job \in [Track -> Job]
    PROVE  Patched(t, state) = job \/ Patched(t, state) = [job EXCEPT ![t].state = state]
  <1>1. CASE job[t].version = 0
    <2>1. Patched(t, state) = [job EXCEPT ![t].state = job[t].state]
      BY <1>1 DEF Patched
    <2>2. [job[t] EXCEPT !.state = job[t].state] = job[t]
      BY DEF Job
    <2> QED
      BY <2>1, <2>2
  <1>2. CASE job[t].version # 0
    BY <1>2 DEF Patched
  <1> QED
    BY <1>1, <1>2

LEMMA ProcessIsStep ==
    ASSUME DownloadsTypeOK, NEW t \in Track, Process(t)
    PROVE  JobStep(t)
  <1>1. job \in [Track -> Job] /\ proc \in [Track -> ProcState]
    BY DownloadsTypes DEF DownloadsTypeOK
  <1>2. proc[t].version \in 0..MaxVersion /\ proc[t].existing \in 0..MaxVersion
    BY <1>1 DEF ProcState
  <1>3. CASE Refuse(t)
    <2>1. proc' = [proc EXCEPT ![t] = Resting]
      BY <1>3 DEF Refuse, Rest
    <2> QED
      BY <1>1, <1>3, <2>1, PatchedIs DEF Refuse, JobStep, Elsewhere
  <1>4. CASE Start(t)
    <2>1. proc' = [proc EXCEPT ![t] = Resting] \/ proc' = [proc EXCEPT ![t].at = "download"]
      BY <1>4 DEF Start, Rest, To
    <2>2. job' = Patched(t, "failed") \/ job' = Patched(t, "downloading")
      BY <1>4 DEF Start
    <2> QED
      BY <1>1, <1>4, <2>1, <2>2, PatchedIs DEF Start, JobStep, Elsewhere
  <1>5. CASE Download(t)
    BY <1>5 DEF Download, To, JobStep, Elsewhere, deviceVars
  <1>6. CASE Unlink(t)
    BY <1>2, <1>6 DEF Unlink, To, JobStep, Elsewhere
  <1>7. CASE Move(t)
    BY <1>7 DEF Move, To, JobStep, Elsewhere
  <1>8. CASE Save(t)
    BY <1>8 DEF Save, To, JobStep, Elsewhere
  <1>9. CASE Drop(t)
    <2>1. proc' = [proc EXCEPT ![t].at = "done"] /\ proc[t].at = "drop"
      BY <1>9 DEF Drop, To
    <2>2. disk' = disk \/ disk' = [disk EXCEPT ![t] = @ \ {proc[t].existing}]
      <3>1. CASE proc[t].existing = proc[t].version
        <4>1. disk' = [disk EXCEPT ![t] = @]
          BY <1>9, <3>1 DEF Drop
        <4> QED
          BY <4>1 DEF DownloadsTypeOK
      <3>2. CASE proc[t].existing # proc[t].version
        BY <1>9, <3>2 DEF Drop
      <3> QED
        BY <3>1, <3>2
    <2> QED
      BY <1>2, <1>9, <2>1, <2>2 DEF Drop, JobStep, Elsewhere
  <1>10. CASE Done(t)
    <2>1. proc' = [proc EXCEPT ![t] = Resting] /\ cancelled' \subseteq cancelled /\ paused' \subseteq paused
      BY <1>10 DEF Done, Rest, Forgotten
    <2> QED
      BY <1>10, <2>1 DEF Done, JobStep, Elsewhere
  <1>11. CASE Caught(t)
    <2>1. proc' = [proc EXCEPT ![t] = Resting] /\ cancelled' \subseteq cancelled /\ paused' \subseteq paused
      BY <1>11 DEF Caught, Rest, Forgotten
    <2>2. job' = Patched(t, "cancelled") \/ job' = Patched(t, "paused") \/ job' = Patched(t, "failed")
      BY <1>11 DEF Caught
    <2> QED
      BY <1>1, <1>11, <2>1, <2>2, PatchedIs DEF Caught, JobStep, Elsewhere
  <1> QED
    BY <1>3, <1>4, <1>5, <1>6, <1>7, <1>8, <1>9, <1>10, <1>11 DEF Process

LEMMA JobStepTypes ==
    ASSUME DownloadsIInv, NEW t \in Track, JobStep(t)
    PROVE  /\ HandStepOk' /\ QueuedIsSeen'
           /\ row' \in [Track -> Row] /\ disk' \in [Track -> SUBSET Version] /\ job' \in [Track -> Job]
           /\ proc' \in [Track -> ProcState] /\ pumping' = TRUE
           /\ \A u \in Track : VersionsOk(u)' /\ ProcOk(u)'
           /\ \A u \in Track \ {t} : row'[u] = row[u] /\ disk'[u] = disk[u] /\ proc'[u] = proc[u]
  <1> USE DEF JobStep
  <1>1. DownloadsTypeOK /\ HandStepOk /\ QueuedIsSeen /\ \A u \in Track : VersionsOk(u) /\ ProcOk(u)
    BY DEF DownloadsIInv
  <1>2. /\ job \in [Track -> Job] /\ proc \in [Track -> ProcState] /\ row \in [Track -> Row]
        /\ disk \in [Track -> SUBSET Version] /\ offered \in [Track -> 0..MaxVersion]
        /\ Resting \in ProcState /\ NoRecord \in Job
    BY <1>1, DownloadsTypes DEF DownloadsTypeOK
  <1>3. proc[t].version \in 0..MaxVersion /\ proc[t].version # 0 /\ proc[t].version \in Version
    BY <1>1, <1>2, DownloadsAssumption DEF ProcState, ProcOk, Version
  <1>4. pumping = TRUE /\ pumping' = TRUE
    <2>1. pumping \in BOOLEAN /\ (pumping \/ proc[t] = Resting)
      BY <1>1 DEF DownloadsTypeOK
    <2>2. proc[t] # Resting
      BY DEF Resting
    <2> QED
      BY <2>1, <2>2
  <1>5. HandStepOk'
    BY <1>1 DEF HandStepOk
  <1>6. proc' \in [Track -> ProcState] /\ \A u \in Track \ {t} : proc'[u] = proc[u]
    <2>1. CASE proc' = [proc EXCEPT ![t] = Resting]
      BY <2>1, <1>2
    <2>2. ASSUME NEW step \in {"download", "unlink", "move", "save", "drop", "done", "caught"},
                 proc' = [proc EXCEPT ![t].at = step]
          PROVE  proc' \in [Track -> ProcState] /\ \A u \in Track \ {t} : proc'[u] = proc[u]
      BY <2>2, <1>2 DEF ProcState
    <2> QED
      BY <2>1, <2>2
  <1>7. row' \in [Track -> Row] /\ \A u \in Track \ {t} : row'[u] = row[u]
    BY <1>2, <1>3 DEF Row
  <1>8. disk' \in [Track -> SUBSET Version] /\ \A u \in Track \ {t} : disk'[u] = disk[u]
    BY <1>2, <1>3
  <1>9. /\ job' \in [Track -> Job] /\ \A u \in Track \ {t} : job'[u] = job[u]
        /\ job'[t].version \in {0, job[t].version} /\ ~(job'[t] # job[t] /\ Queued(job'[t]))
    <2>1. CASE job' = job
      BY <2>1, <1>2
    <2>2. CASE job' = [job EXCEPT ![t] = NoRecord]
      BY <2>2, <1>2 DEF NoRecord, Queued
    <2>3. ASSUME NEW state \in {"paused", "cancelled", "failed", "downloading"}, job' = [job EXCEPT ![t].state = state]
          PROVE  /\ job' \in [Track -> Job] /\ \A u \in Track \ {t} : job'[u] = job[u]
                 /\ job'[t].version \in {0, job[t].version} /\ ~(job'[t] # job[t] /\ Queued(job'[t]))
      <3>1. job'[t] = [job[t] EXCEPT !.state = state] /\ job[t] \in Job
        BY <2>3, <1>2
      <3>2. job'[t].state = state /\ job'[t].version = job[t].version /\ job'[t] \in Job
        BY <3>1 DEF Job
      <3>3. \A u \in Track \ {t} : job'[u] = job[u]
        BY <2>3, <1>2
      <3>4. job' \in [Track -> Job]
        BY <2>3, <1>2, <3>2, <3>3
      <3> QED
        BY <3>2, <3>3, <3>4 DEF Queued
    <2> QED
      BY <2>1, <2>2, <2>3
  <1>10. QueuedIsSeen'
    BY <1>4 DEF QueuedIsSeen
  <1>11. proc'[t] = Resting \/ (proc'[t].at # "rest" /\ proc'[t].version = proc[t].version)
    BY <1>2 DEF ProcState
  <1>12. ASSUME NEW u \in Track
         PROVE  VersionsOk(u)' /\ ProcOk(u)'
    <2>1. ProcOk(u)'
      BY <1>1, <1>3, <1>6, <1>11 DEF ProcOk, Resting
    <2>2. proc'[u].version \in {0, proc[u].version}
      BY <1>6, <1>11 DEF Resting
    <2>3. NotAfter(row'[u].version, offered[u])
      BY <1>1, <1>2, <1>7 DEF VersionsOk, Row
    <2>4. offered[u] \in Nat
      BY <1>2, DownloadsAssumption
    <2>5. NotAfter(job'[u].version, offered[u]) /\ NotAfter(proc'[u].version, offered[u])
      BY <1>1, <1>9, <2>2, <2>4 DEF VersionsOk, NotAfter
    <2> QED
      BY <1>1, <2>1, <2>3, <2>5 DEF VersionsOk
  <1> QED
    BY <1>4, <1>5, <1>6, <1>7, <1>8, <1>9, <1>10, <1>12

LEMMA ProcessKeepsTrack ==
    ASSUME DownloadsIInv, NEW t \in Track, Process(t), TrackOk(t)
    PROVE  TrackOk(t)'
  <1>1. JobStep(t) /\ DownloadsTypeOK
    BY ProcessIsStep DEF DownloadsIInv
  <1>2. /\ proc \in [Track -> ProcState] /\ row \in [Track -> Row] /\ disk \in [Track -> SUBSET Version]
        /\ Resting \in ProcState
    BY <1>1, DownloadsTypes DEF DownloadsTypeOK
  <1>3. proc[t].version # 0 /\ proc[t].at # "rest"
    BY <1>1 DEF DownloadsIInv, ProcOk, JobStep
  <1>4. hand' = hand /\ offered' = offered /\ checking' = checking
    BY <1>1 DEF JobStep
  <1>5. ~(t \in hand.on /\ hand.op # "cancel")
    BY <1>3 DEF TrackOk, HandOk
  <1>6. HandOk(t)' /\ ~(hand.at = "rows" /\ t \in hand.on)
    BY <1>4, <1>5 DEF HandOk, DownloadsIInv, HandStepOk
  <1>7. StaleOk(row'[t], offered[t]) /\ StaleOk(checking[t], offered[t])
    BY <1>1, <1>2 DEF TrackOk, StaleOk, JobStep
  <1> SUFFICES FilesOfJob(t)' /\ FilesAtRest(t)'
    BY <1>4, <1>6, <1>7 DEF TrackOk
  <1>8. FilesAtRest(t)' <=> (proc'[t].at = "rest" => JustItsFile(t)')
    BY <1>4, <1>6 DEF FilesAtRest
  <1> USE DEF FilesOfJob, JustItsFile
  <1>9. FilesOfJob(t)
    BY DEF TrackOk
  <1>10. CASE Refuse(t)
    BY <1>2, <1>8, <1>9, <1>10 DEF Refuse, Rest, Resting
  <1>11. CASE Start(t)
    BY <1>2, <1>8, <1>9, <1>11 DEF Start, Rest, To, Resting, ProcState
  <1>12. CASE Download(t)
    BY <1>2, <1>8, <1>9, <1>12 DEF Download, To, ProcState, deviceVars
  <1>13. CASE Unlink(t)
    BY <1>2, <1>8, <1>9, <1>13 DEF Unlink, To, ProcState
  <1>14. CASE Move(t)
    BY <1>2, <1>8, <1>9, <1>14 DEF Move, To, ProcState
  <1>15. CASE Save(t)
    BY <1>2, <1>8, <1>9, <1>15 DEF Save, To, ProcState
  <1>16. CASE Drop(t)
    BY <1>2, <1>3, <1>8, <1>9, <1>16 DEF Drop, To, ProcState
  <1>17. CASE Done(t)
    BY <1>2, <1>8, <1>9, <1>17 DEF Done, Rest, Resting
  <1>18. CASE Caught(t)
    BY <1>2, <1>8, <1>9, <1>18 DEF Caught, Rest, Resting
  <1> QED
    BY <1>10, <1>11, <1>12, <1>13, <1>14, <1>15, <1>16, <1>17, <1>18 DEF Process

\* What holds of all tracks, also of those that two changed at once.
World == DownloadsTypeOK /\ HandStepOk /\ QueuedIsSeen /\ \A u \in Track : VersionsOk(u) /\ ProcOk(u)

LEMMA IInvIs == DownloadsIInv <=> World /\ \A t \in Track \ crossed : TrackOk(t)
  BY DEF DownloadsIInv, World

LEMMA ProcessKeepsWorld ==
    ASSUME DownloadsIInv, NEW t \in Track, Process(t), crossed' \subseteq Track
    PROVE  World'
  <1>1. JobStep(t) /\ DownloadsTypeOK
    BY ProcessIsStep DEF DownloadsIInv
  <1>2. DownloadsTypeOK'
    BY <1>1, JobStepTypes DEF DownloadsTypeOK, JobStep, ProcState
  <1> QED
    BY <1>1, <1>2, JobStepTypes DEF World

LEMMA ProcessKeepsOthers ==
    ASSUME DownloadsIInv, NEW t \in Track, Process(t), NEW u \in Track, TrackOk(u)
    PROVE  TrackOk(u)'
  <1>1. JobStep(t)
    BY ProcessIsStep DEF DownloadsIInv
  <1>2. CASE u = t
    BY <1>2, ProcessKeepsTrack
  <1>3. CASE u # t
    <2>1. row'[u] = row[u] /\ disk'[u] = disk[u] /\ proc'[u] = proc[u]
      BY <1>1, <1>3, JobStepTypes
    <2>2. hand' = hand /\ offered' = offered /\ checking' = checking
      BY <1>1 DEF JobStep
    <2> QED
      BY <2>1, <2>2, TrackStays
  <1> QED
    BY <1>2, <1>3

-----------------------------------------------------------------------------
(* What a refresh does to jobs that rest *)

Starts(t, jobs, rows) ==
    proc'[t] = proc[t] \/ (proc[t] = Resting /\ Begun(proc'[t], jobs[t], rows[t]))

LEMMA ShownStarts ==
    ASSUME DownloadsTypeOK, NEW jobs \in [Track -> Job], NEW rows \in [Track -> Row], NEW busy \in BOOLEAN,
           Shown(jobs, rows, busy), busy => pumping, busy \/ \A t \in Track : proc[t] = Resting
    PROVE  /\ pumping' \in BOOLEAN /\ proc' \in [Track -> ProcState]
           /\ pumping' \/ \A t \in Track : proc'[t] = Resting
           /\ busy => pumping'
           /\ (\E t \in Track : Queued(jobs[t])) => pumping'
           /\ \A t \in Track : Starts(t, jobs, rows)
  <1>1. proc \in [Track -> ProcState]
    BY DownloadsTypes
  <1>2. CASE pumping' = busy /\ proc' = proc /\ (busy \/ \A t \in Track : ~Queued(jobs[t]))
    BY <1>1, <1>2 DEF Starts
  <1>3. CASE /\ ~busy /\ pumping' = TRUE /\ proc' \in [Track -> ProcState]
             /\ \A t \in Track : proc'[t] = Resting \/ Begun(proc'[t], jobs[t], rows[t])
    BY <1>3 DEF Starts
  <1> QED
    BY <1>2, <1>3, ShownFacts

LEMMA RefreshStarts ==
    ASSUME DownloadsTypeOK, job' \in [Track -> Job], row' \in [Track -> Row],
           \/ Refreshed
           \/ Shown(job', row', FALSE) /\ \A t \in Track : proc[t] = Resting
    PROVE  /\ pumping' \in BOOLEAN /\ proc' \in [Track -> ProcState]
           /\ pumping' \/ \A t \in Track : proc'[t] = Resting
           /\ QueuedIsSeen'
           /\ \A t \in Track : Starts(t, job', row')
  <1>1. pumping \in BOOLEAN /\ (pumping \/ \A t \in Track : proc[t] = Resting)
    BY DEF DownloadsTypeOK
  <1>2. ASSUME NEW busy \in BOOLEAN, Shown(job', row', busy), busy => pumping,
               busy \/ \A t \in Track : proc[t] = Resting
        PROVE  /\ pumping' \in BOOLEAN /\ proc' \in [Track -> ProcState]
               /\ pumping' \/ \A t \in Track : proc'[t] = Resting
               /\ (\E t \in Track : Queued(job'[t])) => pumping'
               /\ \A t \in Track : Starts(t, job', row')
    BY <1>2, ShownStarts
  <1>3. CASE Refreshed
    <2>1. Shown(job', row', pumping)
      BY <1>3 DEF Refreshed
    <2> QED
      BY <1>1, <1>2, <2>1 DEF QueuedIsSeen
  <1>4. CASE Shown(job', row', FALSE) /\ \A t \in Track : proc[t] = Resting
    BY <1>2, <1>4 DEF QueuedIsSeen
  <1> QED
    BY <1>3, <1>4

LEMMA StartsOk ==
    ASSUME NEW t \in Track, NEW jobs \in [Track -> Job], NEW rows, Starts(t, jobs, rows), ProcOk(t),
           NEW o, NotAfter(proc[t].version, o), NotAfter(jobs[t].version, o)
    PROVE  ProcOk(t)' /\ NotAfter(proc'[t].version, o)
  BY DEF Starts, Begun, Queued, ProcOk, Job, Resting

\* A track whose row keeps its version, and whose files are left alone.
LEMMA TrackKeeps ==
    ASSUME NEW t \in Track, TrackOk(t), HandOk(t)', HandStepOk', ProcOk(t),
           row'[t].version = row[t].version, disk'[t] = disk[t],
           StaleOk(row'[t], offered'[t]), StaleOk(checking'[t], offered'[t]),
           \/ proc'[t] = proc[t]
           \/ proc[t] = Resting /\ proc'[t].at \in {"start", "refuse"} /\ proc'[t].existing = row[t].version,
           hand'.at = "rows" /\ t \in hand'.on <=> hand.at = "rows" /\ t \in hand.on
    PROVE  TrackOk(t)'
  <1>1. FilesOfJob(t) /\ FilesAtRest(t)
    BY DEF TrackOk
  <1>2. CASE proc'[t] = proc[t]
    BY <1>1, <1>2 DEF TrackOk, FilesOfJob, FilesAtRest, JustItsFile
  <1>3. CASE proc[t] = Resting /\ proc'[t].at \in {"start", "refuse"} /\ proc'[t].existing = row[t].version
    <2>1. ~(hand'.at = "rows" /\ t \in hand'.on)
      BY <1>3 DEF HandOk, HandStepOk
    <2>2. JustItsFile(t)
      BY <1>1, <1>3, <2>1 DEF FilesAtRest, Resting
    <2> QED
      BY <1>3, <2>1, <2>2 DEF TrackOk, FilesOfJob, FilesAtRest, JustItsFile
  <1> QED
    BY <1>2, <1>3

LEMMA RefreshTrack ==
    ASSUME NEW t \in Track, TrackOk(t), HandOk(t)', HandStepOk', ProcOk(t), ~Crossing(t),
           NEW jobs, NEW rows, Starts(t, jobs, rows),
           row'[t].version = row[t].version, disk'[t] = disk[t],
           StaleOk(row'[t], offered'[t]), StaleOk(checking'[t], offered'[t]),
           hand'.at = "rows" /\ t \in hand'.on <=> hand.at = "rows" /\ t \in hand.on
    PROVE  TrackOk(t)'
  <1>1. CASE proc'[t] = proc[t]
    BY <1>1, TrackKeeps
  <1>2. CASE proc[t] = Resting /\ Begun(proc'[t], jobs[t], rows[t])
    <2>1. proc'[t].at \in {"start", "refuse"} /\ proc'[t] # Resting
      BY <1>2 DEF Begun, Resting
    <2>2. proc'[t].existing = row[t].version
      BY <1>2, <2>1 DEF Crossing
    <2> QED
      BY <1>2, <2>1, <2>2, TrackKeeps
  <1> QED
    BY <1>1, <1>2 DEF Starts

\* What the user does with the track goes on.
LEMMA HandStays ==
    ASSUME NEW t \in Track, TrackOk(t), HandStepOk, hand' = hand, ~Crossing(t),
           row'[t].version = row[t].version, offered'[t] = offered[t]
    PROVE  HandOk(t)' /\ HandStepOk'
  <1>1. HandStepOk'
    BY DEF HandStepOk
  <1>2. ASSUME t \in hand.on, hand.op # "cancel"
        PROVE  proc'[t].at = "rest"
    <2>1. hand.op \in {"remove", "remove all", "assets"}
      BY <1>2 DEF HandStepOk, HandType
    <2>2. proc'[t] = Resting
      BY <1>2, <2>1 DEF Crossing
    <2> QED
      BY <2>2 DEF Resting
  <1>3. HandOk(t)'
    BY <1>2 DEF TrackOk, HandOk
  <1> QED
    BY <1>1, <1>3

-----------------------------------------------------------------------------
(* Refreshes and the end of a batch *)

LEMMA TypesOfIInv ==
    ASSUME DownloadsIInv
    PROVE  /\ DownloadsTypeOK /\ HandStepOk /\ QueuedIsSeen
           /\ job \in [Track -> Job] /\ row \in [Track -> Row] /\ proc \in [Track -> ProcState]
           /\ late.job \in [Track -> Job] /\ late.row \in [Track -> Row]
           /\ hand.seen \in [Track -> Row] /\ checking \in [Track -> Row]
           /\ offered \in [Track -> 0..MaxVersion] /\ disk \in [Track -> SUBSET Version]
           /\ pumping \in BOOLEAN /\ (pumping \/ \A t \in Track : proc[t] = Resting)
           /\ \A t \in Track : VersionsOk(t) /\ ProcOk(t)
           /\ \A t \in Track : offered[t] \in Nat /\ row[t].version \in Nat /\ row[t] \in Row
  <1>1. DownloadsTypeOK /\ HandStepOk /\ QueuedIsSeen /\ \A t \in Track : VersionsOk(t) /\ ProcOk(t)
    BY DEF DownloadsIInv
  <1>2. /\ job \in [Track -> Job] /\ row \in [Track -> Row] /\ proc \in [Track -> ProcState]
        /\ late.job \in [Track -> Job] /\ late.row \in [Track -> Row]
        /\ hand.seen \in [Track -> Row] /\ checking \in [Track -> Row]
        /\ offered \in [Track -> 0..MaxVersion] /\ disk \in [Track -> SUBSET Version]
        /\ pumping \in BOOLEAN /\ (pumping \/ \A t \in Track : proc[t] = Resting)
    BY <1>1, DownloadsTypes DEF DownloadsTypeOK
  <1>3. \A t \in Track : offered[t] \in Nat /\ row[t].version \in Nat /\ row[t] \in Row
    BY <1>2, DownloadsAssumption DEF Row
  <1> QED
    BY <1>1, <1>2, <1>3

\* Only what was read, what is judged, the network or what is paused changes.
LEMMA AsideKeeps ==
    ASSUME DownloadsIInv, crossed' \subseteq Track,
           \/ ReadSlowly \/ NetworkGoes \/ NetworkComes
    PROVE  World' /\ \A t \in Track : TrackOk(t) => TrackOk(t)'
  <1>1. /\ row' = row /\ disk' = disk /\ job' = job /\ proc' = proc /\ pumping' = pumping
        /\ offered' = offered /\ hand' = hand /\ checking' = checking /\ relaunches' = relaunches
        /\ cancelled' = cancelled /\ connected' \in BOOLEAN
    BY TypesOfIInv DEF ReadSlowly, NetworkGoes, NetworkComes, deviceVars, pumpVars, DownloadsTypeOK
  <1>2. paused' \subseteq Track
    BY TypesOfIInv DEF ReadSlowly, NetworkGoes, NetworkComes, pumpVars, DownloadsTypeOK
  <1>3. late' = late \/ late' = [job |-> job, row |-> row]
    BY DEF ReadSlowly, NetworkGoes, NetworkComes
  <1>4. DownloadsTypeOK'
    <2>1. late'.job \in [Track -> Job] /\ late'.row \in [Track -> Row]
      BY <1>3, TypesOfIInv
    <2>2. crossed' \in SUBSET Track /\ cancelled' \in SUBSET Track /\ relaunches' \in 0..MaxLaunches
      BY <1>1, TypesOfIInv DEF DownloadsTypeOK
    <2> QED
      BY <1>1, <1>2, <2>1, <2>2, TypesOfIInv DEF DownloadsTypeOK
  <1>5. HandStepOk' /\ QueuedIsSeen' /\ \A t \in Track : ProcOk(t)'
    BY <1>1, TypesOfIInv DEF HandStepOk, QueuedIsSeen, ProcOk
  <1>6. \A t \in Track : VersionsOk(t)'
    BY <1>1, <1>3, TypesOfIInv DEF VersionsOk
  <1>7. \A t \in Track : TrackOk(t) => TrackOk(t)'
    BY <1>1, TrackStays
  <1> QED
    BY <1>4, <1>5, <1>6, <1>7 DEF World

LEMMA ShowLateKeeps ==
    ASSUME DownloadsIInv, crossed' \subseteq Track, ShowLate
    PROVE  World' /\ \A t \in Track : TrackOk(t) /\ ~Crossing(t) => TrackOk(t)'
  <1>1. /\ row' = row /\ disk' = disk /\ job' = job /\ offered' = offered /\ hand' = hand
        /\ checking' = checking /\ relaunches' = relaunches /\ cancelled' = cancelled /\ paused' = paused
        /\ connected' = connected /\ late' = Unread /\ Shown(late.job, late.row, pumping)
    BY DEF ShowLate, deviceVars
  <1>2. /\ pumping' \in BOOLEAN /\ proc' \in [Track -> ProcState]
        /\ pumping' \/ \A t \in Track : proc'[t] = Resting
        /\ pumping => pumping'
        /\ \A t \in Track : Starts(t, late.job, late.row)
    BY <1>1, TypesOfIInv, ShownStarts
  <1>3. late'.job \in [Track -> Job] /\ late'.row \in [Track -> Row] /\ \A t \in Track : late'.job[t].version = 0
    BY <1>1, DownloadsTypes, TypesOfIInv DEF Unread, NoRecord
  <1>4. DownloadsTypeOK'
    BY <1>1, <1>2, <1>3, TypesOfIInv DEF DownloadsTypeOK, ProcState
  <1>5. HandStepOk' /\ QueuedIsSeen'
    BY <1>1, <1>2, TypesOfIInv DEF HandStepOk, QueuedIsSeen
  <1>6. ASSUME NEW t \in Track
        PROVE  ProcOk(t)' /\ NotAfter(proc'[t].version, offered[t])
    BY <1>2, TypesOfIInv, StartsOk DEF VersionsOk
  <1>7. \A t \in Track : VersionsOk(t)'
    BY <1>1, <1>3, <1>6, TypesOfIInv DEF VersionsOk, NotAfter
  <1>8. ASSUME NEW t \in Track, TrackOk(t), ~Crossing(t)
        PROVE  TrackOk(t)'
    BY <1>1, <1>2, <1>8, TypesOfIInv, HandStays, RefreshTrack DEF TrackOk
  <1> QED
    BY <1>4, <1>5, <1>6, <1>7, <1>8 DEF World

LEMMA BatchEndsKeeps ==
    ASSUME DownloadsIInv, crossed' \subseteq Track, BatchEnds
    PROVE  World' /\ \A t \in Track : TrackOk(t) /\ ~Crossing(t) => TrackOk(t)'
  <1>1. /\ row' = row /\ disk' = disk /\ job' = job /\ offered' = offered /\ hand' = hand
        /\ checking' = checking /\ relaunches' = relaunches /\ cancelled' = cancelled /\ paused' = paused
        /\ connected' = connected /\ late' = late /\ Shown(job', row', FALSE)
        /\ \A t \in Track : proc[t] = Resting
    BY DEF BatchEnds, deviceVars
  <1>2. /\ pumping' \in BOOLEAN /\ proc' \in [Track -> ProcState]
        /\ pumping' \/ \A t \in Track : proc'[t] = Resting
        /\ QueuedIsSeen'
        /\ \A t \in Track : Starts(t, job', row')
    BY <1>1, TypesOfIInv, RefreshStarts
  <1>3. \A t \in Track : Starts(t, job, row)
    BY <1>1, <1>2
  <1>4. DownloadsTypeOK'
    BY <1>1, <1>2, TypesOfIInv DEF DownloadsTypeOK, ProcState
  <1>5. HandStepOk'
    BY <1>1, TypesOfIInv DEF HandStepOk
  <1>6. ASSUME NEW t \in Track
        PROVE  ProcOk(t)' /\ NotAfter(proc'[t].version, offered[t])
    BY <1>3, TypesOfIInv, StartsOk DEF VersionsOk
  <1>7. \A t \in Track : VersionsOk(t)'
    BY <1>1, <1>6, TypesOfIInv DEF VersionsOk
  <1>8. ASSUME NEW t \in Track, TrackOk(t), ~Crossing(t)
        PROVE  TrackOk(t)'
    BY <1>1, <1>3, <1>8, TypesOfIInv, HandStays, RefreshTrack DEF TrackOk
  <1> QED
    BY <1>2, <1>4, <1>5, <1>6, <1>7, <1>8 DEF World

-----------------------------------------------------------------------------
(* The server *)

LEMMA OfferKeeps ==
    ASSUME DownloadsIInv, crossed' \subseteq Track, NEW s \in Track, Replace(s) \/ Withdraw(s)
    PROVE  World' /\ \A t \in Track : TrackOk(t) => TrackOk(t)'
  <1>1. /\ row' = row /\ disk' = disk /\ job' = job /\ proc' = proc /\ pumping' = pumping
        /\ hand' = hand /\ checking' = checking /\ relaunches' = relaunches /\ late' = late
        /\ cancelled' = cancelled /\ paused' = paused /\ connected' = connected
    BY DEF Replace, Withdraw, deviceVars, pumpVars
  <1>2. offered \in [Track -> 0..MaxVersion] /\ MaxVersion \in Nat
    BY TypesOfIInv, DownloadsAssumption
  <1>3. /\ offered' \in [Track -> 0..MaxVersion]
        /\ \A t \in Track : offered'[t] = offered[t] \/ offered'[t] = 0 \/ (offered[t] # 0 /\ offered'[t] = offered[t] + 1)
    <2>1. CASE Replace(s)
      BY <1>2, <2>1 DEF Replace
    <2>2. CASE Withdraw(s)
      BY <1>2, <2>2 DEF Withdraw
    <2> QED
      BY <2>1, <2>2
  <1>4. DownloadsTypeOK'
    BY <1>1, <1>3, TypesOfIInv DEF DownloadsTypeOK
  <1>5. HandStepOk' /\ QueuedIsSeen' /\ \A t \in Track : ProcOk(t)'
    BY <1>1, TypesOfIInv DEF HandStepOk, QueuedIsSeen, ProcOk
  <1>6. ASSUME NEW v \in Nat, NEW t \in Track, NotAfter(v, offered[t])
        PROVE  NotAfter(v, offered'[t])
    BY <1>2, <1>3, <1>6 DEF NotAfter
  <1>7. ASSUME NEW t \in Track
        PROVE  VersionsOk(t)'
    <2>1. /\ row[t].version \in Nat /\ job[t].version \in Nat /\ proc[t].version \in Nat
          /\ hand.seen[t].version \in Nat /\ late.job[t].version \in Nat
      BY TypesOfIInv, <1>2 DEF Row, Job, ProcState
    <2> QED
      BY <1>1, <1>6, <2>1, TypesOfIInv DEF VersionsOk
  <1>8. ASSUME NEW r \in Row, NEW t \in Track, StaleOk(r, offered[t])
        PROVE  StaleOk(r, offered'[t])
    <2>1. r.version \in Nat
      BY <1>2 DEF Row
    <2> QED
      BY <1>2, <1>3, <1>8, <2>1 DEF StaleOk
  <1>9. ASSUME NEW t \in Track, TrackOk(t)
        PROVE  TrackOk(t)'
    <2>1. row[t] \in Row /\ checking[t] \in Row /\ hand.seen[t] \in Row
      BY TypesOfIInv
    <2>2. StaleOk(row[t], offered'[t]) /\ StaleOk(checking[t], offered'[t])
      BY <1>8, <1>9, <2>1 DEF TrackOk
    <2>3. HandOk(t)'
      BY <1>1, <1>8, <1>9, <2>1 DEF TrackOk, HandOk
    <2> QED
      BY <1>1, <1>5, <1>9, <2>2, <2>3, TypesOfIInv, TrackKeeps
  <1> QED
    BY <1>4, <1>5, <1>7, <1>9 DEF World

LEMMA ValidateKeeps ==
    ASSUME DownloadsIInv, crossed' \subseteq Track, Validate
    PROVE  World' /\ \A t \in Track : TrackOk(t) => TrackOk(t)'
  <1>1. /\ row' = row /\ disk' = disk /\ job' = job /\ proc' = proc /\ pumping' = pumping
        /\ hand' = hand /\ offered' = offered /\ relaunches' = relaunches /\ late' = late
        /\ cancelled' = cancelled /\ paused' = paused /\ connected' = connected
    BY DEF Validate, deviceVars, pumpVars
  <1>2. ASSUME NEW t \in Track
        PROVE  checking'[t] \in Row /\ StaleOk(checking'[t], offered[t])
    <2>1. checking'[t] = [version |-> row[t].version,
                          status |-> CASE row[t].version = 0 \/ row[t].version = offered[t] -> "ready"
                                       [] offered[t] = 0 -> "locked"
                                       [] OTHER -> "stale"]
      BY DEF Validate
    <2>2. row[t].version \in 0..MaxVersion /\ row[t].version \in Nat /\ offered[t] \in Nat
      BY TypesOfIInv DEF Row
    <2>3. NotAfter(row[t].version, offered[t])
      BY TypesOfIInv DEF VersionsOk
    <2>4. CASE row[t].version = 0 \/ row[t].version = offered[t]
      BY <2>1, <2>2, <2>4 DEF Row, StaleOk
    <2>5. CASE ~(row[t].version = 0 \/ row[t].version = offered[t]) /\ offered[t] = 0
      BY <2>1, <2>2, <2>5 DEF Row, StaleOk
    <2>6. CASE ~(row[t].version = 0 \/ row[t].version = offered[t]) /\ offered[t] # 0
      BY <2>1, <2>2, <2>3, <2>6 DEF Row, StaleOk, NotAfter
    <2> QED
      BY <2>4, <2>5, <2>6
  <1>3. checking' \in [Track -> Row]
    BY <1>2 DEF Validate
  <1>4. DownloadsTypeOK'
    BY <1>1, <1>3, TypesOfIInv DEF DownloadsTypeOK
  <1>5. HandStepOk' /\ QueuedIsSeen' /\ \A t \in Track : ProcOk(t)' /\ VersionsOk(t)'
    BY <1>1, TypesOfIInv DEF HandStepOk, QueuedIsSeen, ProcOk, VersionsOk
  <1>6. ASSUME NEW t \in Track, TrackOk(t)
        PROVE  TrackOk(t)'
    <2>1. HandOk(t)'
      BY <1>1, <1>6 DEF TrackOk, HandOk
    <2>2. StaleOk(row[t], offered[t])
      BY <1>6 DEF TrackOk
    <2> QED
      BY <1>1, <1>2, <1>5, <1>6, <2>1, <2>2, TypesOfIInv, TrackKeeps
  <1> QED
    BY <1>4, <1>5, <1>6 DEF World

LEMMA ValidatedKeeps ==
    ASSUME DownloadsIInv, crossed' \subseteq Track, Validated
    PROVE  World' /\ \A t \in Track : TrackOk(t) /\ ~Crossing(t) => TrackOk(t)'
  <1>1. /\ disk' = disk /\ job' = job /\ hand' = hand /\ offered' = offered /\ relaunches' = relaunches
        /\ late' = late /\ cancelled' = cancelled /\ paused' = paused /\ connected' = connected
        /\ checking' = Unasked /\ checking # Unasked /\ Refreshed
    BY DEF Validated
  <1>2. ASSUME NEW t \in Track
        PROVE  /\ row'[t] \in Row /\ row'[t].version = row[t].version
               /\ ~Crossing(t) /\ TrackOk(t) => StaleOk(row'[t], offered[t])
    <2>1. row'[t] = IF checking[t].version # 0 /\ row[t].version # 0
                      THEN [row[t] EXCEPT !.status = checking[t].status] ELSE row[t]
      BY DEF Validated
    <2>2. row[t] \in Row /\ checking[t] \in Row
      BY TypesOfIInv
    <2>3. CASE checking[t].version # 0 /\ row[t].version # 0
      <3>1. /\ row'[t].version = row[t].version /\ row'[t].status = checking[t].status
            /\ row'[t] \in Row
        BY <2>1, <2>2, <2>3 DEF Row
      <3>2. ~Crossing(t) => checking[t].version = row[t].version
        BY <1>1, <2>3 DEF Crossing
      <3> QED
        BY <3>1, <3>2 DEF TrackOk, StaleOk
    <2>4. CASE ~(checking[t].version # 0 /\ row[t].version # 0)
      BY <2>1, <2>2, <2>4 DEF TrackOk
    <2> QED
      BY <2>3, <2>4
  <1>3. row' \in [Track -> Row]
    BY <1>2 DEF Validated
  <1>4. checking' \in [Track -> Row] /\ \A t \in Track : StaleOk(checking'[t], offered[t])
    BY <1>1, DownloadsAssumption DEF Unasked, Row, StaleOk
  <1>5. /\ pumping' \in BOOLEAN /\ proc' \in [Track -> ProcState]
        /\ pumping' \/ \A t \in Track : proc'[t] = Resting
        /\ QueuedIsSeen'
        /\ \A t \in Track : Starts(t, job', row')
    BY <1>1, <1>3, TypesOfIInv, RefreshStarts
  <1>6. DownloadsTypeOK'
    BY <1>1, <1>3, <1>4, <1>5, TypesOfIInv DEF DownloadsTypeOK, ProcState
  <1>7. HandStepOk'
    BY <1>1, TypesOfIInv DEF HandStepOk
  <1>8. ASSUME NEW t \in Track
        PROVE  ProcOk(t)' /\ VersionsOk(t)'
    <2>1. Starts(t, job, row')
      BY <1>1, <1>5
    <2>2. ProcOk(t)' /\ NotAfter(proc'[t].version, offered[t])
      BY <2>1, TypesOfIInv, StartsOk DEF VersionsOk
    <2> QED
      BY <1>1, <1>2, <2>2, TypesOfIInv DEF VersionsOk
  <1>9. ASSUME NEW t \in Track, TrackOk(t), ~Crossing(t)
        PROVE  TrackOk(t)'
    BY <1>1, <1>2, <1>4, <1>5, <1>9, TypesOfIInv, HandStays, RefreshTrack
  <1> QED
    BY <1>5, <1>6, <1>7, <1>8, <1>9 DEF World

-----------------------------------------------------------------------------
(* The user *)

LEMMA HandsOffIs ==
    /\ HandsOff \in HandType /\ HandsOff.op = "none" /\ HandsOff.at = "begin" /\ HandsOff.on = {}
    /\ HandsOff.seen \in [Track -> Row] /\ \A t \in Track : HandsOff.seen[t].version = 0
  <1>1. [t \in Track |-> NoRow] \in [Track -> Row] /\ NoRow.version = 0
    BY DownloadsTypes, DownloadsAssumption DEF NoRow, Row
  <1> QED
    BY <1>1 DEF HandsOff, HandType

\* A refresh after which the rows have the versions they had.
LEMMA JobsKeep ==
    ASSUME DownloadsIInv, crossed' \subseteq Track, Refreshed,
           job' \in [Track -> Job], \A t \in Track : NotAfter(job'[t].version, offered[t]),
           row' = row, disk' = disk, offered' = offered, checking' = checking, late' = late,
           relaunches' = relaunches, cancelled' = cancelled, paused' = paused, connected' = connected,
           HandStepOk', \A t \in Track : NotAfter(hand'.seen[t].version, offered[t]),
           NEW here \in SUBSET Track,
           \A t \in here : TrackOk(t) /\ ~Crossing(t)
                /\ HandOk(t)' /\ (hand'.at = "rows" /\ t \in hand'.on <=> hand.at = "rows" /\ t \in hand.on)
    PROVE  World' /\ \A t \in here : TrackOk(t)'
  <1>1. /\ pumping' \in BOOLEAN /\ proc' \in [Track -> ProcState]
        /\ pumping' \/ \A t \in Track : proc'[t] = Resting
        /\ QueuedIsSeen'
        /\ \A t \in Track : Starts(t, job', row')
    BY TypesOfIInv, RefreshStarts
  <1>2. DownloadsTypeOK'
    BY <1>1, TypesOfIInv DEF DownloadsTypeOK, ProcState, HandStepOk, HandType
  <1>3. ASSUME NEW t \in Track
        PROVE  ProcOk(t)' /\ VersionsOk(t)'
    <2>1. Starts(t, job', row')
      BY <1>1
    <2>2. ProcOk(t)' /\ NotAfter(proc'[t].version, offered[t])
      BY <2>1, TypesOfIInv, StartsOk DEF VersionsOk
    <2> QED
      BY <2>2, TypesOfIInv DEF VersionsOk
  <1>4. ASSUME NEW t \in here
        PROVE  TrackOk(t)'
    <2>1. StaleOk(row[t], offered[t]) /\ StaleOk(checking[t], offered[t])
      BY DEF TrackOk
    <2>2. Starts(t, job', row')
      BY <1>1
    <2> QED
      BY <2>1, <2>2, TypesOfIInv, RefreshTrack
  <1> QED
    BY <1>1, <1>2, <1>3, <1>4 DEF World

LEMMA DownloadMediaKeeps ==
    ASSUME DownloadsIInv, crossed' \subseteq Track, NEW s \in Track, DownloadMedia(s)
    PROVE  World' /\ \A t \in Track : TrackOk(t) /\ ~Crossing(t) => TrackOk(t)'
  <1>1. /\ row' = row /\ disk' = disk /\ offered' = offered /\ checking' = checking /\ late' = late
        /\ relaunches' = relaunches /\ cancelled' = cancelled /\ paused' = paused /\ connected' = connected
        /\ hand' = hand /\ Refreshed
    BY DEF DownloadMedia
  <1>2. job' \in [Track -> Job] /\ \A t \in Track : NotAfter(job'[t].version, offered[t])
    <2>1. CASE job' = [job EXCEPT ![s] = [version |-> offered[s], state |-> "queued"]]
      <3>1. [version |-> offered[s], state |-> "queued"] \in Job
        BY TypesOfIInv DEF Job
      <3> QED
        BY <2>1, <3>1, TypesOfIInv DEF VersionsOk, NotAfter
    <2>2. CASE job' = [job EXCEPT ![s].state = "queued"]
      <3>1. job'[s] \in Job /\ job'[s].version = job[s].version
        <4>1. job \in [Track -> Job]
          BY TypesOfIInv
        <4>2. job'[s] = [job[s] EXCEPT !.state = "queued"]
          BY <2>2, <4>1
        <4> QED
          BY <4>1, <4>2 DEF Job
      <3> QED
        BY <2>2, <3>1, TypesOfIInv DEF VersionsOk
    <2> QED
      BY <2>1, <2>2 DEF DownloadMedia
  <1>3. HandStepOk' /\ \A t \in Track : NotAfter(hand'.seen[t].version, offered[t])
    BY <1>1, TypesOfIInv DEF HandStepOk, VersionsOk
  <1> DEFINE here == {t \in Track : TrackOk(t) /\ ~Crossing(t)}
  <1>4. \A t \in here : HandOk(t)' /\ (hand'.at = "rows" /\ t \in hand'.on <=> hand.at = "rows" /\ t \in hand.on)
    BY <1>1, TypesOfIInv, HandStays
  <1>5. here \in SUBSET Track /\ \A t \in here : TrackOk(t) /\ ~Crossing(t)
    OBVIOUS
  <1>6. World' /\ \A t \in here : TrackOk(t)'
    <2> HIDE DEF here
    <2> QED
      BY <1>1, <1>2, <1>3, <1>4, <1>5, JobsKeep
  <1> QED
    BY <1>6

\* The user begins with tracks whose rows he knows.
LEMMA BeginsKeep ==
    ASSUME DownloadsIInv, crossed' \subseteq Track, hand = HandsOff,
           row' = row, disk' = disk, job' = job, proc' = proc, pumping' = pumping, offered' = offered,
           checking' = checking, late' = late, relaunches' = relaunches, paused' = paused,
           connected' = connected, cancelled' \subseteq Track,
           NEW op \in {"cancel", "remove", "remove all", "assets"}, NEW on \in SUBSET Track,
           hand' = [op |-> op, on |-> on, at |-> IF op = "assets" THEN "save" ELSE "patch", seen |-> row]
    PROVE  World' /\ \A t \in Track : TrackOk(t) /\ ~Crossing(t) => TrackOk(t)'
  <1>1. HandStepOk'
    BY TypesOfIInv DEF HandStepOk, HandType
  <1>2. DownloadsTypeOK'
    BY <1>1, TypesOfIInv DEF DownloadsTypeOK, HandStepOk, HandType
  <1>3. QueuedIsSeen' /\ \A t \in Track : ProcOk(t)' /\ VersionsOk(t)'
    BY TypesOfIInv DEF QueuedIsSeen, ProcOk, VersionsOk
  <1>4. ASSUME NEW t \in Track, TrackOk(t), ~Crossing(t)
        PROVE  TrackOk(t)'
    <2>1. t \in on /\ op # "cancel" => proc[t].at = "rest"
      <3> SUFFICES ASSUME t \in on, op # "cancel" PROVE proc[t].at = "rest"
        OBVIOUS
      <3>1. hand'.op \in {"remove", "remove all", "assets"} /\ t \in hand'.on
        OBVIOUS
      <3>2. proc'[t] = Resting
        BY <1>4, <3>1 DEF Crossing
      <3>3. proc[t] = Resting
        BY <3>2
      <3>4. Resting.at = "rest"
        BY DEF Resting
      <3> QED
        BY <3>3, <3>4
    <2>2. StaleOk(row[t], offered[t]) /\ StaleOk(checking[t], offered[t])
      BY <1>4 DEF TrackOk
    <2>3. HandOk(t)'
      BY <2>1, <2>2 DEF HandOk
    <2>4. hand'.at # "rows" /\ hand.at # "rows"
      BY HandsOffIs
    <2> QED
      BY <1>1, <1>4, <2>2, <2>3, <2>4, TypesOfIInv, TrackKeeps
  <1> QED
    BY <1>1, <1>2, <1>3, <1>4 DEF World

LEMMA HoldKeeps ==
    ASSUME DownloadsIInv, crossed' \subseteq Track, NEW op \in {"cancel", "remove", "remove all"},
           NEW on \in SUBSET Track, Hold(op, on)
    PROVE  World' /\ \A t \in Track : TrackOk(t) /\ ~Crossing(t) => TrackOk(t)'
  <1>1. cancelled' \subseteq Track
    BY TypesOfIInv DEF Hold, DownloadsTypeOK
  <1>2. hand' = [op |-> op, on |-> on, at |-> IF op = "assets" THEN "save" ELSE "patch", seen |-> row]
    BY DEF Hold
  <1> QED
    BY <1>1, <1>2, BeginsKeep DEF Hold, deviceVars

LEMMA AssetsKeeps ==
    ASSUME DownloadsIInv, crossed' \subseteq Track, NEW s \in Track, Assets(s)
    PROVE  World' /\ \A t \in Track : TrackOk(t) /\ ~Crossing(t) => TrackOk(t)'
  <1>1. cancelled' \subseteq Track
    BY TypesOfIInv DEF Assets, pumpVars, DownloadsTypeOK
  <1>2. hand' = [op |-> "assets", on |-> {s}, at |-> IF "assets" = "assets" THEN "save" ELSE "patch", seen |-> row]
    BY DEF Assets
  <1> QED
    BY <1>1, <1>2, BeginsKeep DEF Assets, deviceVars, pumpVars

LEMMA HandPatchKeeps ==
    ASSUME DownloadsIInv, crossed' \subseteq Track, HandPatch
    PROVE  World' /\ \A t \in Track : TrackOk(t) /\ ~Crossing(t) => TrackOk(t)'
  <1>1. /\ row' = row /\ disk' = disk /\ offered' = offered /\ checking' = checking /\ late' = late
        /\ relaunches' = relaunches /\ cancelled' = cancelled /\ paused' = paused /\ connected' = connected
        /\ Refreshed /\ hand.at = "patch"
    BY DEF HandPatch
  <1>2. ASSUME NEW t \in Track
        PROVE  /\ Patched(t, "cancelled")[t] \in Job
               /\ Patched(t, "cancelled")[t].version = job[t].version
    BY TypesOfIInv, PatchedIs DEF Job
  <1>3. PICK which \in SUBSET Track :
           job' = [t \in Track |-> IF t \in which THEN Patched(t, "cancelled")[t] ELSE job[t]]
    <2>1. hand.on \in SUBSET Track
      BY TypesOfIInv DEF HandStepOk, HandType
    <2> DEFINE w == IF hand.op = "remove all" THEN {t \in hand.on : t \in cancelled \/ Active(t)} ELSE hand.on
    <2>2. w \in SUBSET Track /\ job' = [t \in Track |-> IF t \in w THEN Patched(t, "cancelled")[t] ELSE job[t]]
      BY <2>1 DEF HandPatch
    <2> QED
      BY <2>2
  <1>4. job' \in [Track -> Job] /\ \A t \in Track : NotAfter(job'[t].version, offered[t])
    BY <1>2, <1>3, TypesOfIInv DEF VersionsOk
  <1>5. \/ hand.op = "cancel" /\ hand' = HandsOff
        \/ hand.op = "remove" /\ hand' = [hand EXCEPT !.at = "files"]
        \/ hand.op = "remove all" /\ hand' = [hand EXCEPT !.at = "files", !.seen = row]
    <2>1. hand.op \in {"cancel", "remove", "remove all"}
      BY <1>1, TypesOfIInv DEF HandStepOk, HandType
    <2> QED
      BY <2>1 DEF HandPatch
  <1>6. /\ HandStepOk'
        /\ \A t \in Track : NotAfter(hand'.seen[t].version, offered[t])
    <2>1. CASE hand.op = "cancel" /\ hand' = HandsOff
      BY <2>1, HandsOffIs, TypesOfIInv DEF HandStepOk, NotAfter
    <2>2. CASE hand.op = "remove" /\ hand' = [hand EXCEPT !.at = "files"]
      BY <2>2, TypesOfIInv DEF HandStepOk, HandType, VersionsOk
    <2>3. CASE hand.op = "remove all" /\ hand' = [hand EXCEPT !.at = "files", !.seen = row]
      BY <2>3, TypesOfIInv DEF HandStepOk, HandType, VersionsOk
    <2> QED
      BY <1>5, <2>1, <2>2, <2>3
  <1>7. ASSUME NEW t \in Track, TrackOk(t), ~Crossing(t)
        PROVE  HandOk(t)' /\ (hand'.at = "rows" /\ t \in hand'.on <=> hand.at = "rows" /\ t \in hand.on)
    <2>0. hand \in HandType
      BY TypesOfIInv DEF HandStepOk
    <2>1. CASE hand.op = "cancel" /\ hand' = HandsOff
      BY <1>1, <2>1, HandsOffIs DEF HandOk
    <2>2. CASE hand.op \in {"remove", "remove all"}
      <3>1. hand'.op = hand.op /\ hand'.on = hand.on /\ hand'.at = "files" /\ hand'.seen \in {hand.seen, row}
        BY <1>5, <2>0, <2>2 DEF HandType
      <3>2. t \in hand'.on => proc'[t] = Resting
        BY <1>7, <2>2, <3>1 DEF Crossing
      <3>3. t \in hand'.on => proc'[t].at = "rest"
        BY <3>2 DEF Resting
      <3>4. t \in hand'.on => hand'.seen[t].version = row[t].version /\ StaleOk(hand'.seen[t], offered[t])
        BY <1>7, <2>2, <3>1 DEF TrackOk, HandOk
      <3> QED
        BY <1>1, <3>1, <3>3, <3>4 DEF HandOk
    <2> QED
      BY <1>5, <2>1, <2>2
  <1> DEFINE here == {t \in Track : TrackOk(t) /\ ~Crossing(t)}
  <1>8. here \in SUBSET Track /\ \A t \in here : TrackOk(t) /\ ~Crossing(t)
          /\ HandOk(t)' /\ (hand'.at = "rows" /\ t \in hand'.on <=> hand.at = "rows" /\ t \in hand.on)
    BY <1>7
  <1>9. World' /\ \A t \in here : TrackOk(t)'
    <2> HIDE DEF here
    <2> QED
      BY <1>1, <1>4, <1>6, <1>8, JobsKeep
  <1> QED
    BY <1>9

LEMMA HandFilesKeeps ==
    ASSUME DownloadsIInv, crossed' \subseteq Track, HandFiles
    PROVE  World' /\ \A t \in Track : TrackOk(t) => TrackOk(t)'
  <1>1. /\ row' = row /\ job' = job /\ proc' = proc /\ pumping' = pumping /\ offered' = offered
        /\ checking' = checking /\ late' = late /\ relaunches' = relaunches
        /\ cancelled' = cancelled /\ paused' = paused /\ connected' = connected
        /\ hand.at = "files" /\ hand' = [hand EXCEPT !.at = "rows"]
    BY DEF HandFiles, pumpVars
  <1>2. hand \in HandType /\ hand.op \in {"remove", "remove all"}
    BY <1>1, TypesOfIInv DEF HandStepOk, HandType
  <1>3. hand'.op = hand.op /\ hand'.on = hand.on /\ hand'.at = "rows" /\ hand'.seen = hand.seen /\ hand' \in HandType
    BY <1>1, <1>2 DEF HandType
  <1>4. HandStepOk'
    BY <1>2, <1>3 DEF HandStepOk
  <1>5. /\ disk' \in [Track -> SUBSET Version]
        /\ \A t \in Track : disk'[t] = IF t \in hand.on THEN disk[t] \ {hand.seen[t].version} ELSE disk[t]
    BY TypesOfIInv DEF HandFiles
  <1>6. DownloadsTypeOK'
    BY <1>1, <1>3, <1>5, TypesOfIInv DEF DownloadsTypeOK, HandType
  <1>7. QueuedIsSeen' /\ \A t \in Track : ProcOk(t)' /\ VersionsOk(t)'
    BY <1>1, <1>3, TypesOfIInv DEF QueuedIsSeen, ProcOk, VersionsOk
  <1>8. ASSUME NEW t \in Track, TrackOk(t)
        PROVE  TrackOk(t)'
    <2>1. HandOk(t)'
      BY <1>1, <1>3, <1>8 DEF TrackOk, HandOk
    <2>2. StaleOk(row[t], offered[t]) /\ StaleOk(checking[t], offered[t])
      BY <1>8 DEF TrackOk
    <2>3. CASE t \in hand.on
      <3>1. proc[t].at = "rest" /\ hand.seen[t].version = row[t].version
        BY <1>2, <1>8, <2>3 DEF TrackOk, HandOk
      <3>2. disk[t] \subseteq {row[t].version}
        BY <1>1, <1>8, <3>1 DEF TrackOk, FilesAtRest, JustItsFile
      <3>3. disk'[t] = {}
        BY <1>5, <2>3, <3>1, <3>2
      <3> QED
        BY <1>1, <1>3, <2>1, <2>2, <2>3, <3>1, <3>3 DEF TrackOk, FilesOfJob, FilesAtRest
    <2>4. CASE t \notin hand.on
      BY <1>1, <1>3, <1>4, <1>5, <1>8, <2>1, <2>2, <2>4, TypesOfIInv, TrackKeeps
    <2> QED
      BY <2>3, <2>4
  <1> QED
    BY <1>4, <1>6, <1>7, <1>8 DEF World

LEMMA HandRowsKeeps ==
    ASSUME DownloadsIInv, crossed' \subseteq Track, HandRows
    PROVE  World' /\ \A t \in Track : TrackOk(t) /\ ~Crossing(t) => TrackOk(t)'
  <1>1. /\ disk' = disk /\ offered' = offered /\ checking' = checking /\ late' = late
        /\ relaunches' = relaunches /\ cancelled' = cancelled /\ paused' = paused /\ connected' = connected
        /\ hand.at = "rows" /\ hand' = HandsOff /\ Refreshed
    BY DEF HandRows
  <1>2. /\ row' \in [Track -> Row] /\ \A t \in Track : row'[t] = IF t \in hand.on THEN NoRow ELSE row[t]
        /\ job' \in [Track -> Job] /\ \A t \in Track : job'[t] = IF t \in hand.on THEN NoRecord ELSE job[t]
    BY TypesOfIInv, DownloadsTypes DEF HandRows
  <1>3. hand.op # "cancel"
    BY <1>1, TypesOfIInv DEF HandStepOk
  <1>4. /\ pumping' \in BOOLEAN /\ proc' \in [Track -> ProcState]
        /\ pumping' \/ \A t \in Track : proc'[t] = Resting
        /\ QueuedIsSeen'
        /\ \A t \in Track : Starts(t, job', row')
    BY <1>1, <1>2, TypesOfIInv, RefreshStarts
  <1>5. HandStepOk'
    BY <1>1, HandsOffIs DEF HandStepOk
  <1>6. DownloadsTypeOK'
    BY <1>1, <1>2, <1>4, <1>5, TypesOfIInv DEF DownloadsTypeOK, ProcState, HandStepOk, HandType
  <1>7. ASSUME NEW t \in Track
        PROVE  ProcOk(t)' /\ VersionsOk(t)'
    <2>1. Starts(t, job', row')
      BY <1>4
    <2>2. NotAfter(job'[t].version, offered[t]) /\ NotAfter(row'[t].version, offered[t])
      BY <1>2, TypesOfIInv DEF VersionsOk, NotAfter, NoRow, NoRecord
    <2>3. ProcOk(t)' /\ NotAfter(proc'[t].version, offered[t])
      BY <1>2, <2>1, <2>2, TypesOfIInv, StartsOk DEF VersionsOk
    <2>4. NotAfter(hand'.seen[t].version, offered[t])
      BY <1>1, HandsOffIs, TypesOfIInv DEF NotAfter
    <2> QED
      BY <1>1, <2>2, <2>3, <2>4, TypesOfIInv DEF VersionsOk
  <1>8. ASSUME NEW t \in Track, TrackOk(t), ~Crossing(t)
        PROVE  TrackOk(t)'
    <2>1. HandOk(t)' /\ hand'.at # "rows"
      BY <1>1, HandsOffIs DEF HandOk
    <2>2. StaleOk(row'[t], offered'[t]) /\ StaleOk(checking'[t], offered'[t])
      BY <1>1, <1>2, <1>8 DEF TrackOk, StaleOk, NoRow
    <2>3. CASE t \in hand.on
      <3>1. proc[t].at = "rest" /\ disk[t] = {}
        BY <1>1, <1>3, <1>8, <2>3 DEF TrackOk, HandOk, FilesAtRest
      <3>2. proc'[t] = proc[t]
        <4>1. Starts(t, job', row') /\ job'[t] = NoRecord
          BY <1>2, <1>4, <2>3
        <4> QED
          BY <4>1 DEF Starts, Begun, Queued, NoRecord
      <3>3. row'[t].version = 0
        BY <1>2, <2>3 DEF NoRow
      <3> QED
        BY <1>1, <2>1, <2>2, <3>1, <3>2, <3>3 DEF TrackOk, FilesOfJob, FilesAtRest, JustItsFile
    <2>4. CASE t \notin hand.on
      <3>1. row'[t] = row[t] /\ Starts(t, job', row')
        BY <1>2, <1>4, <2>4
      <3> QED
        BY <1>1, <1>5, <1>8, <2>1, <2>2, <2>4, <3>1, TypesOfIInv, RefreshTrack
    <2> QED
      BY <2>3, <2>4
  <1> QED
    BY <1>4, <1>5, <1>6, <1>7, <1>8 DEF World

LEMMA AssetsSaveKeeps ==
    ASSUME DownloadsIInv, crossed' \subseteq Track, AssetsSave
    PROVE  World' /\ \A t \in Track : TrackOk(t) /\ ~Crossing(t) => TrackOk(t)'
  <1>1. /\ disk' = disk /\ job' = job /\ offered' = offered /\ checking' = checking /\ late' = late
        /\ relaunches' = relaunches /\ cancelled' = cancelled /\ paused' = paused /\ connected' = connected
        /\ hand.at = "save" /\ hand' = HandsOff
    BY DEF AssetsSave
  <1>2. hand.op = "assets"
    BY <1>1, TypesOfIInv DEF HandStepOk
  <1>3. HandStepOk' /\ \A t \in Track : NotAfter(hand'.seen[t].version, offered[t])
    BY <1>1, HandsOffIs, TypesOfIInv DEF HandStepOk, NotAfter
  <1>4. \A t \in Track : HandOk(t)' /\ hand'.at # "rows"
    BY <1>1, HandsOffIs DEF HandOk
  <1>5. CASE /\ row' = [t \in Track |-> IF t \in hand.on THEN hand.seen[t] ELSE row[t]]
             /\ Refreshed
    <2>1. row' \in [Track -> Row] /\ \A t \in Track : row'[t] = IF t \in hand.on THEN hand.seen[t] ELSE row[t]
      BY <1>5, TypesOfIInv
    <2>2. /\ pumping' \in BOOLEAN /\ proc' \in [Track -> ProcState]
          /\ pumping' \/ \A t \in Track : proc'[t] = Resting
          /\ QueuedIsSeen'
          /\ \A t \in Track : Starts(t, job', row')
      BY <1>1, <1>5, <2>1, TypesOfIInv, RefreshStarts
    <2>3. DownloadsTypeOK'
      BY <1>1, <1>3, <2>1, <2>2, TypesOfIInv DEF DownloadsTypeOK, ProcState, HandStepOk, HandType
    <2>4. ASSUME NEW t \in Track
          PROVE  ProcOk(t)' /\ VersionsOk(t)'
      <3>1. Starts(t, job, row')
        BY <1>1, <2>2
      <3>2. ProcOk(t)' /\ NotAfter(proc'[t].version, offered[t])
        BY <3>1, TypesOfIInv, StartsOk DEF VersionsOk
      <3>3. NotAfter(row'[t].version, offered[t])
        BY <2>1, TypesOfIInv DEF VersionsOk
      <3> QED
        BY <1>1, <1>3, <3>2, <3>3, TypesOfIInv DEF VersionsOk
    <2>5. ASSUME NEW t \in Track, TrackOk(t), ~Crossing(t)
          PROVE  TrackOk(t)'
      <3>1. row'[t].version = row[t].version /\ StaleOk(row'[t], offered[t]) /\ StaleOk(checking[t], offered[t])
        BY <1>2, <2>1, <2>5 DEF TrackOk, HandOk
      <3>2. Starts(t, job', row')
        BY <2>2
      <3> QED
        BY <1>1, <1>3, <1>4, <2>5, <3>1, <3>2, TypesOfIInv, RefreshTrack
    <2> QED
      BY <1>3, <2>2, <2>3, <2>4, <2>5 DEF World
  <1>6. CASE UNCHANGED <<row, proc, pumping>>
    <2>1. DownloadsTypeOK'
      BY <1>1, <1>3, <1>6, TypesOfIInv DEF DownloadsTypeOK, HandStepOk, HandType
    <2>2. QueuedIsSeen' /\ \A t \in Track : ProcOk(t)' /\ VersionsOk(t)'
      BY <1>1, <1>3, <1>6, TypesOfIInv DEF QueuedIsSeen, ProcOk, VersionsOk
    <2>3. ASSUME NEW t \in Track, TrackOk(t)
          PROVE  TrackOk(t)'
      <3>1. StaleOk(row[t], offered[t]) /\ StaleOk(checking[t], offered[t])
        BY <2>3 DEF TrackOk
      <3> QED
        BY <1>1, <1>3, <1>4, <1>6, <2>3, <3>1, TypesOfIInv, TrackKeeps
    <2> QED
      BY <1>3, <2>1, <2>2, <2>3 DEF World
  <1> QED
    BY <1>5, <1>6 DEF AssetsSave

-----------------------------------------------------------------------------
(* The app is started again *)

LEMMA RelaunchKeeps ==
    ASSUME DownloadsIInv, crossed' \subseteq Track, Relaunch
    PROVE  World' /\ \A t \in Track : TrackOk(t) /\ ~Crossing(t) => TrackOk(t)'
  <1>1. /\ row' = row /\ disk' = disk /\ offered' = offered /\ connected' \in BOOLEAN
        /\ cancelled' = {} /\ paused' = {} /\ late' = Unread /\ hand' = HandsOff /\ checking' = Unasked
    BY DEF Relaunch
  <1>2. relaunches' \in 0..MaxLaunches /\ relaunches' # relaunches
    <2>1. relaunches \in 0..MaxLaunches
      BY TypesOfIInv DEF DownloadsTypeOK
    <2>2. relaunches < MaxLaunches /\ relaunches' = relaunches + 1
      BY DEF Relaunch
    <2> QED
      BY <2>1, <2>2, DownloadsAssumption
  <1>3. ASSUME NEW t \in Track
        PROVE  job'[t] \in Job /\ job'[t].version = job[t].version
    BY TypesOfIInv DEF Relaunch, Job
  <1>4. job' \in [Track -> Job]
    BY <1>3 DEF Relaunch
  <1>5. /\ pumping' \in BOOLEAN /\ proc' \in [Track -> ProcState]
        /\ pumping' \/ \A t \in Track : proc'[t] = Resting
        /\ QueuedIsSeen'
        /\ \A t \in Track : proc'[t] = Resting \/ Begun(proc'[t], job'[t], row[t])
    <2>1. CASE \E t \in Track : Queued(job'[t])
      <3>1. Shown(job', row', FALSE) /\ row' \in [Track -> Row]
        BY <1>1, <2>1, TypesOfIInv DEF Relaunch
      <3>2. /\ pumping' = TRUE /\ proc' \in [Track -> ProcState]
            /\ \A t \in Track : proc'[t] = Resting \/ Begun(proc'[t], job'[t], row'[t])
        BY <1>4, <2>1, <3>1, ShownFacts
      <3> QED
        BY <1>1, <3>2 DEF QueuedIsSeen
    <2>2. CASE ~\E t \in Track : Queued(job'[t])
      <3>1. proc' = [t \in Track |-> Resting] /\ pumping' = FALSE
        BY <2>2 DEF Relaunch
      <3>2. Resting \in ProcState
        BY TypesOfIInv, DownloadsTypes
      <3> QED
        BY <2>2, <3>1, <3>2 DEF QueuedIsSeen
    <2> QED
      BY <2>1, <2>2
  <1>6. late'.job \in [Track -> Job] /\ late'.row \in [Track -> Row] /\ \A t \in Track : late'.job[t].version = 0
    BY <1>1, DownloadsTypes, TypesOfIInv DEF Unread, NoRecord
  <1>7. checking' \in [Track -> Row] /\ \A t \in Track : StaleOk(checking'[t], offered[t])
    BY <1>1, DownloadsAssumption DEF Unasked, Row, StaleOk
  <1>8. HandStepOk' /\ \A t \in Track : HandOk(t)' /\ hand'.at # "rows" /\ hand'.seen[t].version = 0
    BY <1>1, HandsOffIs DEF HandStepOk, HandOk
  <1>9. DownloadsTypeOK'
    BY <1>1, <1>2, <1>4, <1>5, <1>6, <1>7, <1>8, TypesOfIInv DEF DownloadsTypeOK, ProcState, HandStepOk, HandType
  <1>10. ASSUME NEW t \in Track
         PROVE  ProcOk(t)' /\ VersionsOk(t)'
    <2>1. ProcOk(t)' /\ (proc'[t].version = 0 \/ proc'[t].version = job[t].version)
      BY <1>3, <1>5 DEF ProcOk, Begun, Queued, Resting
    <2> QED
      BY <1>1, <1>3, <1>6, <1>8, <2>1, TypesOfIInv DEF VersionsOk, NotAfter
  <1>11. ASSUME NEW t \in Track, TrackOk(t), ~Crossing(t)
         PROVE  TrackOk(t)'
    <2>1. ~(hand.at = "rows" /\ t \in hand.on) /\ proc[t].at \notin {"move", "save", "drop"}
      BY <1>2, <1>11 DEF Crossing
    <2>2. proc[t] \in ProcState
      BY TypesOfIInv
    <2>3. proc[t].at \in {"rest", "refuse", "start", "download", "unlink", "done", "caught"}
      BY <2>1, <2>2 DEF ProcState
    <2>4. JustItsFile(t)
      BY <1>11, <2>1, <2>3 DEF TrackOk, FilesOfJob, FilesAtRest
    <2>5. StaleOk(row[t], offered[t])
      BY <1>11 DEF TrackOk
    <2>6. JustItsFile(t)'
      BY <1>1, <2>4 DEF JustItsFile
    <2>7. \/ proc'[t].at = "rest"
          \/ proc'[t].at \in {"start", "refuse"} /\ proc'[t].existing = row'[t].version
      BY <1>1, <1>5 DEF Begun, Resting
    <2>8. FilesOfJob(t)' /\ FilesAtRest(t)'
      BY <1>8, <2>6, <2>7 DEF FilesOfJob, FilesAtRest
    <2> QED
      BY <1>1, <1>7, <1>8, <2>5, <2>8 DEF TrackOk
  <1> QED
    BY <1>5, <1>8, <1>9, <1>10, <1>11 DEF World

-----------------------------------------------------------------------------
(* The theorems *)

LEMMA DownloadsInitHolds == DownloadsInit => DownloadsIInv
  <1> SUFFICES ASSUME DownloadsInit PROVE DownloadsIInv
    OBVIOUS
  <1>1. 0 \in 0..MaxVersion /\ 0 \in 0..MaxLaunches
    BY DownloadsAssumption
  <1>2. /\ proc = [t \in Track |-> Resting] /\ row = [t \in Track |-> NoRow] /\ job = [t \in Track |-> NoRecord]
        /\ disk = [t \in Track |-> {}] /\ hand = HandsOff /\ late = Unread /\ checking = Unasked
        /\ pumping = FALSE /\ cancelled = {} /\ paused = {} /\ crossed = {} /\ relaunches = 0
        /\ connected = TRUE /\ offered = [t \in Track |-> 1]
    BY DEF DownloadsInit
  <1>3. /\ 1 \in 0..MaxVersion /\ Resting \in ProcState /\ NoRow \in Row /\ NoRecord \in Job
        /\ NoRow.version = 0 /\ NoRow.status = "ready" /\ NoRecord.version = 0 /\ Resting.at = "rest" /\ Resting.version = 0
    BY <1>1, DownloadsAssumption DEF Resting, NoRow, NoRecord, Row, Job, ProcState
  <1>4. late.job \in [Track -> Job] /\ late.row \in [Track -> Row] /\ \A t \in Track : late.job[t].version = 0
    BY <1>2, <1>3 DEF Unread
  <1>5. checking \in [Track -> Row] /\ \A t \in Track : checking[t].status = "ready"
    BY <1>1, <1>2 DEF Unasked, Row
  <1>6. HandStepOk /\ hand.on = {} /\ hand.at = "begin" /\ \A t \in Track : hand.seen[t].version = 0
    BY <1>2, HandsOffIs DEF HandStepOk
  <1>7. proc \in [Track -> ProcState] /\ row \in [Track -> Row] /\ job \in [Track -> Job] /\ disk \in [Track -> SUBSET Version]
    BY <1>2, <1>3
  <1>8. DownloadsTypeOK
    BY <1>1, <1>2, <1>3, <1>4, <1>5, <1>6, <1>7 DEF DownloadsTypeOK, ProcState, HandStepOk, HandType
  <1>9. ASSUME NEW t \in Track
        PROVE  VersionsOk(t) /\ ProcOk(t) /\ TrackOk(t) /\ ~Queued(job[t])
    <2>1. proc[t] = Resting /\ row[t] = NoRow /\ job[t] = NoRecord /\ disk[t] = {}
      BY <1>2
    <2>2. VersionsOk(t) /\ ProcOk(t) /\ ~Queued(job[t])
      <3>1. /\ row[t].version = 0 /\ job[t].version = 0 /\ proc[t].version = 0 /\ proc[t].at = "rest"
            /\ hand.seen[t].version = 0 /\ late.job[t].version = 0 /\ offered[t] = 1
        BY <1>2, <1>3, <1>4, <1>6, <2>1
      <3>2. VersionsOk(t)
        BY <3>1 DEF VersionsOk, NotAfter
      <3> QED
        BY <2>1, <3>1, <3>2 DEF ProcOk, Queued
    <2>3. FilesOfJob(t) /\ FilesAtRest(t) /\ HandOk(t)
      BY <1>3, <1>6, <2>1 DEF FilesOfJob, FilesAtRest, HandOk, JustItsFile
    <2>4. StaleOk(row[t], offered[t]) /\ StaleOk(checking[t], offered[t])
      BY <1>3, <1>5, <2>1 DEF StaleOk
    <2> QED
      BY <2>2, <2>3, <2>4 DEF TrackOk
  <1> QED
    BY <1>6, <1>8, <1>9 DEF DownloadsIInv, QueuedIsSeen

LEMMA DownloadsStepKeeps ==
    ASSUME DownloadsIInv, DownloadsNext
    PROVE  World' /\ \A t \in Track : TrackOk(t) /\ ~Crossing(t) => TrackOk(t)'
  <1>1. crossed' \subseteq Track
    BY TypesOfIInv DEF DownloadsNext, DownloadsTypeOK
  <1>2. ASSUME NEW t \in Track, Process(t) \/ Handling(t) \/ Replace(t) \/ Withdraw(t)
        PROVE  World' /\ \A u \in Track : TrackOk(u) /\ ~Crossing(u) => TrackOk(u)'
    <2>1. CASE Process(t)
      BY <1>1, <2>1, ProcessKeepsWorld, ProcessKeepsOthers
    <2>2. CASE DownloadMedia(t)
      BY <1>1, <2>2, DownloadMediaKeeps
    <2>3. CASE CancelDownload(t)
      BY <1>1, <2>3, HoldKeeps DEF CancelDownload
    <2>4. CASE RemoveDownload(t)
      BY <1>1, <2>4, HoldKeeps DEF RemoveDownload
    <2>5. CASE Assets(t)
      BY <1>1, <2>5, AssetsKeeps
    <2>6. CASE Replace(t) \/ Withdraw(t)
      BY <1>1, <2>6, OfferKeeps
    <2> QED
      BY <1>2, <2>1, <2>2, <2>3, <2>4, <2>5, <2>6 DEF Handling
  <1>3. CASE ReadSlowly \/ NetworkGoes \/ NetworkComes
    BY <1>1, <1>3, AsideKeeps
  <1>4. CASE ShowLate
    BY <1>1, <1>4, ShowLateKeeps
  <1>5. CASE BatchEnds
    BY <1>1, <1>5, BatchEndsKeeps
  <1>6. CASE HandPatch
    BY <1>1, <1>6, HandPatchKeeps
  <1>7. CASE HandFiles
    BY <1>1, <1>7, HandFilesKeeps
  <1>8. CASE HandRows
    BY <1>1, <1>8, HandRowsKeeps
  <1>9. CASE AssetsSave
    BY <1>1, <1>9, AssetsSaveKeeps
  <1>10. CASE RemoveAll
    BY <1>1, <1>10, HoldKeeps DEF RemoveAll
  <1>11. CASE Validate
    BY <1>1, <1>11, ValidateKeeps
  <1>12. CASE Validated
    BY <1>1, <1>12, ValidatedKeeps
  <1>13. CASE Relaunch
    BY <1>1, <1>13, RelaunchKeeps
  <1>14. \/ \E t \in Track : Process(t) \/ Handling(t) \/ Replace(t) \/ Withdraw(t)
         \/ ReadSlowly \/ ShowLate \/ BatchEnds \/ HandGoesOn \/ RemoveAll
         \/ Validate \/ Validated \/ NetworkGoes \/ NetworkComes \/ Relaunch
    BY DEF DownloadsNext, DownloadsStep
  <1> QED
    BY <1>2, <1>3, <1>4, <1>5, <1>6, <1>7, <1>8, <1>9, <1>10, <1>11, <1>12, <1>13, <1>14 DEF HandGoesOn

LEMMA DownloadsStutter == DownloadsIInv /\ UNCHANGED downloadVars => DownloadsIInv'
  <1> SUFFICES ASSUME DownloadsIInv, UNCHANGED downloadVars PROVE DownloadsIInv'
    OBVIOUS
  <1>1. /\ row' = row /\ disk' = disk /\ job' = job /\ proc' = proc /\ pumping' = pumping
        /\ offered' = offered /\ hand' = hand /\ checking' = checking /\ relaunches' = relaunches
        /\ cancelled' = cancelled /\ paused' = paused /\ connected' = connected /\ late' = late
        /\ crossed' = crossed
    BY DEF downloadVars, deviceVars, pumpVars
  <1>2. DownloadsTypeOK' /\ HandStepOk' /\ QueuedIsSeen'
    BY <1>1, TypesOfIInv DEF DownloadsTypeOK, HandStepOk, QueuedIsSeen
  <1>3. \A t \in Track : VersionsOk(t)' /\ ProcOk(t)'
    BY <1>1, TypesOfIInv DEF VersionsOk, ProcOk
  <1>4. \A t \in Track \ crossed : TrackOk(t)'
    BY <1>1, TrackStays DEF DownloadsIInv
  <1> QED
    BY <1>1, <1>2, <1>3, <1>4 DEF DownloadsIInv

\* The invariant of the downloads holds whatever the user, slow refreshes, the
\* server and restarts do, for any number of tracks, slots and versions.
THEOREM DownloadsInvariant == DownloadsSpec => []DownloadsIInv
  <1>1. DownloadsInit => DownloadsIInv
    BY DownloadsInitHolds
  <1>2. DownloadsIInv /\ [DownloadsNext]_downloadVars => DownloadsIInv'
    <2> SUFFICES ASSUME DownloadsIInv, [DownloadsNext]_downloadVars PROVE DownloadsIInv'
      OBVIOUS
    <2>1. CASE DownloadsNext
      <3>1. World' /\ \A t \in Track : TrackOk(t) /\ ~Crossing(t) => TrackOk(t)'
        BY <2>1, DownloadsStepKeeps
      <3>2. \A t \in Track \ crossed' : TrackOk(t) /\ ~Crossing(t)
        BY <2>1, CrossedGrows DEF DownloadsIInv
      <3> QED
        BY <3>1, <3>2 DEF World, DownloadsIInv
    <2>2. CASE UNCHANGED downloadVars
      BY <2>2, DownloadsStutter
    <2> QED
      BY <2>1, <2>2
  <1> QED
    BY <1>1, <1>2, PTL DEF DownloadsSpec

\* offline-context.jsx: rows, files and server agree as far as the phone can know (a
\* listed track has its file, nothing is left behind, what is called stale is old), and
\* no queued job is forgotten.
THEOREM DownloadsAgree == DownloadsSpec => []DownloadsInv
  <1>1. ASSUME DownloadsIInv PROVE ListedIsStored
    <2> SUFFICES ASSUME NEW t \in Track \ crossed, row[t].version # 0
                 PROVE  \/ row[t].version \in disk[t]
                        \/ proc[t].at = "move" /\ proc[t].version = row[t].version
                        \/ hand.at = "rows" /\ t \in hand.on
      BY DEF ListedIsStored
    <2>1. TrackOk(t) /\ proc[t] \in ProcState
      BY <1>1, TypesOfIInv DEF DownloadsIInv
    <2> QED
      BY <2>1 DEF TrackOk, FilesOfJob, FilesAtRest, JustItsFile, ProcState
  <1>2. ASSUME DownloadsIInv PROVE NothingLeftBehind
    <2> SUFFICES ASSUME NEW t \in Track \ crossed, proc[t] = Resting, t \notin hand.on
                 PROVE  disk[t] \subseteq {row[t].version}
      BY DEF NothingLeftBehind
    <2>1. TrackOk(t)
      BY <1>2 DEF DownloadsIInv
    <2>2. proc[t].at = "rest" /\ t \notin hand.on
      <3>1. Resting.at = "rest"
        BY DEF Resting
      <3> QED
        BY <3>1
    <2> QED
      BY <2>1, <2>2 DEF TrackOk, FilesAtRest, JustItsFile
  <1>3. ASSUME DownloadsIInv PROVE StaleIsOld
    <2> SUFFICES ASSUME NEW t \in Track \ crossed, row[t].status = "stale"
                 PROVE  row[t].version # offered[t]
      BY DEF StaleIsOld
    <2>1. StaleOk(row[t], offered[t]) /\ row[t].version \in Nat /\ offered[t] \in Nat
      BY <1>3, TypesOfIInv DEF DownloadsIInv, TrackOk
    <2> QED
      BY <2>1 DEF StaleOk
  <1>4. DownloadsIInv => DownloadsInv
    BY <1>1, <1>2, <1>3 DEF DownloadsInv, DownloadsIInv
  <1> QED
    BY <1>4, DownloadsInvariant, PTL
=============================================================================

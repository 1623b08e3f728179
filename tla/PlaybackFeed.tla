----------------------------- MODULE PlaybackFeed -----------------------------
(***************************************************************************)
(* The playback socket end to end: the client's service in                 *)
(* global-player/playback-socket.js (utils/playback-socket.js is the same  *)
(* code), the wire, and the server's entry in playback-socket.js, with its *)
(* back pressure, sequence numbers and revisions.                          *)
(*                                                                         *)
(* One web player uses it.  The server handles a message, or tells every   *)
(* socket, in one step: what happens between its awaits is                 *)
(* PlaybackSocketHub's.  Left out: tickets, the rate limit and malformed   *)
(* messages (a connection may be cut at any time), the contents of a       *)
(* snapshot, and the time from a POST's answer to the bind (WebPlayer).    *)
(***************************************************************************)
EXTENDS Naturals, Sequences

CONSTANTS
    Link,          \* connections: the one in use and one that lingers
    Tab,       \* the player's playback sessions (a bound)
    Other,         \* the session of another device
    Nothing,
    LowMark,       \* bufferedAmount over 64 KiB: lease.state is held back
    HighMark,      \* over 256 KiB: the receiver is too slow
    MaxRevision,   \* notifications of one server process (a bound)
    MaxSequence,   \* sequence numbers saturate here (a bound)
    MaxUplink,       \* messages of the client on the wire, beyond a bind (a bound)
    MaxRestarts    \* restarts of the server (a bound)

VARIABLES
    holder,        \* the session that holds the lease, in Redis
    revision,      \* of the server process
    link,          \* the server's entries with what is on the wire
    current,       \* the connection of the client
    status,        \* "ready" or not
    service,       \* the client's session, latestState and sequence
    lastRevision,  \* Nothing stands for -1
    shown,         \* the last state that onLease got
    player,        \* the web player
    made,          \* sessions created
    restarts

feedVars == <<holder, revision, link, current, status, service, lastRevision, shown, player, made, restarts>>

-----------------------------------------------------------------------------
Actions == {"play", "pause"}
States == {"available", "owned", "busy"}

News == [type : {"lease.state"}, revision : 0..MaxRevision, state : States]
ToClient ==
    News \union [type : {"socket.ready", "not.owner"}] \union [type : {"lease.lost"}, session : Tab]
Report == [type : {"playback.state"}, session : Tab, sequence : 1..MaxSequence, action : Actions]
ToServer == Report \union [type : {"auth"}] \union [type : {"session.bind"}, session : Tab]

LinkEntry == [ready : BOOLEAN, bound : Tab \union {Nothing}, revoked : Tab \union {Nothing},
              playing : BOOLEAN, sequence : 0..MaxSequence, held : News \union {Nothing},
              up : Seq(ToServer), down : Seq(ToClient)]

ASSUME FeedAssumption ==
    /\ Nothing \notin Link \union Tab \union {Other} \union 0..MaxRevision /\ Other \notin Tab
    /\ Nothing \notin LinkEntry \union News \union Report
    /\ LowMark \in Nat /\ HighMark \in Nat
    /\ MaxRevision \in Nat /\ MaxSequence \in Nat \ {0} /\ MaxRestarts \in Nat

FeedTypeOK ==
    /\ holder \in Tab \union {Other, Nothing} /\ revision \in 0..MaxRevision
    /\ link \in [Link -> LinkEntry \union {Nothing}]
    /\ current \in Link \union {Nothing} /\ status \in {"closed", "ready"}
    /\ service \in [session : Tab \union {Nothing}, latest : Report \union {Nothing},
                    sequence : 0..MaxSequence]
    /\ lastRevision \in 0..MaxRevision \union {Nothing} /\ shown \in States \union {Nothing}
    /\ player \in [session : Tab \union {Nothing}, playing : BOOLEAN, stale : BOOLEAN]
    /\ made \subseteq Tab /\ restarts \in 0..MaxRestarts

FeedInit ==
    /\ holder = Nothing /\ revision = 0
    /\ link = [l \in Link |-> Nothing] /\ current = Nothing /\ status = "closed"
    /\ service = [session |-> Nothing, latest |-> Nothing, sequence |-> 0]
    /\ lastRevision = Nothing /\ shown = Nothing
    /\ player = [session |-> Nothing, playing |-> FALSE, stale |-> FALSE]
    /\ made = {} /\ restarts = 0

-----------------------------------------------------------------------------
(* The server's entries *)

\* Mutant: a state for a slow receiver is dropped.
SentOrDropped(e, message) ==
    CASE e = Nothing -> Nothing
      [] Len(e.down) > HighMark -> Nothing
      [] Len(e.down) > LowMark /\ message.type = "lease.state" -> e
      [] OTHER -> [e EXCEPT !.down = Append(@, message)]

\* send: a receiver over the high mark is closed.
Sent(e, message) ==
    CASE e = Nothing -> Nothing
      [] Len(e.down) > HighMark -> Nothing
      [] Len(e.down) > LowMark /\ message.type = "lease.state" -> [e EXCEPT !.held = message]
      [] OTHER -> [e EXCEPT !.down = Append(@, message)]

NewsFor(e, owner, rev) ==
    [type |-> "lease.state", revision |-> rev,
     state |-> IF owner = Nothing THEN "available"
               ELSE IF owner \in Tab /\ e.bound \in {Nothing, owner} /\ e.revoked # owner THEN "owned"
               ELSE "busy"]

TellState(e, owner, rev) == IF e = Nothing THEN Nothing ELSE Sent(e, NewsFor(e, owner, rev))

Told(e, owner, rev) ==
    IF e = Nothing \/ ~e.ready THEN e
    ELSE IF e.bound # Nothing /\ e.bound # owner
         THEN LET lost == [e EXCEPT !.revoked = e.bound, !.bound = Nothing, !.playing = FALSE]
              IN TellState(Sent(lost, [type |-> "lease.lost", session |-> e.bound]), owner, rev)
         ELSE TellState(e, owner, rev)

\* notify with the lease as it is now, of entries that may just have changed.
NotifyLinks(entries, owner) ==
    /\ revision < MaxRevision /\ revision' = revision + 1
    /\ link' = [l \in Link |-> Told(entries[l], owner, revision + 1)]

\* The lease changes, and whoever changed it notifies.
Lease(owner) == holder' = owner /\ NotifyLinks(link, owner)

ClientSide == <<current, status, service, lastRevision, shown, player, made>>

PingLink(l) ==
    /\ link[l] # Nothing /\ link[l].held # Nothing /\ Len(link[l].down) < LowMark
    /\ link' = [link EXCEPT ![l] = Sent([@ EXCEPT !.held = Nothing], @.held)]
    /\ UNCHANGED <<holder, revision, ClientSide, restarts>>

\* The head of what the client sent.
Arrived(l, type) == link[l] # Nothing /\ link[l].up # <<>> /\ Head(link[l].up).type = type
Taken(l) == [link[l] EXCEPT !.up = Tail(@)]

Authenticate(l) ==
    /\ Arrived(l, "auth")
    /\ link' = [link EXCEPT ![l] =
          TellState(Sent([Taken(l) EXCEPT !.ready = TRUE], [type |-> "socket.ready"]), holder, revision)]
    /\ UNCHANGED <<holder, revision, ClientSide, restarts>>

Rejected(e) == TellState(Sent(e, [type |-> "not.owner"]), holder, revision)

\* Mutant: a bind keeps the sequence of the session before it.
BindKeepsSequence(l) ==
    LET session == Head(link[l].up).session IN
    /\ Arrived(l, "session.bind")
    /\ link' = [link EXCEPT ![l] =
          IF holder # session THEN Rejected(Taken(l))
          ELSE TellState([Taken(l) EXCEPT !.bound = session, !.revoked = Nothing, !.playing = FALSE],
                         holder, revision)]
    /\ UNCHANGED <<holder, revision, ClientSide, restarts>>

BindEntry(l) ==
    LET session == Head(link[l].up).session IN
    /\ Arrived(l, "session.bind")
    /\ link' = [link EXCEPT ![l] =
          IF holder # session THEN Rejected(Taken(l))
          ELSE TellState([Taken(l) EXCEPT !.bound = session, !.revoked = Nothing, !.sequence = 0,
                                          !.playing = FALSE], holder, revision)]
    /\ UNCHANGED <<holder, revision, ClientSide, restarts>>

Accepted(e, report) == report.session = e.bound /\ holder = e.bound /\ report.sequence >= e.sequence

ReportState(l) ==
    LET report == Head(link[l].up) IN
    /\ Arrived(l, "playback.state")
    /\ IF Accepted(link[l], report)
         THEN NotifyLinks([link EXCEPT ![l] = [Taken(l) EXCEPT !.sequence = report.sequence,
                                                          !.playing = report.action = "play"]], holder)
         ELSE link' = [link EXCEPT ![l] = Rejected(Taken(l))] /\ UNCHANGED revision
    /\ UNCHANGED <<holder, ClientSide, restarts>>

\* close, error, terminate after an unanswered ping.
Cleanup(l) ==
    /\ link[l] # Nothing /\ link' = [link EXCEPT ![l] = Nothing]
    /\ UNCHANGED <<holder, revision, ClientSide, restarts>>

RestartHub ==
    /\ restarts < MaxRestarts /\ restarts' = restarts + 1
    /\ link' = [l \in Link |-> Nothing] /\ revision' = 0
    /\ UNCHANGED <<holder, ClientSide>>

-----------------------------------------------------------------------------
(* Redis and the other routes *)

\* What keeps the player's lease: a ping while the entry plays, and the
\* heartbeat of a player that plays without a socket.
Renewed ==
    \/ \E l \in Link : link[l] # Nothing /\ link[l].ready /\ link[l].bound = holder /\ link[l].playing
    \/ status # "ready" /\ player.playing /\ player.session = holder

Expire ==
    /\ holder \in Tab /\ ~Renewed /\ Lease(Nothing)
    /\ UNCHANGED <<ClientSide, restarts>>

\* DELETE /lease/admin, and another device that comes and goes.
OthersChange ==
    /\ \/ holder # Nothing /\ Lease(Nothing)
       \/ holder = Nothing /\ Lease(Other)
    /\ UNCHANGED <<ClientSide, restarts>>

-----------------------------------------------------------------------------
(* The client's service *)

\* send: only an open socket takes a message.
Uplink(l, messages) ==
    IF current = Nothing \/ l[current] = Nothing THEN l ELSE [l EXCEPT ![current].up = @ \o messages]

BindMessage(session) == IF session = Nothing THEN <<>> ELSE <<[type |-> "session.bind", session |-> session]>>
LatestMessage(latest) == IF latest = Nothing THEN <<>> ELSE <<latest>>

\* bind: also forgets the latest state.
Bound(session) == [session |-> session, latest |-> Nothing, sequence |-> 0]

\* publish without a session does nothing.
Publish(action) ==
    LET sequence == IF service.sequence < MaxSequence THEN service.sequence + 1 ELSE MaxSequence
        report == [type |-> "playback.state", session |-> service.session,
                   sequence |-> sequence, action |-> action]
    IN IF service.session = Nothing
         THEN UNCHANGED <<service, link>>
         ELSE /\ service' = [service EXCEPT !.latest = report, !.sequence = sequence]
              /\ link' = Uplink(link, <<report>>)

OpenLink(l) ==
    /\ current = Nothing /\ link[l] = Nothing /\ current' = l
    /\ link' = [link EXCEPT ![l] =
          [ready |-> FALSE, bound |-> Nothing, revoked |-> Nothing, playing |-> FALSE, sequence |-> 0,
           held |-> Nothing, up |-> <<[type |-> "auth"]>>, down |-> <<>>]]
    /\ UNCHANGED <<holder, revision, status, service, lastRevision, shown, player, made, restarts>>

\* onclose: what the connection carried may still arrive, in part.  A paused
\* player without a socket lets its lease go stale.
Break ==
    /\ current # Nothing /\ current' = Nothing /\ status' = "closed"
    /\ link' \in {link} \union
         {[link EXCEPT ![current].up = SubSeq(@, 1, n)] :
             n \in IF link[current] = Nothing THEN {} ELSE 0..Len(link[current].up)}
    /\ player' = [player EXCEPT !.stale = @ \/ (player.session # Nothing /\ ~player.playing)]
    /\ UNCHANGED <<holder, revision, service, lastRevision, shown, made, restarts>>

\* The head of what the server sent, and the link without it.
Incoming(type) ==
    /\ current # Nothing /\ link[current] # Nothing /\ link[current].down # <<>>
    /\ Head(link[current].down).type = type
Read == [link EXCEPT ![current].down = Tail(@)]

\* Mutant: the revision of the process before is kept.
ReadyKeepsRevision ==
    /\ Incoming("socket.ready") /\ status' = "ready" /\ UNCHANGED lastRevision
    /\ link' = Uplink(Read, BindMessage(service.session) \o LatestMessage(service.latest))
    /\ UNCHANGED <<holder, revision, current, service, shown, player, made, restarts>>

\* Mutant: the latest state is not sent again.
ReadyBindsOnly ==
    /\ Incoming("socket.ready") /\ status' = "ready" /\ lastRevision' = Nothing
    /\ link' = Uplink(Read, BindMessage(service.session))
    /\ UNCHANGED <<holder, revision, current, service, shown, player, made, restarts>>

SocketReady ==
    /\ Incoming("socket.ready") /\ status' = "ready" /\ lastRevision' = Nothing
    /\ link' = Uplink(Read, BindMessage(service.session) \o LatestMessage(service.latest))
    /\ UNCHANGED <<holder, revision, current, service, shown, player, made, restarts>>

\* handleLeaseLost: the player stops, and its service keeps the session.
Dropped == [session |-> Nothing, playing |-> FALSE, stale |-> player.stale]

\* What leaseHandler does with a state that onLease gets.
Observe(state) ==
    CASE state = "busy" /\ player.session # Nothing ->
            service' = Bound(Nothing) /\ player' = Dropped
      [] state = "available" /\ player.session # Nothing ->
            player' = [player EXCEPT !.stale = TRUE] /\ UNCHANGED service
      [] OTHER -> UNCHANGED <<service, player>>

\* Mutant: every state is shown, whatever its revision.
LeaseStateAny ==
    LET news == Head(link[current].down) IN
    /\ Incoming("lease.state") /\ link' = Read
    /\ lastRevision' = news.revision /\ shown' = news.state /\ Observe(news.state)
    /\ UNCHANGED <<holder, revision, current, status, made, restarts>>

LeaseState ==
    LET news == Head(link[current].down) IN
    /\ Incoming("lease.state") /\ link' = Read
    /\ IF lastRevision = Nothing \/ news.revision >= lastRevision
         THEN lastRevision' = news.revision /\ shown' = news.state /\ Observe(news.state)
         ELSE UNCHANGED <<lastRevision, shown, service, player>>
    /\ UNCHANGED <<holder, revision, current, status, made, restarts>>

\* onError: only the loss of the session in use counts.  The service keeps it.
LeaseLost ==
    /\ Incoming("lease.lost") /\ link' = Read
    /\ player' = IF Head(link[current].down).session = player.session THEN Dropped ELSE player
    /\ UNCHANGED <<holder, revision, current, status, service, lastRevision, shown, made, restarts>>

NotOwner ==
    /\ Incoming("not.owner") /\ link' = Read
    /\ UNCHANGED <<holder, revision, current, status, service, lastRevision, shown, player, made, restarts>>

-----------------------------------------------------------------------------
(* The web player *)

\* A playback session: POST /playback-session and the bind of its answer.
StartSession(s) ==
    LET notified == [l \in Link |-> Told(link[l], s, revision + 1)] IN
    /\ s \notin made /\ made' = made \union {s}
    /\ holder # Other /\ holder' = s /\ revision < MaxRevision /\ revision' = revision + 1
    /\ player' = [session |-> s, playing |-> FALSE, stale |-> FALSE] /\ service' = Bound(s)
    /\ link' = IF status = "ready" THEN Uplink(notified, BindMessage(s)) ELSE notified
    /\ UNCHANGED <<current, status, lastRevision, shown, restarts>>

UplinkRoom == \A l \in Link : l = current /\ link[l] # Nothing => Len(link[l].up) < MaxUplink

\* handlePlay and handlePause: over the socket when it is ready, else by HTTP.
SayOnSocket(action) ==
    IF status = "ready" /\ player.session # Nothing THEN Publish(action) ELSE UNCHANGED <<service, link>>

Play ==
    /\ player.session # Nothing /\ ~player.playing /\ ~player.stale /\ UplinkRoom
    /\ player' = [player EXCEPT !.playing = TRUE] /\ SayOnSocket("play")
    /\ UNCHANGED <<holder, revision, current, status, lastRevision, shown, made, restarts>>

Pause ==
    /\ player.playing /\ UplinkRoom /\ SayOnSocket("pause")
    /\ player' = [player EXCEPT !.playing = FALSE, !.stale = @ \/ status # "ready"]
    /\ UNCHANGED <<holder, revision, current, status, lastRevision, shown, made, restarts>>

\* The heartbeat of a player without a socket finds the lease gone.
HeartbeatLost ==
    /\ status # "ready" /\ player.playing /\ player.session # holder
    /\ player' = Dropped
    /\ UNCHANGED <<holder, revision, link, current, status, service, lastRevision, shown, made, restarts>>

LatestAction == IF service.latest = Nothing THEN Nothing ELSE service.latest.action

\* handleTimeUpdate: looked at only when the report changes something.
Progress ==
    /\ player.playing /\ player.session # Nothing /\ status = "ready" /\ UplinkRoom
    /\ LatestAction # "play" \/ service.sequence < MaxSequence
    /\ Publish("play")
    /\ UNCHANGED <<holder, revision, current, status, lastRevision, shown, player, made, restarts>>

FeedNext ==
    \/ \E l \in Link : \/ PingLink(l) \/ Authenticate(l) \/ BindEntry(l) \/ ReportState(l)
                       \/ Cleanup(l) \/ OpenLink(l)
    \/ RestartHub \/ Expire \/ OthersChange \/ Break
    \/ SocketReady \/ LeaseState \/ LeaseLost \/ NotOwner
    \/ \E s \in Tab : StartSession(s)
    \/ Play \/ Pause \/ HeartbeatLost \/ Progress

-----------------------------------------------------------------------------
(* Properties *)

\* Nothing is under way between the client and the server.
Quiet ==
    /\ current # Nothing /\ link[current] # Nothing /\ status = "ready"
    /\ link[current].up = <<>> /\ link[current].down = <<>> /\ link[current].held = Nothing

\* playback-socket.js:53 and the filter of the client: whatever was held back
\* for a slow receiver, and whatever process the server is, a client that has
\* read everything shows the lease as it is.
NewsArrives == Quiet => shown = NewsFor(link[current], holder, revision).state

\* playback-socket.js:208: the owner's reports are never refused for their
\* sequence number, on any of its connections.
OwnReportsAccepted ==
    \A l \in Link : Arrived(l, "playback.state") =>
        LET report == Head(link[l].up)
        IN report.session = link[l].bound => report.sequence >= link[l].sequence

\* A reconnect restores what the server knew: the session of the owner is
\* bound again, and the entry plays exactly when the last report said so.
ReconnectRestores ==
    Quiet /\ holder \in Tab =>
        /\ (player.session = holder => link[current].bound = holder)
        /\ (link[current].bound = service.session /\ service.latest # Nothing =>
              link[current].playing = (service.latest.action = "play"))

\* What the server makes of the reports, in every state.
FeedInv == FeedTypeOK /\ OwnReportsAccepted /\ ReconnectRestores

FeedSpec == FeedInit /\ [][FeedNext]_feedVars
=============================================================================

-------------------------- MODULE PlaybackSocketHub --------------------------
(***************************************************************************)
(* The WebSocket hub that tells connected players who holds the playback   *)
(* lease, and renews the lease of a bound player.                          *)
(*                                                                         *)
(* The server has one Redis connection.  A command takes effect when it is *)
(* sent (nothing but the end of a key's life can change Redis in between)  *)
(* and the replies come back in the order of the commands.  So wire, the   *)
(* sequence of the jobs that await a reply, is the whole of the hub's      *)
(* concurrency: each job carries the answer that is on its way, and the    *)
(* first is the next to go on.  Sockets, timers and HTTP requests come in  *)
(* at any time between two replies.                                        *)
(*                                                                         *)
(* Abstractions: a lease is the session it names; its time to live and     *)
(* that of the sessions end at any moment; GET and PTTL of the lease are   *)
(* one round trip, so are the commands that write a snapshot, and the      *)
(* reads of the holder's snapshot for all the sockets that notify tells.   *)
(* Revisions, sequence numbers, buffering and rate limits are left out.    *)
(***************************************************************************)
EXTENDS Naturals, Sequences

CONSTANTS
    Conn,     \* slots for connections
    Player,   \* the connections whose client plays; the others only watch (a bound)
    Native,   \* the connections of native players, renewed when paused too
    Device,   \* viewer and address, of a socket, a session or the lease
    Session,  \* session ids
    MaxWire,  \* jobs in flight beyond which nothing new comes in (a bound)
    None

ASSUME PlayerAssumption == Player \subseteq Conn /\ Native \subseteq Player
ASSUME MaxWireAssumption == MaxWire \in Nat \ {0}

VARIABLES
    lease,   \* in Redis: the session that the lease names, or None
    sess,    \* in Redis: of each session its device, and whether the key is there
    conn,    \* the socket entries, by connection
    timer,   \* is expiryTimer armed, and is some timer that it lost track of?
    wire     \* the jobs that await a reply from Redis, in order

hubVars == <<lease, sess, conn, timer, wire>>

-----------------------------------------------------------------------------
(* Types *)

Entry ==
    [open : BOOLEAN,                  \* is the socket open?
     registered : BOOLEAN,            \* is the entry in sockets?
     device : Device \union {None},   \* identity, None until authenticated
     bound : Session \union {None},
     revoked : Session \union {None},
     playing : BOOLEAN,
     told : {"nothing", "available", "owned", "busy"}]  \* last lease.state sent

MessageSteps == {"ticket", "hello", "helloTell", "bindSession", "bindLease",
                 "stateLease", "stateSession", "stateWrite", "rejectLease", "tell"}
PingSteps == {"pingSession", "pingRefresh"}
HubSteps == {"http", "notifyLease", "notifyTell", "arm", "timer"}

Task ==
    [at : MessageSteps \union PingSteps \union HubSteps,
     by : {"message", "ping", "server"},  \* on behalf of what
     conn : Conn \union {None},
     device : Device \union {None},
     session : Session \union {None},
     lease : Session \union {None},       \* the lease as it was last read
     ok : BOOLEAN,                        \* the other answer on its way
     play : BOOLEAN,                      \* does the message say "play"?
     to : SUBSET Conn]                    \* the sockets that notify tells

HubTypeOK ==
    /\ lease \in Session \union {None}
    /\ sess \in [Session -> [device : Device, live : BOOLEAN] \union {None}]
    /\ conn \in [Conn -> Entry]
    /\ timer \in [tracked : BOOLEAN, lost : BOOLEAN]
    /\ wire \in Seq(Task)

NoEntry ==
    [open |-> FALSE, registered |-> FALSE, device |-> None, bound |-> None,
     revoked |-> None, playing |-> FALSE, told |-> "nothing"]

HubInit ==
    /\ lease = None
    /\ sess = [s \in Session |-> None]
    /\ conn = [c \in Conn |-> NoEntry]
    /\ timer = [tracked |-> FALSE, lost |-> FALSE]
    /\ wire = <<>>

-----------------------------------------------------------------------------
(* Jobs *)

NewTask(step, by, c) ==
    [at |-> step, by |-> by, conn |-> c, device |-> None, session |-> None,
     lease |-> None, ok |-> FALSE, play |-> FALSE, to |-> {}]

Room == Len(wire) < MaxWire
InFlight(by, c) == \E i \in 1..Len(wire) : wire[i].by = by /\ wire[i].conn = c

Send(job) == wire' = Append(wire, job)

\* The first reply comes in: its job sends its next command, or ends.
Replied(step) == wire # <<>> /\ Head(wire).at = step
Answered == Head(wire)
Continue(job) == wire' = Append(Tail(wire), job)
TaskEnds == wire' = Tail(wire)

Live(s) == s # None /\ sess[s] # None /\ sess[s].live
OfDevice(s, d) == Live(s) /\ sess[s].device = d

\* getExclusiveLease, with the answer that it will have.
ReadLease(job, step) == [job EXCEPT !.at = step, !.lease = lease]

\* What is left of a job when it goes on to a function that takes no arguments.
Call(job) == NewTask(job.at, job.by, job.conn)

\* stateFor: what a socket is told of a lease.
StateFor(c, l) ==
    IF l = None THEN "available"
    ELSE IF /\ sess[l].device = conn[c].device
            /\ conn[c].bound \in {None, l}
            /\ conn[c].revoked # l
         THEN "owned" ELSE "busy"

\* send: nothing reaches a socket that is no longer open.
Tell(c, l) == IF conn[c].open THEN [conn[c] EXCEPT !.told = StateFor(c, l)] ELSE conn[c]

\* scheduleExpiry up to its await: the timer is cleared before the lease is
\* read.
ScheduleExpiry(job) ==
    /\ timer' = [timer EXCEPT !.tracked = FALSE]
    /\ Continue(ReadLease(Call(job), "arm"))

\* The rest of it.  A timer that another call has armed meanwhile is not
\* cleared: expiryTimer only loses track of it.
Arm ==
    /\ Replied("arm")
    /\ timer' = IF Answered.lease = None THEN timer
                ELSE [tracked |-> TRUE, lost |-> timer.lost \/ timer.tracked]
    /\ TaskEnds
    /\ UNCHANGED <<lease, sess, conn>>

-----------------------------------------------------------------------------
(* notify *)

Notify(job) == Continue(ReadLease(Call(job), "notifyLease"))

Unbind(entry) == [entry EXCEPT !.bound = None, !.playing = FALSE]

\* A mutant of Loses that forgets the socket whose session was replaced.
LosesVacant(entry, l) == entry.registered /\ entry.bound # None /\ l = None

Loses(entry, l) == entry.registered /\ entry.bound \notin {None, l}

\* Every registered socket whose session does not hold the lease loses its
\* binding.  With no lease there is nothing to read and all are told at once.
NotifyLease ==
    /\ Replied("notifyLease")
    /\ LET l == Answered.lease
           Kept(c) ==
               IF Loses(conn[c], l)
                 THEN [Unbind(conn[c]) EXCEPT !.revoked = conn[c].bound]
                 ELSE conn[c]
           Told(c) ==
               IF conn[c].registered /\ conn[c].open
                 THEN [Kept(c) EXCEPT !.told = "available"] ELSE Kept(c)
       IN IF l = None
            THEN /\ conn' = [c \in Conn |-> Told(c)]
                 /\ ScheduleExpiry(Answered)
            ELSE /\ conn' = [c \in Conn |-> Kept(c)]
                 /\ Continue([Answered EXCEPT !.at = "notifyTell",
                                              !.to = {c \in Conn : conn[c].registered}])
                 /\ UNCHANGED timer
    /\ UNCHANGED <<lease, sess>>

NotifyTell ==
    /\ Replied("notifyTell")
    /\ conn' = [c \in Conn |-> IF c \in Answered.to THEN Tell(c, Answered.lease) ELSE conn[c]]
    /\ ScheduleExpiry(Answered)
    /\ UNCHANGED <<lease, sess>>

-----------------------------------------------------------------------------
(* A message: one at a time for each socket *)

\* A socket opens and sends its ticket, which is good for device d.
Connect(c, d) ==
    /\ Room
    /\ ~conn[c].open /\ ~conn[c].registered
    /\ \A i \in 1..Len(wire) : wire[i].conn # c
    /\ conn' = [conn EXCEPT ![c] = [NoEntry EXCEPT !.open = TRUE]]
    /\ Send([NewTask("ticket", "message", c) EXCEPT !.device = d])
    /\ UNCHANGED <<lease, sess, timer>>

\* The entry is registered even when the socket has closed meanwhile.
AuthTicket ==
    /\ Replied("ticket")
    /\ conn' = [conn EXCEPT ![Answered.conn].device = Answered.device,
                            ![Answered.conn].registered = TRUE]
    /\ Continue(ReadLease(Call(Answered), "hello"))
    /\ UNCHANGED <<lease, sess, timer>>

AuthHello ==
    /\ Replied("hello")
    /\ IF Answered.lease = None
         THEN /\ conn' = [conn EXCEPT ![Answered.conn] = Tell(Answered.conn, None)]
              /\ ScheduleExpiry(Answered)
         ELSE /\ Continue([Answered EXCEPT !.at = "helloTell"])
              /\ UNCHANGED <<conn, timer>>
    /\ UNCHANGED <<lease, sess>>

AuthTell ==
    /\ Replied("helloTell")
    /\ conn' = [conn EXCEPT ![Answered.conn] = Tell(Answered.conn, Answered.lease)]
    /\ ScheduleExpiry(Answered)
    /\ UNCHANGED <<lease, sess>>

Ready(c) == c \in Player /\ conn[c].open /\ conn[c].device # None /\ ~InFlight("message", c)

\* session.bind
Bind(c, s) ==
    /\ Room /\ Ready(c) /\ sess[s] # None
    /\ Send([NewTask("bindSession", "message", c) EXCEPT
               !.session = s, !.ok = OfDevice(s, conn[c].device)])
    /\ UNCHANGED <<lease, sess, conn, timer>>

BindSession ==
    /\ Replied("bindSession")
    /\ Continue(ReadLease(Answered, "bindLease"))
    /\ UNCHANGED <<lease, sess, conn, timer>>

\* Tells one socket of the lease just read; "tell" reads the holder's snapshot.
TellOrRead(job, entry) ==
    IF job.lease = None
      THEN /\ conn' = [conn EXCEPT ![job.conn] =
                         IF entry.open THEN [entry EXCEPT !.told = "available"] ELSE entry]
           /\ TaskEnds
      ELSE /\ conn' = [conn EXCEPT ![job.conn] = entry]
           /\ Continue([Call(job) EXCEPT !.at = "tell", !.lease = job.lease])

BindLease ==
    /\ Replied("bindLease")
    /\ LET job == Answered
           entry == conn[job.conn]
       IN TellOrRead(job, IF job.ok /\ job.lease = job.session
                            THEN [entry EXCEPT !.bound = job.session, !.revoked = None,
                                               !.playing = FALSE]
                            ELSE entry)
    /\ UNCHANGED <<lease, sess, timer>>

TellOne ==
    /\ Replied("tell")
    /\ conn' = [conn EXCEPT ![Answered.conn] = Tell(Answered.conn, Answered.lease)]
    /\ TaskEnds
    /\ UNCHANGED <<lease, sess, timer>>

\* playback.state, with the play or another action; a message whose sequence
\* number is behind is refused like one of a stranger (inOrder).
State(c, s, play, inOrder) ==
    /\ Room /\ Ready(c) /\ sess[s] # None
    /\ LET job == [NewTask("stateLease", "message", c) EXCEPT
                     !.session = s, !.play = play, !.ok = inOrder]
       IN Send(ReadLease(job, IF s = conn[c].bound THEN "stateLease" ELSE "rejectLease"))
    /\ UNCHANGED <<lease, sess, conn, timer>>

StateLease ==
    /\ Replied("stateLease")
    /\ Continue([Answered EXCEPT !.at = "stateSession",
                   !.ok = @ /\ OfDevice(Answered.session, conn[Answered.conn].device)])
    /\ UNCHANGED <<lease, sess, conn, timer>>

StateSession ==
    /\ Replied("stateSession")
    /\ IF Answered.ok /\ Answered.lease = Answered.session
         THEN /\ conn' = [conn EXCEPT ![Answered.conn].playing = Answered.play]
              /\ Continue([Call(Answered) EXCEPT !.at = "stateWrite"])
         ELSE /\ Continue(ReadLease(Call(Answered), "rejectLease"))
              /\ UNCHANGED conn
    /\ UNCHANGED <<lease, sess, timer>>

StateWrite ==
    /\ Replied("stateWrite")
    /\ Notify(Answered)
    /\ UNCHANGED <<lease, sess, conn, timer>>

RejectLease ==
    /\ Replied("rejectLease")
    /\ TellOrRead(Answered, conn[Answered.conn])
    /\ UNCHANGED <<lease, sess, timer>>

-----------------------------------------------------------------------------
(* The ping of a socket, which renews the lease for its session *)

Renews(c) == conn[c].bound # None /\ (conn[c].playing \/ c \in Native)

Ping(c) ==
    /\ conn[c].open /\ conn[c].device # None /\ Renews(c)
    /\ ~InFlight("ping", c)
    /\ Send([NewTask("pingSession", "ping", c) EXCEPT
               !.ok = OfDevice(conn[c].bound, conn[c].device)])
    /\ UNCHANGED <<lease, sess, conn, timer>>

\* A mutant of PingRefresh that takes no notice of a refusal.
PingRefreshDeaf ==
    /\ Replied("pingRefresh")
    /\ IF Answered.ok THEN ScheduleExpiry(Answered) ELSE TaskEnds /\ UNCHANGED timer
    /\ UNCHANGED <<lease, sess, conn>>

\* The session may have been unbound or replaced meanwhile: the renewal is
\* for the one that is bound now.
PingSession ==
    /\ Replied("pingSession")
    /\ LET c == Answered.conn
       IN IF Answered.ok
            THEN /\ Continue([Answered EXCEPT !.at = "pingRefresh",
                                !.ok = lease # None /\ lease = conn[c].bound])
                 /\ UNCHANGED conn
            ELSE /\ conn' = [conn EXCEPT ![c] = Unbind(@)]
                 /\ Notify(Answered)
    /\ UNCHANGED <<lease, sess, timer>>

PingRefresh ==
    /\ Replied("pingRefresh")
    /\ IF Answered.ok
         THEN ScheduleExpiry(Answered) /\ UNCHANGED conn
         ELSE /\ conn' = [conn EXCEPT ![Answered.conn] = Unbind(@)]
              /\ Notify(Answered)
              /\ UNCHANGED timer
    /\ UNCHANGED <<lease, sess>>

-----------------------------------------------------------------------------
(* The expiry timer; sockets that close; the server *)

Timer ==
    /\ ~InFlight("server", None) \/ Room
    /\ \/ timer.tracked /\ timer' = [timer EXCEPT !.tracked = FALSE]
       \/ timer.lost /\ \E more \in BOOLEAN : timer' = [timer EXCEPT !.lost = more]
    /\ Send(ReadLease(NewTask("timer", "server", None), "timer"))
    /\ UNCHANGED <<lease, sess, conn>>

\* A mutant of TimerReply that does not arm the timer again for a lease that
\* was renewed.
TimerReplyOnce ==
    /\ Replied("timer")
    /\ IF Answered.lease = None THEN Notify(Answered) ELSE TaskEnds
    /\ UNCHANGED <<lease, sess, conn, timer>>

TimerReply ==
    /\ Replied("timer")
    /\ IF Answered.lease = None
         THEN Notify(Answered) /\ UNCHANGED timer
         ELSE ScheduleExpiry(Answered)
    /\ UNCHANGED <<lease, sess, conn>>

\* cleanup
Close(c) ==
    /\ conn[c].open
    /\ conn' = [conn EXCEPT ![c].open = FALSE, ![c].registered = FALSE]
    /\ IF conn[c].bound # None
         THEN /\ timer' = [timer EXCEPT !.tracked = FALSE]
              /\ Send(ReadLease(NewTask("arm", "server", None), "arm"))
         ELSE UNCHANGED <<timer, wire>>
    /\ UNCHANGED <<lease, sess>>

\* The server stops; clients reconnect to one that knows nothing.
Restart ==
    /\ conn' = [c \in Conn |-> NoEntry]
    /\ timer' = [tracked |-> FALSE, lost |-> FALSE]
    /\ wire' = <<>>
    /\ UNCHANGED <<lease, sess>>

-----------------------------------------------------------------------------
(* The HTTP routes, as far as the hub sees them: each changes the lease as  *)
(* ExclusiveLease says and calls notify when the reply to its script is in. *)

HttpAcquire(d, s) ==
    /\ Room
    /\ sess[s] = None
    /\ lease # None => sess[lease].device = d
    /\ sess' = [sess EXCEPT ![s] = [device |-> d, live |-> TRUE]]
    /\ lease' = s
    /\ Send(NewTask("http", "server", None))
    /\ UNCHANGED <<conn, timer>>

HttpVacate ==
    /\ Room
    /\ lease # None
    /\ lease' = None
    /\ Send(NewTask("http", "server", None))
    /\ UNCHANGED <<sess, conn, timer>>

\* A mutant of HttpReply that tells no one.
HttpReplyQuiet ==
    /\ Replied("http")
    /\ TaskEnds
    /\ UNCHANGED <<lease, sess, conn, timer>>

HttpReply ==
    /\ Replied("http")
    /\ Notify(Answered)
    /\ UNCHANGED <<lease, sess, conn, timer>>

LeaseExpires ==
    /\ lease # None
    /\ lease' = None
    /\ UNCHANGED <<sess, conn, timer, wire>>

\* A session lapses, or a handler deletes it.
SessionEnds(s) ==
    /\ Live(s)
    /\ sess' = [sess EXCEPT ![s].live = FALSE]
    /\ UNCHANGED <<lease, conn, timer, wire>>

-----------------------------------------------------------------------------

Reply ==
    \/ Arm \/ NotifyLease \/ NotifyTell
    \/ AuthTicket \/ AuthHello \/ AuthTell
    \/ BindSession \/ BindLease \/ TellOne
    \/ StateLease \/ StateSession \/ StateWrite \/ RejectLease
    \/ PingSession \/ PingRefresh
    \/ TimerReply \/ HttpReply

HubNext ==
    \/ Reply
    \/ \E c \in Conn :
          \/ \E d \in Device : Connect(c, d)
          \/ \E s \in Session : Bind(c, s)
          \/ \E s \in Session, play, inOrder \in BOOLEAN : State(c, s, play, inOrder)
          \/ Ping(c)
          \/ Close(c)
    \/ Timer
    \/ Restart
    \/ \E d \in Device, s \in Session : HttpAcquire(d, s)
    \/ HttpVacate
    \/ LeaseExpires
    \/ \E s \in Session : SessionEnds(s)

HubSpec == HubInit /\ [][HubNext]_hubVars

\* Redis answers, timers fire, and the ping interval runs on.
HubFairness == WF_hubVars(Reply) /\ WF_hubVars(Timer) /\ \A c \in Conn : WF_hubVars(Ping(c))

HubFairSpec == HubSpec /\ HubFairness

-----------------------------------------------------------------------------
(* Properties *)

AtRest == wire = <<>>

\* At rest, every socket has been told the truth about the lease there is:
\* no answer read earlier was sent after a later one.
RestTold ==
    AtRest /\ lease # None =>
        \A c \in Conn : conn[c].open /\ conn[c].registered => conn[c].told = StateFor(c, lease)

\* At rest, while someone holds the lease, a socket is bound to no other session.
RestBound ==
    AtRest /\ lease # None =>
        \A c \in Conn : conn[c].open => conn[c].bound \in {None, lease}

\* At rest, while someone holds the lease and someone watches, a timer is
\* armed that will notice its end.
RestArmed ==
    AtRest /\ lease # None /\ (\E c \in Conn : conn[c].registered) =>
        timer.tracked \/ timer.lost

\* Does a native player's socket stay bound to a session that lost the lease?
Outlived(c) == conn[c].open /\ conn[c].bound # None /\ lease # conn[c].bound

\* No native player does so forever, whether it lost the lease to expiry, to
\* release or to another session (playback-socket.js:135).
LoserIsUnbound == \A c \in Native : []<>~Outlived(c)

\* What holds in every state of the hub: types, and bindings that are true
\* once its news have been delivered (playback-socket.js:94).
HubInv == HubTypeOK /\ RestBound
=============================================================================

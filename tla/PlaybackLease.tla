---------------------------- MODULE PlaybackLease ----------------------------
(***************************************************************************)
(* Playback sessions and the exclusive playback lease, as the HTTP routes  *)
(* of the server keep them in Redis.                                       *)
(*                                                                         *)
(* Redis runs one command or script at a time; a handler awaits each, and  *)
(* the handlers of other requests run in between.  So an action is one     *)
(* Redis command together with the code up to the next await, and req      *)
(* remembers what a handler has read.  A handler that is refused before it *)
(* changes anything leaves no trace, so refusals on the first read are not *)
(* actions.                                                                *)
(*                                                                         *)
(* Abstractions: of a session only the device, the medium and the fate of  *)
(* its key are kept; a lease lasts LeaseTicks ticks (30 s in the code);    *)
(* a snapshot is known by the session whose report wrote it.  Every client *)
(* has a viewer id (those without one are keyed by IP in playback:active). *)
(* Telling the sockets (hub.notify) changes nothing here.                  *)
(***************************************************************************)
EXTENDS Naturals

CONSTANTS
    Viewer,       \* viewer ids
    Ip,           \* client addresses
    Device,       \* the <<viewer, ip>> pairs that call the server
    Session,      \* session ids; each is generated at most once
    Media,        \* media ids
    LeasedMedia,  \* the audio and video among them
    Req,          \* slots for requests in flight (a bound)
    LeaseTicks,   \* life of an unrenewed lease, in ticks
    Faults,       \* may Redis calls fail and the server crash?
    Null

ASSUME DeviceAssumption == Device \subseteq Viewer \X Ip
ASSUME LeasedMediaAssumption == LeasedMedia \subseteq Media
ASSUME LeaseTicksAssumption == LeaseTicks \in Nat \ {0}
ASSUME FaultsAssumption == Faults \in BOOLEAN
VARIABLES
    lease,   \* stream:exclusive:standard: Null, or its device, session and medium
    ttl,     \* ticks until the lease key expires, 0 when there is none
    sess,    \* stream:session:<id>: Null until the id is generated
    active,  \* playback:active:<viewer>: the session that wrote the snapshot
    known,   \* the session ids that reached the client, by viewer
    req      \* the requests in flight

vars == <<lease, ttl, sess, active, known, req>>

ViewerOf(d) == d[1]
IpOf(d) == d[2]
SameDevice(d, e) == ViewerOf(d) = ViewerOf(e) /\ IpOf(d) = IpOf(e)

-----------------------------------------------------------------------------
(* Types *)

Lease == [device : Device, session : Session, media : Media]
Holder == [device : Device, session : Session]  \* what a lease says of its holder

\* A session key is readable while "live" or "replaced" (another session of
\* its device took the lease over).  The rest says how the key went away:
\* "revoked" deleted by a handler, "abandoned" deleted by the handler that
\* failed to open it, "lapsed" by the end of its time to live.
Fate == {"live", "replaced", "revoked", "abandoned", "lapsed"}
SessionRecord == [device : Device, media : Media, fate : Fate]

Snapshot == [session : Session \union {Null}, device : Device]

OpenSteps == {"acquire", "undo", "revokePrev", "reply"}
CloseSteps == {"release", "drop", "revoke"}
AdminSteps == {"force", "forceDrop"}
ReportSteps == {"authorize", "write"}
Step == OpenSteps \union {"refresh"} \union CloseSteps \union AdminSteps \union ReportSteps

Request ==
    [at : Step,
     device : Device \union {Null},    \* who asks; Null for the administrator
     session : Session \union {Null},  \* the session created or presented
     media : Media \union {Null},
     prev : Session \union {Null},     \* the session this one replaced
     seen : Lease \union {Null},       \* the lease as it was read
     end : BOOLEAN]                    \* does the report end playback?

ASSUME NullAssumption ==
    Null \notin Session \union Media \union Device
                 \union Lease \union Holder \union SessionRecord \union Snapshot \union Request

TypeOK ==
    /\ lease \in Lease \union {Null}
    /\ ttl \in 0..LeaseTicks
    /\ sess \in [Session -> SessionRecord \union {Null}]
    /\ active \in [Viewer -> Snapshot \union {Null}]
    /\ known \in [Viewer -> SUBSET Session]
    /\ req \in [Req -> Request \union {Null}]

Init ==
    /\ lease = Null
    /\ ttl = 0
    /\ sess = [s \in Session |-> Null]
    /\ active = [v \in Viewer |-> Null]
    /\ known = [v \in Viewer |-> {}]
    /\ req = [r \in Req |-> Null]

-----------------------------------------------------------------------------
(* Requests, sessions and the three scripts *)

NewRequest(step, d, s, m) ==
    [at |-> step, device |-> d, session |-> s, media |-> m,
     prev |-> Null, seen |-> Null, end |-> FALSE]

At(r, step) == req[r] # Null /\ req[r].at = step
Idle(r) == req[r] = Null
Begin(r, request) == req' = [req EXCEPT ![r] = request]
Goto(r, step) == req' = [req EXCEPT ![r].at = step]
Finish(r) == req' = [req EXCEPT ![r] = Null]

Readable(s) == s # Null /\ sess[s] # Null /\ sess[s].fate \in {"live", "replaced"}
LeaseRequired(s) == sess[s].media \in LeasedMedia
BelongsTo(s, d) == Readable(s) /\ SameDevice(sess[s].device, d)

\* DEL of a session key: nothing happens to a key that is already gone.
Delete(s, fate) ==
    sess' = IF Readable(s) THEN [sess EXCEPT ![s].fate = fate] ELSE sess

\* Faulty variant: the address of the caller is not compared.
MayAcquireByViewer(d) == lease # Null => ViewerOf(lease.device) = ViewerOf(d)

\* ACQUIRE_LEASE_SCRIPT: the lease is free, or its device is the caller.
MayAcquire(d) == lease # Null => SameDevice(lease.device, d)

TakeLease(d, s, m) ==
    /\ lease' = [device |-> d, session |-> s, media |-> m]
    /\ ttl' = LeaseTicks
    /\ sess' = IF lease = Null \/ sess[lease.session].fate # "live" THEN sess
               ELSE [sess EXCEPT ![lease.session].fate = "replaced"]

FreeLease == lease' = Null /\ ttl' = 0

\* Faulty variant: any session of the device passes for the holder's.
HoldsByDevice(d, s) == lease # Null /\ SameDevice(lease.device, d)

\* The ownership test of REFRESH_LEASE_SCRIPT and RELEASE_LEASE_SCRIPT.
Holds(d, s) == lease # Null /\ SameDevice(lease.device, d) /\ lease.session = s

-----------------------------------------------------------------------------
(* POST /media/:id/playback-session *)

\* The session is stored first; a medium that needs no lease is answered at once.
OpenCreate(r, d, s, m) ==
    /\ Idle(r)
    /\ sess[s] = Null
    /\ sess' = [sess EXCEPT ![s] = [device |-> d, media |-> m, fate |-> "live"]]
    /\ IF m \in LeasedMedia
         THEN /\ Begin(r, NewRequest("acquire", d, s, m))
              /\ UNCHANGED known
         ELSE /\ known' = [known EXCEPT ![ViewerOf(d)] = @ \union {s}]
              /\ UNCHANGED req
    /\ UNCHANGED <<lease, ttl, active>>

OpenAcquire(r) ==
    /\ At(r, "acquire")
    /\ LET d == req[r].device
           s == req[r].session
           previous == IF lease = Null THEN Null ELSE lease.session
       IN IF MayAcquire(d)
            THEN /\ TakeLease(d, s, req[r].media)
                 /\ req' = [req EXCEPT ![r] =
                       [@ EXCEPT !.prev = previous,
                                 !.at = IF previous = Null THEN "reply" ELSE "revokePrev"]]
            ELSE Goto(r, "undo") /\ UNCHANGED <<lease, ttl, sess>>
    /\ UNCHANGED <<active, known>>

\* The script's answer is lost: it ran or it did not, the handler cannot tell.
OpenAcquireFails(r) ==
    /\ Faults
    /\ At(r, "acquire")
    /\ \/ MayAcquire(req[r].device) /\ TakeLease(req[r].device, req[r].session, req[r].media)
       \/ UNCHANGED <<lease, ttl, sess>>
    /\ Goto(r, "undo")
    /\ UNCHANGED <<active, known>>

\* 409 or 503: the session just created is deleted again.
OpenUndo(r) ==
    /\ At(r, "undo")
    /\ Delete(req[r].session, "abandoned")
    /\ Finish(r)
    /\ UNCHANGED <<lease, ttl, active, known>>

\* Faulty variants: the new session is deleted instead of the replaced one;
\* the replaced one is not deleted.
OpenRevokeNew(r) ==
    /\ At(r, "revokePrev")
    /\ Delete(req[r].session, "revoked")
    /\ Goto(r, "reply")
    /\ UNCHANGED <<lease, ttl, active, known>>

OpenForgetPrev(r) ==
    /\ At(r, "revokePrev")
    /\ Goto(r, "reply")
    /\ UNCHANGED <<lease, ttl, sess, active, known>>

\* The replaced session is deleted; an error of that is ignored.
OpenRevokePrev(r) ==
    /\ At(r, "revokePrev")
    /\ Delete(req[r].prev, "revoked") \/ (Faults /\ UNCHANGED sess)
    /\ Goto(r, "reply")
    /\ UNCHANGED <<lease, ttl, active, known>>

OpenReply(r) ==
    /\ At(r, "reply")
    /\ known' = [known EXCEPT ![ViewerOf(req[r].device)] = @ \union {req[r].session}]
    /\ Finish(r)
    /\ UNCHANGED <<lease, ttl, sess, active>>

-----------------------------------------------------------------------------
(* GET /media/:id/stream and POST /playback/lease/heartbeat (and the ping  *)
(* of a bound socket): the session is read, then the lease is renewed.     *)

\* A request for the stream names the medium; its session must be for it.
StreamBegin(r, d, s, m) ==
    /\ Idle(r)
    /\ BelongsTo(s, d) /\ sess[s].media = m /\ LeaseRequired(s)
    /\ Begin(r, NewRequest("refresh", d, s, m))
    /\ UNCHANGED <<lease, ttl, sess, active, known>>

HeartbeatBegin(r, d, s) ==
    /\ Idle(r)
    /\ BelongsTo(s, d) /\ LeaseRequired(s)
    /\ Begin(r, NewRequest("refresh", d, s, Null))
    /\ UNCHANGED <<lease, ttl, sess, active, known>>

\* Faulty variant: any session renews the lease.
RefreshAnyone(r) ==
    /\ At(r, "refresh")
    /\ ttl' = IF lease # Null THEN LeaseTicks ELSE ttl
    /\ Finish(r)
    /\ UNCHANGED <<lease, sess, active, known>>

Refresh(r) ==
    /\ At(r, "refresh")
    /\ ttl' = IF Holds(req[r].device, req[r].session) THEN LeaseTicks ELSE ttl
    /\ Finish(r)
    /\ UNCHANGED <<lease, sess, active, known>>

-----------------------------------------------------------------------------
(* DELETE /playback/lease *)

ReleaseBegin(r, d, s) ==
    /\ Idle(r)
    /\ BelongsTo(s, d)
    /\ Begin(r, NewRequest(IF LeaseRequired(s) THEN "release" ELSE "revoke", d, s, Null))
    /\ UNCHANGED <<lease, ttl, sess, active, known>>

ReleaseLease(r) ==
    /\ At(r, "release")
    /\ IF Holds(req[r].device, req[r].session)
         THEN FreeLease /\ Goto(r, "drop")
         ELSE Goto(r, "revoke") /\ UNCHANGED <<lease, ttl>>
    /\ UNCHANGED <<sess, active, known>>

ReleaseDrop(r) ==
    /\ At(r, "drop")
    /\ active' = [active EXCEPT ![ViewerOf(req[r].device)] = Null]
    /\ Goto(r, "revoke")
    /\ UNCHANGED <<lease, ttl, sess, known>>

ReleaseRevoke(r) ==
    /\ At(r, "revoke")
    /\ Delete(req[r].session, "revoked")
    /\ Finish(r)
    /\ UNCHANGED <<lease, ttl, active, known>>

-----------------------------------------------------------------------------
(* DELETE /playback/lease/admin: the lease is read, then whatever lease    *)
(* there is by then is deleted, then the snapshot of the one that was read *)

AdminBegin(r) ==
    /\ Idle(r)
    /\ Begin(r, [NewRequest("force", Null, Null, Null) EXCEPT !.seen = lease])
    /\ UNCHANGED <<lease, ttl, sess, active, known>>

AdminForce(r) ==
    /\ At(r, "force")
    /\ IF lease # Null /\ req[r].seen # Null THEN Goto(r, "forceDrop") ELSE Finish(r)
    /\ FreeLease
    /\ UNCHANGED <<sess, active, known>>

AdminDrop(r) ==
    /\ At(r, "forceDrop")
    /\ active' = [active EXCEPT ![ViewerOf(req[r].seen.device)] = Null]
    /\ Finish(r)
    /\ UNCHANGED <<lease, ttl, sess, known>>

-----------------------------------------------------------------------------
(* POST /playback/active: the lease is read, then the session, and when    *)
(* both fit the report the snapshot is written.                            *)

\* mediaTyped: the report says that it is about audio or video.  With no
\* lease a report that does not say so is accepted as it is.
ReportBegin(r, d, s, m, mediaTyped, end) ==
    /\ Idle(r)
    /\ LET report == [NewRequest("authorize", d, s, m) EXCEPT !.seen = lease, !.end = end]
       IN IF lease # Null \/ mediaTyped
            THEN Begin(r, report)
            ELSE Begin(r, [report EXCEPT !.at = "write", !.session = Null])
    /\ UNCHANGED <<lease, ttl, sess, active, known>>

\* ownsLease: the session is judged now, the lease as it was read before.
OwnsLease(r) ==
    LET report == req[r]
        s == report.session
    IN /\ report.seen # Null
       /\ BelongsTo(s, report.device) /\ LeaseRequired(s)
       /\ sess[s].media = report.media
       /\ report.seen.media = report.media
       /\ report.seen.session = s
       /\ SameDevice(report.seen.device, report.device)

ReportAuthorize(r) ==
    /\ At(r, "authorize")
    /\ IF OwnsLease(r) THEN Goto(r, "write") ELSE Finish(r)
    /\ UNCHANGED <<lease, ttl, sess, active, known>>

ReportWrite(r) ==
    /\ At(r, "write")
    /\ active' = [active EXCEPT ![ViewerOf(req[r].device)] =
                     IF req[r].end THEN Null
                     ELSE [session |-> req[r].session, device |-> req[r].device]]
    /\ Finish(r)
    /\ UNCHANGED <<lease, ttl, sess, known>>

\* DELETE /playback/active, GET /active on a pause of 30 minutes, or the end
\* of the snapshot's time to live.
SnapshotEnds(v) ==
    /\ active[v] # Null
    /\ active' = [active EXCEPT ![v] = Null]
    /\ UNCHANGED <<lease, ttl, sess, known, req>>

-----------------------------------------------------------------------------
(* Time, and what can go wrong *)

Tick ==
    /\ lease # Null
    /\ ttl' = ttl - 1
    /\ lease' = IF ttl = 1 THEN Null ELSE lease
    /\ UNCHANGED <<sess, active, known, req>>

SessionLapses(s) ==
    /\ Readable(s)
    /\ sess' = [sess EXCEPT ![s].fate = "lapsed"]
    /\ UNCHANGED <<lease, ttl, active, known, req>>

\* A handler ends at one of its awaits: a Redis call failed, or the server
\* stopped (then the same happens to every request).
Abort(r) ==
    /\ Faults
    /\ ~Idle(r)
    /\ Finish(r)
    /\ UNCHANGED <<lease, ttl, sess, active, known>>

-----------------------------------------------------------------------------

Continue(r) ==
    \/ OpenAcquire(r) \/ OpenUndo(r) \/ OpenRevokePrev(r) \/ OpenReply(r)
    \/ Refresh(r)
    \/ ReleaseLease(r) \/ ReleaseDrop(r) \/ ReleaseRevoke(r)
    \/ AdminForce(r) \/ AdminDrop(r)
    \/ ReportAuthorize(r) \/ ReportWrite(r)

\* A device presents only session ids that reached its viewer; a viewer may
\* have moved to another address since.
Arrive(r) ==
    \/ \E d \in Device, s \in Session, m \in Media : OpenCreate(r, d, s, m)
    \/ \E d \in Device : \E s \in known[ViewerOf(d)] :
          \/ \E m \in Media : StreamBegin(r, d, s, m)
          \/ HeartbeatBegin(r, d, s)
          \/ ReleaseBegin(r, d, s)
          \/ \E m \in Media, mediaTyped, end \in BOOLEAN :
                ReportBegin(r, d, s, m, mediaTyped, end)
    \/ AdminBegin(r)

Next ==
    \/ \E r \in Req : Arrive(r) \/ Continue(r) \/ OpenAcquireFails(r) \/ Abort(r)
    \/ \E v \in Viewer : SnapshotEnds(v)
    \/ \E s \in Session : SessionLapses(s)
    \/ Tick

Spec == Init /\ [][Next]_vars

\* Redis answers and the event loop runs every continuation; time passes.
Fairness == (\A r \in Req : WF_vars(Continue(r))) /\ WF_vars(Tick)

FairSpec == Spec /\ Fairness

-----------------------------------------------------------------------------
(* Properties *)

\* The session that the lease names is never deleted under it: no handler
\* that deletes a session (a refused open, the sweep of the replaced one, a
\* release) hits the one that holds the lease.  Only the end of its own time
\* to live, or an open that failed half way, takes it away.
LeaseSessionUndeleted ==
    lease # Null =>
        sess[lease.session].fate \in
            {"live", "lapsed"} \union (IF Faults THEN {"abandoned"} ELSE {})

\* What the routes and scripts keep true at every moment, whichever handlers
\* wait at which await.
LeaseSafe == TypeOK /\ LeaseSessionUndeleted

\* The lease ends early only by the release of the session that holds it or
\* by an administrator: the late release of a session that has since been
\* replaced leaves the lease of its successor alone.
EndsEarlyOnlyByOwner ==
    [][ lease # Null /\ lease' = Null /\ ttl > 1 =>
          \E r \in Req : \/ At(r, "force")
                         \/ At(r, "release") /\ req[r].session = lease.session ]_vars

\* The lease is what ExclusiveLease promises.  A session is spent once the
\* acquisition for which it was created has run.
Pending == {s \in Session : \E r \in Req : At(r, "acquire") /\ req[r].session = s}
Minted == {s \in Session : sess[s] # Null}
LeaseHolder == IF lease = Null THEN Null
               ELSE [device |-> lease.device, session |-> lease.session]

Promise == INSTANCE ExclusiveLease
             WITH holder <- LeaseHolder, spent <- Minted \ Pending, NoHolder <- Null

ImplementsExclusiveLease == Promise!Spec

\* A session that was replaced is deleted in the end.
ReplacedIsDeleted ==
    \A s \in Session :
        (sess[s] # Null /\ sess[s].fate = "replaced")
            ~> (sess[s] # Null /\ sess[s].fate # "replaced")

\* A device that falls silent loses the lease, whatever the others send.
SilentHolderLosesLease ==
    \A d \in Device :
        []<>(\E r \in Req : req[r] # Null /\ req[r].device = d)
            \/ []<>(lease = Null \/ lease.device # d)

\* While a device holds the lease, no report of another device under the same
\* viewer id changes its snapshot (plans/041: "a duplicate device cannot
\* overwrite the owner snapshot").
DuplicateCannotOverwrite ==
    [][ \A r \in Req :
          (At(r, "write") /\ req'[r] = Null /\ active' # active
             /\ lease # Null /\ ViewerOf(lease.device) = ViewerOf(req[r].device))
          => SameDevice(lease.device, req[r].device) ]_vars
=============================================================================

------------------------ MODULE PlaybackLease_proofs ------------------------
(***************************************************************************)
(* Proofs about PlaybackLease: its types, its safety properties, and that  *)
(* it implements ExclusiveLease.                                           *)
(*                                                                         *)
(* The invariant says, for each step at which a handler may wait, what the *)
(* code up to that await has made sure of and no other handler can undo.   *)
(* Its centre is the notion of a spent session: one whose acquisition has  *)
(* run.  A spent session that does not hold the lease never will again,    *)
(* which is why it may be deleted some awaits after it was found.          *)
(***************************************************************************)
EXTENDS PlaybackLease, TLAPS

Spent(s) ==
    /\ s \in Session /\ sess[s] # Null
    /\ \A r \in Req : At(r, "acquire") => req[r].session # s

OffLease(s) == lease # Null => lease.session # s

LeaseInv ==
    /\ lease = Null => ttl = 0
    /\ lease # Null =>
         /\ ttl \in 1..LeaseTicks
         /\ Spent(lease.session)
         /\ sess[lease.session].device = lease.device
         /\ sess[lease.session].media = lease.media
         /\ lease.media \in LeasedMedia
         /\ sess[lease.session].fate \in
               {"live", "lapsed"} \union (IF Faults THEN {"abandoned"} ELSE {})

\* Only sessions that are spent have reached a client.
KnownInv == \A v \in Viewer : \A s \in known[v] : Spent(s)

\* A handler about to acquire has a fresh session of its own.
AcquireOk(r) ==
    At(r, "acquire") =>
        LET s == req[r].session
        IN /\ s \in Session /\ sess[s] # Null
           /\ req[r].device \in Device /\ req[r].media \in LeasedMedia
           /\ sess[s].device = req[r].device
           /\ sess[s].media = req[r].media
           /\ sess[s].fate \in {"live", "lapsed"}
           /\ \A q \in Req : At(q, "acquire") /\ req[q].session = s => q = r

\* A handler that opens a session deletes none that holds the lease, unless
\* it lost the answer of the script.
OpenOk(r) ==
    /\ At(r, "undo") => Spent(req[r].session) /\ (~Faults => OffLease(req[r].session))
    /\ At(r, "revokePrev") => Spent(req[r].prev) /\ OffLease(req[r].prev)
    /\ At(r, "revokePrev") \/ At(r, "reply") =>
          Spent(req[r].session) /\ req[r].device \in Device

\* A handler that closes a session has made sure that it lost the lease.
CloseOk(r) ==
    /\ At(r, "release") => Spent(req[r].session) /\ sess[req[r].session].device = req[r].device
    /\ At(r, "drop") \/ At(r, "revoke") => Spent(req[r].session) /\ OffLease(req[r].session)

\* Who waits to change a snapshot knows whose.
DeviceOk(r) ==
    /\ At(r, "drop") \/ At(r, "release") \/ At(r, "authorize") \/ At(r, "write")
          => req[r].device \in Device
    /\ At(r, "forceDrop") => req[r].seen # Null

HandlerOk(r) == OpenOk(r) /\ CloseOk(r) /\ DeviceOk(r)

IInv ==
    /\ TypeOK /\ LeaseInv /\ KnownInv
    /\ \A r \in Req : AcquireOk(r) /\ HandlerOk(r)

-----------------------------------------------------------------------------
(* How the helpers change req and sess *)

LEMMA GotoFacts ==
    ASSUME TypeOK, NEW r \in Req, req[r] # Null, NEW step \in Step, Goto(r, step)
    PROVE  /\ req' \in [Req -> Request \union {Null}]
           /\ \A q \in Req : q # r => req'[q] = req[q]
           /\ req'[r] # Null
           /\ req'[r] = [req[r] EXCEPT !.at = step]
           /\ \A other \in Step : At(r, other)' <=> other = step
  <1>1. req[r] \in Request
    BY DEF TypeOK
  <1>2. [req[r] EXCEPT !.at = step] \in Request
    BY <1>1 DEF Request
  <1>3. req' = [req EXCEPT ![r] = [req[r] EXCEPT !.at = step]]
    BY DEF Goto
  <1>4. req'[r] = [req[r] EXCEPT !.at = step]
    BY <1>3 DEF TypeOK
  <1>5. req'[r] # Null /\ req'[r].at = step
    BY <1>1, <1>2, <1>4, NullAssumption DEF Request
  <1> QED
    BY <1>2, <1>3, <1>4, <1>5 DEF TypeOK, At

LEMMA FinishFacts ==
    ASSUME TypeOK, NEW r \in Req, Finish(r)
    PROVE  /\ req' \in [Req -> Request \union {Null}]
           /\ \A q \in Req : q # r => req'[q] = req[q]
           /\ req'[r] = Null
  BY DEF TypeOK, Finish

LEMMA BeginFacts ==
    ASSUME TypeOK, NEW r \in Req, NEW q \in Request, Begin(r, q)
    PROVE  /\ req' \in [Req -> Request \union {Null}]
           /\ \A p \in Req : p # r => req'[p] = req[p]
           /\ req'[r] = q /\ req'[r] # Null
  BY NullAssumption DEF TypeOK, Begin

\* What a session was created for never changes.
SessMono ==
    \A t \in Session : sess[t] # Null =>
        /\ sess'[t] # Null
        /\ sess'[t].device = sess[t].device
        /\ sess'[t].media = sess[t].media

LEMMA DeleteFacts ==
    ASSUME TypeOK, NEW s \in Session \union {Null}, NEW fate \in Fate, Delete(s, fate)
    PROVE  /\ sess' \in [Session -> SessionRecord \union {Null}]
           /\ SessMono
           /\ \A t \in Session : t # s => sess'[t] = sess[t]
  <1>1. CASE ~Readable(s)
    BY <1>1 DEF Delete, SessMono, TypeOK
  <1>2. CASE Readable(s)
    <2>1. s \in Session /\ sess[s] \in SessionRecord
      BY <1>2 DEF Readable, TypeOK
    <2>2. [sess[s] EXCEPT !.fate = fate] \in SessionRecord
      BY <2>1 DEF SessionRecord
    <2>3. sess' = [sess EXCEPT ![s] = [sess[s] EXCEPT !.fate = fate]]
      BY <1>2 DEF Delete
    <2>4. sess'[s] # Null /\ sess'[s] = [sess[s] EXCEPT !.fate = fate]
      BY <2>1, <2>2, <2>3, NullAssumption DEF TypeOK
    <2>5. sess'[s].device = sess[s].device /\ sess'[s].media = sess[s].media
      BY <2>1, <2>4 DEF SessionRecord
    <2> QED
      BY <2>1, <2>2, <2>3, <2>4, <2>5 DEF SessMono, TypeOK
  <1> QED
    BY <1>1, <1>2

LEMMA TakeLeaseFacts ==
    ASSUME TypeOK, NEW d \in Device, NEW s \in Session, NEW m \in Media,
           TakeLease(d, s, m),
           lease # Null => lease.session \in Session /\ sess[lease.session] # Null
    PROVE  /\ lease' \in Lease /\ lease' # Null
           /\ lease' = [device |-> d, session |-> s, media |-> m]
           /\ ttl' = LeaseTicks /\ ttl' \in 1..LeaseTicks
           /\ sess' \in [Session -> SessionRecord \union {Null}]
           /\ SessMono
           /\ \A t \in Session : (lease # Null => t # lease.session) => sess'[t] = sess[t]
  <1>1. lease' = [device |-> d, session |-> s, media |-> m] /\ lease' \in Lease
    BY DEF TakeLease, Lease
  <1>2. ttl' = LeaseTicks /\ ttl' \in 1..LeaseTicks
    BY LeaseTicksAssumption DEF TakeLease
  <1>3. CASE lease = Null \/ sess[lease.session].fate # "live"
    <2>1. sess' = sess
      BY <1>3 DEF TakeLease
    <2> QED
      BY <1>1, <1>2, <2>1, NullAssumption DEF SessMono, TypeOK
  <1>4. CASE lease # Null /\ sess[lease.session].fate = "live"
    <2> DEFINE p == lease.session
    <2>1. p \in Session /\ sess[p] \in SessionRecord
      BY <1>4 DEF TypeOK
    <2> HIDE DEF p
    <2>2. [sess[p] EXCEPT !.fate = "replaced"] \in SessionRecord
      BY <2>1 DEF SessionRecord, Fate
    <2>3. sess' = [sess EXCEPT ![p] = [sess[p] EXCEPT !.fate = "replaced"]]
      BY <1>4 DEF TakeLease, p
    <2>4. sess'[p] # Null /\ sess'[p] = [sess[p] EXCEPT !.fate = "replaced"]
      BY <2>1, <2>2, <2>3, NullAssumption DEF TypeOK
    <2>5. sess'[p].device = sess[p].device /\ sess'[p].media = sess[p].media
      BY <2>1, <2>4 DEF SessionRecord
    <2>6. \A t \in Session : t # p => sess'[t] = sess[t]
      BY <2>1, <2>3 DEF TypeOK
    <2>7. SessMono /\ sess' \in [Session -> SessionRecord \union {Null}]
      BY <2>1, <2>2, <2>3, <2>4, <2>5, <2>6 DEF SessMono, TypeOK
    <2> QED
      BY <1>1, <1>2, <1>4, <2>6, <2>7, NullAssumption DEF p
  <1> QED
    BY <1>3, <1>4

\* No request comes to the step of acquiring but with a session just created.
PendingMono ==
    \A q \in Req : At(q, "acquire")' =>
        \/ req'[q] = req[q]
        \/ req'[q].session \in Session /\ sess[req'[q].session] = Null

LEMMA SpentMono ==
    ASSUME SessMono, PendingMono, NEW s, Spent(s)
    PROVE  Spent(s)'
  BY DEF SessMono, PendingMono, Spent, At

LEMMA NewRequestType ==
    ASSUME NEW step \in Step, NEW d \in Device \union {Null},
           NEW s \in Session \union {Null}, NEW m \in Media \union {Null}
    PROVE  /\ NewRequest(step, d, s, m) \in Request
           /\ NewRequest(step, d, s, m).at = step
           /\ NewRequest(step, d, s, m).device = d
           /\ NewRequest(step, d, s, m).session = s
           /\ NewRequest(step, d, s, m).media = m
  BY DEF NewRequest, Request

LEMMA DeviceParts ==
    /\ \A d \in Device : ViewerOf(d) \in Viewer /\ IpOf(d) \in Ip
    /\ \A d, e \in Device : SameDevice(d, e) => d = e
  BY DeviceAssumption DEF ViewerOf, IpOf, SameDevice

-----------------------------------------------------------------------------
(* Types *)

LEMMA TypeInit == Init => TypeOK
  BY LeaseTicksAssumption DEF Init, TypeOK

LEMMA OpenCreateType ==
    ASSUME TypeOK, NEW r \in Req, NEW d \in Device, NEW s \in Session, NEW m \in Media,
           OpenCreate(r, d, s, m)
    PROVE  TypeOK' /\ SessMono /\ PendingMono
  <1> DEFINE new == [device |-> d, media |-> m, fate |-> "live"]
  <1>1. new \in SessionRecord /\ new # Null
    BY NullAssumption DEF SessionRecord, Fate
  <1>2. sess' = [sess EXCEPT ![s] = new] /\ sess[s] = Null
    BY DEF OpenCreate
  <1> HIDE DEF new
  <1>3. sess' \in [Session -> SessionRecord \union {Null}] /\ SessMono
    BY <1>1, <1>2 DEF TypeOK, SessMono
  <1>4. CASE m \in LeasedMedia
    <2> DEFINE q == NewRequest("acquire", d, s, m)
    <2>1. q \in Request /\ q.at = "acquire" /\ q.session = s
      BY NewRequestType DEF Step, OpenSteps
    <2>2. Begin(r, q) /\ UNCHANGED <<known, lease, ttl, active>>
      BY <1>4 DEF OpenCreate
    <2> HIDE DEF q
    <2>3. /\ req' \in [Req -> Request \union {Null}]
          /\ \A p \in Req : p # r => req'[p] = req[p]
          /\ req'[r] = q
      BY <2>1, <2>2, BeginFacts
    <2> QED
      BY <1>2, <1>3, <2>1, <2>2, <2>3 DEF TypeOK, PendingMono
  <1>5. CASE m \notin LeasedMedia
    <2>1. /\ known' = [known EXCEPT ![ViewerOf(d)] = @ \union {s}]
          /\ UNCHANGED <<req, lease, ttl, active>>
      BY <1>5 DEF OpenCreate
    <2> QED
      BY <1>3, <2>1, DeviceParts DEF TypeOK, PendingMono
  <1> QED
    BY <1>4, <1>5

LEMMA OpenAcquireType ==
    ASSUME TypeOK, LeaseInv, NEW r \in Req, AcquireOk(r), OpenAcquire(r)
    PROVE  TypeOK' /\ SessMono /\ PendingMono
  <1> DEFINE d == req[r].device
             s == req[r].session
             m == req[r].media
             previous == IF lease = Null THEN Null ELSE lease.session
  <1>1. At(r, "acquire") /\ UNCHANGED <<active, known>>
    BY DEF OpenAcquire
  <1>2. req[r] # Null /\ req[r] \in Request /\ d \in Device /\ s \in Session /\ m \in Media
    BY <1>1, LeasedMediaAssumption DEF At, AcquireOk, TypeOK
  <1>3. lease # Null => lease.session \in Session /\ sess[lease.session] # Null
    BY DEF LeaseInv, Spent
  <1>4. CASE MayAcquire(d)
    <2>1. TakeLease(d, s, m)
      BY <1>4 DEF OpenAcquire
    <2> DEFINE next == [req[r] EXCEPT !.prev = previous,
                          !.at = IF previous = Null THEN "reply" ELSE "revokePrev"]
    <2>2. req' = [req EXCEPT ![r] = next]
      BY <1>4 DEF OpenAcquire
    <2>3. previous \in Session \union {Null}
      BY <1>3
    <2>4. next \in Request /\ next.at # "acquire"
      <3> HIDE DEF previous
      <3> QED
        BY <1>2, <2>3 DEF Request, Step, OpenSteps
    <2> HIDE DEF next
    <2>6. /\ req' \in [Req -> Request \union {Null}]
          /\ \A q \in Req : q # r => req'[q] = req[q]
          /\ req'[r].at # "acquire"
      BY <2>2, <2>4 DEF TypeOK
    <2>5. /\ lease' \in Lease /\ ttl' \in 1..LeaseTicks
          /\ sess' \in [Session -> SessionRecord \union {Null}] /\ SessMono
      BY <1>2, <1>3, <2>1, TakeLeaseFacts
    <2> QED
      BY <1>1, <2>6, <2>5, LeaseTicksAssumption DEF TypeOK, PendingMono, At
  <1>5. CASE ~MayAcquire(d)
    <2>1. Goto(r, "undo") /\ UNCHANGED <<lease, ttl, sess>>
      BY <1>5 DEF OpenAcquire
    <2>2. "undo" \in Step /\ "acquire" \in Step
      BY DEF Step, OpenSteps
    <2>3. /\ req' \in [Req -> Request \union {Null}]
          /\ \A q \in Req : q # r => req'[q] = req[q]
          /\ ~At(r, "acquire")'
      BY <1>2, <2>1, <2>2, GotoFacts
    <2> QED
      BY <1>1, <2>1, <2>3 DEF TypeOK, PendingMono, SessMono, At
  <1> QED
    BY <1>4, <1>5

LEMMA OpenAcquireFailsType ==
    ASSUME TypeOK, LeaseInv, NEW r \in Req, AcquireOk(r), OpenAcquireFails(r)
    PROVE  TypeOK' /\ SessMono /\ PendingMono
  <1>1. At(r, "acquire") /\ Goto(r, "undo") /\ UNCHANGED <<active, known>>
    BY DEF OpenAcquireFails
  <1>2. /\ req[r] # Null /\ req[r].device \in Device
        /\ req[r].session \in Session /\ req[r].media \in Media
    BY <1>1, LeasedMediaAssumption DEF At, AcquireOk
  <1>3. "undo" \in Step /\ "acquire" \in Step
    BY DEF Step, OpenSteps
  <1>4. /\ req' \in [Req -> Request \union {Null}]
        /\ \A q \in Req : q # r => req'[q] = req[q]
        /\ ~At(r, "acquire")'
    BY <1>1, <1>2, <1>3, GotoFacts
  <1>5. lease # Null => lease.session \in Session /\ sess[lease.session] # Null
    BY DEF LeaseInv, Spent
  <1>6. CASE TakeLease(req[r].device, req[r].session, req[r].media)
    <2>1. /\ lease' \in Lease /\ ttl' \in 1..LeaseTicks
          /\ sess' \in [Session -> SessionRecord \union {Null}] /\ SessMono
      BY <1>2, <1>5, <1>6, TakeLeaseFacts
    <2> QED
      BY <1>1, <1>4, <2>1, LeaseTicksAssumption DEF TypeOK, PendingMono, At
  <1>7. CASE UNCHANGED <<lease, ttl, sess>>
    BY <1>1, <1>4, <1>7 DEF TypeOK, PendingMono, SessMono, At
  <1> QED
    BY <1>6, <1>7 DEF OpenAcquireFails

\* The steps that delete a session, or may fail to.
LEMMA DeleteType ==
    ASSUME TypeOK, NEW r \in Req,
           OpenUndo(r) \/ OpenRevokePrev(r) \/ ReleaseRevoke(r)
    PROVE  TypeOK' /\ SessMono /\ PendingMono
  <1>1. req[r] # Null /\ req[r] \in Request /\ UNCHANGED <<lease, ttl, active, known>>
    BY DEF OpenUndo, OpenRevokePrev, ReleaseRevoke, At, TypeOK
  <1>2. /\ req[r].session \in Session \union {Null} /\ req[r].prev \in Session \union {Null}
        /\ "revoked" \in Fate /\ "abandoned" \in Fate
        /\ "reply" \in Step /\ "acquire" \in Step
    BY <1>1 DEF Request, Fate, Step, OpenSteps
  <1>3. sess' \in [Session -> SessionRecord \union {Null}] /\ SessMono
    <2>1. \/ \E s \in Session \union {Null}, fate \in Fate : Delete(s, fate)
          \/ UNCHANGED sess
      BY <1>2 DEF OpenUndo, OpenRevokePrev, ReleaseRevoke
    <2> QED
      BY <2>1, DeleteFacts DEF TypeOK, SessMono
  <1>4. /\ req' \in [Req -> Request \union {Null}]
        /\ \A q \in Req : q # r => req'[q] = req[q]
        /\ ~At(r, "acquire")'
    <2>1. CASE Goto(r, "reply")
      BY <1>1, <1>2, <2>1, GotoFacts
    <2>2. CASE Finish(r)
      BY <2>2, FinishFacts DEF At
    <2> QED
      BY <2>1, <2>2 DEF OpenUndo, OpenRevokePrev, ReleaseRevoke
  <1> QED
    BY <1>1, <1>3, <1>4 DEF TypeOK, PendingMono, At

\* The steps that free the lease, or leave it alone.
LEMMA ReleaseType ==
    ASSUME TypeOK, NEW r \in Req, ReleaseLease(r) \/ AdminForce(r)
    PROVE  TypeOK' /\ SessMono /\ PendingMono
  <1>1. req[r] # Null /\ UNCHANGED <<sess, active, known>>
    BY DEF ReleaseLease, AdminForce, At
  <1>2. lease' \in Lease \union {Null} /\ ttl' \in 0..LeaseTicks
    BY LeaseTicksAssumption DEF ReleaseLease, AdminForce, FreeLease, TypeOK
  <1>3. {"drop", "revoke", "forceDrop", "acquire"} \subseteq Step
    BY DEF Step, OpenSteps, CloseSteps, AdminSteps
  <1>4. /\ req' \in [Req -> Request \union {Null}]
        /\ \A q \in Req : q # r => req'[q] = req[q]
        /\ ~At(r, "acquire")'
    <2>1. CASE \E step \in {"drop", "revoke", "forceDrop"} : Goto(r, step)
      BY <1>1, <1>3, <2>1, GotoFacts
    <2>2. CASE Finish(r)
      BY <2>2, FinishFacts DEF At
    <2> QED
      BY <2>1, <2>2 DEF ReleaseLease, AdminForce
  <1> QED
    BY <1>1, <1>2, <1>4 DEF TypeOK, PendingMono, SessMono, At

LEMMA BeginType ==
    ASSUME TypeOK, NEW r \in Req, NEW q \in Request, Begin(r, q), q.at # "acquire",
           UNCHANGED <<lease, ttl, sess, active, known>>
    PROVE  TypeOK' /\ SessMono /\ PendingMono
  <1>1. /\ req' \in [Req -> Request \union {Null}]
        /\ \A p \in Req : p # r => req'[p] = req[p]
        /\ req'[r] = q
    BY BeginFacts
  <1> QED
    BY <1>1 DEF TypeOK, SessMono, PendingMono, At

\* The steps that start a request without writing anything.
Begins(r) ==
    \/ \E d \in Device : \E s \in known[ViewerOf(d)] :
          \/ \E m \in Media : StreamBegin(r, d, s, m)
          \/ HeartbeatBegin(r, d, s)
          \/ ReleaseBegin(r, d, s)
          \/ \E m \in Media, mediaTyped, end \in BOOLEAN :
                ReportBegin(r, d, s, m, mediaTyped, end)
    \/ AdminBegin(r)

LEMMA BeginsType ==
    ASSUME TypeOK, NEW r \in Req, Begins(r)
    PROVE  TypeOK' /\ SessMono /\ PendingMono
  <1>0. {"refresh", "release", "revoke", "authorize", "write", "force"} \subseteq Step
    BY DEF Step, CloseSteps, AdminSteps, ReportSteps
  <1>1. ASSUME NEW d \in Device, NEW s \in Session, NEW m \in Media, StreamBegin(r, d, s, m)
        PROVE  TypeOK' /\ SessMono /\ PendingMono
    BY <1>0, <1>1, NewRequestType, BeginType DEF StreamBegin
  <1>2. ASSUME NEW d \in Device, NEW s \in Session, HeartbeatBegin(r, d, s)
        PROVE  TypeOK' /\ SessMono /\ PendingMono
    BY <1>0, <1>2, NewRequestType, BeginType DEF HeartbeatBegin
  <1>3. ASSUME NEW d \in Device, NEW s \in Session, ReleaseBegin(r, d, s)
        PROVE  TypeOK' /\ SessMono /\ PendingMono
    BY <1>0, <1>3, NewRequestType, BeginType DEF ReleaseBegin
  <1>4. ASSUME NEW d \in Device, NEW s \in Session, NEW m \in Media,
               NEW mediaTyped \in BOOLEAN, NEW end \in BOOLEAN,
               ReportBegin(r, d, s, m, mediaTyped, end)
        PROVE  TypeOK' /\ SessMono /\ PendingMono
    <2> DEFINE report == [NewRequest("authorize", d, s, m) EXCEPT !.seen = lease, !.end = end]
               free == [report EXCEPT !.at = "write", !.session = Null]
    <2>1. report \in Request /\ report.at = "authorize"
      BY <1>0 DEF TypeOK, NewRequest, Request
    <2>2. free \in Request /\ free.at = "write"
      BY <1>0, <2>1 DEF Request
    <2>3. Begin(r, report) \/ Begin(r, free)
      BY <1>4 DEF ReportBegin
    <2>4. UNCHANGED <<lease, ttl, sess, active, known>>
      BY <1>4 DEF ReportBegin
    <2> HIDE DEF report, free
    <2> QED
      BY <2>1, <2>2, <2>3, <2>4, BeginType
  <1>5. ASSUME AdminBegin(r)
        PROVE  TypeOK' /\ SessMono /\ PendingMono
    <2> DEFINE q == [NewRequest("force", Null, Null, Null) EXCEPT !.seen = lease]
    <2>1. q \in Request /\ q.at = "force"
      BY <1>0 DEF TypeOK, NewRequest, Request
    <2> HIDE DEF q
    <2> QED
      BY <1>5, <2>1, BeginType DEF AdminBegin, q
  <1> QED
    BY <1>1, <1>2, <1>3, <1>4, <1>5, DeviceParts DEF Begins, TypeOK

\* The steps that end a request and touch neither the lease nor a session.
Ends(r) ==
    \/ OpenReply(r) \/ Refresh(r) \/ AdminDrop(r) \/ ReportWrite(r) \/ Abort(r)

LEMMA EndsType ==
    ASSUME TypeOK, NEW r \in Req, HandlerOk(r), Ends(r)
    PROVE  TypeOK' /\ SessMono /\ PendingMono
  <1>1. req[r] # Null /\ req[r] \in Request /\ Finish(r) /\ UNCHANGED <<lease, sess>>
    BY DEF Ends, OpenReply, Refresh, AdminDrop, ReportWrite, Abort, At, Idle, TypeOK
  <1>2. /\ req' \in [Req -> Request \union {Null}]
        /\ \A q \in Req : q # r => req'[q] = req[q]
        /\ req'[r] = Null
    BY <1>1, FinishFacts
  <1>3. SessMono /\ PendingMono
    BY <1>1, <1>2 DEF SessMono, PendingMono, At
  <1>4. ttl' \in 0..LeaseTicks
    BY LeaseTicksAssumption DEF Ends, OpenReply, Refresh, AdminDrop, ReportWrite, Abort, TypeOK
  <1>5. known' \in [Viewer -> SUBSET Session]
    <2>1. CASE OpenReply(r)
      BY <2>1, DeviceParts DEF OpenReply, HandlerOk, OpenOk, Spent, TypeOK
    <2>2. CASE ~OpenReply(r)
      BY <2>2 DEF Ends, Refresh, AdminDrop, ReportWrite, Abort, TypeOK
    <2> QED
      BY <2>1, <2>2
  <1>6. active' \in [Viewer -> Snapshot \union {Null}]
    <2>1. CASE AdminDrop(r)
      BY <2>1 DEF AdminDrop, TypeOK
    <2>2. CASE ReportWrite(r)
      <3>1. [session |-> req[r].session, device |-> req[r].device] \in Snapshot
        BY <1>1, <2>2 DEF ReportWrite, HandlerOk, DeviceOk, Snapshot, Request
      <3> QED
        BY <2>2, <3>1 DEF ReportWrite, TypeOK
    <2>3. CASE OpenReply(r) \/ Refresh(r) \/ Abort(r)
      BY <2>3 DEF OpenReply, Refresh, Abort, TypeOK
    <2> QED
      BY <2>1, <2>2, <2>3 DEF Ends
  <1> QED
    BY <1>1, <1>2, <1>3, <1>4, <1>5, <1>6 DEF TypeOK

\* The two steps that go on without touching the lease or a session.
LEMMA GoesOnType ==
    ASSUME TypeOK, NEW r \in Req, ReleaseDrop(r) \/ ReportAuthorize(r)
    PROVE  TypeOK' /\ SessMono /\ PendingMono
  <1>1. req[r] # Null /\ UNCHANGED <<lease, ttl, sess, known>>
    BY DEF ReleaseDrop, ReportAuthorize, At
  <1>2. {"revoke", "write", "acquire"} \subseteq Step
    BY DEF Step, CloseSteps, ReportSteps, OpenSteps
  <1>3. /\ req' \in [Req -> Request \union {Null}]
        /\ \A q \in Req : q # r => req'[q] = req[q]
        /\ ~At(r, "acquire")'
    <2>1. CASE \E step \in {"revoke", "write"} : Goto(r, step)
      BY <1>1, <1>2, <2>1, GotoFacts
    <2>2. CASE Finish(r)
      BY <2>2, FinishFacts DEF At
    <2> QED
      BY <2>1, <2>2 DEF ReleaseDrop, ReportAuthorize
  <1>4. active' \in [Viewer -> Snapshot \union {Null}]
    BY DEF ReleaseDrop, ReportAuthorize, TypeOK
  <1> QED
    BY <1>1, <1>3, <1>4 DEF TypeOK, PendingMono, SessMono, At

\* The steps of no handler.
Environment ==
    \/ \E v \in Viewer : SnapshotEnds(v)
    \/ \E s \in Session : SessionLapses(s)
    \/ Tick

LEMMA EnvironmentType ==
    ASSUME TypeOK, LeaseInv, Environment
    PROVE  TypeOK' /\ SessMono /\ PendingMono
  <1>1. ASSUME NEW v \in Viewer, SnapshotEnds(v)
        PROVE  TypeOK' /\ SessMono /\ PendingMono
    BY <1>1 DEF SnapshotEnds, TypeOK, SessMono, PendingMono, At
  <1>2. ASSUME NEW s \in Session, SessionLapses(s)
        PROVE  TypeOK' /\ SessMono /\ PendingMono
    <2>1. Delete(s, "lapsed") /\ "lapsed" \in Fate
      BY <1>2 DEF SessionLapses, Delete, Fate
    <2>2. sess' \in [Session -> SessionRecord \union {Null}] /\ SessMono
      BY <2>1, DeleteFacts
    <2> QED
      BY <1>2, <2>2 DEF SessionLapses, TypeOK, PendingMono, At
  <1>3. ASSUME Tick
        PROVE  TypeOK' /\ SessMono /\ PendingMono
    BY <1>3, LeaseTicksAssumption DEF Tick, LeaseInv, TypeOK, SessMono, PendingMono, At
  <1> QED
    BY <1>1, <1>2, <1>3 DEF Environment

-----------------------------------------------------------------------------
(* What every step respects *)

LeaseMono ==
    \/ lease' \in {Null, lease}
    \/ \E q \in Req : At(q, "acquire") /\ lease'.session = req[q].session

FateMono ==
    \A t \in Session : sess[t] # Null =>
        \/ sess'[t].fate \in {sess[t].fate, "lapsed"}
        \/ Spent(t) /\ (OffLease(t)' \/ (Faults /\ sess'[t].fate = "abandoned"))

Respectful == SessMono /\ PendingMono /\ LeaseMono /\ FateMono

LEMMA OffLeaseMono ==
    ASSUME LeaseMono, NullAssumption, NEW s, Spent(s), OffLease(s)
    PROVE  OffLease(s)'
  BY DEF LeaseMono, Spent, OffLease

LEMMA HandlerFrame ==
    ASSUME IInv, Respectful, NEW q \in Req, HandlerOk(q), req'[q] = req[q]
    PROVE  HandlerOk(q)'
  <1>1. \A step : At(q, step)' <=> At(q, step)
    BY DEF At
  <1>2. OpenOk(q)'
    BY <1>1, SpentMono, OffLeaseMono, NullAssumption DEF Respectful, HandlerOk, OpenOk
  <1>3. CloseOk(q)'
    BY <1>1, SpentMono, OffLeaseMono, NullAssumption DEF Respectful, HandlerOk, CloseOk, Spent, SessMono
  <1>4. DeviceOk(q)'
    BY <1>1 DEF HandlerOk, DeviceOk
  <1> QED
    BY <1>2, <1>3, <1>4 DEF HandlerOk

LEMMA AcquireFrame ==
    ASSUME IInv, Respectful, NEW q \in Req, req'[q] = req[q]
    PROVE  AcquireOk(q)'
  <1> SUFFICES ASSUME At(q, "acquire")'
               PROVE  AcquireOk(q)'
    BY DEF AcquireOk
  <1>1. At(q, "acquire") /\ AcquireOk(q)
    BY DEF At, IInv
  <1> DEFINE s == req[q].session
  <1>2. s \in Session /\ sess[s] # Null /\ ~Spent(s)
    BY <1>1 DEF AcquireOk, Spent
  <1>3. sess'[s] # Null /\ sess'[s].device = sess[s].device /\ sess'[s].media = sess[s].media
    BY <1>2 DEF Respectful, SessMono
  <1>4. sess'[s].fate \in {"live", "lapsed"}
    BY <1>1, <1>2 DEF Respectful, FateMono, AcquireOk
  <1>5. ASSUME NEW p \in Req, At(p, "acquire")', req'[p].session = s
        PROVE  p = q
    <2>1. req'[p] = req[p]
      BY <1>2, <1>5 DEF Respectful, PendingMono
    <2> QED
      BY <1>1, <1>5, <2>1 DEF AcquireOk, At
  <1> QED
    BY <1>1, <1>2, <1>3, <1>4, <1>5 DEF AcquireOk

LEMMA LeaseFrame ==
    ASSUME IInv, Respectful, lease' = lease,
           ttl' = ttl \/ (lease # Null /\ ttl' \in 1..LeaseTicks)
    PROVE  LeaseInv'
  <1> SUFFICES ASSUME lease # Null
               PROVE  LeaseInv'
    BY DEF IInv, LeaseInv
  <1> DEFINE s == lease.session
  <1>1. s \in Session /\ sess[s] # Null /\ Spent(s) /\ Spent(s)'
    BY SpentMono DEF IInv, LeaseInv, Spent, Respectful
  <1>2. sess'[s].device = sess[s].device /\ sess'[s].media = sess[s].media
    BY <1>1 DEF Respectful, SessMono
  <1>3. ~OffLease(s)'
    BY DEF OffLease
  <1>4. \/ sess'[s].fate \in {sess[s].fate, "lapsed"}
        \/ Faults /\ sess'[s].fate = "abandoned"
    BY <1>1, <1>3 DEF Respectful, FateMono
  <1> QED
    BY <1>1, <1>2, <1>4 DEF IInv, LeaseInv

LEMMA KnownFrame ==
    ASSUME IInv, Respectful,
           \A v \in Viewer : \A s \in known'[v] : s \in known[v] \/ Spent(s)'
    PROVE  KnownInv'
  BY SpentMono DEF IInv, KnownInv, Respectful

LEMMA OneHandler ==
    ASSUME IInv, TypeOK', Respectful, LeaseInv', KnownInv', NEW r \in Req,
           \A q \in Req : q # r => req'[q] = req[q],
           AcquireOk(r)', HandlerOk(r)'
    PROVE  IInv'
  <1>1. \A q \in Req : HandlerOk(q)
    BY DEF IInv
  <1> QED
    BY <1>1, HandlerFrame, AcquireFrame DEF IInv

-----------------------------------------------------------------------------
(* Every step keeps the invariant *)

LEMMA OpenCreateStep ==
    ASSUME IInv, NEW r \in Req, NEW d \in Device, NEW s \in Session, NEW m \in Media,
           OpenCreate(r, d, s, m)
    PROVE  IInv' /\ Respectful
  <1>1. TypeOK' /\ SessMono /\ PendingMono
    BY OpenCreateType DEF IInv
  <1>2. UNCHANGED <<lease, ttl>> /\ sess[s] = Null
    BY DEF OpenCreate
  <1>3. sess'[s] = [device |-> d, media |-> m, fate |-> "live"]
    BY DEF OpenCreate, IInv, TypeOK
  <1>4. \A t \in Session : t # s => sess'[t] = sess[t]
    BY DEF OpenCreate, IInv, TypeOK
  <1>5. Respectful
    BY <1>1, <1>2, <1>4 DEF Respectful, LeaseMono, FateMono
  <1>6. LeaseInv'
    BY <1>2, <1>5, LeaseFrame
  <1>7. sess'[s] # Null
    BY <1>3, NullAssumption DEF SessionRecord, Fate
  <1>8. CASE m \in LeasedMedia
    <2> DEFINE new == NewRequest("acquire", d, s, m)
    <2>1. new \in Request /\ new.at = "acquire" /\ new.device = d /\ new.session = s /\ new.media = m
      BY NewRequestType DEF Step, OpenSteps
    <2>2. Begin(r, new) /\ known' = known
      BY <1>8 DEF OpenCreate
    <2> HIDE DEF new
    <2>3. \A p \in Req : p # r => req'[p] = req[p]
      BY <2>1, <2>2, BeginFacts DEF IInv
    <2>4. req'[r] = new
      BY <2>1, <2>2, BeginFacts DEF IInv
    <2>5. HandlerOk(r)'
      BY <2>1, <2>4 DEF HandlerOk, OpenOk, CloseOk, DeviceOk, At
    <2>6. AcquireOk(r)'
      <3>1. ASSUME NEW q \in Req, At(q, "acquire")', req'[q].session = s
            PROVE  q = r
        BY <1>2, <2>3, <3>1 DEF At, IInv, AcquireOk
      <3> QED
        BY <1>3, <1>7, <1>8, <2>1, <2>4, <3>1 DEF AcquireOk
    <2>7. KnownInv'
      BY <1>5, <2>2, KnownFrame
    <2> QED
      BY <1>1, <1>5, <1>6, <2>3, <2>5, <2>6, <2>7, OneHandler
  <1>9. CASE m \notin LeasedMedia
    <2>1. known' = [known EXCEPT ![ViewerOf(d)] = @ \union {s}] /\ req' = req
      BY <1>9 DEF OpenCreate
    <2>2. Spent(s)'
      BY <1>2, <1>7, <2>1 DEF IInv, AcquireOk, Spent, At
    <2>3. KnownInv'
      BY <1>5, <2>1, <2>2, DeviceParts, KnownFrame DEF IInv, TypeOK
    <2>4. AcquireOk(r)' /\ HandlerOk(r)'
      BY <1>5, <2>1, AcquireFrame, HandlerFrame DEF IInv
    <2> QED
      BY <1>1, <1>5, <1>6, <2>1, <2>3, <2>4, OneHandler
  <1> QED
    BY <1>8, <1>9

\* Taking the lease, whether the handler learns of it or not.
LEMMA TakeStep ==
    ASSUME IInv, NEW r \in Req, At(r, "acquire"), NEW s \in Session, s = req[r].session,
           MayAcquire(req[r].device), TakeLease(req[r].device, s, req[r].media),
           TypeOK', SessMono, PendingMono, ~At(r, "acquire")',
           \A q \in Req : q # r => req'[q] = req[q]
    PROVE  /\ Respectful /\ LeaseInv' /\ Spent(s)'
           /\ \A t \in Session : lease # Null /\ t = lease.session => Spent(t)' /\ OffLease(t)'
  <1>1. /\ req[r].device \in Device /\ req[r].media \in LeasedMedia /\ req[r].media \in Media
        /\ sess[s] # Null /\ ~Spent(s) /\ sess[s].fate \in {"live", "lapsed"}
        /\ sess[s].device = req[r].device /\ sess[s].media = req[r].media
        /\ \A q \in Req : At(q, "acquire") /\ req[q].session = s => q = r
    BY LeasedMediaAssumption DEF IInv, AcquireOk, Spent
  <1>2. lease # Null => Spent(lease.session) /\ lease.session \in Session
                        /\ sess[lease.session] # Null
    BY DEF IInv, LeaseInv, Spent
  <1>3. /\ lease' # Null /\ ttl' \in 1..LeaseTicks
        /\ lease' = [device |-> req[r].device, session |-> s, media |-> req[r].media]
        /\ \A t \in Session : (lease # Null => t # lease.session) => sess'[t] = sess[t]
    BY <1>1, <1>2, TakeLeaseFacts DEF IInv
  <1>4. lease'.session = s /\ lease'.device = req[r].device /\ lease'.media = req[r].media
    BY <1>3
  <1>5. \A t \in Session : lease # Null /\ t = lease.session => Spent(t) /\ t # s
    BY <1>1, <1>2
  <1>6. Spent(s)'
    BY <1>1 DEF Spent, At, SessMono
  <1>7. \A t \in Session : lease # Null /\ t = lease.session => Spent(t)' /\ OffLease(t)'
    BY <1>4, <1>5, SpentMono DEF OffLease
  <1>8. Respectful
    <2>1. LeaseMono
      BY <1>4 DEF LeaseMono
    <2>2. ASSUME NEW t \in Session, sess[t] # Null
          PROVE  \/ sess'[t].fate \in {sess[t].fate, "lapsed"}
                 \/ Spent(t) /\ (OffLease(t)' \/ (Faults /\ sess'[t].fate = "abandoned"))
      <3>1. CASE lease # Null /\ t = lease.session
        BY <1>5, <1>7, <3>1
      <3>2. CASE ~(lease # Null /\ t = lease.session)
        BY <1>3, <3>2
      <3> QED
        BY <3>1, <3>2
    <2> QED
      BY <2>1, <2>2 DEF Respectful, FateMono
  <1>9. sess'[s] = sess[s]
    BY <1>3, <1>5
  <1>10. LeaseInv'
    BY <1>1, <1>3, <1>4, <1>6, <1>9 DEF LeaseInv
  <1> QED
    BY <1>6, <1>7, <1>8, <1>10

LEMMA OpenAcquireStep ==
    ASSUME IInv, NEW r \in Req, OpenAcquire(r)
    PROVE  IInv' /\ Respectful
  <1>1. TypeOK' /\ SessMono /\ PendingMono
    BY OpenAcquireType DEF IInv
  <1>2. /\ At(r, "acquire") /\ req[r] \in Request /\ req[r].device \in Device
        /\ known' = known
    BY DEF OpenAcquire, IInv, TypeOK, AcquireOk, At
  <1>0. PICK s \in Session : s = req[r].session
    BY <1>2 DEF IInv, AcquireOk
  <1>3. CASE MayAcquire(req[r].device)
    <2> DEFINE previous == IF lease = Null THEN Null ELSE lease.session
               next == [req[r] EXCEPT !.prev = previous,
                          !.at = IF previous = Null THEN "reply" ELSE "revokePrev"]
    <2>1. TakeLease(req[r].device, s, req[r].media) /\ req' = [req EXCEPT ![r] = next]
      BY <1>0, <1>3 DEF OpenAcquire
    <2>2. /\ next.prev = previous /\ next.session = s /\ next.device = req[r].device
          /\ next.at = IF previous = Null THEN "reply" ELSE "revokePrev"
      <3> HIDE DEF previous
      <3> QED
        BY <1>0, <1>2 DEF Request
    <2>3. \/ next.at = "reply"
          \/ next.at = "revokePrev" /\ lease # Null /\ next.prev = lease.session
      <3> HIDE DEF next
      <3> QED
        BY <2>2
    <2> HIDE DEF next
    <2>4. req'[r] = next /\ \A q \in Req : q # r => req'[q] = req[q]
      BY <2>1 DEF IInv, TypeOK
    <2>5. ~At(r, "acquire")'
      BY <2>3, <2>4 DEF At
    <2>6. /\ Respectful /\ LeaseInv' /\ Spent(s)'
          /\ \A t \in Session : lease # Null /\ t = lease.session => Spent(t)' /\ OffLease(t)'
      BY <1>0, <1>1, <1>2, <1>3, <2>1, <2>4, <2>5, TakeStep
    <2>7. AcquireOk(r)' /\ HandlerOk(r)'
      <3>1. AcquireOk(r)' /\ CloseOk(r)' /\ DeviceOk(r)'
        BY <2>3, <2>4, <2>5 DEF AcquireOk, CloseOk, DeviceOk, At
      <3>2. lease # Null => lease.session \in Session
        BY DEF IInv, LeaseInv, Spent
      <3>3. req'[r].at = "revokePrev" => Spent(req[r].prev)' /\ OffLease(req[r].prev)'
        BY <2>3, <2>4, <2>6, <3>2
      <3>4. Spent(req[r].session)' /\ req'[r].device \in Device
        BY <1>2, <2>2, <2>4, <2>6
      <3>5. req'[r].at # "undo"
        BY <2>3, <2>4
      <3>6. OpenOk(r)'
        BY <3>3, <3>4, <3>5 DEF OpenOk, At
      <3> QED
        BY <3>1, <3>6 DEF HandlerOk
    <2>8. KnownInv'
      BY <1>2, <2>6, KnownFrame
    <2> QED
      BY <1>1, <2>4, <2>6, <2>7, <2>8, OneHandler
  <1>4. CASE ~MayAcquire(req[r].device)
    <2>1. Goto(r, "undo") /\ UNCHANGED <<lease, ttl, sess>>
      BY <1>4 DEF OpenAcquire
    <2>2. "undo" \in Step
      BY DEF Step, OpenSteps
    <2>3. /\ \A q \in Req : q # r => req'[q] = req[q]
          /\ req'[r] # Null /\ req'[r] = [req[r] EXCEPT !.at = "undo"]
      BY <1>2, <2>1, <2>2, GotoFacts DEF IInv, At
    <2>4. /\ req'[r].at = "undo" /\ req'[r].session = s
      BY <1>0, <1>2, <2>3 DEF Request
    <2>5. Respectful
      BY <1>1, <2>1 DEF Respectful, LeaseMono, FateMono
    <2>6. Spent(s)' /\ OffLease(s)'
      <3>1. OffLease(s)
        BY <1>0, <1>2 DEF IInv, LeaseInv, Spent, OffLease
      <3>2. \A q \in Req : At(q, "acquire")' => q # r /\ At(q, "acquire")
        BY <2>3, <2>4 DEF At
      <3>3. Spent(s)'
        BY <1>0, <1>2, <2>1, <2>3, <3>2 DEF IInv, AcquireOk, Spent
      <3> QED
        BY <2>1, <3>1, <3>3 DEF OffLease
    <2>7. AcquireOk(r)' /\ HandlerOk(r)'
      BY <2>4, <2>6 DEF AcquireOk, HandlerOk, OpenOk, CloseOk, DeviceOk, At
    <2>8. LeaseInv' /\ KnownInv'
      BY <1>2, <2>1, <2>5, LeaseFrame, KnownFrame
    <2> QED
      BY <1>1, <2>3, <2>5, <2>7, <2>8, OneHandler
  <1> QED
    BY <1>3, <1>4

LEMMA OpenAcquireFailsStep ==
    ASSUME IInv, NEW r \in Req, OpenAcquireFails(r)
    PROVE  IInv' /\ Respectful
  <1>1. TypeOK' /\ SessMono /\ PendingMono
    BY OpenAcquireFailsType DEF IInv
  <1>2. /\ Faults /\ At(r, "acquire") /\ Goto(r, "undo") /\ UNCHANGED <<active, known>>
        /\ req[r] # Null /\ req[r] \in Request
    BY DEF OpenAcquireFails, IInv, TypeOK, At
  <1>3. PICK s \in Session : s = req[r].session
    BY <1>2 DEF IInv, AcquireOk
  <1>4. "undo" \in Step
    BY DEF Step, OpenSteps
  <1>5. /\ \A q \in Req : q # r => req'[q] = req[q]
        /\ req'[r] # Null /\ req'[r] = [req[r] EXCEPT !.at = "undo"]
    BY <1>2, <1>4, GotoFacts DEF IInv
  <1>6. req'[r].at = "undo" /\ req'[r].session = s /\ ~At(r, "acquire")'
    BY <1>2, <1>3, <1>5 DEF Request, At
  <1>7. Respectful /\ LeaseInv' /\ Spent(s)'
    <2>1. CASE MayAcquire(req[r].device) /\ TakeLease(req[r].device, s, req[r].media)
      BY <1>1, <1>2, <1>3, <1>5, <1>6, <2>1, TakeStep
    <2>2. CASE UNCHANGED <<lease, ttl, sess>>
      <3>1. Respectful
        BY <1>1, <2>2 DEF Respectful, LeaseMono, FateMono
      <3>2. \A q \in Req : At(q, "acquire")' => q # r /\ At(q, "acquire")
        BY <1>5, <1>6 DEF At
      <3>3. Spent(s)'
        BY <1>2, <1>3, <1>5, <2>2, <3>2 DEF IInv, AcquireOk, Spent
      <3> QED
        BY <2>2, <3>1, <3>3, LeaseFrame
    <2> QED
      BY <1>3, <2>1, <2>2 DEF OpenAcquireFails
  <1>8. AcquireOk(r)' /\ HandlerOk(r)'
    BY <1>2, <1>6, <1>7 DEF AcquireOk, HandlerOk, OpenOk, CloseOk, DeviceOk, At
  <1>9. KnownInv'
    BY <1>2, <1>7, KnownFrame
  <1> QED
    BY <1>1, <1>5, <1>7, <1>8, <1>9, OneHandler

\* Deleting a spent session that does not hold the lease respects everything;
\* so does a failed open that deletes its own.
LEMMA DeleteRespects ==
    ASSUME IInv, SessMono, PendingMono, UNCHANGED lease,
           NEW s \in Session, Spent(s), NEW fate \in Fate, Delete(s, fate),
           OffLease(s) \/ (Faults /\ fate = "abandoned")
    PROVE  Respectful
  <1>1. \A t \in Session : t # s => sess'[t] = sess[t]
    BY DeleteFacts DEF IInv
  <1>2. sess'[s] = sess[s] \/ sess'[s].fate = fate
    <2>1. CASE Readable(s)
      <3>1. sess[s] \in SessionRecord
        BY <2>1 DEF Readable, IInv, TypeOK
      <3>2. sess'[s] = [sess[s] EXCEPT !.fate = fate]
        BY <2>1 DEF Delete, IInv, TypeOK
      <3> QED
        BY <3>1, <3>2 DEF SessionRecord
    <2>2. CASE ~Readable(s)
      BY <2>2 DEF Delete
    <2> QED
      BY <2>1, <2>2
  <1>3. OffLease(s) => OffLease(s)'
    BY DEF OffLease
  <1>4. FateMono
    BY <1>1, <1>2, <1>3 DEF FateMono
  <1> QED
    BY <1>4 DEF Respectful, LeaseMono

LEMMA OpenUndoStep ==
    ASSUME IInv, NEW r \in Req, OpenUndo(r)
    PROVE  IInv' /\ Respectful
  <1>1. TypeOK' /\ SessMono /\ PendingMono
    BY DeleteType DEF IInv
  <1>2. At(r, "undo") /\ Finish(r) /\ UNCHANGED <<lease, ttl, active, known>>
    BY DEF OpenUndo
  <1>3. PICK s \in Session : s = req[r].session
    BY <1>2 DEF IInv, HandlerOk, OpenOk, Spent
  <1>4. Spent(s) /\ (~Faults => OffLease(s))
    BY <1>2, <1>3 DEF IInv, HandlerOk, OpenOk
  <1>5. Respectful
    BY <1>1, <1>2, <1>3, <1>4, DeleteRespects, FaultsAssumption DEF OpenUndo, Fate
  <1>6. req'[r] = Null /\ \A q \in Req : q # r => req'[q] = req[q]
    BY <1>2, FinishFacts DEF IInv
  <1>7. AcquireOk(r)' /\ HandlerOk(r)'
    BY <1>6 DEF AcquireOk, HandlerOk, OpenOk, CloseOk, DeviceOk, At
  <1>8. LeaseInv' /\ KnownInv'
    BY <1>2, <1>5, LeaseFrame, KnownFrame
  <1> QED
    BY <1>1, <1>5, <1>6, <1>7, <1>8, OneHandler

LEMMA OpenRevokePrevStep ==
    ASSUME IInv, NEW r \in Req, OpenRevokePrev(r)
    PROVE  IInv' /\ Respectful
  <1>1. TypeOK' /\ SessMono /\ PendingMono
    BY DeleteType DEF IInv
  <1>2. At(r, "revokePrev") /\ Goto(r, "reply") /\ UNCHANGED <<lease, ttl, active, known>>
    BY DEF OpenRevokePrev
  <1>3. PICK p \in Session : p = req[r].prev
    BY <1>2 DEF IInv, HandlerOk, OpenOk, Spent
  <1>4. PICK s \in Session : s = req[r].session
    BY <1>2 DEF IInv, HandlerOk, OpenOk, Spent
  <1>5. Spent(p) /\ OffLease(p) /\ Spent(s) /\ req[r].device \in Device
    BY <1>2, <1>3, <1>4 DEF IInv, HandlerOk, OpenOk
  <1>6. Respectful
    <2>1. CASE Delete(p, "revoked")
      BY <1>1, <1>2, <1>5, <2>1, DeleteRespects DEF Fate
    <2>2. CASE UNCHANGED sess
      BY <1>1, <1>2, <2>2 DEF Respectful, LeaseMono, FateMono
    <2> QED
      BY <1>3, <2>1, <2>2 DEF OpenRevokePrev
  <1>7. req[r] \in Request /\ req[r] # Null /\ "reply" \in Step
    BY <1>2 DEF IInv, TypeOK, At, Step, OpenSteps
  <1>8. /\ \A q \in Req : q # r => req'[q] = req[q]
        /\ req'[r] # Null /\ req'[r] = [req[r] EXCEPT !.at = "reply"]
    BY <1>2, <1>7, GotoFacts DEF IInv
  <1>9. req'[r].at = "reply" /\ req'[r].session = s /\ req'[r].device = req[r].device
    BY <1>4, <1>7, <1>8 DEF Request
  <1>10. Spent(s)'
    BY <1>5, <1>6, SpentMono DEF Respectful
  <1>11. AcquireOk(r)' /\ HandlerOk(r)'
    BY <1>5, <1>9, <1>10 DEF AcquireOk, HandlerOk, OpenOk, CloseOk, DeviceOk, At
  <1>12. LeaseInv' /\ KnownInv'
    BY <1>2, <1>6, LeaseFrame, KnownFrame
  <1> QED
    BY <1>1, <1>6, <1>8, <1>11, <1>12, OneHandler

LEMMA ReleaseRevokeStep ==
    ASSUME IInv, NEW r \in Req, ReleaseRevoke(r)
    PROVE  IInv' /\ Respectful
  <1>1. TypeOK' /\ SessMono /\ PendingMono
    BY DeleteType DEF IInv
  <1>2. At(r, "revoke") /\ Finish(r) /\ UNCHANGED <<lease, ttl, active, known>>
    BY DEF ReleaseRevoke
  <1>3. PICK s \in Session : s = req[r].session
    BY <1>2 DEF IInv, HandlerOk, CloseOk, Spent
  <1>4. Spent(s) /\ OffLease(s)
    BY <1>2, <1>3 DEF IInv, HandlerOk, CloseOk
  <1>5. Respectful
    BY <1>1, <1>2, <1>3, <1>4, DeleteRespects DEF ReleaseRevoke, Fate
  <1>6. req'[r] = Null /\ \A q \in Req : q # r => req'[q] = req[q]
    BY <1>2, FinishFacts DEF IInv
  <1>7. AcquireOk(r)' /\ HandlerOk(r)'
    BY <1>6 DEF AcquireOk, HandlerOk, OpenOk, CloseOk, DeviceOk, At
  <1>8. LeaseInv' /\ KnownInv'
    BY <1>2, <1>5, LeaseFrame, KnownFrame
  <1> QED
    BY <1>1, <1>5, <1>6, <1>7, <1>8, OneHandler

LEMMA FreedFacts ==
    ASSUME IInv, TypeOK', SessMono, PendingMono, UNCHANGED <<sess, known>>,
           lease' = Null, ttl' = 0
    PROVE  Respectful /\ LeaseInv' /\ KnownInv' /\ \A s : OffLease(s)'
  <1>1. Respectful
    BY DEF Respectful, LeaseMono, FateMono
  <1> QED
    BY <1>1, KnownFrame DEF LeaseInv, OffLease

LEMMA ReleaseLeaseStep ==
    ASSUME IInv, NEW r \in Req, ReleaseLease(r)
    PROVE  IInv' /\ Respectful
  <1>1. TypeOK' /\ SessMono /\ PendingMono
    BY ReleaseType DEF IInv
  <1>2. At(r, "release") /\ UNCHANGED <<sess, active, known>>
    BY DEF ReleaseLease
  <1>3. /\ req[r] # Null /\ req[r] \in Request /\ req[r].device \in Device
        /\ "drop" \in Step /\ "revoke" \in Step
    BY <1>2 DEF IInv, TypeOK, At, HandlerOk, DeviceOk, Step, CloseSteps
  <1>4. PICK s \in Session : s = req[r].session
    BY <1>2 DEF IInv, HandlerOk, CloseOk, Spent
  <1>5. Spent(s) /\ sess[s].device = req[r].device
    BY <1>2, <1>4 DEF IInv, HandlerOk, CloseOk
  <1>6. /\ Respectful /\ LeaseInv' /\ KnownInv' /\ OffLease(s)'
        /\ Goto(r, "drop") \/ Goto(r, "revoke")
    <2>1. CASE Holds(req[r].device, req[r].session)
      BY <1>1, <1>2, <2>1, FreedFacts DEF ReleaseLease, FreeLease
    <2>2. CASE ~Holds(req[r].device, req[r].session)
      <3>1. Goto(r, "revoke") /\ UNCHANGED <<lease, ttl>>
        BY <2>2 DEF ReleaseLease
      <3>2. Respectful
        BY <1>1, <1>2, <3>1 DEF Respectful, LeaseMono, FateMono
      <3>3. OffLease(s)
        BY <1>4, <1>5, <2>2 DEF OffLease, Holds, IInv, LeaseInv, SameDevice
      <3> QED
        BY <1>2, <3>1, <3>2, <3>3, LeaseFrame, KnownFrame DEF OffLease
    <2> QED
      BY <2>1, <2>2
  <1>7. Spent(s)'
    BY <1>5, <1>6, SpentMono DEF Respectful
  <1>8. /\ \A q \in Req : q # r => req'[q] = req[q]
        /\ req'[r] # Null
        /\ \/ req'[r] = [req[r] EXCEPT !.at = "drop"]
           \/ req'[r] = [req[r] EXCEPT !.at = "revoke"]
    BY <1>3, <1>6, GotoFacts DEF IInv
  <1>9. req'[r].at \in {"drop", "revoke"} /\ req'[r].session = s /\ req'[r].device \in Device
    BY <1>3, <1>4, <1>8 DEF Request
  <1>10. AcquireOk(r)' /\ HandlerOk(r)'
    BY <1>6, <1>7, <1>9 DEF AcquireOk, HandlerOk, OpenOk, CloseOk, DeviceOk, At
  <1> QED
    BY <1>1, <1>6, <1>8, <1>10, OneHandler

LEMMA AdminForceStep ==
    ASSUME IInv, NEW r \in Req, AdminForce(r)
    PROVE  IInv' /\ Respectful
  <1>1. TypeOK' /\ SessMono /\ PendingMono
    BY ReleaseType DEF IInv
  <1>2. At(r, "force") /\ FreeLease /\ UNCHANGED <<sess, active, known>>
    BY DEF AdminForce
  <1>3. req[r] # Null /\ req[r] \in Request /\ "forceDrop" \in Step
    BY <1>2 DEF IInv, TypeOK, At, Step, AdminSteps
  <1>4. Respectful /\ LeaseInv' /\ KnownInv'
    BY <1>1, <1>2, FreedFacts DEF FreeLease
  <1>5. /\ \A q \in Req : q # r => req'[q] = req[q]
        /\ \/ req'[r] = Null
           \/ req'[r].at = "forceDrop" /\ req'[r].seen # Null
    <2>1. CASE Finish(r)
      BY <2>1, FinishFacts DEF IInv
    <2>2. CASE Goto(r, "forceDrop") /\ req[r].seen # Null
      <3>1. /\ \A q \in Req : q # r => req'[q] = req[q]
            /\ req'[r] = [req[r] EXCEPT !.at = "forceDrop"]
        BY <1>3, <2>2, GotoFacts DEF IInv
      <3> QED
        BY <1>3, <2>2, <3>1 DEF Request
    <2> QED
      BY <2>1, <2>2 DEF AdminForce
  <1>6. AcquireOk(r)' /\ HandlerOk(r)'
    BY <1>5 DEF AcquireOk, HandlerOk, OpenOk, CloseOk, DeviceOk, At
  <1> QED
    BY <1>1, <1>4, <1>5, <1>6, OneHandler

LEMMA BeginStep ==
    ASSUME IInv, NEW r \in Req, NEW q \in Request, Begin(r, q), q.at # "acquire",
           TypeOK', SessMono, PendingMono,
           UNCHANGED <<lease, ttl, sess, active, known>>, req'[r] = q => HandlerOk(r)'
    PROVE  IInv' /\ Respectful
  <1>1. req'[r] = q /\ \A p \in Req : p # r => req'[p] = req[p]
    BY BeginFacts DEF IInv
  <1>2. Respectful
    BY DEF Respectful, LeaseMono, FateMono
  <1>3. AcquireOk(r)'
    BY <1>1 DEF AcquireOk, At
  <1> QED
    BY <1>1, <1>2, <1>3, LeaseFrame, KnownFrame, OneHandler

LEMMA BeginsStep ==
    ASSUME IInv, NEW r \in Req, Begins(r)
    PROVE  IInv' /\ Respectful
  <1>1. TypeOK' /\ SessMono /\ PendingMono
    BY BeginsType DEF IInv
  <1>2. {"refresh", "release", "revoke", "authorize", "write", "force"} \subseteq Step
    BY DEF Step, CloseSteps, AdminSteps, ReportSteps
  <1>3. ASSUME NEW d \in Device, NEW s \in Session, NEW m \in Media, StreamBegin(r, d, s, m)
        PROVE  IInv' /\ Respectful
    <2> DEFINE q == NewRequest("refresh", d, s, m)
    <2>1. q \in Request /\ q.at = "refresh"
      BY <1>2, NewRequestType
    <2>2. Begin(r, q) /\ UNCHANGED <<lease, ttl, sess, active, known>>
      BY <1>3 DEF StreamBegin
    <2> HIDE DEF q
    <2>3. req'[r] = q => HandlerOk(r)'
      BY <2>1 DEF HandlerOk, OpenOk, CloseOk, DeviceOk, At
    <2> QED
      BY <1>1, <2>1, <2>2, <2>3, BeginStep
  <1>4. ASSUME NEW d \in Device, NEW s \in Session, HeartbeatBegin(r, d, s)
        PROVE  IInv' /\ Respectful
    <2> DEFINE q == NewRequest("refresh", d, s, Null)
    <2>1. q \in Request /\ q.at = "refresh"
      BY <1>2, NewRequestType
    <2>2. Begin(r, q) /\ UNCHANGED <<lease, ttl, sess, active, known>>
      BY <1>4 DEF HeartbeatBegin
    <2> HIDE DEF q
    <2>3. req'[r] = q => HandlerOk(r)'
      BY <2>1 DEF HandlerOk, OpenOk, CloseOk, DeviceOk, At
    <2> QED
      BY <1>1, <2>1, <2>2, <2>3, BeginStep
  <1>5. ASSUME NEW d \in Device, NEW s \in known[ViewerOf(d)], ReleaseBegin(r, d, s)
        PROVE  IInv' /\ Respectful
    <2> DEFINE step == IF LeaseRequired(s) THEN "release" ELSE "revoke"
               q == NewRequest(step, d, s, Null)
    <2>1. Spent(s) /\ s \in Session
      BY DeviceParts DEF IInv, KnownInv, Spent
    <2>2. /\ Begin(r, NewRequest(step, d, s, Null)) /\ BelongsTo(s, d)
          /\ UNCHANGED <<lease, ttl, sess, active, known>>
      BY <1>5 DEF ReleaseBegin
    <2>3. step \in Step /\ step # "acquire" /\ step \in {"release", "revoke"}
      BY <1>2
    <2>4. step = "revoke" => sess[s].media \notin LeasedMedia
      BY DEF LeaseRequired
    <2> HIDE DEF step
    <2>5. q \in Request /\ q.at = step /\ q.session = s /\ q.device = d /\ Begin(r, q)
      BY <2>1, <2>2, <2>3, NewRequestType
    <2> HIDE DEF q
    <2>6. sess[s].device = d
      <3>1. sess[s].device \in Device /\ SameDevice(sess[s].device, d)
        BY <2>1, <2>2 DEF BelongsTo, Readable, IInv, TypeOK, SessionRecord
      <3> QED
        BY <3>1, DeviceParts
    <2>7. step = "revoke" => OffLease(s)
      BY <2>4 DEF IInv, LeaseInv, OffLease
    <2>9. Spent(s)' /\ (step = "revoke" => OffLease(s)')
      BY <1>1, <2>1, <2>2, <2>7, SpentMono DEF OffLease
    <2>10. req'[r] = q => HandlerOk(r)'
      BY <2>2, <2>3, <2>5, <2>6, <2>9 DEF HandlerOk, OpenOk, CloseOk, DeviceOk, At
    <2> QED
      BY <1>1, <2>2, <2>3, <2>5, <2>10, BeginStep
  <1>6. ASSUME NEW d \in Device, NEW s \in Session, NEW m \in Media,
               NEW mediaTyped \in BOOLEAN, NEW end \in BOOLEAN,
               ReportBegin(r, d, s, m, mediaTyped, end)
        PROVE  IInv' /\ Respectful
    <2> DEFINE report == [NewRequest("authorize", d, s, m) EXCEPT !.seen = lease, !.end = end]
               free == [report EXCEPT !.at = "write", !.session = Null]
    <2>1. report \in Request /\ report.at = "authorize" /\ report.device = d
      BY <1>2 DEF IInv, TypeOK, NewRequest, Request
    <2>2. free \in Request /\ free.at = "write" /\ free.device = d
      BY <1>2, <2>1 DEF Request
    <2>3. /\ Begin(r, report) \/ Begin(r, free)
          /\ UNCHANGED <<lease, ttl, sess, active, known>>
      BY <1>6 DEF ReportBegin
    <2> HIDE DEF report, free
    <2>4. req'[r] = report \/ req'[r] = free => HandlerOk(r)'
      BY <2>1, <2>2 DEF HandlerOk, OpenOk, CloseOk, DeviceOk, At
    <2> QED
      BY <1>1, <2>1, <2>2, <2>3, <2>4, BeginStep
  <1>7. ASSUME AdminBegin(r)
        PROVE  IInv' /\ Respectful
    <2> DEFINE q == [NewRequest("force", Null, Null, Null) EXCEPT !.seen = lease]
    <2>1. q \in Request /\ q.at = "force"
      BY <1>2 DEF IInv, TypeOK, NewRequest, Request
    <2>2. Begin(r, q) /\ UNCHANGED <<lease, ttl, sess, active, known>>
      BY <1>7 DEF AdminBegin
    <2> HIDE DEF q
    <2>3. req'[r] = q => HandlerOk(r)'
      BY <2>1 DEF HandlerOk, OpenOk, CloseOk, DeviceOk, At
    <2> QED
      BY <1>1, <2>1, <2>2, <2>3, BeginStep
  <1> QED
    BY <1>3, <1>4, <1>5, <1>6, <1>7, DeviceParts DEF Begins, IInv, TypeOK

LEMMA EndsStep ==
    ASSUME IInv, NEW r \in Req, Ends(r)
    PROVE  IInv' /\ Respectful
  <1>1. TypeOK' /\ SessMono /\ PendingMono
    BY EndsType DEF IInv
  <1>2. req[r] # Null /\ Finish(r) /\ UNCHANGED <<lease, sess>>
    BY DEF Ends, OpenReply, Refresh, AdminDrop, ReportWrite, Abort, At, Idle
  <1>3. req'[r] = Null /\ \A q \in Req : q # r => req'[q] = req[q]
    BY <1>2, FinishFacts DEF IInv
  <1>4. Respectful
    BY <1>1, <1>2 DEF Respectful, LeaseMono, FateMono
  <1>5. AcquireOk(r)' /\ HandlerOk(r)'
    BY <1>3 DEF AcquireOk, HandlerOk, OpenOk, CloseOk, DeviceOk, At
  <1>6. LeaseInv'
    <2>1. ttl' = ttl \/ (lease # Null /\ ttl' \in 1..LeaseTicks)
      BY LeaseTicksAssumption
         DEF Ends, OpenReply, Refresh, Holds, AdminDrop, ReportWrite, Abort
    <2> QED
      BY <1>2, <1>4, <2>1, LeaseFrame
  <1>7. KnownInv'
    <2>1. CASE OpenReply(r)
      <3>1. PICK s \in Session : s = req[r].session /\ Spent(s)
        BY <2>1 DEF OpenReply, IInv, HandlerOk, OpenOk, Spent
      <3>2. Spent(s)'
        BY <1>4, <3>1, SpentMono DEF Respectful
      <3>3. known' = [known EXCEPT ![ViewerOf(req[r].device)] = @ \union {s}]
        BY <2>1, <3>1 DEF OpenReply
      <3> QED
        BY <1>4, <3>2, <3>3, KnownFrame DEF IInv, TypeOK
    <2>2. CASE known' = known
      BY <1>4, <2>2, KnownFrame
    <2> QED
      BY <2>1, <2>2 DEF Ends, Refresh, AdminDrop, ReportWrite, Abort
  <1> QED
    BY <1>1, <1>3, <1>4, <1>5, <1>6, <1>7, OneHandler

LEMMA ReleaseDropStep ==
    ASSUME IInv, NEW r \in Req, ReleaseDrop(r)
    PROVE  IInv' /\ Respectful
  <1>1. TypeOK' /\ SessMono /\ PendingMono
    BY GoesOnType DEF IInv
  <1>2. At(r, "drop") /\ Goto(r, "revoke") /\ UNCHANGED <<lease, ttl, sess, known>>
    BY DEF ReleaseDrop
  <1>3. PICK s \in Session : s = req[r].session
    BY <1>2 DEF IInv, HandlerOk, CloseOk, Spent
  <1>4. Spent(s) /\ OffLease(s)
    BY <1>2, <1>3 DEF IInv, HandlerOk, CloseOk
  <1>5. Respectful
    BY <1>1, <1>2 DEF Respectful, LeaseMono, FateMono
  <1>6. Spent(s)' /\ OffLease(s)'
    BY <1>2, <1>4, <1>5, SpentMono DEF Respectful, OffLease
  <1>7. req[r] \in Request /\ req[r] # Null /\ "revoke" \in Step
    BY <1>2 DEF IInv, TypeOK, At, Step, CloseSteps
  <1>8. /\ \A q \in Req : q # r => req'[q] = req[q]
        /\ req'[r] = [req[r] EXCEPT !.at = "revoke"]
    BY <1>2, <1>7, GotoFacts DEF IInv
  <1>9. req'[r].at = "revoke" /\ req'[r].session = s
    BY <1>3, <1>7, <1>8 DEF Request
  <1>10. AcquireOk(r)' /\ HandlerOk(r)'
    BY <1>6, <1>9 DEF AcquireOk, HandlerOk, OpenOk, CloseOk, DeviceOk, At
  <1>11. LeaseInv' /\ KnownInv'
    BY <1>2, <1>5, LeaseFrame, KnownFrame
  <1> QED
    BY <1>1, <1>5, <1>8, <1>10, <1>11, OneHandler

LEMMA ReportAuthorizeStep ==
    ASSUME IInv, NEW r \in Req, ReportAuthorize(r)
    PROVE  IInv' /\ Respectful
  <1>1. TypeOK' /\ SessMono /\ PendingMono
    BY GoesOnType DEF IInv
  <1>2. /\ At(r, "authorize") /\ UNCHANGED <<lease, ttl, sess, active, known>>
        /\ Goto(r, "write") \/ Finish(r)
    BY DEF ReportAuthorize
  <1>3. /\ req[r] \in Request /\ req[r] # Null /\ req[r].device \in Device /\ "write" \in Step
    BY <1>2 DEF IInv, TypeOK, At, HandlerOk, DeviceOk, Step, ReportSteps
  <1>4. Respectful
    BY <1>1, <1>2 DEF Respectful, LeaseMono, FateMono
  <1>5. /\ \A q \in Req : q # r => req'[q] = req[q]
        /\ \/ req'[r] = Null
           \/ req'[r].at = "write" /\ req'[r].device = req[r].device
    <2>1. CASE Goto(r, "write")
      <3>1. /\ \A q \in Req : q # r => req'[q] = req[q]
            /\ req'[r] = [req[r] EXCEPT !.at = "write"]
        BY <1>3, <2>1, GotoFacts DEF IInv
      <3> QED
        BY <1>3, <3>1 DEF Request
    <2>2. CASE Finish(r)
      BY <2>2, FinishFacts DEF IInv
    <2> QED
      BY <1>2, <2>1, <2>2
  <1>6. AcquireOk(r)' /\ HandlerOk(r)'
    BY <1>3, <1>5 DEF AcquireOk, HandlerOk, OpenOk, CloseOk, DeviceOk, At
  <1>7. LeaseInv' /\ KnownInv'
    BY <1>2, <1>4, LeaseFrame, KnownFrame
  <1> QED
    BY <1>1, <1>4, <1>5, <1>6, <1>7, OneHandler

LEMMA NoHandler ==
    ASSUME IInv, TypeOK', Respectful, LeaseInv', UNCHANGED <<known, req>>
    PROVE  IInv'
  <1>1. KnownInv'
    BY KnownFrame
  <1> QED
    BY <1>1, HandlerFrame, AcquireFrame DEF IInv

LEMMA EnvironmentStep ==
    ASSUME IInv, Environment
    PROVE  IInv' /\ Respectful
  <1>1. TypeOK' /\ SessMono /\ PendingMono
    BY EnvironmentType DEF IInv
  <1>2. UNCHANGED <<known, req>>
    BY DEF Environment, SnapshotEnds, SessionLapses, Tick
  <1>3. FateMono
    <2>1. CASE \E s \in Session : SessionLapses(s)
      <3>1. PICK s \in Session : SessionLapses(s)
        BY <2>1
      <3>2. sess[s] \in SessionRecord /\ sess' = [sess EXCEPT ![s] = [sess[s] EXCEPT !.fate = "lapsed"]]
        BY <3>1 DEF SessionLapses, Readable, IInv, TypeOK
      <3>3. [sess[s] EXCEPT !.fate = "lapsed"].fate = "lapsed"
        BY <3>2 DEF SessionRecord
      <3> QED
        BY <3>2, <3>3 DEF FateMono, IInv, TypeOK
    <2>2. CASE sess' = sess
      BY <2>2 DEF FateMono
    <2> QED
      BY <2>1, <2>2 DEF Environment, SnapshotEnds, Tick
  <1>4. Respectful
    BY <1>1, <1>3 DEF Respectful, LeaseMono, Environment, SnapshotEnds, SessionLapses, Tick
  <1>5. LeaseInv'
    <2>1. CASE Tick /\ lease' = Null
      <3>1. ttl' = 0
        BY <2>1 DEF Tick, IInv, LeaseInv
      <3> QED
        BY <2>1, <3>1 DEF LeaseInv
    <2>2. CASE Tick /\ lease' = lease /\ lease # Null
      <3>1. ttl' \in 1..LeaseTicks
        BY <2>2, LeaseTicksAssumption DEF Tick, IInv, LeaseInv
      <3> QED
        BY <1>4, <2>2, <3>1, LeaseFrame
    <2>3. CASE UNCHANGED <<lease, ttl>>
      BY <1>4, <2>3, LeaseFrame
    <2> QED
      BY <2>1, <2>2, <2>3 DEF Environment, SnapshotEnds, SessionLapses, Tick
  <1> QED
    BY <1>1, <1>2, <1>4, <1>5, NoHandler

LEMMA NextCases ==
    ASSUME Next
    PROVE  \/ Environment
           \/ \E r \in Req :
                \/ \E d \in Device, s \in Session, m \in Media : OpenCreate(r, d, s, m)
                \/ OpenAcquire(r) \/ OpenAcquireFails(r) \/ OpenUndo(r) \/ OpenRevokePrev(r)
                \/ ReleaseLease(r) \/ ReleaseDrop(r) \/ ReleaseRevoke(r)
                \/ AdminForce(r) \/ ReportAuthorize(r) \/ Begins(r) \/ Ends(r)
  BY DEF Next, Environment, Arrive, Continue, Begins, Ends

LEMMA Inductive ==
    ASSUME IInv, [Next]_vars
    PROVE  IInv'
  <1>1. CASE UNCHANGED vars
    <2>1. Respectful /\ TypeOK'
      BY <1>1 DEF vars, IInv, TypeOK, Respectful, SessMono, PendingMono, LeaseMono, FateMono, At
    <2> QED
      BY <1>1, <2>1, LeaseFrame, NoHandler DEF vars
  <1>2. CASE Next
    BY <1>2, NextCases, EnvironmentStep, OpenCreateStep, OpenAcquireStep, OpenAcquireFailsStep,
       OpenUndoStep, OpenRevokePrevStep, ReleaseLeaseStep, ReleaseDropStep, ReleaseRevokeStep,
       AdminForceStep, ReportAuthorizeStep, BeginsStep, EndsStep
  <1> QED
    BY <1>1, <1>2

LEMMA InitInv == Init => IInv
  <1> SUFFICES ASSUME Init
               PROVE  IInv
    OBVIOUS
  <1>1. TypeOK
    BY TypeInit
  <1> QED
    BY <1>1 DEF Init, IInv, LeaseInv, KnownInv, AcquireOk, HandlerOk, OpenOk, CloseOk, DeviceOk, At

\* The inductive invariant, for every number of viewers, addresses, sessions
\* and requests.
THEOREM Invariant == Spec => []IInv
  BY InitInv, Inductive, PTL DEF Spec

-----------------------------------------------------------------------------
(* The safety properties *)

\* Every variable keeps its type, and no handler deletes the session that the
\* lease names.
THEOREM LeaseIsSafe == Spec => []LeaseSafe
  <1>1. IInv => LeaseSafe
    BY DEF IInv, LeaseInv, LeaseSafe, LeaseSessionUndeleted
  <1> QED
    BY <1>1, Invariant, PTL

\* What a step can do to the lease.
LEMMA LeaseSteps ==
    ASSUME IInv, Next
    PROVE  \/ UNCHANGED lease
           \/ \E r \in Req : OpenAcquire(r) \/ OpenAcquireFails(r)
           \/ \E r \in Req : ReleaseLease(r) \/ AdminForce(r)
           \/ Tick
  <1>1. CASE Environment
    BY <1>1 DEF Environment, SnapshotEnds, SessionLapses
  <1>2. ASSUME NEW r \in Req, NEW d \in Device, NEW s \in Session, NEW m \in Media,
               OpenCreate(r, d, s, m)
        PROVE  UNCHANGED lease
    BY <1>2 DEF OpenCreate
  <1>3. ASSUME NEW r \in Req,
               OpenUndo(r) \/ OpenRevokePrev(r) \/ ReleaseDrop(r) \/ ReleaseRevoke(r)
                 \/ ReportAuthorize(r)
        PROVE  UNCHANGED lease
    BY <1>3 DEF OpenUndo, OpenRevokePrev, ReleaseDrop, ReleaseRevoke, ReportAuthorize
  <1>4. ASSUME NEW r \in Req, Begins(r) \/ Ends(r)
        PROVE  UNCHANGED lease
    BY <1>4 DEF Begins, StreamBegin, HeartbeatBegin, ReleaseBegin, ReportBegin, AdminBegin,
       Ends, OpenReply, Refresh, AdminDrop, ReportWrite, Abort
  <1> QED
    BY <1>1, <1>2, <1>3, <1>4, NextCases

\* Before its time the lease ends only by the release of the session that
\* holds it or by an administrator.
THEOREM EndsEarly == Spec => EndsEarlyOnlyByOwner
  <1>1. ASSUME IInv, Next, lease # Null, lease' = Null, ttl > 1
        PROVE  \E r \in Req : \/ At(r, "force")
                              \/ At(r, "release") /\ req[r].session = lease.session
    <2>1. CASE Tick
      BY <1>1, <2>1 DEF Tick, IInv, TypeOK
    <2>2. ASSUME NEW r \in Req, OpenAcquire(r) \/ OpenAcquireFails(r)
          PROVE  FALSE
      <3>1. At(r, "acquire") /\ AcquireOk(r)
        BY <1>1, <2>2 DEF OpenAcquire, OpenAcquireFails, IInv
      <3>2. lease # Null => lease.session \in Session /\ sess[lease.session] # Null
        BY <1>1 DEF IInv, LeaseInv, Spent
      <3>3. TakeLease(req[r].device, req[r].session, req[r].media) \/ UNCHANGED lease
        BY <2>2 DEF OpenAcquire, OpenAcquireFails
      <3> QED
        BY <1>1, <3>1, <3>2, <3>3, TakeLeaseFacts, LeasedMediaAssumption DEF IInv, AcquireOk
    <2>3. ASSUME NEW r \in Req, ReleaseLease(r) \/ AdminForce(r)
          PROVE  At(r, "force") \/ (At(r, "release") /\ req[r].session = lease.session)
      BY <1>1, <2>3 DEF ReleaseLease, AdminForce, Holds
    <2> QED
      BY <1>1, <2>1, <2>2, <2>3, LeaseSteps
  <1> QED
    BY <1>1, Invariant, PTL DEF Spec, EndsEarlyOnlyByOwner

-----------------------------------------------------------------------------
(* The lease is an exclusive lease *)

LEMMA SpentSet ==
    \A s : s \in Minted \ Pending <=> Spent(s)
  BY DEF Minted, Pending, Spent

LEMMA HolderFields ==
    lease # Null => LeaseHolder = [device |-> lease.device, session |-> lease.session]
  BY DEF LeaseHolder

LEMMA AbstractInit == Init => Promise!Init
  BY DEF Init, Promise!Init, LeaseHolder, Minted

SameMinted == \A t \in Session : sess'[t] = Null <=> sess[t] = Null

LEMMA SpentKept ==
    ASSUME SameMinted, \A q \in Req : At(q, "acquire")' <=> At(q, "acquire"),
           \A q \in Req : At(q, "acquire") => req'[q] = req[q]
    PROVE  (Minted \ Pending)' = Minted \ Pending
  BY DEF SameMinted, Minted, Pending

LEMMA SpentGrows ==
    ASSUME IInv, SameMinted, NEW r \in Req, At(r, "acquire"), ~At(r, "acquire")',
           NEW s \in Session, s = req[r].session,
           \A q \in Req : q # r => req'[q] = req[q]
    PROVE  s \notin Minted \ Pending /\ (Minted \ Pending)' = (Minted \ Pending) \union {s}
  <1>1. sess[s] # Null /\ \A q \in Req : At(q, "acquire") /\ req[q].session = s => q = r
    BY DEF IInv, AcquireOk
  <1>2. \A q \in Req : q # r => (At(q, "acquire")' <=> At(q, "acquire"))
    BY DEF At
  <1>3. s \in Pending /\ Pending' = Pending \ {s}
    BY <1>1, <1>2 DEF Pending
  <1>4. Minted' = Minted /\ s \in Minted
    BY <1>1 DEF Minted, SameMinted
  <1> QED
    BY <1>3, <1>4

\* A step that touches neither the lease nor a request that is to acquire.
LEMMA StutterStep ==
    ASSUME UNCHANGED <<lease, ttl>>, SameMinted,
           \A q \in Req : At(q, "acquire")' <=> At(q, "acquire"),
           \A q \in Req : At(q, "acquire") => req'[q] = req[q]
    PROVE  UNCHANGED Promise!leaseVars
  BY SpentKept DEF Promise!leaseVars, LeaseHolder

\* Taking the lease maps to Acquire.
LEMMA AcquireStep ==
    ASSUME IInv, NEW r \in Req, At(r, "acquire"), ~At(r, "acquire")', SameMinted,
           NEW s \in Session, s = req[r].session, MayAcquire(req[r].device),
           TakeLease(req[r].device, s, req[r].media),
           \A q \in Req : q # r => req'[q] = req[q]
    PROVE  Promise!Acquire(req[r].device, s) /\ req[r].device \in Device
  <1> DEFINE d == req[r].device
             m == req[r].media
  <1>1. d \in Device /\ m \in Media
    BY LeasedMediaAssumption DEF IInv, AcquireOk
  <1>2. lease # Null => lease \in Lease /\ lease.session \in Session /\ sess[lease.session] # Null
    BY DEF IInv, TypeOK, LeaseInv, Spent
  <1>3. lease' # Null /\ lease' = [device |-> d, session |-> s, media |-> m] /\ ttl' = LeaseTicks
    BY <1>1, <1>2, TakeLeaseFacts DEF IInv
  <1>4. LeaseHolder' = [device |-> d, session |-> s]
    BY <1>3 DEF LeaseHolder
  <1>5. LeaseHolder = Null \/ LeaseHolder.device = d
    <2>1. CASE lease = Null
      BY <2>1 DEF LeaseHolder
    <2>2. CASE lease # Null
      <3>1. lease.device = d
        BY <1>1, <1>2, <2>2, DeviceParts DEF MayAcquire, Lease
      <3> QED
        BY <2>2, <3>1 DEF LeaseHolder
    <2> QED
      BY <2>1, <2>2
  <1>6. s \notin Minted \ Pending /\ (Minted \ Pending)' = (Minted \ Pending) \union {s}
    BY SpentGrows
  <1> QED
    BY <1>1, <1>3, <1>4, <1>5, <1>6 DEF Promise!Acquire, Promise!Free

\* A request that ends or fails before it took the lease maps to Discard.
LEMMA DiscardStep ==
    ASSUME IInv, NEW r \in Req, At(r, "acquire"), ~At(r, "acquire")',
           NEW s \in Session, s = req[r].session, UNCHANGED <<lease, ttl, sess>>,
           \A q \in Req : q # r => req'[q] = req[q]
    PROVE  Promise!Discard(s)
  <1>1. s \notin Minted \ Pending /\ (Minted \ Pending)' = (Minted \ Pending) \union {s}
    BY SpentGrows DEF SameMinted
  <1> QED
    BY <1>1 DEF Promise!Discard, LeaseHolder

LEMMA OpenCreateMaps ==
    ASSUME IInv, NEW r \in Req, NEW d \in Device, NEW s \in Session, NEW m \in Media,
           OpenCreate(r, d, s, m)
    PROVE  [Promise!Next]_(Promise!leaseVars)
  <1>1. sess[s] = Null /\ req[r] = Null /\ UNCHANGED <<lease, ttl>>
    BY DEF OpenCreate, Idle
  <1>2. Minted' = Minted \union {s} /\ s \notin Minted
    <2>1. sess' = [sess EXCEPT ![s] = [device |-> d, media |-> m, fate |-> "live"]]
      BY DEF OpenCreate
    <2>2. [device |-> d, media |-> m, fate |-> "live"] # Null
      BY NullAssumption DEF SessionRecord, Fate
    <2> QED
      BY <1>1, <2>1, <2>2 DEF IInv, TypeOK, Minted
  <1>3. s \notin Pending
    BY <1>1 DEF Pending, IInv, AcquireOk
  <1>4. CASE m \in LeasedMedia
    <2> DEFINE new == NewRequest("acquire", d, s, m)
    <2>1. new \in Request /\ new.at = "acquire" /\ new.session = s
      BY NewRequestType DEF Step, OpenSteps
    <2>2. Begin(r, new)
      BY <1>4 DEF OpenCreate
    <2> HIDE DEF new
    <2>3. req'[r] = new /\ req'[r] # Null /\ \A q \in Req : q # r => req'[q] = req[q]
      BY <2>1, <2>2, BeginFacts DEF IInv
    <2>4. Pending' = Pending \union {s}
      BY <1>1, <2>1, <2>3 DEF Pending, At
    <2>5. (Minted \ Pending)' = Minted \ Pending
      BY <1>2, <2>4
    <2> QED
      BY <1>1, <2>5 DEF Promise!leaseVars, LeaseHolder
  <1>5. CASE m \notin LeasedMedia
    <2>1. Pending' = Pending
      BY <1>5 DEF OpenCreate, Pending, At
    <2>2. (Minted \ Pending)' = (Minted \ Pending) \union {s}
      BY <1>2, <1>3, <2>1
    <2>3. Promise!Discard(s)
      BY <1>1, <1>2, <2>2 DEF Promise!Discard, LeaseHolder
    <2> QED
      BY <2>3 DEF Promise!Next
  <1> QED
    BY <1>4, <1>5

LEMMA OpenAcquireMaps ==
    ASSUME IInv, NEW r \in Req, OpenAcquire(r) \/ OpenAcquireFails(r)
    PROVE  Promise!Next
  <1>1. At(r, "acquire") /\ req[r] # Null /\ req[r] \in Request
    BY DEF OpenAcquire, OpenAcquireFails, IInv, TypeOK, At
  <1>2. PICK s \in Session : s = req[r].session
    BY <1>1 DEF IInv, AcquireOk
  <1>3. TypeOK' /\ SessMono
    BY OpenAcquireType, OpenAcquireFailsType DEF IInv
  <1>4. /\ \A q \in Req : q # r => req'[q] = req[q]
        /\ ~At(r, "acquire")'
    <2>1. CASE Goto(r, "undo")
      BY <1>1, <2>1, GotoFacts DEF IInv, Step, OpenSteps
    <2>2. CASE ~Goto(r, "undo")
      <3> DEFINE previous == IF lease = Null THEN Null ELSE lease.session
                 next == [req[r] EXCEPT !.prev = previous,
                            !.at = IF previous = Null THEN "reply" ELSE "revokePrev"]
      <3>1. req' = [req EXCEPT ![r] = next]
        BY <2>2 DEF OpenAcquire, OpenAcquireFails
      <3>2. next.at # "acquire"
        <4> HIDE DEF previous
        <4> QED
          BY <1>1 DEF Request
      <3> HIDE DEF next
      <3> QED
        BY <3>1, <3>2 DEF IInv, TypeOK, At
    <2> QED
      BY <2>1, <2>2
  <1>5. CASE MayAcquire(req[r].device) /\ TakeLease(req[r].device, s, req[r].media)
    <2>1. lease # Null => lease.session \in Session /\ sess[lease.session] # Null
      BY DEF IInv, LeaseInv, Spent
    <2>2. \A t \in Session : (lease # Null => t # lease.session) => sess'[t] = sess[t]
      BY <1>1, <1>2, <1>5, <2>1, TakeLeaseFacts, LeasedMediaAssumption DEF IInv, AcquireOk
    <2>3. SameMinted
      BY <1>3, <2>1, <2>2 DEF SameMinted, SessMono
    <2>4. Promise!Acquire(req[r].device, s) /\ req[r].device \in Device
      BY <1>1, <1>2, <1>4, <1>5, <2>3, AcquireStep
    <2> QED
      BY <2>4 DEF Promise!Next
  <1>6. CASE UNCHANGED <<lease, ttl, sess>>
    <2>1. Promise!Discard(s)
      BY <1>1, <1>2, <1>4, <1>6, DiscardStep
    <2> QED
      BY <2>1 DEF Promise!Next
  <1> QED
    BY <1>2, <1>5, <1>6 DEF OpenAcquire, OpenAcquireFails

\* A handler at another step goes on or ends.
LEMMA OtherRequests ==
    ASSUME IInv, NEW r \in Req, ~At(r, "acquire"),
           Finish(r) \/ \E step \in Step \ {"acquire"} : req[r] # Null /\ Goto(r, step)
    PROVE  /\ \A q \in Req : At(q, "acquire")' <=> At(q, "acquire")
           /\ \A q \in Req : At(q, "acquire") => req'[q] = req[q]
  <1>1. (\A q \in Req : q # r => req'[q] = req[q]) /\ ~At(r, "acquire")'
    <2>1. CASE Finish(r)
      BY <2>1, FinishFacts DEF IInv, At
    <2>2. ASSUME NEW step \in Step \ {"acquire"}, req[r] # Null, Goto(r, step)
          PROVE  (\A q \in Req : q # r => req'[q] = req[q]) /\ ~At(r, "acquire")'
      BY <2>2, GotoFacts DEF IInv, Step, OpenSteps
    <2> QED
      BY <2>1, <2>2
  <1> QED
    BY <1>1 DEF At

LEMMA HolderType ==
    ASSUME IInv, lease # Null
    PROVE  LeaseHolder \in Holder /\ LeaseHolder # Null
  <1>1. lease.device \in Device /\ lease.session \in Session
    BY DEF IInv, TypeOK, Lease
  <1>2. LeaseHolder = [device |-> lease.device, session |-> lease.session]
    BY DEF LeaseHolder
  <1>3. LeaseHolder \in Holder
    BY <1>1, <1>2 DEF Holder
  <1> QED
    BY <1>3, NullAssumption

LEMMA DeleteMaps ==
    ASSUME IInv, NEW r \in Req,
           OpenUndo(r) \/ OpenRevokePrev(r) \/ ReleaseRevoke(r)
    PROVE  UNCHANGED Promise!leaseVars
  <1>1. ~At(r, "acquire") /\ req[r] # Null /\ UNCHANGED <<lease, ttl>>
    BY DEF OpenUndo, OpenRevokePrev, ReleaseRevoke, At
  <1>2. /\ \A q \in Req : At(q, "acquire")' <=> At(q, "acquire")
        /\ \A q \in Req : At(q, "acquire") => req'[q] = req[q]
    BY <1>1, OtherRequests DEF OpenUndo, OpenRevokePrev, ReleaseRevoke, Step, OpenSteps
  <1>3. SameMinted
    <2>1. PICK s \in Session, fate \in Fate :
             Spent(s) /\ (Delete(s, fate) \/ UNCHANGED sess)
      BY DEF OpenUndo, OpenRevokePrev, ReleaseRevoke, Fate, IInv, HandlerOk, OpenOk, CloseOk, Spent
    <2>2. CASE Delete(s, fate)
      BY <2>1, <2>2, DeleteFacts DEF IInv, SameMinted, SessMono, Spent
    <2>3. CASE UNCHANGED sess
      BY <2>3 DEF SameMinted
    <2> QED
      BY <2>1, <2>2, <2>3
  <1> QED
    BY <1>1, <1>2, <1>3, StutterStep

LEMMA ReleaseMaps ==
    ASSUME IInv, NEW r \in Req, ReleaseLease(r) \/ AdminForce(r)
    PROVE  [Promise!Next]_(Promise!leaseVars)
  <1>1. ~At(r, "acquire") /\ req[r] # Null /\ SameMinted
    BY DEF ReleaseLease, AdminForce, At, SameMinted
  <1>2. /\ \A q \in Req : At(q, "acquire")' <=> At(q, "acquire")
        /\ \A q \in Req : At(q, "acquire") => req'[q] = req[q]
    BY <1>1, OtherRequests
       DEF ReleaseLease, AdminForce, Step, OpenSteps, CloseSteps, AdminSteps
  <1>3. CASE UNCHANGED <<lease, ttl>>
    BY <1>1, <1>2, <1>3, StutterStep
  <1>4. CASE lease # Null /\ FreeLease
    <2>1. LeaseHolder # Null
      BY <1>4, HolderType
    <2>2. LeaseHolder' = Null /\ ttl' = 0
      BY <1>4 DEF FreeLease, LeaseHolder
    <2>3. Promise!Vacate
      BY <1>1, <1>2, <2>1, <2>2, SpentKept DEF Promise!Vacate, Promise!Free
    <2> QED
      BY <2>3 DEF Promise!Next
  <1> QED
    BY <1>3, <1>4 DEF ReleaseLease, AdminForce, FreeLease, Holds, IInv, LeaseInv

LEMMA BeginsMaps ==
    ASSUME IInv, NEW r \in Req, Begins(r)
    PROVE  UNCHANGED Promise!leaseVars
  <1>1. req[r] = Null /\ UNCHANGED <<lease, ttl, sess>>
    BY DEF Begins, StreamBegin, HeartbeatBegin, ReleaseBegin, ReportBegin, AdminBegin, Idle
  <1>2. PendingMono
    BY BeginsType DEF IInv
  <1>3. \E new : Begin(r, new)
    BY DEF Begins, StreamBegin, HeartbeatBegin, ReleaseBegin, ReportBegin, AdminBegin
  <1>4. \A q \in Req : q # r => req'[q] = req[q]
    BY <1>3 DEF Begin, IInv, TypeOK
  <1>5. ~At(r, "acquire") /\ ~At(r, "acquire")'
    <2>1. CASE AdminBegin(r)
      <3> DEFINE q == [NewRequest("force", Null, Null, Null) EXCEPT !.seen = lease]
      <3>1. q.at = "force" /\ Begin(r, q)
        BY <2>1 DEF AdminBegin, NewRequest
      <3> HIDE DEF q
      <3> QED
        BY <1>1, <3>1 DEF Begin, IInv, TypeOK, At
    <2>2. ASSUME NEW d, NEW s, NEW m, NEW mediaTyped, NEW end,
                 ReportBegin(r, d, s, m, mediaTyped, end)
          PROVE  ~At(r, "acquire")'
      <3> DEFINE report == [NewRequest("authorize", d, s, m) EXCEPT !.seen = lease, !.end = end]
                 free == [report EXCEPT !.at = "write", !.session = Null]
      <3>1. report.at = "authorize" /\ free.at = "write"
        BY DEF NewRequest
      <3>2. Begin(r, report) \/ Begin(r, free)
        BY <2>2 DEF ReportBegin
      <3> HIDE DEF report, free
      <3> QED
        BY <3>1, <3>2 DEF Begin, IInv, TypeOK, At
    <2>3. ASSUME NEW step \in {"refresh", "release", "revoke"}, NEW d, NEW s, NEW m,
                 Begin(r, NewRequest(step, d, s, m))
          PROVE  ~At(r, "acquire")'
      <3> DEFINE q == NewRequest(step, d, s, m)
      <3>1. q.at = step
        BY DEF NewRequest
      <3>2. Begin(r, q)
        BY <2>3
      <3> HIDE DEF q
      <3> QED
        BY <3>1, <3>2 DEF Begin, IInv, TypeOK, At
    <2> QED
      BY <1>1, <2>1, <2>2, <2>3 DEF Begins, StreamBegin, HeartbeatBegin, ReleaseBegin, At
  <1>6. /\ \A q \in Req : At(q, "acquire")' <=> At(q, "acquire")
        /\ \A q \in Req : At(q, "acquire") => req'[q] = req[q]
    BY <1>4, <1>5 DEF At
  <1> QED
    BY <1>1, <1>6, StutterStep DEF SameMinted

LEMMA EndsMaps ==
    ASSUME IInv, NEW r \in Req, Ends(r)
    PROVE  [Promise!Next]_(Promise!leaseVars)
  <1>1. req[r] # Null /\ Finish(r) /\ UNCHANGED <<lease, sess>> /\ SameMinted
    BY DEF Ends, OpenReply, Refresh, AdminDrop, ReportWrite, Abort, At, Idle, SameMinted
  <1>2. CASE At(r, "acquire")
    <2>1. PICK s \in Session : s = req[r].session
      BY <1>2 DEF IInv, AcquireOk
    <2>2. req'[r] = Null /\ \A q \in Req : q # r => req'[q] = req[q]
      BY <1>1, FinishFacts DEF IInv
    <2>3. ttl' = ttl
      BY <1>2 DEF Ends, OpenReply, Refresh, AdminDrop, ReportWrite, Abort, At
    <2>4. Promise!Discard(s)
      BY <1>1, <1>2, <2>1, <2>2, <2>3, DiscardStep DEF At
    <2> QED
      BY <2>4 DEF Promise!Next
  <1>3. CASE ~At(r, "acquire")
    <2>1. /\ \A q \in Req : At(q, "acquire")' <=> At(q, "acquire")
          /\ \A q \in Req : At(q, "acquire") => req'[q] = req[q]
      BY <1>1, <1>3, OtherRequests
    <2>2. CASE ttl' = ttl
      BY <1>1, <2>1, <2>2, StutterStep
    <2>3. CASE lease # Null /\ ttl' = LeaseTicks
      <3>1. Promise!Renew
        BY <1>1, <2>1, <2>3, SpentKept, HolderType DEF Promise!Renew, Promise!Free, LeaseHolder
      <3> QED
        BY <3>1 DEF Promise!Next
    <2> QED
      BY <2>2, <2>3 DEF Ends, OpenReply, Refresh, Holds, AdminDrop, ReportWrite, Abort
  <1> QED
    BY <1>2, <1>3

LEMMA GoesOnMaps ==
    ASSUME IInv, NEW r \in Req, ReleaseDrop(r) \/ ReportAuthorize(r)
    PROVE  UNCHANGED Promise!leaseVars
  <1>1. ~At(r, "acquire") /\ req[r] # Null /\ UNCHANGED <<lease, ttl>> /\ SameMinted
    BY DEF ReleaseDrop, ReportAuthorize, At, SameMinted
  <1>2. /\ \A q \in Req : At(q, "acquire")' <=> At(q, "acquire")
        /\ \A q \in Req : At(q, "acquire") => req'[q] = req[q]
    BY <1>1, OtherRequests
       DEF ReleaseDrop, ReportAuthorize, Step, OpenSteps, CloseSteps, ReportSteps
  <1> QED
    BY <1>1, <1>2, StutterStep

LEMMA EnvironmentMaps ==
    ASSUME IInv, Environment
    PROVE  [Promise!Next]_(Promise!leaseVars)
  <1>1. /\ \A q \in Req : At(q, "acquire")' <=> At(q, "acquire")
        /\ \A q \in Req : At(q, "acquire") => req'[q] = req[q]
    BY DEF Environment, SnapshotEnds, SessionLapses, Tick, At
  <1>2. SameMinted
    <2>1. ASSUME NEW s \in Session, SessionLapses(s)
          PROVE  SameMinted
      <3>1. Delete(s, "lapsed") /\ sess[s] # Null /\ "lapsed" \in Fate
        BY <2>1 DEF SessionLapses, Delete, Readable, Fate
      <3> QED
        BY <3>1, DeleteFacts DEF IInv, SameMinted, SessMono
    <2> QED
      BY <2>1 DEF Environment, SnapshotEnds, Tick, SameMinted
  <1>3. CASE Tick
    <2>1. LeaseHolder # Null /\ lease # Null
      BY <1>3, HolderType DEF Tick
    <2>2. LeaseHolder' = IF ttl = 1 THEN Null ELSE LeaseHolder
      BY <1>3, <2>1 DEF Tick, LeaseHolder
    <2>3. Promise!Tick
      BY <1>1, <1>2, <1>3, <2>1, <2>2, SpentKept DEF Tick, Promise!Tick, Promise!Free
    <2> QED
      BY <2>3 DEF Promise!Next
  <1>4. CASE UNCHANGED <<lease, ttl>>
    BY <1>1, <1>2, <1>4, StutterStep
  <1> QED
    BY <1>3, <1>4 DEF Environment, SnapshotEnds, SessionLapses

\* Every step of the handlers is a step of the abstract lease or changes
\* nothing that it speaks of.
THEOREM Implements == Spec => ImplementsExclusiveLease
  <1>1. ASSUME IInv, [Next]_vars
        PROVE  [Promise!Next]_(Promise!leaseVars)
    <2>1. CASE UNCHANGED vars
      BY <2>1, StutterStep DEF vars, SameMinted, At
    <2>2. CASE Next
      BY <1>1, <2>2, NextCases, EnvironmentMaps, OpenCreateMaps, OpenAcquireMaps, DeleteMaps,
         ReleaseMaps, BeginsMaps, EndsMaps, GoesOnMaps
    <2> QED
      BY <1>1, <2>1, <2>2
  <1> QED
    BY <1>1, Invariant, AbstractInit, PTL DEF Spec, ImplementsExclusiveLease, Promise!Spec
=============================================================================

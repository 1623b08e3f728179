----------------------------- MODULE PlayerServer -----------------------------
(***************************************************************************)
(* The server as one player sees it: the lease, the player's sessions, and *)
(* its socket.  WebPlayer, PhonePlayer and DesktopPlayer are players.      *)
(*                                                                         *)
(* A session is acquired, released and bound in one step here; how the     *)
(* handlers do that is PlaybackLease's matter, and how news are sent that  *)
(* of PlaybackSocketHub and PlaybackFeed.                                  *)
(***************************************************************************)
EXTENDS Naturals, Sequences

CONSTANTS
    Clip,      \* media
    RivalClip, \* the medium that another device plays
    MaxTicket, \* sessions of this player (a bound)
    Rival,     \* the session of the other device
    NoOne,
    MaxNews    \* messages on the socket (a bound)

VARIABLES
    owner,     \* the session that the lease names
    valid,     \* this player's sessions that are in Redis
    clipOf,    \* the medium of each session, NoOne until it is created
    entry,     \* the server's entry of the socket: bound, revoked
    news,      \* what the server has sent on the socket
    online     \* is the socket ready?

serverVars == <<owner, valid, clipOf>>
wireVars == <<entry, news, online>>

-----------------------------------------------------------------------------
Ticket == 1..MaxTicket

ASSUME ServerAssumption ==
    /\ RivalClip \in Clip /\ NoOne \notin Clip
    /\ Rival \notin Ticket /\ NoOne \notin Ticket /\ Rival # NoOne

Message == [type : {"lost"}, session : Ticket] \union
           [type : {"state"}, state : {"available", "owned", "busy"}]

ServerTypeOK ==
    /\ owner \in Ticket \union {Rival, NoOne} /\ valid \subseteq Ticket
    /\ clipOf \in [Ticket -> Clip \union {NoOne}]
    /\ entry \in [bound : Ticket \union {NoOne}, revoked : Ticket \union {NoOne}]
    /\ news \in Seq(Message) /\ online \in BOOLEAN

Unbound == [bound |-> NoOne, revoked |-> NoOne]

ServerInit ==
    /\ owner = NoOne /\ valid = {} /\ clipOf = [t \in Ticket |-> NoOne]
    /\ entry = Unbound /\ news = <<>> /\ online = FALSE

-----------------------------------------------------------------------------
\* stateFor.  A holder that is busy is the rival.
Stated(e, holder) ==
    [type |-> "state",
     state |-> IF holder = NoOne THEN "available"
               ELSE IF holder # Rival /\ e.bound \in {NoOne, holder} /\ e.revoked # holder THEN "owned"
               ELSE "busy"]

\* The lease changes and every socket is told.
TellLease(holder) ==
    LET loses == entry.bound # NoOne /\ entry.bound # holder
        next == IF loses THEN [bound |-> NoOne, revoked |-> entry.bound] ELSE entry
    IN /\ owner' = holder /\ UNCHANGED online
       /\ IF online
            THEN /\ Len(news) < MaxNews /\ entry' = next
                 /\ news' = news \o (IF loses THEN <<[type |-> "lost", session |-> entry.bound]>> ELSE <<>>)
                                 \o <<Stated(next, holder)>>
            ELSE UNCHANGED <<entry, news>>

\* POST /media/:id/playback-session for one's own or no lease: the session
\* before is revoked.  Session ids are numbered as they are made.
Acquire(t, media) ==
    /\ owner # Rival /\ clipOf[t] = NoOne /\ \A u \in 1..(t - 1) : clipOf[u] # NoOne
    /\ clipOf' = [clipOf EXCEPT ![t] = media] /\ valid' = (valid \ {owner}) \union {t}
    /\ TellLease(t)

\* DELETE /playback/lease by its owner.
Release(t) ==
    /\ valid' = valid \ {t} /\ UNCHANGED clipOf
    /\ IF t # NoOne /\ owner = t THEN TellLease(NoOne) ELSE UNCHANGED <<owner, wireVars>>

\* DELETE /playback/lease/admin.
ForceRelease ==
    /\ UNCHANGED <<valid, clipOf>>
    /\ IF owner = NoOne THEN UNCHANGED <<owner, wireVars>> ELSE TellLease(NoOne)

\* Expiry, the rival's release or the administrator's.
LeaseEnds == owner # NoOne /\ TellLease(NoOne) /\ UNCHANGED <<valid, clipOf>>

RivalTakes == owner = NoOne /\ TellLease(Rival) /\ UNCHANGED <<valid, clipOf>>

\* session.bind, and the state that answers it.
Rebound(e, t) == IF owner = t THEN [bound |-> t, revoked |-> NoOne] ELSE e

BoundTo(t) ==
    IF ~online THEN UNCHANGED <<entry, news>>
    ELSE /\ Len(news) < MaxNews
         /\ entry' = Rebound(entry, t) /\ news' = Append(news, Stated(Rebound(entry, t), owner))

Arriving(type) == news # <<>> /\ Head(news).type = type
=============================================================================

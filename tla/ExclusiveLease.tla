--------------------------- MODULE ExclusiveLease ---------------------------
(***************************************************************************)
(* What the single playback lease promises, with no word about how Redis   *)
(* scripts and HTTP handlers provide it.                                   *)
(*                                                                         *)
(* One device at a time holds the lease, under one playback session.  The  *)
(* lease passes to another device only after it was given up, taken back   *)
(* or left unrenewed for LeaseTicks; a session that has had its chance to  *)
(* take the lease never gets another.                                      *)
(***************************************************************************)
EXTENDS Naturals

CONSTANTS
    Device,      \* a device is a (viewer id, client IP) pair
    Session,     \* playback session ids
    LeaseTicks,  \* life of an unrenewed lease, in ticks (at least 1)
    NoHolder     \* the value of holder when the lease is free

VARIABLES
    holder,      \* NoHolder, or the device and session that hold the lease
    ttl,         \* ticks left before an unrenewed lease ends; 0 when free
    spent        \* sessions that have had their chance to take the lease

leaseVars == <<holder, ttl, spent>>

Holder == [device : Device, session : Session]

Free == holder = NoHolder

Init ==
    /\ holder = NoHolder
    /\ ttl = 0
    /\ spent = {}

\* A device takes a free lease, or moves its own lease to a new session.
Acquire(d, s) ==
    /\ s \notin spent
    /\ Free \/ holder.device = d
    /\ holder' = [device |-> d, session |-> s]
    /\ ttl' = LeaseTicks
    /\ spent' = spent \union {s}

\* A session is used up without ever taking the lease.
Discard(s) ==
    /\ s \notin spent
    /\ spent' = spent \union {s}
    /\ UNCHANGED <<holder, ttl>>

Renew ==
    /\ ~Free
    /\ ttl' = LeaseTicks
    /\ UNCHANGED <<holder, spent>>

\* The holder gives the lease up, or an administrator takes it back.
Vacate ==
    /\ ~Free
    /\ holder' = NoHolder
    /\ ttl' = 0
    /\ UNCHANGED spent

\* Time passes; the tick that uses up the time to live ends the lease.
Tick ==
    /\ ~Free
    /\ ttl' = ttl - 1
    /\ holder' = IF ttl = 1 THEN NoHolder ELSE holder
    /\ UNCHANGED spent

Next ==
    \/ \E d \in Device, s \in Session : Acquire(d, s)
    \/ \E s \in Session : Discard(s)
    \/ Renew
    \/ Vacate
    \/ Tick

Spec == Init /\ [][Next]_leaseVars
=============================================================================

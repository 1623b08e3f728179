----------------------------- MODULE AccessCache -----------------------------
(***************************************************************************)
(* The access check of every API request (plugins/auth.js) and the         *)
(* whitelist it reads: the cache of answers with its age limit and size    *)
(* limit, the first-run initialization, and the administrator's changes.   *)
(*                                                                         *)
(* An action is one SQL statement with the code up to the next await; what *)
(* the plugin does between two awaits is one step, since it runs in one    *)
(* Node process.  Time is counted in ticks, of which an entry of the cache *)
(* lives CacheTicks.  Abstractions: an address lies in its own range and   *)
(* in one subnet; descriptions, headers and the host's own addresses.      *)
(***************************************************************************)
EXTENDS Naturals, Sequences, FiniteSets, SequencesExt

CONSTANTS
    Client,      \* addresses
    Call,        \* requests between arrival and answer (a bound)
    Grant,       \* tiers that an administrator gives
    CacheTicks,  \* cacheTtlMs
    CacheLimit,  \* cacheLimit
    MaxChanges,  \* changes of the whitelist (a bound)
    Subnet,      \* the range that holds every client
    NoTier       \* no row: access denied

Admin999 == 999   \* the tier of whoever asks first
Home == 0         \* the tier of the private subnets

ASSUME AccessAssumption ==
    /\ CacheTicks \in Nat \ {0} /\ CacheLimit \in Nat \ {0} /\ MaxChanges \in Nat
    /\ Grant \subseteq Nat /\ Subnet \notin Client /\ NoTier \notin Nat
    /\ IsFiniteSet(Call)

VARIABLES
    whitelist,       \* ip_whitelist: each range's tier
    whitelistEmpty,  \* as the plugin believes
    firstRun,        \* firstRunPromise: who is being added and what comes next
    accessCache,     \* the Map, in insertion order
    call,            \* requests under way
    firsts,          \* requests answered as the first run (history)
    spoiled,         \* whose initialization failed and left them a row (history)
    clearing,        \* a change is stored and the cache not yet cleared
    changes          \* changes so far

accessVars == <<whitelist, whitelistEmpty, firstRun, accessCache, call, firsts, spoiled,
                clearing, changes>>

-----------------------------------------------------------------------------
Tiers == Grant \union {Admin999, Home, NoTier}
Entry == [ip : Client, tier : Tiers, age : 0..CacheTicks]
NoCall == [at |-> "none"]
NoRun == [step |-> "none"]
CallState == {NoCall} \union
    [at : {"first", "wait", "look", "select", "store"}, ip : Client, tier : Tiers]
FirstRun == {NoRun} \union [step : {"client", "subnet"}, ip : Client]

AccessTypeOK ==
    /\ whitelist \in [Client \union {Subnet} -> Tiers]
    /\ whitelistEmpty \in BOOLEAN /\ clearing \in BOOLEAN
    /\ firstRun \in FirstRun
    /\ accessCache \in Seq(Entry) /\ Len(accessCache) <= CacheLimit
    /\ \A i, j \in DOMAIN accessCache : i # j => accessCache[i].ip # accessCache[j].ip
    /\ call \in [Call -> CallState]
    /\ firsts \in Nat /\ spoiled \subseteq Client /\ changes \in 0..MaxChanges

AccessInit ==
    /\ whitelist \in {[r \in Client \union {Subnet} |-> NoTier],
                      [r \in Client \union {Subnet} |-> IF r = Subnet THEN Home ELSE NoTier]}
    /\ whitelistEmpty = (whitelist[Subnet] = NoTier)
    /\ firstRun = NoRun /\ accessCache = <<>>
    /\ call = [q \in Call |-> NoCall]
    /\ firsts = 0 /\ spoiled = {} /\ clearing = FALSE /\ changes = 0

\* ORDER BY masklen(cidr_range) DESC
Lookup(ip) == IF whitelist[ip] # NoTier THEN whitelist[ip] ELSE whitelist[Subnet]

Cached(ip) == {i \in DOMAIN accessCache : accessCache[i].ip = ip}
Live(e) == e.age < CacheTicks
Turn(q, step) == call' = [call EXCEPT ![q].at = step]
Answered(q) == call' = [call EXCEPT ![q] = NoCall]
TableStays == UNCHANGED <<whitelist, whitelistEmpty, firstRun, firsts, spoiled, clearing, changes>>

-----------------------------------------------------------------------------
(* The hook *)

\* The changes of the whitelist come one at a time.  Arrival and look-up are two
\* steps here for the sake of those who wait; nothing is held between them.
\* A request finds the table empty: the first starts the initialization, the
\* others wait for it.
AskFirst(q, ip) ==
    /\ call[q] = NoCall /\ whitelistEmpty
    /\ call' = [call EXCEPT ![q] = [at |-> IF firstRun = NoRun THEN "first" ELSE "wait",
                                    ip |-> ip, tier |-> NoTier]]
    /\ firstRun' = IF firstRun = NoRun THEN [step |-> "client", ip |-> ip] ELSE firstRun
    /\ UNCHANGED <<whitelist, whitelistEmpty, accessCache, firsts, spoiled, clearing, changes>>

Ask(q, ip) ==
    /\ call[q] = NoCall /\ ~whitelistEmpty
    /\ call' = [call EXCEPT ![q] = [at |-> "look", ip |-> ip, tier |-> NoTier]]
    /\ TableStays /\ UNCHANGED accessCache

\* Mutant: a hit counts as fresh.
HitRenews(q) ==
    LET ip == call[q].ip IN
    /\ call[q].at = "look"
    /\ \E i \in Cached(ip) :
          /\ Live(accessCache[i]) /\ Answered(q)
          /\ accessCache' = Append(RemoveAt(accessCache, i), [accessCache[i] EXCEPT !.age = 0])
    /\ TableStays

\* A hit moves the entry to the end and leaves its age.
Hit(q) ==
    LET ip == call[q].ip IN
    /\ call[q].at = "look"
    /\ \E i \in Cached(ip) :
          /\ Live(accessCache[i]) /\ Answered(q)
          /\ accessCache' = Append(RemoveAt(accessCache, i), accessCache[i])
    /\ TableStays

Miss(q) ==
    LET ip == call[q].ip IN
    /\ call[q].at = "look"
    /\ \/ Cached(ip) = {} /\ UNCHANGED accessCache
       \/ \E i \in Cached(ip) : ~Live(accessCache[i]) /\ accessCache' = RemoveAt(accessCache, i)
    /\ Turn(q, "select")
    /\ TableStays

SelectTier(q) ==
    /\ call[q].at = "select"
    /\ call' = [call EXCEPT ![q].at = "store", ![q].tier = Lookup(call[q].ip)]
    /\ TableStays /\ UNCHANGED accessCache

\* cacheAccess: at the limit the oldest key goes first; a key that is there
\* keeps its place.
StoreTier(q) ==
    LET entry == [ip |-> call[q].ip, tier |-> call[q].tier, age |-> 0]
        kept == IF Len(accessCache) >= CacheLimit THEN Tail(accessCache) ELSE accessCache
    IN /\ call[q].at = "store" /\ Answered(q)
       /\ accessCache' = IF \E i \in DOMAIN kept : kept[i].ip = entry.ip
                           THEN [i \in DOMAIN kept |-> IF kept[i].ip = entry.ip THEN entry ELSE kept[i]]
                           ELSE Append(kept, entry)
       /\ TableStays

-----------------------------------------------------------------------------
(* initializeWhitelist: INSERT ... ON CONFLICT DO NOTHING *)

FirstClient ==
    /\ firstRun.step = "client" /\ firstRun' = [firstRun EXCEPT !.step = "subnet"]
    /\ whitelist' = IF whitelist[firstRun.ip] = NoTier
                      THEN [whitelist EXCEPT ![firstRun.ip] = Admin999] ELSE whitelist
    /\ UNCHANGED <<whitelistEmpty, accessCache, call, firsts, spoiled, clearing, changes>>

\* Mutant: the plugin goes on believing the table to be empty.
FirstSubnetAgain ==
    /\ firstRun.step = "subnet" /\ firstRun' = NoRun
    /\ whitelist' = IF whitelist[Subnet] = NoTier THEN [whitelist EXCEPT ![Subnet] = Home] ELSE whitelist
    /\ UNCHANGED whitelistEmpty /\ accessCache' = <<>>
    /\ firsts' = firsts + Cardinality({q \in Call : call[q].at = "first"})
    /\ call' = [q \in Call |-> CASE call[q].at = "first" -> NoCall
                                 [] call[q].at = "wait" -> [call[q] EXCEPT !.at = "look"]
                                 [] OTHER -> call[q]]
    /\ UNCHANGED <<spoiled, clearing, changes>>

\* The last INSERT; then the first request is answered and the others look.
FirstSubnet ==
    /\ firstRun.step = "subnet" /\ firstRun' = NoRun
    /\ whitelist' = IF whitelist[Subnet] = NoTier THEN [whitelist EXCEPT ![Subnet] = Home] ELSE whitelist
    /\ whitelistEmpty' = FALSE /\ accessCache' = <<>>
    /\ firsts' = firsts + Cardinality({q \in Call : call[q].at = "first"})
    /\ call' = [q \in Call |-> CASE call[q].at = "first" -> NoCall
                                 [] call[q].at = "wait" -> [call[q] EXCEPT !.at = "look"]
                                 [] OTHER -> call[q]]
    /\ UNCHANGED <<spoiled, clearing, changes>>

\* An INSERT fails: every request that waits fails, the next one starts again,
\* whoever sends it.  What has been inserted stays, the first client's row of
\* tier 999 among it, and the plugin still believes the table to be empty.
FirstFails ==
    /\ firstRun # NoRun /\ firstRun' = NoRun
    /\ call' = [q \in Call |-> IF call[q].at \in {"first", "wait"} THEN NoCall ELSE call[q]]
    /\ spoiled' = IF firstRun.step = "subnet" THEN spoiled \union {firstRun.ip} ELSE spoiled
    /\ UNCHANGED <<whitelist, whitelistEmpty, accessCache, firsts, clearing, changes>>

-----------------------------------------------------------------------------
(* POST and DELETE /api/whitelist, from the machine itself *)

AddRange(r, tier) ==
    /\ ~clearing /\ changes < MaxChanges /\ whitelist[r] = NoTier
    /\ whitelist' = [whitelist EXCEPT ![r] = tier]
    /\ clearing' = TRUE /\ changes' = changes + 1
    /\ UNCHANGED <<whitelistEmpty, firstRun, accessCache, call, firsts, spoiled>>

RemoveRange(r) ==
    /\ ~clearing /\ changes < MaxChanges /\ whitelist[r] # NoTier
    /\ whitelist' = [whitelist EXCEPT ![r] = NoTier]
    /\ clearing' = TRUE /\ changes' = changes + 1
    /\ UNCHANGED <<whitelistEmpty, firstRun, accessCache, call, firsts, spoiled>>

ClearCache ==
    /\ clearing /\ clearing' = FALSE /\ accessCache' = <<>>
    /\ UNCHANGED <<whitelist, whitelistEmpty, firstRun, call, firsts, spoiled, changes>>

AccessTick ==
    /\ \E i \in DOMAIN accessCache : Live(accessCache[i])
    /\ accessCache' = [i \in DOMAIN accessCache |->
          [accessCache[i] EXCEPT !.age = IF Live(accessCache[i]) THEN @ + 1 ELSE @]]
    /\ TableStays /\ UNCHANGED call

-----------------------------------------------------------------------------
Answering(q) == Hit(q) \/ Miss(q) \/ SelectTier(q) \/ StoreTier(q)

AccessNext ==
    \/ \E q \in Call :
          \/ \E ip \in Client : AskFirst(q, ip) \/ Ask(q, ip)
          \/ Answering(q)
    \/ FirstClient \/ FirstSubnet \/ FirstFails
    \/ \E r \in Client \union {Subnet} : RemoveRange(r) \/ \E tier \in Grant : AddRange(r, tier)
    \/ ClearCache \/ AccessTick

\* Time passes, and an administrator's request goes on.
AccessFairness == WF_accessVars(ClearCache) /\ WF_accessVars(AccessTick)

AccessSpec == AccessInit /\ [][AccessNext]_accessVars /\ AccessFairness

-----------------------------------------------------------------------------
Admins == {c \in Client : whitelist[c] = Admin999}

\* However many requests arrive while the table is empty, and however often the
\* initialization fails, one request is answered as the first run; and unless an
\* administrator gives tier 999 away, one client has it in the table, beside
\* those whose initialization failed behind its first INSERT: theirs stays there
\* (auth.js:107-137, 162-171).
FirstRunOnce ==
    /\ firsts <= 1
    /\ Admin999 \notin Grant => \A c, d \in Admins \ spoiled : c = d

\* After the administrator's last change every answer comes to agree with the
\* table: a lookup that was under way when the cache was cleared stores what it
\* read before, and requests that keep hitting it do not keep it alive
\* (auth.js:175).
GrantsCatchUp ==
    <>[](\A i \in DOMAIN accessCache :
            Live(accessCache[i]) => accessCache[i].tier = Lookup(accessCache[i].ip))

\* What holds in every state of the access check.
AccessInv == AccessTypeOK /\ FirstRunOnce
=============================================================================

--------------------------- MODULE Services_proofs ---------------------------
(***************************************************************************)
(* Proofs about the services that share nothing but the process.           *)
(*                                                                         *)
(* AccessCache: its types, among them that the cache holds one entry for   *)
(* an address and never more than its limit, and that one request is       *)
(* answered as the first run and one client made the administrator, beside *)
(* those that failures left in the table.  The invariant ties the promise  *)
(* of the first run to the requests and to the table: while it is pending  *)
(* the table counts as empty, nobody has been answered as the first,       *)
(* exactly one request is going to be, and no row but its client's is new. *)
(*                                                                         *)
(* OfflineSync: its types, and that no event is lost.  The invariant says  *)
(* what a sync request has made sure of at each of its steps: what was     *)
(* inserted is in playback_events from then on, and a request that was     *)
(* accepted is past its INSERT, so that whatever it sent is there when its *)
(* answer arrives and its rows may be deleted.                             *)
(*                                                                         *)
(* MusicReel: its types, and that a reel that says it is ready can be      *)
(* served.  The invariant says why no cleanup takes its video away: what a *)
(* cleanup has selected is past its life for good, and the video that a    *)
(* worker has put in place stays until the row says so.                    *)
(*                                                                         *)
(* Wrapped: that the lock opens once in a period, from what its row says,  *)
(* that no edits leave a report out of order, and that the statistics are  *)
(* what they say for every log.  Of the loop over the sorted events the    *)
(* proof says, after n of them, that what is open of a device and track is *)
(* its last event if that is a play, and that the sums are those of the    *)
(* segments that have been closed; of the loop over the days, that the     *)
(* current run ends with the n-th and could not begin earlier.  Both are   *)
(* inductions: the least n after which it failed would have one before it. *)
(*                                                                         *)
(* Lyrics: its types, that an upload stands, that words are stored under   *)
(* their own title, and that every answer fits who asked.  The invariant   *)
(* says whose the words are that a request carries from one of its awaits  *)
(* to the next, and that it has met the upload that is stored, if one is:  *)
(* otherwise it would have answered with it at once.  The lines of a timed *)
(* text come in order, and each has ended when a later time begins.        *)
(*                                                                         *)
(* Sorting, for the last two: of a finite set and an order without ties    *)
(* each rank is somebody's, and ranks follow the order.                    *)
(***************************************************************************)
EXTENDS AccessCache, OfflineSync, MusicReel, Wrapped, Lyrics, SequenceTheorems,
        FiniteSetTheorems, WellFoundedInduction, TLAPS

-----------------------------------------------------------------------------
(* Access: the invariant *)

FirstCalls == {q \in Call : call[q].at = "first"}

FirstRunOk ==
    /\ firstRun = NoRun => FirstCalls = {}
    /\ firstRun # NoRun => \E q \in Call : FirstCalls = {q}
    /\ firstRun # NoRun => whitelistEmpty
    /\ whitelistEmpty => firsts = 0
    /\ firsts <= 1

\* While the table counts as empty, the one row of tier 999 that no failure has
\* left is that of the initialization that is past its first INSERT.
AdminsOk ==
    Admin999 \notin Grant =>
        /\ whitelistEmpty =>
              \A c \in Admins \ spoiled : firstRun.step = "subnet" /\ firstRun.ip = c
        /\ \A c, d \in Admins \ spoiled : c = d

AccessIInv == AccessTypeOK /\ FirstRunOk /\ AdminsOk

-----------------------------------------------------------------------------
(* The cache as a sequence *)

\* What a Map in the order of insertion is: within the limit, one entry a key.
IsCache(cache) ==
    /\ cache \in Seq(Entry)
    /\ Len(cache) <= CacheLimit
    /\ \A i, j \in 1..Len(cache) : i # j => cache[i].ip # cache[j].ip

OtherTypes ==
    /\ whitelist \in [Client \union {Subnet} -> Tiers]
    /\ whitelistEmpty \in BOOLEAN /\ clearing \in BOOLEAN
    /\ firstRun \in FirstRun /\ call \in [Call -> CallState]
    /\ firsts \in Nat /\ spoiled \subseteq Client /\ changes \in 0..MaxChanges

LEMMA TypeParts == AccessTypeOK <=> IsCache(accessCache) /\ OtherTypes
  <1>1. accessCache \in Seq(Entry) => DOMAIN accessCache = 1..Len(accessCache)
    BY LenProperties
  <1> QED
    BY <1>1 DEF AccessTypeOK, IsCache, OtherTypes

LEMMA RemoveAtFacts ==
    ASSUME NEW S, NEW s \in Seq(S), NEW i \in 1..Len(s)
    PROVE  /\ RemoveAt(s, i) \in Seq(S)
           /\ Len(RemoveAt(s, i)) = Len(s) - 1
           /\ \A k \in 1..Len(s) - 1 : RemoveAt(s, i)[k] = IF k < i THEN s[k] ELSE s[k + 1]
  <1> DEFINE before == SubSeq(s, 1, i - 1)
             after == SubSeq(s, i + 1, Len(s))
  <1>1. Len(s) \in Nat /\ i \in Nat /\ \A k \in 1..Len(s) : s[k] \in S
    BY LenProperties, ElementOfSeq
  <1>2. /\ before \in Seq(S) /\ Len(before) = i - 1
        /\ \A k \in 1..i - 1 : before[k] = s[k]
    <2>1. \A k \in 1..i - 1 : s[k] \in S
      BY <1>1
    <2>2. /\ before \in Seq(S) /\ Len(before) = (IF 1 <= i - 1 THEN i - 1 - 1 + 1 ELSE 0)
          /\ \A k \in 1..(i - 1) - 1 + 1 : before[k] = s[1 + k - 1]
      BY <1>1, <2>1, SubSeqProperties
    <2> QED
      BY <1>1, <2>2
  <1>3. /\ after \in Seq(S) /\ Len(after) = Len(s) - i
        /\ \A k \in 1..Len(s) - i : after[k] = s[i + k]
    <2>1. \A k \in i + 1..Len(s) : s[k] \in S
      BY <1>1
    <2>2. /\ after \in Seq(S)
          /\ Len(after) = (IF i + 1 <= Len(s) THEN Len(s) - (i + 1) + 1 ELSE 0)
          /\ \A k \in 1..Len(s) - (i + 1) + 1 : after[k] = s[(i + 1) + k - 1]
      BY <1>1, <2>1, SubSeqProperties
    <2> HIDE DEF after
    <2> QED
      BY <1>1, <2>2
  <1>4. /\ RemoveAt(s, i) \in Seq(S)
        /\ Len(RemoveAt(s, i)) = Len(before) + Len(after)
        /\ \A k \in 1..Len(before) + Len(after) :
              RemoveAt(s, i)[k] = IF k <= Len(before) THEN before[k] ELSE after[k - Len(before)]
    BY <1>2, <1>3, ConcatProperties DEF RemoveAt
  <1> HIDE DEF before, after
  <1>5. ASSUME NEW k \in 1..Len(s) - 1
        PROVE  RemoveAt(s, i)[k] = IF k < i THEN s[k] ELSE s[k + 1]
    <2> DEFINE rest == RemoveAt(s, i)
    <2>3. rest[k] = IF k <= i - 1 THEN before[k] ELSE after[k - (i - 1)]
      <3>1. Len(before) + Len(after) = Len(s) - 1 /\ Len(before) = i - 1
        BY <1>1, <1>2, <1>3
      <3> QED
        BY <1>4, <3>1
    <2> HIDE DEF rest
    <2>1. CASE k < i
      <3>1. k \in 1..i - 1 /\ k <= i - 1
        BY <1>1, <2>1
      <3> QED
        BY <1>2, <2>1, <2>3, <3>1 DEF rest
    <2>2. CASE k >= i
      <3>1. rest[k] = after[k - (i - 1)] /\ k - (i - 1) \in 1..Len(s) - i
        BY <1>1, <2>2, <2>3
      <3>2. after[k - (i - 1)] = s[i + (k - (i - 1))] /\ i + (k - (i - 1)) = k + 1
        BY <1>1, <1>3, <3>1
      <3> QED
        BY <1>1, <2>2, <3>1, <3>2 DEF rest
    <2> QED
      BY <1>1, <2>1, <2>2
  <1> QED
    BY <1>1, <1>2, <1>3, <1>4, <1>5

\* What cache.delete(key) leaves is a cache without the key.
LEMMA DeleteFacts ==
    ASSUME NEW cache, IsCache(cache), NEW i \in 1..Len(cache)
    PROVE  /\ IsCache(RemoveAt(cache, i))
           /\ Len(RemoveAt(cache, i)) = Len(cache) - 1
           /\ \A k \in 1..Len(cache) - 1 : RemoveAt(cache, i)[k].ip # cache[i].ip
  <1> DEFINE rest == RemoveAt(cache, i)
  <1>1. /\ rest \in Seq(Entry) /\ Len(rest) = Len(cache) - 1
        /\ \A k \in 1..Len(cache) - 1 : rest[k] = IF k < i THEN cache[k] ELSE cache[k + 1]
    BY RemoveAtFacts DEF IsCache
  <1>2. Len(cache) \in Nat /\ CacheLimit \in Nat
    BY LenProperties, AccessAssumption DEF IsCache
  <1> HIDE DEF rest
  <1>3. ASSUME NEW j \in 1..Len(rest), NEW k \in 1..Len(rest), j # k
        PROVE  rest[j].ip # rest[k].ip
    <2> DEFINE from(n) == IF n < i THEN n ELSE n + 1
    <2>1. ASSUME NEW n \in 1..Len(rest)
          PROVE  from(n) \in 1..Len(cache) /\ rest[n] = cache[from(n)]
      <3>1. n \in 1..Len(cache) - 1 /\ n \in 1..Len(cache) /\ n + 1 \in 1..Len(cache)
        BY <1>1, <1>2
      <3>2. rest[n] = IF n < i THEN cache[n] ELSE cache[n + 1]
        BY <1>1, <3>1
      <3> QED
        BY <3>1, <3>2
    <2>2. from(j) # from(k)
      BY <1>1, <1>2, <1>3
    <2> HIDE DEF from
    <2> QED
      BY <2>1, <2>2 DEF IsCache
  <1>4. \A k \in 1..Len(cache) - 1 : rest[k].ip # cache[i].ip
    BY <1>1, <1>2 DEF IsCache
  <1>5. Len(rest) <= CacheLimit
    BY <1>1, <1>2 DEF IsCache
  <1> QED
    BY <1>1, <1>3, <1>4, <1>5 DEF IsCache, rest

\* cache.set(key, value) of a key that is not there, below the limit.
LEMMA InsertFacts ==
    ASSUME NEW cache, IsCache(cache), Len(cache) < CacheLimit, NEW e \in Entry,
           \A k \in 1..Len(cache) : cache[k].ip # e.ip
    PROVE  IsCache(Append(cache, e))
  <1>1. Len(cache) \in Nat /\ CacheLimit \in Nat
    BY LenProperties, AccessAssumption DEF IsCache
  <1>2. /\ Append(cache, e) \in Seq(Entry) /\ Len(Append(cache, e)) = Len(cache) + 1
        /\ \A k \in 1..Len(cache) : Append(cache, e)[k] = cache[k]
        /\ Append(cache, e)[Len(cache) + 1] = e
    BY AppendProperties DEF IsCache
  <1> QED
    BY <1>1, <1>2 DEF IsCache

\* The first key goes.
LEMMA EvictFacts ==
    ASSUME NEW cache, IsCache(cache), cache # <<>>
    PROVE  IsCache(Tail(cache)) /\ Len(Tail(cache)) = Len(cache) - 1
  <1>1. Len(cache) \in Nat /\ CacheLimit \in Nat
    BY LenProperties, AccessAssumption DEF IsCache
  <1>2. /\ Tail(cache) \in Seq(Entry) /\ Len(Tail(cache)) = Len(cache) - 1
        /\ \A k \in 1..Len(Tail(cache)) : Tail(cache)[k] = cache[k + 1]
    BY HeadTailProperties DEF IsCache
  <1> QED
    BY <1>1, <1>2 DEF IsCache

\* A change of the entries that leaves their keys.
LEMMA RewriteFacts ==
    ASSUME NEW cache, IsCache(cache), NEW new, DOMAIN new = 1..Len(cache),
           new = [k \in 1..Len(cache) |-> new[k]],
           \A k \in 1..Len(cache) : new[k] \in Entry /\ new[k].ip = cache[k].ip
    PROVE  IsCache(new)
  <1>1. Len(cache) \in Nat
    BY LenProperties DEF IsCache
  <1>2. new \in [1..Len(cache) -> Entry]
    BY <1>1
  <1>3. new \in Seq(Entry) /\ Len(new) = Len(cache)
    BY <1>1, <1>2
  <1> QED
    BY <1>1, <1>3 DEF IsCache

LEMMA EmptyCache == IsCache(<<>>)
  BY EmptySeq, AccessAssumption DEF IsCache

-----------------------------------------------------------------------------
(* Steps that leave the first run alone *)

\* Neither who is asking for the first run nor what it has come to changes.
LEMMA FirstRunStays ==
    ASSUME FirstRunOk, UNCHANGED <<firstRun, whitelistEmpty, firsts>>,
           \A q \in Call : call'[q].at = "first" <=> call[q].at = "first"
    PROVE  FirstRunOk'
  <1>1. FirstCalls' = FirstCalls
    BY DEF FirstCalls
  <1> QED
    BY <1>1 DEF FirstRunOk

\* Nobody becomes an administrator, and the first run does not end.
LEMMA AdminsStay ==
    ASSUME AdminsOk, UNCHANGED <<firstRun, whitelistEmpty, spoiled>>, Admins' \subseteq Admins
    PROVE  AdminsOk'
  BY DEF AdminsOk

\* A request goes from one step, behind the first run, to another.
LEMMA CallStep ==
    ASSUME AccessIInv, NEW q \in Call, NEW next \in CallState,
           call' = [call EXCEPT ![q] = next], call[q].at # "first", next.at # "first",
           TableStays, IsCache(accessCache')
    PROVE  AccessIInv'
  <1>1. /\ call' \in [Call -> CallState]
        /\ \A p \in Call : call'[p] = IF p = q THEN next ELSE call[p]
    BY DEF AccessIInv, AccessTypeOK
  <1>2. OtherTypes'
    BY <1>1, TypeParts DEF AccessIInv, OtherTypes, TableStays
  <1>3. FirstRunOk'
    BY <1>1, FirstRunStays DEF AccessIInv, TableStays
  <1>4. (AccessTypeOK <=> IsCache(accessCache) /\ OtherTypes)'
    BY TypeParts, PTL
  <1>5. AdminsOk'
    BY AdminsStay DEF AccessIInv, TableStays, Admins
  <1> QED
    BY <1>2, <1>3, <1>4, <1>5 DEF AccessIInv

LEMMA TypePartsPrime == AccessTypeOK' <=> IsCache(accessCache') /\ OtherTypes'
  <1>1. (AccessTypeOK <=> IsCache(accessCache) /\ OtherTypes)'
    BY TypeParts, PTL
  <1> QED
    BY <1>1 DEF IsCache

\* What a request that is under way knows.
LEMMA CallFacts ==
    ASSUME AccessTypeOK, NEW q \in Call, call[q].at \in {"look", "select", "store"}
    PROVE  /\ call[q] \in [at : {"first", "wait", "look", "select", "store"},
                           ip : Client, tier : Tiers]
           /\ call[q].ip \in Client /\ call[q].tier \in Tiers
  BY DEF AccessTypeOK, CallState, NoCall

LEMMA HitKeeps ==
    ASSUME AccessIInv, NEW q \in Call, Hit(q)
    PROVE  AccessIInv'
  <1>1. PICK i \in Cached(call[q].ip) :
           accessCache' = Append(RemoveAt(accessCache, i), accessCache[i])
    BY DEF Hit
  <1>2. IsCache(accessCache) /\ i \in 1..Len(accessCache)
    BY <1>1, TypeParts, LenProperties DEF AccessIInv, Cached, IsCache
  <1>3. accessCache[i] \in Entry
    BY <1>2, ElementOfSeq DEF IsCache
  <1> DEFINE rest == RemoveAt(accessCache, i)
  <1>4. /\ IsCache(rest) /\ Len(rest) = Len(accessCache) - 1
        /\ \A k \in 1..Len(rest) : rest[k].ip # accessCache[i].ip
    BY <1>2, DeleteFacts
  <1>5. Len(rest) < CacheLimit
    BY <1>2, <1>4, LenProperties, AccessAssumption DEF IsCache
  <1>6. IsCache(accessCache')
    BY <1>1, <1>3, <1>4, <1>5, InsertFacts
  <1>7. /\ call' = [call EXCEPT ![q] = NoCall] /\ call[q].at = "look" /\ TableStays
        /\ NoCall \in CallState /\ NoCall.at # "first"
    BY DEF Hit, Answered, CallState, NoCall
  <1> QED
    BY <1>6, <1>7, CallStep

LEMMA MissKeeps ==
    ASSUME AccessIInv, NEW q \in Call, Miss(q)
    PROVE  AccessIInv'
  <1>1. IsCache(accessCache) /\ DOMAIN accessCache = 1..Len(accessCache)
    BY TypeParts, LenProperties DEF AccessIInv, IsCache
  <1>2. IsCache(accessCache')
    <2>1. CASE UNCHANGED accessCache
      BY <1>1, <2>1
    <2>2. ASSUME NEW i \in Cached(call[q].ip), accessCache' = RemoveAt(accessCache, i)
          PROVE  IsCache(accessCache')
      BY <1>1, <2>2, DeleteFacts DEF Cached
    <2> QED
      BY <2>1, <2>2 DEF Miss
  <1>3. call' = [call EXCEPT ![q].at = "select"] /\ call[q].at = "look" /\ TableStays
    BY DEF Miss, Turn
  <1> DEFINE next == [call[q] EXCEPT !.at = "select"]
  <1>4. next \in CallState /\ next.at # "first" /\ call' = [call EXCEPT ![q] = next]
    BY <1>3, CallFacts DEF AccessIInv, CallState
  <1> HIDE DEF next
  <1> QED
    BY <1>2, <1>3, <1>4, CallStep

LEMMA SelectTierKeeps ==
    ASSUME AccessIInv, NEW q \in Call, SelectTier(q)
    PROVE  AccessIInv'
  <1> DEFINE next == [call[q] EXCEPT !.at = "store", !.tier = Lookup(call[q].ip)]
  <1>1. call' = [call EXCEPT ![q] = next] /\ call[q].at = "select" /\ TableStays
        /\ UNCHANGED accessCache
    BY DEF SelectTier
  <1>2. Lookup(call[q].ip) \in Tiers
    BY <1>1, CallFacts DEF AccessIInv, AccessTypeOK, Lookup
  <1>3. next \in CallState /\ next.at # "first"
    BY <1>1, <1>2, CallFacts DEF AccessIInv, CallState
  <1>4. IsCache(accessCache')
    BY <1>1, TypeParts DEF AccessIInv
  <1> HIDE DEF next
  <1> QED
    BY <1>1, <1>3, <1>4, CallStep

LEMMA StoreTierKeeps ==
    ASSUME AccessIInv, NEW q \in Call, StoreTier(q)
    PROVE  AccessIInv'
  <1> DEFINE entry == [ip |-> call[q].ip, tier |-> call[q].tier, age |-> 0]
             kept == IF Len(accessCache) >= CacheLimit THEN Tail(accessCache) ELSE accessCache
             new == [i \in DOMAIN kept |-> IF kept[i].ip = entry.ip THEN entry ELSE kept[i]]
  <1>1. /\ call[q].at = "store" /\ call' = [call EXCEPT ![q] = NoCall] /\ TableStays
        /\ accessCache' = IF \E i \in DOMAIN kept : kept[i].ip = entry.ip
                            THEN new ELSE Append(kept, entry)
    BY DEF StoreTier, Answered
  <1>2. entry \in Entry /\ entry.ip = call[q].ip
    BY <1>1, CallFacts, AccessAssumption DEF AccessIInv, Entry
  <1>3. IsCache(accessCache)
    BY TypeParts DEF AccessIInv
  <1>4. Len(accessCache) \in Nat /\ CacheLimit \in Nat \ {0}
    BY <1>3, LenProperties, AccessAssumption DEF IsCache
  <1>5. IsCache(kept) /\ Len(kept) < CacheLimit
    <2>1. CASE Len(accessCache) >= CacheLimit
      <3>1. accessCache # <<>>
        BY <1>4, <2>1
      <3> QED
        BY <1>3, <1>4, <2>1, <3>1, EvictFacts DEF IsCache
    <2>2. CASE ~(Len(accessCache) >= CacheLimit)
      BY <1>3, <1>4, <2>2
    <2> QED
      BY <2>1, <2>2
  <1> HIDE DEF kept, entry
  <1>6. DOMAIN kept = 1..Len(kept) /\ \A i \in 1..Len(kept) : kept[i] \in Entry
    BY <1>5, LenProperties, ElementOfSeq DEF IsCache
  <1>7. NoCall \in CallState /\ NoCall.at # "first" /\ call[q].at # "first"
    BY <1>1 DEF CallState, NoCall
  <1>8. CASE \E i \in DOMAIN kept : kept[i].ip = entry.ip
    <2>1. /\ DOMAIN new = 1..Len(kept) /\ new = [k \in 1..Len(kept) |-> new[k]]
          /\ \A k \in 1..Len(kept) : new[k] \in Entry /\ new[k].ip = kept[k].ip
      BY <1>2, <1>6
    <2>2. accessCache' = new
      BY <1>1, <1>8
    <2> HIDE DEF new
    <2>3. IsCache(new)
      BY <1>5, <2>1, RewriteFacts
    <2> QED
      BY <1>1, <1>7, <2>2, <2>3, CallStep
  <1>9. CASE ~ \E i \in DOMAIN kept : kept[i].ip = entry.ip
    <2>1. IsCache(Append(kept, entry))
      BY <1>2, <1>5, <1>6, <1>9, InsertFacts
    <2> QED
      BY <1>1, <1>7, <1>9, <2>1, CallStep
  <1> QED
    BY <1>8, <1>9

\* Ask is the arrival of a request when the table is known not to be empty.
LEMMA AskKeeps ==
    ASSUME AccessIInv, NEW q \in Call, NEW ip \in Client, Ask(q, ip)
    PROVE  AccessIInv'
  <1> DEFINE next == [at |-> "look", ip |-> ip, tier |-> NoTier]
  <1>1. /\ call' = [call EXCEPT ![q] = next] /\ call[q].at # "first" /\ TableStays
        /\ UNCHANGED accessCache
    BY DEF Ask, NoCall
  <1>2. next \in CallState /\ next.at # "first"
    BY DEF CallState, Tiers
  <1>3. IsCache(accessCache')
    BY <1>1, TypeParts DEF AccessIInv
  <1> HIDE DEF next
  <1> QED
    BY <1>1, <1>2, <1>3, CallStep

-----------------------------------------------------------------------------
(* The first run *)

LEMMA AskFirstKeeps ==
    ASSUME AccessIInv, NEW q \in Call, NEW ip \in Client, AskFirst(q, ip)
    PROVE  AccessIInv'
  <1> DEFINE next == [at |-> IF firstRun = NoRun THEN "first" ELSE "wait",
                      ip |-> ip, tier |-> NoTier]
  <1>1. /\ call[q].at # "first" /\ call' = [call EXCEPT ![q] = next] /\ whitelistEmpty
        /\ firstRun' = IF firstRun = NoRun THEN [step |-> "client", ip |-> ip] ELSE firstRun
        /\ UNCHANGED <<whitelist, whitelistEmpty, accessCache, firsts, spoiled, clearing, changes>>
    BY DEF AskFirst, NoCall
  <1>2. next \in CallState /\ next.at = IF firstRun = NoRun THEN "first" ELSE "wait"
    BY DEF CallState, Tiers
  <1>3. /\ call' \in [Call -> CallState] /\ firstRun' \in FirstRun /\ firstRun' # NoRun
        /\ \A p \in Call : call'[p] = IF p = q THEN next ELSE call[p]
    BY <1>1, <1>2 DEF AccessIInv, AccessTypeOK, FirstRun, NoRun
  <1> HIDE DEF next
  <1>4. AccessTypeOK'
    BY <1>1, <1>3, TypeParts, TypePartsPrime DEF AccessIInv, OtherTypes
  <1>5. \E p \in Call : FirstCalls' = {p}
    <2>1. CASE firstRun = NoRun
      BY <1>2, <1>3, <2>1 DEF AccessIInv, FirstRunOk, FirstCalls
    <2>2. CASE firstRun # NoRun
      BY <1>1, <1>2, <1>3, <2>2 DEF AccessIInv, FirstRunOk, FirstCalls
    <2> QED
      BY <2>1, <2>2
  <1>6. AdminsOk'
    <2>1. Admins' = Admins /\ firstRun.step = "subnet" => firstRun' = firstRun
      BY <1>1 DEF Admins, NoRun
    <2>2. AdminsOk /\ Admins' = Admins
      BY <1>1 DEF AccessIInv, Admins
    <2> QED
      BY <1>1, <2>1, <2>2 DEF AdminsOk
  <1> QED
    BY <1>1, <1>3, <1>4, <1>5, <1>6 DEF AccessIInv, FirstRunOk

LEMMA FirstClientKeeps ==
    ASSUME AccessIInv, FirstClient
    PROVE  AccessIInv'
  <1>1. /\ firstRun # NoRun /\ firstRun' = [firstRun EXCEPT !.step = "subnet"]
        /\ whitelist' = IF whitelist[firstRun.ip] = NoTier
                          THEN [whitelist EXCEPT ![firstRun.ip] = Admin999] ELSE whitelist
        /\ UNCHANGED <<whitelistEmpty, accessCache, call, firsts, spoiled, clearing, changes>>
        /\ firstRun.step = "client"
    BY DEF FirstClient, NoRun
  <1>2. firstRun \in [step : {"client", "subnet"}, ip : Client]
    BY <1>1 DEF AccessIInv, AccessTypeOK, FirstRun
  <1>3. firstRun' \in FirstRun /\ firstRun' # NoRun
    BY <1>1, <1>2 DEF FirstRun, NoRun
  <1>4. whitelist' \in [Client \union {Subnet} -> Tiers]
    BY <1>1, <1>2 DEF AccessIInv, AccessTypeOK, Tiers
  <1>5. AccessTypeOK'
    BY <1>1, <1>3, <1>4, TypeParts, TypePartsPrime DEF AccessIInv, OtherTypes
  <1>6. FirstCalls' = FirstCalls
    BY <1>1 DEF FirstCalls
  <1>7. AdminsOk'
    <2>1. Admins' \subseteq Admins \union {firstRun.ip}
      BY <1>1, <1>2 DEF Admins, AccessIInv, AccessTypeOK
    <2>2. firstRun'.step = "subnet" /\ firstRun'.ip = firstRun.ip
      BY <1>1, <1>2
    <2>3. Admin999 \notin Grant => Admins \ spoiled = {}
      BY <1>1 DEF AccessIInv, FirstRunOk, AdminsOk
    <2> QED
      BY <1>1, <2>1, <2>2, <2>3 DEF AdminsOk
  <1> QED
    BY <1>1, <1>3, <1>5, <1>6, <1>7 DEF AccessIInv, FirstRunOk

\* One request is answered as the first; that leaves none to be.
LEMMA FirstSubnetKeeps ==
    ASSUME AccessIInv, FirstSubnet
    PROVE  AccessIInv'
  <1>1. /\ firstRun # NoRun /\ firstRun' = NoRun
        /\ whitelist' = IF whitelist[Subnet] = NoTier
                          THEN [whitelist EXCEPT ![Subnet] = Home] ELSE whitelist
        /\ whitelistEmpty' = FALSE /\ accessCache' = <<>>
        /\ firsts' = firsts + Cardinality(FirstCalls)
        /\ call' = [q \in Call |-> CASE call[q].at = "first" -> NoCall
                                     [] call[q].at = "wait" -> [call[q] EXCEPT !.at = "look"]
                                     [] OTHER -> call[q]]
        /\ UNCHANGED <<spoiled, clearing, changes>>
    BY DEF FirstSubnet, NoRun, FirstCalls
  <1>2. firsts = 0 /\ Cardinality(FirstCalls) = 1
    <2>1. PICK q \in Call : FirstCalls = {q}
      BY <1>1 DEF AccessIInv, FirstRunOk
    <2> QED
      BY <1>1, <2>1, FS_Singleton DEF AccessIInv, FirstRunOk
  <1>3. \A q \in Call : call'[q] \in CallState /\ call'[q].at # "first"
    <2>1. ASSUME NEW q \in Call, call[q].at = "wait"
          PROVE  [call[q] EXCEPT !.at = "look"] \in CallState
      BY <2>1 DEF AccessIInv, AccessTypeOK, CallState, NoCall
    <2>2. \A q \in Call : call[q].at = "wait" => [call[q] EXCEPT !.at = "look"].at = "look"
      BY DEF AccessIInv, AccessTypeOK, CallState, NoCall
    <2> QED
      BY <1>1, <2>1, <2>2 DEF AccessIInv, AccessTypeOK, CallState, NoCall
  <1>4. call' \in [Call -> CallState] /\ FirstCalls' = {}
    BY <1>1, <1>3 DEF FirstCalls
  <1>5. whitelist' \in [Client \union {Subnet} -> Tiers]
    BY <1>1 DEF AccessIInv, AccessTypeOK, Tiers
  <1>6. AccessTypeOK'
    <2>1. OtherTypes'
      <3>1. whitelistEmpty' \in BOOLEAN /\ firstRun' \in FirstRun
        BY <1>1 DEF FirstRun
      <3>2. firsts' \in Nat
        BY <1>1, <1>2
      <3> QED
        BY <1>1, <1>4, <1>5, <3>1, <3>2 DEF AccessIInv, AccessTypeOK, OtherTypes
    <2> QED
      BY <1>1, <2>1, EmptyCache, TypePartsPrime
  <1>7. AdminsOk'
    <2>1. Admins' = Admins
      BY <1>1, AccessAssumption DEF Admins, AccessIInv, AccessTypeOK
    <2> QED
      BY <1>1, <2>1 DEF AccessIInv, AdminsOk
  <1> QED
    BY <1>1, <1>2, <1>4, <1>6, <1>7 DEF AccessIInv, FirstRunOk

LEMMA FirstFailsKeeps ==
    ASSUME AccessIInv, FirstFails
    PROVE  AccessIInv'
  <1>1. /\ firstRun # NoRun /\ firstRun' = NoRun
        /\ call' = [q \in Call |-> IF call[q].at \in {"first", "wait"} THEN NoCall ELSE call[q]]
        /\ spoiled' = IF firstRun.step = "subnet" THEN spoiled \union {firstRun.ip} ELSE spoiled
        /\ UNCHANGED <<whitelist, whitelistEmpty, accessCache, firsts, clearing, changes>>
    BY DEF FirstFails
  <1>2. call' \in [Call -> CallState] /\ FirstCalls' = {}
    BY <1>1 DEF AccessIInv, AccessTypeOK, CallState, FirstCalls, NoCall
  <1>3. AccessTypeOK'
    <2>1. firstRun \in [step : {"client", "subnet"}, ip : Client]
      BY <1>1 DEF AccessIInv, AccessTypeOK, FirstRun
    <2>2. spoiled' \subseteq Client
      BY <1>1, <2>1 DEF AccessIInv, AccessTypeOK
    <2> QED
      BY <1>1, <1>2, <2>2, TypeParts, TypePartsPrime DEF AccessIInv, OtherTypes, FirstRun
  <1>4. AdminsOk'
    <2>1. Admins' = Admins
      BY <1>1 DEF Admins
    <2>2. Admin999 \notin Grant => Admins' \ spoiled' = {}
      BY <1>1, <2>1 DEF AccessIInv, FirstRunOk, AdminsOk
    <2> QED
      BY <2>2 DEF AdminsOk
  <1> QED
    BY <1>1, <1>2, <1>3, <1>4 DEF AccessIInv, FirstRunOk

-----------------------------------------------------------------------------
(* The administrator and time *)

LEMMA ChangeKeeps ==
    ASSUME AccessIInv, NEW r \in Client \union {Subnet}, NEW tier \in Grant \union {NoTier},
           changes < MaxChanges, whitelist' = [whitelist EXCEPT ![r] = tier],
           clearing' = TRUE, changes' = changes + 1,
           UNCHANGED <<whitelistEmpty, firstRun, accessCache, call, firsts, spoiled>>
    PROVE  AccessIInv'
  <1>1. OtherTypes'
    BY AccessAssumption DEF AccessIInv, AccessTypeOK, OtherTypes, Tiers
  <1>2. AccessTypeOK'
    BY <1>1, TypeParts, TypePartsPrime DEF AccessIInv
  <1>3. AdminsOk'
    <2>1. Admin999 \notin Grant => Admins' \subseteq Admins
      BY AccessAssumption DEF Admins, Admin999, AccessIInv, AccessTypeOK
    <2> QED
      BY <2>1 DEF AccessIInv, AdminsOk
  <1> QED
    BY <1>2, <1>3, FirstRunStays DEF AccessIInv

LEMMA ClearCacheKeeps ==
    ASSUME AccessIInv, ClearCache
    PROVE  AccessIInv'
  <1>1. OtherTypes' /\ accessCache' = <<>>
    BY DEF AccessIInv, AccessTypeOK, OtherTypes, ClearCache
  <1>2. AccessTypeOK'
    BY <1>1, EmptyCache, TypePartsPrime
  <1> QED
    BY <1>2, FirstRunStays, AdminsStay DEF AccessIInv, ClearCache, Admins

LEMMA AccessTickKeeps ==
    ASSUME AccessIInv, AccessTick
    PROVE  AccessIInv'
  <1> DEFINE aged(i) == [accessCache[i] EXCEPT !.age =
                            IF Live(accessCache[i]) THEN @ + 1 ELSE @]
             new == [i \in DOMAIN accessCache |-> aged(i)]
  <1>1. accessCache' = new /\ TableStays /\ UNCHANGED call
    BY DEF AccessTick
  <1>2. IsCache(accessCache) /\ DOMAIN accessCache = 1..Len(accessCache)
    BY TypeParts, LenProperties DEF AccessIInv, IsCache
  <1>3. ASSUME NEW i \in 1..Len(accessCache)
        PROVE  aged(i) \in Entry /\ aged(i).ip = accessCache[i].ip
    <2>1. accessCache[i] \in Entry
      BY <1>2, ElementOfSeq DEF IsCache
    <2> QED
      BY <2>1, AccessAssumption DEF Entry, Live
  <1>4. /\ DOMAIN new = 1..Len(accessCache) /\ new = [k \in 1..Len(accessCache) |-> new[k]]
        /\ \A k \in 1..Len(accessCache) : new[k] \in Entry /\ new[k].ip = accessCache[k].ip
    <2> HIDE DEF aged
    <2> QED
      BY <1>2, <1>3
  <1> HIDE DEF new
  <1>5. IsCache(new)
    BY <1>2, <1>4, RewriteFacts
  <1>6. OtherTypes'
    BY <1>1 DEF AccessIInv, AccessTypeOK, OtherTypes, TableStays
  <1> QED
    BY <1>1, <1>5, <1>6, TypePartsPrime, FirstRunStays, AdminsStay
       DEF AccessIInv, TableStays, Admins

-----------------------------------------------------------------------------
LEMMA AccessIInvInit == AccessInit => AccessIInv
  <1> SUFFICES ASSUME AccessInit PROVE AccessIInv
    OBVIOUS
  <1>1. OtherTypes
    <2>1. whitelist \in [Client \union {Subnet} -> Tiers]
      BY DEF AccessInit, Tiers
    <2>2. whitelistEmpty \in BOOLEAN /\ clearing \in BOOLEAN /\ firstRun \in FirstRun
      BY DEF AccessInit, FirstRun
    <2>3. call \in [Call -> CallState]
      BY DEF AccessInit, CallState
    <2> QED
      BY <2>1, <2>2, <2>3, AccessAssumption DEF AccessInit, OtherTypes
  <1>2. FirstRunOk
    BY DEF AccessInit, FirstRunOk, FirstCalls, NoCall
  <1>3. AdminsOk
    BY AccessAssumption DEF AccessInit, AdminsOk, Admins, Admin999
  <1> QED
    BY <1>1, <1>2, <1>3, EmptyCache, TypeParts DEF AccessIInv, AccessInit

LEMMA AccessIInvNext == AccessIInv /\ [AccessNext]_accessVars => AccessIInv'
  <1> SUFFICES ASSUME AccessIInv, [AccessNext]_accessVars PROVE AccessIInv'
    OBVIOUS
  <1>1. ASSUME NEW q \in Call, NEW ip \in Client, AskFirst(q, ip) \/ Ask(q, ip)
        PROVE  AccessIInv'
    BY <1>1, AskFirstKeeps, AskKeeps
  <1>2. ASSUME NEW q \in Call, Answering(q) PROVE AccessIInv'
    BY <1>2, HitKeeps, MissKeeps, SelectTierKeeps, StoreTierKeeps DEF Answering
  <1>3. CASE FirstClient \/ FirstSubnet \/ FirstFails
    BY <1>3, FirstClientKeeps, FirstSubnetKeeps, FirstFailsKeeps
  <1>4. ASSUME NEW r \in Client \union {Subnet}, RemoveRange(r) PROVE AccessIInv'
    BY <1>4, ChangeKeeps DEF RemoveRange
  <1>5. ASSUME NEW r \in Client \union {Subnet}, NEW tier \in Grant, AddRange(r, tier)
        PROVE  AccessIInv'
    BY <1>5, ChangeKeeps DEF AddRange
  <1>6. CASE ClearCache \/ AccessTick
    BY <1>6, ClearCacheKeeps, AccessTickKeeps
  <1>7. CASE UNCHANGED accessVars
    <2>1. AccessTypeOK'
      BY <1>7, TypeParts, TypePartsPrime DEF AccessIInv, OtherTypes, accessVars
    <2> QED
      BY <1>7, <2>1, FirstRunStays, AdminsStay DEF AccessIInv, accessVars, Admins
  <1> QED
    BY <1>1, <1>2, <1>3, <1>4, <1>5, <1>6, <1>7 DEF AccessNext

\* However many requests arrive while the table is empty, and however often the
\* initialization fails and is begun again, at most one is answered as the first
\* run, and the table has one client of tier 999, beside those whose
\* initialization failed behind its first INSERT and those whom an administrator
\* gave it (auth.js:107-137, 162-171).  The cache is at every moment what a Map
\* within its limit is: one entry an address (auth.js:87-105).
THEOREM AccessCorrect == AccessSpec => []AccessInv
  <1>1. AccessIInv => AccessInv
    BY DEF AccessIInv, AccessInv, FirstRunOk, AdminsOk, FirstRunOnce
  <1> QED
    BY <1>1, AccessIInvInit, AccessIInvNext, PTL DEF AccessSpec

\* While the first run is under way exactly one request is going to be answered
\* as it, and nobody was; whoever has tier 999 in the table by then is its client,
\* or was left there by an initialization that failed (auth.js:107-137).
OneFirst ==
    firstRun # NoRun =>
        /\ firsts = 0 /\ \E q \in Call : FirstCalls = {q}
        /\ Admin999 \notin Grant => Admins \ spoiled \subseteq {firstRun.ip}

THEOREM OneFirstAtATime == AccessSpec => []OneFirst
  <1>1. AccessIInv => OneFirst
    BY DEF AccessIInv, FirstRunOk, AdminsOk, OneFirst
  <1> QED
    BY <1>1, AccessIInvInit, AccessIInvNext, PTL DEF AccessSpec

-----------------------------------------------------------------------------
(* The outbox: the invariant *)

Stored == served \union refused

\* What a request at the server has done.
HandlerOk(h) ==
    handling[h] # NoSync =>
        LET job == handling[h]
        IN /\ job.sent.events \subseteq Recorded
           /\ job.inserted \subseteq served
           /\ job.at \in {"insert", "zadd", "mget", "exec"} => job.accepted
           /\ job.at \notin {"access", "insert"} /\ job.accepted => job.sent.events \subseteq served

\* What a flush may rely on: its request is there until it is answered, and
\* what it is about to delete is safe.
FlushOk ==
    flush # NoSync =>
        /\ flush.at = "wait" => handling[flush.by] # NoSync
        /\ flush.at = "delete" => flush.events \subseteq Stored

OfflineIInv ==
    /\ OfflineTypeOK /\ EventsKept /\ FlushOk
    /\ \A h \in Handler : HandlerOk(h)

-----------------------------------------------------------------------------
(* How the two sides change the state *)

\* A step of the request h that leaves the phone alone and forgets nothing:
\* it has to account for itself only.
LEMMA ServerStep ==
    ASSUME OfflineIInv, NEW h \in Handler, NEW job \in Job,
           handling[h] # NoSync, handling' = [handling EXCEPT ![h] = job],
           job.sent = handling[h].sent,
           UNCHANGED <<outbox, createdAt, savedAt, dirty, flush, refused, allowed, lost>>,
           served \subseteq served', served' \subseteq Recorded, logged' \subseteq served',
           remoteAt' \in 0..MaxSaves,
           job.inserted \subseteq served',
           job.at \in {"insert", "zadd", "mget", "exec"} => job.accepted,
           job.at \notin {"access", "insert"} /\ job.accepted => job.sent.events \subseteq served'
    PROVE  OfflineIInv'
  <1>1. /\ handling' \in [Handler -> Job \union {NoSync}]
        /\ handling'[h] = job /\ job # NoSync
        /\ \A k \in Handler : k # h => handling'[k] = handling[k]
    BY NoSyncAssumption DEF OfflineIInv, OfflineTypeOK
  <1>2. Recorded' = Recorded
    BY DEF Recorded
  <1>3. OfflineTypeOK'
    BY <1>1, <1>2 DEF OfflineIInv, OfflineTypeOK
  <1>4. EventsKept'
    BY <1>2 DEF OfflineIInv, EventsKept
  <1>5. FlushOk'
    BY <1>1 DEF OfflineIInv, FlushOk, Stored
  <1>6. ASSUME NEW k \in Handler PROVE HandlerOk(k)'
    <2>1. CASE k = h
      BY <1>1, <1>2, <2>1 DEF OfflineIInv, HandlerOk
    <2>2. CASE k # h
      BY <1>1, <1>2, <2>2 DEF OfflineIInv, HandlerOk
    <2> QED
      BY <2>1, <2>2
  <1> QED
    BY <1>3, <1>4, <1>5, <1>6 DEF OfflineIInv

\* The end of the request h, for which nobody waits any more.
LEMMA ServerEnd ==
    ASSUME OfflineIInv, NEW h \in Handler,
           handling' = [handling EXCEPT ![h] = NoSync],
           flush' \in Flush \union {NoSync},
           flush' # NoSync /\ flush'.at = "wait" => handling[flush'.by] # NoSync /\ flush'.by # h,
           flush' # NoSync /\ flush'.at = "delete" => flush'.events \subseteq (Stored)',
           lost' \in 0..MaxLost, refused \subseteq refused', refused' \subseteq Recorded,
           UNCHANGED <<outbox, createdAt, savedAt, dirty, served, logged, remoteAt, allowed>>
    PROVE  OfflineIInv'
  <1>1. /\ handling' \in [Handler -> Job \union {NoSync}]
        /\ handling'[h] = NoSync
        /\ \A k \in Handler : k # h => handling'[k] = handling[k]
    BY DEF OfflineIInv, OfflineTypeOK
  <1>2. Recorded' = Recorded
    BY DEF Recorded
  <1>3. OfflineTypeOK'
    BY <1>1, <1>2 DEF OfflineIInv, OfflineTypeOK
  <1>4. EventsKept'
    BY <1>2 DEF OfflineIInv, EventsKept
  <1>5. FlushOk'
    <2>1. flush' # NoSync /\ flush'.at = "wait" => flush'.by \in Handler
      BY DEF Flush
    <2> QED
      BY <1>1, <2>1 DEF FlushOk
  <1>6. ASSUME NEW k \in Handler PROVE HandlerOk(k)'
    BY <1>1, <1>2 DEF OfflineIInv, HandlerOk
  <1> QED
    BY <1>3, <1>4, <1>5, <1>6 DEF OfflineIInv

\* A step of the phone that no request notices.
LEMMA PhoneStep ==
    ASSUME OfflineIInv,
           UNCHANGED <<createdAt, handling, served, logged, remoteAt, refused>>,
           outbox' \subseteq Recorded, outbox \subseteq outbox' \union Stored,
           savedAt' \in 0..MaxSaves, dirty' \in BOOLEAN, dirty' => savedAt' > 0,
           flush' \in Flush \union {NoSync},
           flush' # NoSync /\ flush'.at \in {"wait", "delete"} => flush' = flush,
           allowed' \in BOOLEAN, lost' \in 0..MaxLost
    PROVE  OfflineIInv'
  <1>1. Recorded' = Recorded
    BY DEF Recorded
  <1>2. OfflineTypeOK'
    BY <1>1 DEF OfflineIInv, OfflineTypeOK
  <1>3. EventsKept'
    BY <1>1 DEF OfflineIInv, EventsKept, Stored
  <1>4. FlushOk'
    BY DEF OfflineIInv, FlushOk, Stored
  <1>5. ASSUME NEW k \in Handler PROVE HandlerOk(k)'
    BY <1>1 DEF OfflineIInv, HandlerOk
  <1> QED
    BY <1>2, <1>3, <1>4, <1>5 DEF OfflineIInv

-----------------------------------------------------------------------------
(* The phone *)

LEMMA RecordEventKeeps ==
    ASSUME OfflineIInv, NEW e \in Event, RecordEvent(e)
    PROVE  OfflineIInv'
  <1>1. IsFiniteSet(Recorded) /\ Cardinality(Recorded) \in Nat
    BY OfflineAssumption, FS_Subset, FS_CardinalityType DEF Recorded
  <1>2. createdAt' \in [Event -> Nat] /\ createdAt'[e] > 0
    BY <1>1 DEF RecordEvent, OfflineIInv, OfflineTypeOK
  <1>3. Recorded' = Recorded \union {e}
    BY <1>2 DEF RecordEvent, Recorded, OfflineIInv, OfflineTypeOK
  <1>4. UNCHANGED <<savedAt, dirty, flush, handling, served, logged, remoteAt, refused, allowed, lost>>
    BY DEF RecordEvent, ServerSide
  <1>5. OfflineTypeOK'
    BY <1>2, <1>3, <1>4 DEF RecordEvent, OfflineIInv, OfflineTypeOK
  <1>6. EventsKept'
    BY <1>3, <1>4 DEF RecordEvent, OfflineIInv, EventsKept
  <1>7. FlushOk'
    BY <1>4 DEF OfflineIInv, FlushOk, Stored
  <1>8. ASSUME NEW k \in Handler PROVE HandlerOk(k)'
    BY <1>3, <1>4 DEF OfflineIInv, HandlerOk
  <1> QED
    BY <1>5, <1>6, <1>7, <1>8 DEF OfflineIInv

\* What a request is sent with are rows of the outbox.
LEMMA FlushListKeeps ==
    ASSUME OfflineIInv, FlushList
    PROVE  OfflineIInv'
  <1> DEFINE resume == IF dirty THEN savedAt ELSE 0
             job == [at |-> "access", sent |-> [events |-> Batch, resume |-> resume],
                     accepted |-> FALSE, inserted |-> {}, seen |-> 0]
  <1>1. /\ UNCHANGED <<outbox, createdAt, savedAt, dirty, served, logged, remoteAt,
                       refused, allowed, lost>>
        /\ \/ flush' = NoSync /\ UNCHANGED handling
           \/ \E h \in Handler :
                 /\ handling[h] = NoSync
                 /\ handling' = [handling EXCEPT ![h] = job]
                 /\ flush' = [at |-> "wait", by |-> h]
    BY DEF FlushList, Device, ServerSide
  <1>2. CASE flush' = NoSync /\ UNCHANGED handling
    BY <1>1, <1>2, PhoneStep DEF OfflineIInv, OfflineTypeOK
  <1>3. ASSUME NEW h \in Handler, handling[h] = NoSync,
               handling' = [handling EXCEPT ![h] = job], flush' = [at |-> "wait", by |-> h]
        PROVE  OfflineIInv'
    <2>1. Batch \subseteq Recorded /\ Batch \subseteq Event /\ resume \in 0..MaxSaves
      BY OfflineAssumption DEF Batch, OfflineIInv, OfflineTypeOK, Recorded
    <2>2. job \in Job
      BY <2>1, OfflineAssumption DEF Job, Payload
    <2>3. flush' \in Flush /\ flush' # NoSync /\ flush'.at = "wait" /\ flush'.by = h
      BY <1>3, NoSyncAssumption DEF Flush
    <2>4. /\ handling' \in [Handler -> Job \union {NoSync}]
          /\ handling'[h] = job /\ job # NoSync
          /\ \A k \in Handler : k # h => handling'[k] = handling[k]
      BY <1>3, <2>2, NoSyncAssumption DEF OfflineIInv, OfflineTypeOK
    <2>5. Recorded' = Recorded
      BY <1>1 DEF Recorded
    <2>6. OfflineTypeOK'
      BY <1>1, <2>3, <2>4, <2>5 DEF OfflineIInv, OfflineTypeOK
    <2>7. EventsKept'
      BY <1>1, <2>5 DEF OfflineIInv, EventsKept
    <2>8. FlushOk'
      BY <2>3, <2>4 DEF FlushOk
    <2>9. ASSUME NEW k \in Handler PROVE HandlerOk(k)'
      <3>1. CASE k = h
        BY <2>1, <2>4, <2>5, <3>1 DEF HandlerOk
      <3>2. CASE k # h
        BY <1>1, <2>4, <2>5, <3>2 DEF OfflineIInv, HandlerOk
      <3> QED
        BY <3>1, <3>2
    <2> QED
      BY <2>6, <2>7, <2>8, <2>9 DEF OfflineIInv
  <1> QED
    BY <1>1, <1>2, <1>3

\* An answer says that all that was sent is stored or refused.
LEMMA FlushAnsweredKeeps ==
    ASSUME OfflineIInv, FlushAnswered
    PROVE  OfflineIInv'
  <1> DEFINE h == flush.by
             job == handling[h]
  <1>1. flush # NoSync /\ flush.at = "wait" /\ job.at = "answer"
    BY DEF FlushAnswered
  <1>2. h \in Handler /\ job # NoSync /\ job \in Job /\ HandlerOk(h)
    BY <1>1 DEF OfflineIInv, OfflineTypeOK, FlushOk, Flush
  <1>3. /\ flush' = [at |-> "delete", events |-> job.sent.events, resume |-> job.sent.resume]
        /\ refused' = IF job.accepted THEN refused ELSE refused \union job.sent.events
        /\ handling' = [handling EXCEPT ![h] = NoSync]
        /\ UNCHANGED <<outbox, createdAt, savedAt, dirty, served, logged, remoteAt, allowed, lost>>
    BY DEF FlushAnswered, Device, ServerSide
  <1> HIDE DEF h
  <1>4. job.sent \in Payload /\ job.sent.events \subseteq Recorded
    BY <1>2 DEF HandlerOk, Job
  <1>5. flush' \in Flush /\ flush'.at = "delete" /\ flush'.events = job.sent.events
    BY <1>3, <1>4 DEF Flush, Payload
  <1>6. job.accepted => job.sent.events \subseteq served
    BY <1>1, <1>2 DEF HandlerOk, h
  <1>7. job.sent.events \subseteq (Stored)'
    BY <1>3, <1>6 DEF Stored
  <1>8. refused \subseteq refused' /\ refused' \subseteq Recorded
    BY <1>3, <1>4 DEF OfflineIInv, OfflineTypeOK
  <1>9. lost' \in 0..MaxLost
    BY <1>3 DEF OfflineIInv, OfflineTypeOK
  <1> QED
    BY <1>2, <1>3, <1>5, <1>7, <1>8, <1>9, ServerEnd

LEMMA PhoneKeeps ==
    ASSUME OfflineIInv,
           SaveResume \/ Forbid \/ FlushBegin \/ FlushDelete \/ FlushMark \/ FlushLost
    PROVE  OfflineIInv'
  <1>1. OfflineTypeOK /\ FlushOk
    BY DEF OfflineIInv
  <1>2. CASE SaveResume
    <2>1. savedAt' \in 0..MaxSaves /\ dirty' \in BOOLEAN /\ savedAt' > 0
      BY <1>1, <1>2, OfflineAssumption DEF SaveResume, OfflineTypeOK
    <2> QED
      BY <1>1, <1>2, <2>1, PhoneStep DEF SaveResume, ServerSide, OfflineTypeOK, FlushOk
  <1>3. CASE Forbid
    BY <1>1, <1>3, PhoneStep DEF Forbid, Device, ServerSide, OfflineTypeOK
  <1>4. CASE FlushBegin
    BY <1>1, <1>4, PhoneStep DEF FlushBegin, Device, ServerSide, OfflineTypeOK, Flush
  <1>5. CASE FlushDelete
    <2>1. /\ flush \in Flush /\ flush.at = "delete" /\ flush.events \subseteq Stored
          /\ flush' = [flush EXCEPT !.at = "mark"] /\ outbox' = outbox \ flush.events
          /\ UNCHANGED <<createdAt, savedAt, dirty, handling, served, logged, remoteAt,
                         refused, allowed, lost>>
      BY <1>1, <1>5 DEF FlushDelete, ServerSide, OfflineTypeOK, FlushOk
    <2>2. flush' \in Flush /\ flush'.at = "mark"
      BY <2>1 DEF Flush
    <2>3. outbox' \subseteq Recorded /\ outbox \subseteq outbox' \union Stored
      BY <1>1, <2>1 DEF OfflineTypeOK
    <2> QED
      BY <1>1, <2>1, <2>2, <2>3, PhoneStep DEF OfflineTypeOK
  <1>6. CASE FlushMark
    BY <1>1, <1>6, PhoneStep DEF FlushMark, ServerSide, OfflineTypeOK
  <1>7. CASE FlushLost
    BY <1>1, <1>7, PhoneStep, OfflineAssumption DEF FlushLost, Device, ServerSide, OfflineTypeOK
  <1> QED
    BY <1>2, <1>3, <1>4, <1>5, <1>6, <1>7

-----------------------------------------------------------------------------
(* The server *)

LEMMA HandlerFacts ==
    ASSUME OfflineIInv, NEW h \in Handler, handling[h] # NoSync
    PROVE  /\ handling[h] \in Job /\ HandlerOk(h)
           /\ handling[h].sent.events \subseteq Recorded
           /\ handling[h].sent.resume \in 0..MaxSaves
           /\ handling[h].inserted \subseteq served
           /\ served \subseteq Recorded /\ logged \subseteq served /\ remoteAt \in 0..MaxSaves
  BY DEF OfflineIInv, OfflineTypeOK, HandlerOk, Job, Payload

LEMMA SyncAccessKeeps ==
    ASSUME OfflineIInv, NEW h \in Handler, SyncAccess(h)
    PROVE  OfflineIInv'
  <1> DEFINE job == [handling[h] EXCEPT !.at = IF allowed THEN "insert" ELSE "answer",
                                        !.accepted = allowed]
  <1>1. /\ handling[h] # NoSync /\ handling[h].at = "access"
        /\ handling' = [handling EXCEPT ![h] = job]
        /\ UNCHANGED <<outbox, createdAt, savedAt, dirty, flush, served, logged, remoteAt,
                       refused, allowed, lost>>
    BY DEF SyncAccess, HandlerAt, OnlyHandling, Device, ServerSide
  <1>2. /\ job \in Job /\ job.sent = handling[h].sent /\ job.inserted = handling[h].inserted
        /\ job.accepted = allowed /\ job.at = IF allowed THEN "insert" ELSE "answer"
    BY <1>1, HandlerFacts DEF Job, OfflineIInv, OfflineTypeOK
  <1> HIDE DEF job
  <1> QED
    BY <1>1, <1>2, HandlerFacts, ServerStep

LEMMA SyncInsertKeeps ==
    ASSUME OfflineIInv, NEW h \in Handler, SyncInsert(h)
    PROVE  OfflineIInv'
  <1> DEFINE new == handling[h].sent.events \ served
             job == [handling[h] EXCEPT !.at = IF new = {} THEN "mget" ELSE "zadd",
                                        !.inserted = new]
  <1>1. /\ handling[h] # NoSync /\ handling[h].at = "insert"
        /\ handling' = [handling EXCEPT ![h] = job]
        /\ served' = served \union new
        /\ UNCHANGED <<outbox, createdAt, savedAt, dirty, flush, logged, remoteAt,
                       refused, allowed, lost>>
    BY DEF SyncInsert, HandlerAt, Device
  <1>2. new \subseteq Event /\ new \subseteq Recorded
    BY <1>1, HandlerFacts DEF Recorded
  <1>3. /\ job \in Job /\ job.sent = handling[h].sent /\ job.inserted = new
        /\ job.accepted = handling[h].accepted /\ job.at \in {"mget", "zadd"}
    BY <1>1, <1>2, HandlerFacts DEF Job
  <1>4. job.accepted
    BY <1>1, <1>3, HandlerFacts DEF HandlerOk
  <1>5. job.sent.events \subseteq served' /\ served' \subseteq Recorded
    BY <1>1, <1>2, <1>3, HandlerFacts
  <1> HIDE DEF job
  <1> QED
    BY <1>1, <1>3, <1>4, <1>5, HandlerFacts, ServerStep

\* The steps behind the INSERT.
LEMMA SyncLaterKeeps ==
    ASSUME OfflineIInv, NEW h \in Handler,
           SyncLog(h) \/ SyncReadResume(h) \/ SyncWriteResume(h)
    PROVE  OfflineIInv'
  <1> DEFINE step == handling'[h].at
             seen == handling'[h].seen
             job == [handling[h] EXCEPT !.at = step, !.seen = seen]
  <1>1. /\ handling[h] # NoSync /\ handling[h].at \in {"zadd", "mget", "exec"}
        /\ UNCHANGED <<outbox, createdAt, savedAt, dirty, flush, served, refused, allowed, lost>>
    BY DEF SyncLog, SyncReadResume, SyncWriteResume, HandlerAt, OnlyHandling, Device, ServerSide
  <1>2. handling[h] \in Job /\ handling \in [Handler -> Job \union {NoSync}]
    BY <1>1, HandlerFacts DEF OfflineIInv, OfflineTypeOK
  <1>3. /\ logged' \subseteq served' /\ remoteAt' \in 0..MaxSaves
    BY <1>1, HandlerFacts DEF SyncLog, SyncReadResume, SyncWriteResume, OnlyHandling, ServerSide
  <1>4. /\ handling' = [handling EXCEPT ![h] = job]
        /\ step \in {"mget", "exec", "answer"} /\ seen \in 0..MaxSaves
    <2>1. CASE SyncLog(h)
      BY <1>2, <2>1 DEF SyncLog, SyncStep, Job
    <2>2. CASE SyncReadResume(h)
      BY <1>1, <1>2, <2>2, HandlerFacts DEF SyncReadResume, Job
    <2>3. CASE SyncWriteResume(h)
      BY <1>2, <2>3 DEF SyncWriteResume, SyncStep, Job
    <2> QED
      BY <2>1, <2>2, <2>3
  <1> HIDE DEF step, seen
  <1>5. /\ job \in Job /\ job.sent = handling[h].sent /\ job.inserted = handling[h].inserted
        /\ job.accepted = handling[h].accepted /\ job.at = step
    BY <1>2, <1>4 DEF Job
  <1>6. job.accepted /\ job.sent.events \subseteq served
    BY <1>1, <1>5, HandlerFacts DEF HandlerOk
  <1> HIDE DEF job
  <1> QED
    BY <1>1, <1>3, <1>4, <1>5, <1>6, HandlerFacts, ServerStep

LEMMA SyncEndKeeps ==
    ASSUME OfflineIInv, NEW h \in Handler, SyncUnheard(h) \/ SyncFails(h)
    PROVE  OfflineIInv'
  <1>1. /\ handling' = [handling EXCEPT ![h] = NoSync]
        /\ UNCHANGED <<outbox, createdAt, savedAt, dirty, served, logged, remoteAt, refused, allowed>>
    BY DEF SyncUnheard, SyncFails, OnlyHandling, Device, ServerSide
  <1>2. OfflineTypeOK /\ FlushOk
    BY DEF OfflineIInv
  <1>3. flush' = NoSync \/ (flush' = flush /\ ~Awaited(h))
    BY DEF SyncUnheard, SyncFails, OnlyHandling
  <1>4. lost' \in 0..MaxLost
    BY <1>2, OfflineAssumption DEF SyncUnheard, SyncFails, OnlyHandling, OfflineTypeOK
  <1>5. flush' \in Flush \union {NoSync}
    BY <1>2, <1>3 DEF OfflineTypeOK
  <1>6. flush' # NoSync /\ flush'.at = "wait" => handling[flush'.by] # NoSync /\ flush'.by # h
    BY <1>2, <1>3 DEF FlushOk, Awaited
  <1>7. flush' # NoSync /\ flush'.at = "delete" => flush'.events \subseteq (Stored)'
    BY <1>1, <1>2, <1>3 DEF FlushOk, Stored
  <1> QED
    BY <1>1, <1>2, <1>4, <1>5, <1>6, <1>7, ServerEnd DEF OfflineTypeOK

-----------------------------------------------------------------------------
LEMMA OfflineIInvInit == OfflineInit => OfflineIInv
  <1> SUFFICES ASSUME OfflineInit PROVE OfflineIInv
    OBVIOUS
  <1>1. Recorded = {}
    BY DEF OfflineInit, Recorded
  <1>2. OfflineTypeOK
    <2>1. ~dirty /\ dirty \in BOOLEAN /\ allowed \in BOOLEAN
      BY DEF OfflineInit
    <2>2. savedAt \in 0..MaxSaves /\ remoteAt \in 0..MaxSaves /\ lost \in 0..MaxLost
      BY OfflineAssumption DEF OfflineInit
    <2>3. handling \in [Handler -> Job \union {NoSync}] /\ createdAt \in [Event -> Nat]
      BY DEF OfflineInit
    <2> QED
      BY <1>1, <2>1, <2>2, <2>3 DEF OfflineInit, OfflineTypeOK
  <1>3. EventsKept /\ FlushOk /\ \A h \in Handler : HandlerOk(h)
    BY <1>1 DEF OfflineInit, EventsKept, FlushOk, HandlerOk
  <1> QED
    BY <1>2, <1>3 DEF OfflineIInv

LEMMA OfflineIInvNext == OfflineIInv /\ [OfflineNext]_offlineVars => OfflineIInv'
  <1> SUFFICES ASSUME OfflineIInv, [OfflineNext]_offlineVars PROVE OfflineIInv'
    OBVIOUS
  <1>1. CASE \E e \in Event : RecordEvent(e)
    BY <1>1, RecordEventKeeps
  <1>2. CASE SaveResume \/ Forbid \/ FlushLost
    BY <1>2, PhoneKeeps
  <1>3. CASE Flushing
    BY <1>3, PhoneKeeps, FlushListKeeps, FlushAnsweredKeeps DEF Flushing
  <1>4. ASSUME NEW h \in Handler, Handling(h) \/ SyncFails(h) PROVE OfflineIInv'
    BY <1>4, SyncAccessKeeps, SyncInsertKeeps, SyncLaterKeeps, SyncEndKeeps DEF Handling
  <1>5. CASE UNCHANGED offlineVars
    BY <1>5 DEF offlineVars, OfflineIInv, OfflineTypeOK, EventsKept, FlushOk, HandlerOk, Stored,
                Recorded
  <1> QED
    BY <1>1, <1>2, <1>3, <1>4, <1>5 DEF OfflineNext

\* No event is lost between the player and playback_events, whatever requests
\* and answers are lost, whatever is recorded while a flush is under way, and
\* however many requests with the same events are at the server at once
\* (offline-context.jsx:166, routes/offline.js:301): it waits in the outbox, or
\* it is stored, or the server has refused it.
THEOREM OfflineCorrect == OfflineSpec => []OfflineInv
  <1>1. OfflineIInv => OfflineInv
    BY DEF OfflineIInv, OfflineInv
  <1> QED
    BY <1>1, OfflineIInvInit, OfflineIInvNext, PTL DEF OfflineSpec

\* Redis never lists an event that PostgreSQL does not hold: ZADD follows the
\* INSERT with the rows that it returned (routes/offline.js:345).
THEOREM LoggedIsServed == OfflineSpec => [](logged \subseteq served)
  <1>1. OfflineIInv => logged \subseteq served
    BY DEF OfflineIInv, OfflineTypeOK
  <1> QED
    BY <1>1, OfflineIInvInit, OfflineIInvNext, PTL DEF OfflineSpec

\* A row leaves the outbox only when what it says is stored or refused, though
\* the answer that allows it may be about a request that was sent long ago and
\* the rows of other requests have come since (offline-store.js:196).
THEOREM DeletedIsSafe == OfflineSpec => [][outbox \ outbox' \subseteq Stored]_offlineVars
  <1>1. OfflineIInv /\ [OfflineNext]_offlineVars => [outbox \ outbox' \subseteq Stored]_offlineVars
    <2> SUFFICES ASSUME OfflineIInv, OfflineNext PROVE outbox \ outbox' \subseteq Stored
      OBVIOUS
    <2>1. CASE FlushDelete
      BY <2>1 DEF OfflineIInv, FlushOk, FlushDelete
    <2>2. CASE ~FlushDelete
      BY <2>2 DEF OfflineNext, RecordEvent, SaveResume, Forbid, Flushing, FlushBegin, FlushList,
             FlushAnswered, FlushMark, FlushLost, Handling, SyncAccess, SyncInsert, SyncLog,
             SyncReadResume, SyncWriteResume, SyncUnheard, SyncFails, OnlyHandling, Device
    <2> QED
      BY <2>1, <2>2
  <1> QED
    BY <1>1, OfflineIInvInit, OfflineIInvNext, PTL DEF OfflineSpec

-----------------------------------------------------------------------------
(* The reels: the invariant *)

\* What has ended does not begin again.
Over(r) == reel[r].life \in {"expired", "revoked", "deleted"}

ReadyOk == \A r \in Reel : ~Over(r) /\ reel[r].status = "ready" => reel[r].path /\ r \in video

\* What a cleanup has selected is over.
SweptOk == \A c \in Sweeper : \A s \in sweep[c] : Over(s.reel)

RenderJob == [at : Step, id : 1..added, reel : Reel, left : 0..Tracks]

\* A segment is left as long as one is going to be drawn, and the video that
\* was put in place is there until the row names it.
JobOk(job, rows, files) ==
    /\ job.at \in {"select", "start", "items", "segment", "ffmpeg"} => job.left # 0
    /\ job.at = "markReady" =>
          rows[job.reel].life \in {"expired", "revoked", "deleted"} \/ job.reel \in files

RenderOk ==
    /\ added \in Nat /\ render \in [Renderer -> RenderJob \union {NoJob}]
    /\ \A w \in Renderer : render[w] # NoJob => JobOk(render[w], reel, video)

ReelIInv == ReelTypeOK /\ ReadyOk /\ SweptOk /\ RenderOk

-----------------------------------------------------------------------------
(* How the reels change *)

\* Nothing begins again or becomes ready, and no video goes that is of use.
Calm ==
    \A r \in Reel :
        /\ Over(r) => Over(r)'
        /\ ~Over(r)' /\ reel'[r].status = "ready" => reel[r].status = "ready" /\ reel'[r].path = reel[r].path
        /\ ~Over(r)' /\ r \in video => r \in video'

LEMMA CalmFacts ==
    ASSUME ReelIInv, Calm
    PROVE  /\ ReadyOk'
           /\ \A job \in RenderJob : JobOk(job, reel, video) => JobOk(job, reel', video')
           /\ \A c \in Sweeper : \A s \in sweep[c] : s.reel \in Reel /\ Over(s.reel)'
  BY DEF ReelIInv, ReelTypeOK, ReadyOk, SweptOk, RenderJob, JobOk, Calm, Over

\* A step of no worker.
LEMMA OtherStep ==
    ASSUME ReelIInv, Calm, ReelTypeOK', UNCHANGED render, added' \in Nat, added <= added',
           \A c \in Sweeper : \A s \in sweep'[c] :
               Over(s.reel)' \/ \E t \in sweep[c] : t.reel = s.reel
    PROVE  ReelIInv'
  <1>1. SweptOk'
    BY CalmFacts DEF SweptOk
  <1>2. RenderJob \subseteq RenderJob'
    BY DEF RenderJob, ReelIInv, RenderOk
  <1>3. render' \in [Renderer -> RenderJob' \union {NoJob}]
    BY <1>2 DEF ReelIInv, RenderOk
  <1>4. \A w \in Renderer : render[w] # NoJob => JobOk(render[w], reel', video')
    BY CalmFacts DEF ReelIInv, RenderOk
  <1>5. \A w \in Renderer : render'[w] # NoJob => JobOk(render'[w], reel', video')
    BY <1>4
  <1> QED
    BY <1>1, <1>3, <1>5, CalmFacts DEF ReelIInv, RenderOk

\* A step of the worker w, which goes on with job, or with none.
LEMMA WorkerStep ==
    ASSUME ReelIInv, Calm, NEW w \in Renderer, NEW job \in RenderJob \union {NoJob},
           render' = [render EXCEPT ![w] = job], job # NoJob => JobOk(job, reel', video'),
           reel' \in [Reel -> Row], video' \subseteq Reel, Rests, added' \in Nat, added <= added',
           \A j \in jobs' : j \in [id : 1..added', reel : Reel, by : Renderer \union {NoJob}]
    PROVE  ReelIInv'
  <1>1. SweptOk'
    BY CalmFacts DEF SweptOk, Rests
  <1>2. RenderJob \subseteq RenderJob'
    BY DEF RenderJob, ReelIInv, RenderOk
  <1>3. render' \in [Renderer -> RenderJob' \union {NoJob}]
    BY <1>2 DEF ReelIInv, RenderOk
  <1>4. \A v \in Renderer : render[v] # NoJob => JobOk(render[v], reel', video')
    BY CalmFacts DEF ReelIInv, RenderOk
  <1>5. \A v \in Renderer : render'[v] = IF v = w THEN job ELSE render[v]
    BY DEF ReelIInv, RenderOk
  <1>6. \A v \in Renderer : render'[v] # NoJob => JobOk(render'[v], reel', video')
    BY <1>4, <1>5
  <1>7. ReelTypeOK'
    BY <1>3 DEF ReelIInv, ReelTypeOK, Rests, RenderJob
  <1> QED
    BY <1>1, <1>3, <1>6, <1>7, CalmFacts DEF ReelIInv, RenderOk

LEMMA MineFacts ==
    ASSUME ReelIInv, NEW w \in Renderer, render[w] # NoJob
    PROVE  /\ render[w] \in RenderJob /\ JobOk(render[w], reel, video) /\ Mine(w) \in Reel /\ Mine(w) = render[w].reel
           /\ reel[Mine(w)] \in Row
  BY DEF ReelIInv, ReelTypeOK, RenderOk, RenderJob, Mine

\* A worker goes on to a step before which nothing is left to be sure of.
LEMMA GoFacts ==
    ASSUME ReelIInv, NEW w \in Renderer, render[w] # NoJob, NEW step \in Step, Go(w, step),
           NEW now \in RenderJob, now = [render[w] EXCEPT !.at = step]
    PROVE  /\ render' = [render EXCEPT ![w] = now]
           /\ now.reel = Mine(w) /\ now.at = step /\ now.left = render[w].left
  BY MineFacts DEF Go, RenderJob, Mine

-----------------------------------------------------------------------------
(* The owner's requests and the cleanups *)

LEMMA RevokedFacts ==
    ASSUME ReelTypeOK
    PROVE  /\ Revoked \in [Reel -> Row]
           /\ \A r \in Reel : /\ Revoked[r].status = reel[r].status /\ Revoked[r].path = reel[r].path
                              /\ Over(r) => Revoked[r].life \in {"expired", "revoked", "deleted"}
                              /\ Revoked[r].life \in {"active", "none"} => ~Over(r)
  BY DEF ReelTypeOK, Revoked, Row, Over

LEMMA RequestsKeep ==
    ASSUME NEW r \in Reel
    PROVE  ReelIInv /\ (CreateReel(r) \/ EnqueueReel(r) \/ EnqueueFails(r) \/ RequestDies(r)
                        \/ ExpireReel(r) \/ ReplaceTrack(r)) => ReelIInv'
  <1> SUFFICES ASSUME ReelIInv,
                      CreateReel(r) \/ EnqueueReel(r) \/ EnqueueFails(r) \/ RequestDies(r)
                        \/ ExpireReel(r) \/ ReplaceTrack(r)
               PROVE  ReelIInv'
    OBVIOUS
  <1>1. ReelTypeOK /\ added \in Nat
    BY DEF ReelIInv, RenderOk
  <1>2. CASE CreateReel(r)
    <2>1. reel' \in [Reel -> Row] /\ Calm
      BY <1>1, <1>2, RevokedFacts DEF CreateReel, ReelTypeOK, Row, Calm, Over
    <2> QED
      BY <1>1, <1>2, <2>1, OtherStep DEF CreateReel, ReelTypeOK
  <1>3. CASE EnqueueReel(r)
    <2>1. Calm
      BY <1>3 DEF EnqueueReel, Calm, Over
    <2>2. ReelTypeOK'
      BY <1>1, <1>3 DEF EnqueueReel, Enqueued, ReelTypeOK
    <2> QED
      BY <1>1, <1>3, <2>1, <2>2, OtherStep DEF EnqueueReel, Enqueued
  <1>4. CASE EnqueueFails(r)
    <2>1. reel' \in [Reel -> Row] /\ Calm
      BY <1>1, <1>4 DEF EnqueueFails, ReelTypeOK, Row, Calm, Over
    <2> QED
      BY <1>1, <1>4, <2>1, OtherStep DEF EnqueueFails, ReelTypeOK
  <1>5. CASE RequestDies(r) \/ ReplaceTrack(r)
    <2>1. Calm
      BY <1>5 DEF RequestDies, ReplaceTrack, Calm, Over
    <2> QED
      BY <1>1, <1>5, <2>1, OtherStep DEF RequestDies, ReplaceTrack, ReelTypeOK
  <1>6. CASE ExpireReel(r)
    <2>1. reel' \in [Reel -> Row] /\ Calm
      BY <1>1, <1>6 DEF ExpireReel, ReelTypeOK, Row, Calm, Over
    <2> QED
      BY <1>1, <1>6, <2>1, OtherStep DEF ExpireReel, ReelTypeOK
  <1> QED
    BY <1>2, <1>3, <1>4, <1>5, <1>6

LEMMA RevokeReelsKeeps == ReelIInv /\ RevokeReels => ReelIInv'
  <1> SUFFICES ASSUME ReelIInv, RevokeReels PROVE ReelIInv'
    OBVIOUS
  <1>1. ReelTypeOK /\ added \in Nat
    BY DEF ReelIInv, RenderOk
  <1>2. reel' \in [Reel -> Row] /\ Calm
    BY <1>1, RevokedFacts DEF RevokeReels, ReelTypeOK, Row, Calm, Over
  <1> QED
    BY <1>1, <1>2, OtherStep DEF RevokeReels, ReelTypeOK

LEMMA SweepingKeeps == ASSUME NEW c \in Sweeper PROVE ReelIInv /\ Sweeping(c) => ReelIInv'
  <1> SUFFICES ASSUME ReelIInv, Sweeping(c) PROVE ReelIInv'
    OBVIOUS
  <1> DEFINE Found == [reel : Reel, path : BOOLEAN, at : {"remove", "delete"}]
  <1>1. ReelTypeOK /\ added \in Nat /\ sweep \in [Sweeper -> SUBSET Found]
    BY DEF ReelIInv, RenderOk, ReelTypeOK
  <1>2. CASE SweepSelect(c)
    <2> DEFINE found == {[reel |-> r, path |-> reel[r].path, at |-> "remove"] : r \in {q \in Reel : Outdated(q)}}
    <2>1. found \in SUBSET Found /\ \A s \in found : Over(s.reel)
      BY <1>1 DEF ReelTypeOK, Row, Outdated, Over
    <2>2. sweep' = [sweep EXCEPT ![c] = found] /\ UNCHANGED <<reel, video, adding, jobs, added, render, replaced, dropped>>
      BY <1>2 DEF SweepSelect
    <2> HIDE DEF found, Found
    <2>3. sweep' \in [Sweeper -> SUBSET Found]
      BY <1>1, <2>1, <2>2
    <2>4. ReelTypeOK'
      BY <1>1, <2>2, <2>3 DEF ReelTypeOK, Found
    <2>5. \A d \in Sweeper : \A s \in sweep'[d] : Over(s.reel) \/ \E t \in sweep[d] : t.reel = s.reel
      BY <1>1, <2>1, <2>2
    <2> QED
      BY <1>1, <2>2, <2>4, <2>5, OtherStep DEF Calm, Over
  <1>3. ASSUME NEW s \in sweep[c], SweepVideo(c, s) \/ SweepRow(c, s) PROVE ReelIInv'
    <2>1. s \in Found /\ s.reel \in Reel /\ Over(s.reel)
      BY <1>1 DEF ReelIInv, SweptOk
    <2> DEFINE done == [s EXCEPT !.at = "delete"]
    <2>2. done \in Found /\ done.reel = s.reel
      BY <2>1
    <2>3. PICK left \in SUBSET Found :
              /\ sweep' = [sweep EXCEPT ![c] = left]
              /\ \A t \in left : t \in sweep[c] \/ t.reel = s.reel
      <3> HIDE DEF done, Found
      <3>1. CASE SweepVideo(c, s)
        <4>1. sweep' = [sweep EXCEPT ![c] = (sweep[c] \ {s}) \union {done}]
          BY <3>1 DEF SweepVideo, done
        <4> QED
          BY <1>1, <2>2, <4>1
      <3>2. CASE SweepRow(c, s)
        BY <1>1, <3>2 DEF SweepRow
      <3> QED
        BY <1>3, <3>1, <3>2
    <2> HIDE DEF Found, done
    <2>4. \A d \in Sweeper : \A t \in sweep'[d] : \E u \in sweep[d] : u.reel = t.reel
      BY <1>1, <2>3
    <2>5. sweep' \in [Sweeper -> SUBSET Found]
      BY <1>1, <2>3
    <2>6. Calm /\ reel' \in [Reel -> Row] /\ video' \subseteq Reel
      BY <1>1, <1>3, <2>1 DEF SweepVideo, SweepRow, Outdated, Calm, Over, ReelTypeOK, Row
    <2>7. UNCHANGED <<adding, jobs, added, render, replaced, dropped>>
      BY <1>3 DEF SweepVideo, SweepRow
    <2>8. ReelTypeOK'
      BY <1>1, <2>5, <2>6, <2>7 DEF ReelTypeOK, Found
    <2> QED
      BY <1>1, <2>4, <2>6, <2>7, <2>8, OtherStep
  <1> QED
    BY <1>2, <1>3 DEF Sweeping

-----------------------------------------------------------------------------
(* The workers *)

\* A worker only goes on.
LEMMA OnlyGoes ==
    ASSUME ReelIInv, NEW w \in Renderer, render[w] # NoJob, NEW step \in Step \ {"markReady"}, Go(w, step),
           step \in {"select", "start", "items", "segment", "ffmpeg"} =>
               render[w].at \in {"select", "start", "items", "segment", "ffmpeg"},
           Calm, reel' \in [Reel -> Row], video' \subseteq Reel, Rests, UNCHANGED <<jobs, added>>
    PROVE  ReelIInv'
  <1>1. PICK now \in RenderJob : now = [render[w] EXCEPT !.at = step]
    BY MineFacts DEF RenderJob
  <1>2. JobOk(now, reel', video')
    BY <1>1, MineFacts DEF JobOk, RenderJob
  <1>3. added' \in Nat /\ added <= added' /\ \A j \in jobs' : j \in [id : 1..added', reel : Reel, by : Renderer \union {NoJob}]
    BY DEF ReelIInv, ReelTypeOK, RenderOk
  <1> QED
    BY <1>1, <1>2, <1>3, GoFacts, WorkerStep

LEMMA StepsKeep ==
    ASSUME NEW w \in Renderer
    PROVE  ReelIInv /\ (SelectReel(w) \/ ReadItems(w) \/ StillActive(w) \/ Concat(w) \/ ReadAttempts(w)
                        \/ FfmpegFails(w) \/ AckFails(w)) => ReelIInv'
  <1> SUFFICES ASSUME ReelIInv,
                      SelectReel(w) \/ ReadItems(w) \/ StillActive(w) \/ Concat(w) \/ ReadAttempts(w)
                        \/ FfmpegFails(w) \/ AckFails(w)
               PROVE  ReelIInv'
    OBVIOUS
  <1>1. Rests /\ UNCHANGED <<reel, video, jobs, added>>
    BY DEF SelectReel, ReadItems, StillActive, Concat, ReadAttempts, FfmpegFails, AckFails, OnlyRender
  <1>2. Calm /\ reel' \in [Reel -> Row] /\ video' \subseteq Reel
    BY <1>1 DEF Calm, Over, ReelIInv, ReelTypeOK
  <1>3. PICK step \in Step \ {"markReady"} :
            /\ Go(w, step) /\ render[w] # NoJob
            /\ step \in {"select", "start", "items", "segment", "ffmpeg"} =>
                   render[w].at \in {"select", "start", "items", "segment", "ffmpeg"}
    BY DEF SelectReel, ReadItems, StillActive, Concat, ReadAttempts, FfmpegFails, AckFails, At, Step
  <1> QED
    BY <1>1, <1>2, <1>3, OnlyGoes

LEMMA MarksKeep ==
    ASSUME NEW w \in Renderer
    PROVE  ReelIInv /\ (StartRender(w) \/ MarkFailed(w) \/ Requeue(w) \/ GiveUp(w)) => ReelIInv'
  <1> SUFFICES ASSUME ReelIInv, StartRender(w) \/ MarkFailed(w) \/ Requeue(w) \/ GiveUp(w) PROVE ReelIInv'
    OBVIOUS
  <1>1. Rests /\ UNCHANGED <<video, jobs, added>> /\ render[w] # NoJob /\ Mine(w) \in Reel
    BY MineFacts DEF StartRender, MarkFailed, Requeue, GiveUp, At
  <1>2. Calm /\ reel' \in [Reel -> Row] /\ video' \subseteq Reel
    BY <1>1 DEF StartRender, MarkFailed, Requeue, GiveUp, UpdateUnrevoked, Update, Calm, Over, Row,
                ReelIInv, ReelTypeOK
  <1>3. PICK step \in Step \ {"markReady"} :
            /\ Go(w, step)
            /\ step \in {"select", "start", "items", "segment", "ffmpeg"} =>
                   render[w].at \in {"select", "start", "items", "segment", "ffmpeg"}
    BY DEF StartRender, MarkFailed, Requeue, GiveUp, At, Step
  <1> QED
    BY <1>1, <1>2, <1>3, OnlyGoes

LEMMA RenderSegmentKeeps == ASSUME NEW w \in Renderer PROVE ReelIInv /\ RenderSegment(w) => ReelIInv'
  <1> SUFFICES ASSUME ReelIInv, RenderSegment(w) PROVE ReelIInv'
    OBVIOUS
  <1>1. Rests /\ UNCHANGED <<video, jobs, added>> /\ render[w] # NoJob /\ render[w].at = "ffmpeg"
    BY DEF RenderSegment, At
  <1>2. Mine(w) \in Reel /\ render[w] \in RenderJob /\ JobOk(render[w], reel, video)
    BY <1>1, MineFacts
  <1>3. Calm /\ reel' \in [Reel -> Row] /\ video' \subseteq Reel
    BY <1>1, <1>2 DEF RenderSegment, Update, Calm, Over, Row, ReelIInv, ReelTypeOK
  <1>4. render[w].left \in 1..Tracks
    BY <1>1, <1>2, ReelAssumption DEF JobOk, RenderJob
  <1>5. PICK left \in 0..Tracks, step \in {"concat", "segment"} :
            /\ left = render[w].left - 1 /\ (step = "segment" => left # 0)
            /\ step = IF render[w].left = 1 THEN "concat" ELSE "segment"
    <2>1. Tracks \in Nat
      BY ReelAssumption
    <2>2. render[w].left - 1 \in 0..Tracks /\ (render[w].left # 1 => render[w].left - 1 # 0)
      BY <1>4, <2>1
    <2> QED
      BY <2>2
  <1>6. PICK now \in RenderJob : now = [render[w] EXCEPT !.left = left, !.at = step]
    BY <1>2 DEF RenderJob, Step
  <1>8. now.left = left /\ now.at = step
    BY <1>2, <1>6 DEF RenderJob
  <1>9. JobOk(now, reel', video')
    BY <1>5, <1>8 DEF JobOk
  <1>10. render' = [render EXCEPT ![w] = now]
    BY <1>5, <1>6 DEF RenderSegment, ReelIInv, RenderOk
  <1>7. added' \in Nat /\ added <= added' /\ \A j \in jobs' : j \in [id : 1..added', reel : Reel, by : Renderer \union {NoJob}]
    BY <1>1 DEF ReelIInv, ReelTypeOK, RenderOk
  <1> QED
    BY <1>1, <1>3, <1>7, <1>9, <1>10, WorkerStep

\* The video is put in place by one step, and the row says so in another.
LEMMA RenameVideoKeeps == ASSUME NEW w \in Renderer PROVE ReelIInv /\ RenameVideo(w) => ReelIInv'
  <1> SUFFICES ASSUME ReelIInv, RenameVideo(w) PROVE ReelIInv'
    OBVIOUS
  <1>1. Rests /\ UNCHANGED <<reel, jobs, added>> /\ render[w] # NoJob /\ Go(w, "markReady")
    BY DEF RenameVideo, At
  <1>2. Mine(w) \in Reel /\ render[w] \in RenderJob /\ video' = video \union {Mine(w)}
    BY <1>1, MineFacts DEF RenameVideo
  <1>3. Calm /\ reel' \in [Reel -> Row] /\ video' \subseteq Reel
    BY <1>1, <1>2 DEF Calm, Over, ReelIInv, ReelTypeOK
  <1>4. PICK now \in RenderJob : now = [render[w] EXCEPT !.at = "markReady"]
    BY <1>2 DEF RenderJob, Step
  <1>5. render' = [render EXCEPT ![w] = now] /\ now.reel = Mine(w) /\ now.at = "markReady"
    <2>1. now.reel = Mine(w) /\ now.at = "markReady"
      BY <1>2, <1>4 DEF RenderJob, Mine
    <2>2. render' = [render EXCEPT ![w] = [render[w] EXCEPT !.at = "markReady"]]
      BY <1>1 DEF Go, ReelIInv, RenderOk
    <2> QED
      BY <1>4, <2>1, <2>2
  <1>7. JobOk(now, reel', video')
    BY <1>2, <1>5 DEF JobOk
  <1>6. added' \in Nat /\ added <= added' /\ \A j \in jobs' : j \in [id : 1..added', reel : Reel, by : Renderer \union {NoJob}]
    BY <1>1 DEF ReelIInv, ReelTypeOK, RenderOk
  <1> QED
    BY <1>1, <1>3, <1>5, <1>6, <1>7, WorkerStep

\* The one step that makes a reel ready.
LEMMA MarkReadyKeeps == ASSUME NEW w \in Renderer PROVE ReelIInv /\ MarkReady(w) => ReelIInv'
  <1> SUFFICES ASSUME ReelIInv, MarkReady(w) PROVE ReelIInv'
    OBVIOUS
  <1>1. Rests /\ UNCHANGED <<video, jobs, added>> /\ render[w] # NoJob /\ render[w].at = "markReady"
    BY DEF MarkReady, At
  <1>2. Mine(w) \in Reel /\ render[w] \in RenderJob /\ (Over(Mine(w)) \/ Mine(w) \in video)
    BY <1>1, MineFacts DEF JobOk, Over
  <1>3. /\ reel' \in [Reel -> Row] /\ \A r \in Reel : reel'[r].life = reel[r].life
        /\ \A r \in Reel \ {Mine(w)} : reel'[r] = reel[r]
        /\ reel'[Mine(w)] = reel[Mine(w)] \/ reel'[Mine(w)].path
    <2>1. reel \in [Reel -> Row] /\ reel[Mine(w)] \in Row
      BY <1>2 DEF ReelIInv, ReelTypeOK
    <2>2. CASE reel' = reel
      BY <2>1, <2>2
    <2>3. CASE reel' = [reel EXCEPT ![Mine(w)].status = "ready", ![Mine(w)].path = TRUE]
      BY <1>2, <2>1, <2>3 DEF Row
    <2> QED
      BY <2>2, <2>3 DEF MarkReady
  <1>4. ReadyOk'
    BY <1>1, <1>2, <1>3 DEF ReelIInv, ReadyOk, Over
  <1>5. SweptOk'
    BY <1>1, <1>3 DEF Rests, ReelIInv, ReelTypeOK, SweptOk, Over
  <1>6. PICK now \in RenderJob : now = [render[w] EXCEPT !.at = "done"]
    BY <1>2 DEF RenderJob, Step
  <1>7. render' = [render EXCEPT ![w] = now] /\ now.at = "done"
    BY <1>1, <1>2, <1>6, GoFacts DEF MarkReady, Step
  <1>8. RenderOk'
    <2>1. \A v \in Renderer : render'[v] = IF v = w THEN now ELSE render[v]
      BY <1>7 DEF ReelIInv, RenderOk
    <2>2. \A v \in Renderer : render[v] # NoJob => JobOk(render[v], reel', video')
      BY <1>1, <1>3 DEF ReelIInv, RenderOk, JobOk, RenderJob
    <2>3. JobOk(now, reel', video')
      BY <1>7 DEF JobOk
    <2>4. \A v \in Renderer : render'[v] # NoJob => JobOk(render'[v], reel', video')
      BY <2>1, <2>2, <2>3
    <2>5. RenderJob' = RenderJob /\ added' \in Nat
      BY <1>1 DEF RenderJob, ReelIInv, RenderOk
    <2>6. render' \in [Renderer -> RenderJob' \union {NoJob}]
      BY <1>6, <1>7, <2>5 DEF ReelIInv, RenderOk
    <2> QED
      BY <2>4, <2>5, <2>6 DEF RenderOk
  <1>9. ReelTypeOK'
    BY <1>1, <1>3, <1>8 DEF ReelIInv, ReelTypeOK, RenderOk, RenderJob, Rests
  <1> QED
    BY <1>4, <1>5, <1>8, <1>9 DEF ReelIInv

LEMMA QueueStepsKeep ==
    ASSUME NEW w \in Renderer
    PROVE  ReelIInv /\ (TakeReelJob(w) \/ ReaddJob(w) \/ AckReelJob(w) \/ RendererStops(w)) => ReelIInv'
  <1> SUFFICES ASSUME ReelIInv, TakeReelJob(w) \/ ReaddJob(w) \/ AckReelJob(w) \/ RendererStops(w) PROVE ReelIInv'
    OBVIOUS
  <1>1. Rests /\ UNCHANGED <<reel, video>>
    BY DEF TakeReelJob, ReaddJob, AckReelJob, RendererStops
  <1>2. Calm /\ reel' \in [Reel -> Row] /\ video' \subseteq Reel /\ added \in Nat
    BY <1>1 DEF Calm, Over, ReelIInv, ReelTypeOK, RenderOk
  <1>3. CASE TakeReelJob(w)
    <2>1. PICK j \in jobs :
              /\ jobs' = (jobs \ {j}) \union {[j EXCEPT !.by = w]}
              /\ render' = [render EXCEPT ![w] =
                    [at |-> "select", id |-> j.id, reel |-> j.reel, left |-> Tracks]]
      BY <1>3 DEF TakeReelJob
    <2>2. added' = added /\ j \in [id : 1..added, reel : Reel, by : Renderer \union {NoJob}]
      BY <1>3 DEF TakeReelJob, ReelIInv, ReelTypeOK
    <2>6. Tracks \in 0..Tracks /\ Tracks # 0 /\ "select" \in Step
      BY ReelAssumption DEF Step
    <2>3. PICK now \in RenderJob : now = [at |-> "select", id |-> j.id, reel |-> j.reel, left |-> Tracks]
      BY <2>2, <2>6 DEF RenderJob
    <2>4. JobOk(now, reel', video')
      BY <2>3, <2>6 DEF JobOk
    <2>7. render' = [render EXCEPT ![w] = now] /\ added' \in Nat /\ added <= added'
      BY <1>2, <2>1, <2>2, <2>3
    <2>5. \A k \in jobs' : k \in [id : 1..added', reel : Reel, by : Renderer \union {NoJob}]
      BY <2>1, <2>2 DEF ReelIInv, ReelTypeOK
    <2> QED
      BY <1>1, <1>2, <2>4, <2>5, <2>7, WorkerStep
  <1>4. CASE ReaddJob(w)
    <2>1. render[w] # NoJob /\ Mine(w) \in Reel /\ render[w] \in RenderJob /\ added' = added + 1
      BY <1>4, MineFacts DEF ReaddJob, Enqueued, At
    <2>2. PICK now \in RenderJob : now = [render[w] EXCEPT !.at = "ack"]
      BY <2>1 DEF RenderJob, Step
    <2>3. render' = [render EXCEPT ![w] = now] /\ JobOk(now, reel', video')
      BY <1>4, <2>1, <2>2, GoFacts DEF JobOk, ReaddJob, Step
    <2>4. \A k \in jobs' : k \in [id : 1..added', reel : Reel, by : Renderer \union {NoJob}]
      BY <1>2, <1>4, <2>1 DEF ReaddJob, Enqueued, ReelIInv, ReelTypeOK
    <2>5. added' \in Nat /\ added <= added'
      BY <1>2, <2>1
    <2> QED
      BY <1>1, <1>2, <2>3, <2>4, <2>5, WorkerStep
  <1>5. CASE AckReelJob(w) \/ RendererStops(w)
    <2>1. render' = [render EXCEPT ![w] = NoJob] /\ added' = added /\ jobs' \subseteq jobs
      BY <1>5 DEF AckReelJob, RendererStops
    <2>2. \A k \in jobs' : k \in [id : 1..added', reel : Reel, by : Renderer \union {NoJob}]
      BY <2>1 DEF ReelIInv, ReelTypeOK
    <2>3. added' \in Nat /\ added <= added'
      BY <1>2, <2>1
    <2>4. PICK job \in RenderJob \union {NoJob} : job = NoJob
      OBVIOUS
    <2> QED
      BY <1>1, <1>2, <2>1, <2>2, <2>3, <2>4, WorkerStep
  <1> QED
    BY <1>3, <1>4, <1>5

-----------------------------------------------------------------------------
(* The reels: the theorems *)

LEMMA ReelIInvInit == ReelInit => ReelIInv
  <1> SUFFICES ASSUME ReelInit PROVE ReelIInv
    OBVIOUS
  <1>1. ReelTypeOK /\ ReadyOk /\ SweptOk
    BY DEF ReelInit, ReelTypeOK, Row, ReadyOk, SweptOk
  <1>2. RenderOk
    BY DEF ReelInit, RenderOk
  <1> QED
    BY <1>1, <1>2 DEF ReelIInv

LEMMA ReelIInvNext == ReelIInv /\ [ReelNext]_reelVars => ReelIInv'
  <1> SUFFICES ASSUME ReelIInv, [ReelNext]_reelVars PROVE ReelIInv'
    OBVIOUS
  <1>1. CASE UNCHANGED reelVars
    BY <1>1 DEF ReelIInv, ReelTypeOK, ReadyOk, SweptOk, RenderOk, RenderJob, JobOk, Over, reelVars
  <1> QED
    BY <1>1, RequestsKeep, RevokeReelsKeeps, SweepingKeeps, StepsKeep, MarksKeep, RenderSegmentKeeps,
       RenameVideoKeeps, MarkReadyKeeps, QueueStepsKeep DEF ReelNext, Rendering

\* A reel that says it is ready, and is neither revoked nor expired, can be
\* served, however many tracks, requests, workers and cleanups there are: two
\* workers may render it at once, an acknowledgement may fail and the job be
\* done again, and each cleanup removes videos long after it selected their
\* rows (music-reel-worker.js, music-reel-cleanup.js).
THEOREM ReadyReelsAreServed == ReelSpec => []ReelInv
  <1>1. ReelIInv => ReelInv
    BY DEF ReelIInv, ReadyOk, Over, ReelInv, ReadyHasVideo, Active
  <1> QED
    BY <1>1, ReelIInvInit, ReelIInvNext, PTL DEF ReelSpec

\* A video is only ever removed of a reel that was revoked or has expired,
\* before the statement that selected it and for good.
THEOREM NoLiveVideoIsSwept == ReelSpec => [][\A r \in video \ video' : Over(r)]_reelVars
  <1>1. ReelIInv /\ [ReelNext]_reelVars => [\A r \in video \ video' : Over(r)]_reelVars
    <2> SUFFICES ASSUME ReelIInv, ReelNext, NEW r \in video \ video' PROVE Over(r)
      OBVIOUS
    <2>1. PICK c \in Sweeper : \E s \in sweep[c] : SweepVideo(c, s)
      BY DEF ReelNext, CreateReel, EnqueueReel, EnqueueFails, RequestDies, ExpireReel, ReplaceTrack,
             RevokeReels, Rendering, TakeReelJob, SelectReel, StartRender, ReadItems, StillActive,
             RenderSegment, FfmpegFails, Concat, RenameVideo, MarkReady, MarkFailed, ReadAttempts,
             Requeue, ReaddJob, GiveUp, AckReelJob, AckFails, RendererStops, Sweeping, SweepSelect,
             SweepRow, OnlyRender
    <2> QED
      BY <2>1 DEF SweepVideo, ReelIInv, SweptOk
  <1> QED
    BY <1>1, ReelIInvInit, ReelIInvNext, PTL DEF ReelSpec

-----------------------------------------------------------------------------
(* Sorting: what comes out is all there was, in its order *)

Orders(before, S) ==
    /\ \A p \in S : <<p, p>> \notin before
    /\ \A p, q \in S : p = q \/ <<p, q>> \in before \/ <<q, p>> \in before
    /\ \A p, q, r \in S : <<p, q>> \in before /\ <<q, r>> \in before => <<p, r>> \in before

LEMMA RankBounds ==
    ASSUME NEW S, IsFiniteSet(S), NEW before, Orders(before, S), NEW p \in S
    PROVE  RankIn(p, S, before) \in 0..(Cardinality(S) - 1)
  <1> DEFINE earlier == {q \in S : <<q, p>> \in before}
  <1>1. RankIn(p, S, before) = Cardinality(earlier)
    BY DEF RankIn
  <1>2. earlier \subseteq S /\ earlier # S
    BY DEF Orders
  <1> HIDE DEF earlier
  <1>3. IsFiniteSet(earlier)
    BY <1>2, FS_Subset
  <1>4. Cardinality(earlier) \in Nat /\ Cardinality(S) \in Nat
    BY <1>3, FS_CardinalityType
  <1>5. Cardinality(earlier) < Cardinality(S)
    BY <1>2, <1>4, FS_Subset
  <1> QED
    BY <1>1, <1>4, <1>5

LEMMA RanksFollow ==
    ASSUME NEW S, IsFiniteSet(S), NEW before, Orders(before, S),
           NEW p \in S, NEW q \in S, <<p, q>> \in before
    PROVE  RankIn(p, S, before) < RankIn(q, S, before)
  <1> DEFINE ofP == {r \in S : <<r, p>> \in before}
  <1> DEFINE ofQ == {r \in S : <<r, q>> \in before}
  <1>1. ofP \subseteq ofQ /\ p \in ofQ /\ p \notin ofP
    BY DEF Orders
  <1>2. RankIn(p, S, before) = Cardinality(ofP) /\ RankIn(q, S, before) = Cardinality(ofQ)
    BY DEF RankIn
  <1>3. ofP \subseteq S /\ ofQ \subseteq S
    OBVIOUS
  <1> HIDE DEF ofP, ofQ
  <1>4. IsFiniteSet(ofP) /\ IsFiniteSet(ofQ)
    BY <1>3, FS_Subset
  <1>5. Cardinality(ofP) \in Nat /\ Cardinality(ofQ) \in Nat
    BY <1>4, FS_CardinalityType
  <1>6. ofP # ofQ
    BY <1>1
  <1> QED
    BY <1>1, <1>2, <1>4, <1>5, <1>6, FS_Subset

\* Every rank is somebody's: there are as many as elements, and no two elements
\* have the same.
LEMMA RankTaken ==
    ASSUME NEW S, IsFiniteSet(S), NEW before, Orders(before, S), NEW n \in 1..Cardinality(S)
    PROVE  \E p \in S : RankIn(p, S, before) = n - 1
  <1> DEFINE size == Cardinality(S)
  <1> DEFINE ranks == 0..(size - 1)
  <1> DEFINE rank == [p \in S |-> RankIn(p, S, before)]
  <1>1. size \in Nat
    BY FS_CardinalityType
  <1>2. rank \in [S -> ranks]
    BY RankBounds
  <1>3. ASSUME NEW p \in S, NEW q \in S, p # q
        PROVE  rank[p] # rank[q]
    <2>1. <<p, q>> \in before \/ <<q, p>> \in before
      BY <1>3 DEF Orders
    <2>2. RankIn(p, S, before) < RankIn(q, S, before) \/ RankIn(q, S, before) < RankIn(p, S, before)
      BY <2>1, RanksFollow
    <2>3. RankIn(p, S, before) \in Int /\ RankIn(q, S, before) \in Int
      BY <1>1, RankBounds
    <2>4. RankIn(p, S, before) # RankIn(q, S, before)
      BY <2>2, <2>3
    <2> QED
      BY <2>4
  <1>4. rank \in Injection(S, ranks)
    <2> HIDE DEF ranks
    <2> QED
      BY <1>2, <1>3 DEF Injection, IsInjective
  <1>5. IsFiniteSet(ranks) /\ Cardinality(ranks) = size
    <2>1. 0 \in Int /\ size - 1 \in Int
      BY <1>1
    <2>2. IsFiniteSet(ranks) /\ Cardinality(ranks) = IF 0 > size - 1 THEN 0 ELSE (size - 1) - 0 + 1
      BY <2>1, FS_Interval
    <2> HIDE DEF size
    <2> QED
      BY <1>1, <2>2
  <1>6. rank \in Surjection(S, ranks)
    <2> HIDE DEF rank, ranks
    <2> QED
      BY <1>4, <1>5, FS_Injection DEF size
  <1>7. n - 1 \in ranks
    <2> HIDE DEF size
    <2>1. n \in 1..size
      BY DEF size
    <2> QED
      BY <1>1, <2>1
  <1>8. \E p \in S : rank[p] = n - 1
    <2> HIDE DEF rank, ranks
    <2> QED
      BY <1>6, <1>7 DEF Surjection
  <1> QED
    BY <1>8

LEMMA OrderedIs ==
    ASSUME NEW S, IsFiniteSet(S), NEW before, Orders(before, S)
    PROVE  /\ Cardinality(S) \in Nat /\ Ordered(S, before) \in [1..Cardinality(S) -> S]
           /\ \A p \in S : \E n \in 1..Cardinality(S) : Ordered(S, before)[n] = p
           /\ \A n, m \in 1..Cardinality(S) :
                 n < m => <<Ordered(S, before)[n], Ordered(S, before)[m]>> \in before
  <1> DEFINE size == Cardinality(S)
             o == Ordered(S, before)
  <1>1. size \in Nat
    BY FS_CardinalityType
  <1>2. o = [n \in 1..size |-> CHOOSE p \in S : RankIn(p, S, before) = n - 1]
    BY DEF Ordered
  <1> HIDE DEF o
  <1>3. \A n \in 1..size : o[n] \in S /\ RankIn(o[n], S, before) = n - 1
    BY <1>2, RankTaken
  <1> HIDE DEF size
  <1>4. ASSUME NEW p \in S PROVE \E n \in 1..size : o[n] = p
    <2> DEFINE n == RankIn(p, S, before) + 1
    <2>1. RankIn(p, S, before) \in 0..(size - 1)
      BY RankBounds DEF size
    <2>2. n \in 1..size /\ n - 1 = RankIn(p, S, before)
      BY <1>1, <2>1
    <2>3. o[n] \in S /\ RankIn(o[n], S, before) = RankIn(p, S, before)
      BY <1>3, <2>2
    <2>4. o[n] = p
      <3> HIDE DEF n
      <3>1. RankIn(o[n], S, before) \in Int
        BY <2>1, <2>3
      <3>2. ~(<<o[n], p>> \in before) /\ ~(<<p, o[n]>> \in before)
        BY <2>1, <2>3, <3>1, RanksFollow
      <3> QED
        BY <2>3, <3>2 DEF Orders
    <2> QED
      BY <2>2, <2>4
  <1>5. ASSUME NEW n \in 1..size, NEW m \in 1..size, n < m
        PROVE  <<o[n], o[m]>> \in before
    <2>1. /\ o[n] \in S /\ RankIn(o[n], S, before) = n - 1
          /\ o[m] \in S /\ RankIn(o[m], S, before) = m - 1
      BY <1>3
    <2>2. n \in Int /\ m \in Int
      BY <1>1
    <2>3. o[n] # o[m]
      BY <1>5, <2>1, <2>2
    <2>4. ~(<<o[m], o[n]>> \in before)
      <3>1. ~(RankIn(o[m], S, before) < RankIn(o[n], S, before))
        BY <1>5, <2>1, <2>2
      <3> QED
        BY <2>1, <3>1, RanksFollow
    <2> QED
      BY <2>1, <2>3, <2>4 DEF Orders
  <1>6. o \in [1..size -> S]
    BY <1>2, <1>3
  <1> QED
    BY <1>1, <1>4, <1>5, <1>6 DEF size, o

LEMMA MinIsLeast ==
    ASSUME NEW S \in SUBSET Nat, S # {}
    PROVE  Min(S) \in S /\ \A x \in S : Min(S) <= x
  <1>1. \E x \in S : \A y \in S : ~(<<y, x>> \in OpToRel(<, Nat))
    BY WFMin, NatLessThanWellFounded
  <1>2. PICK x \in S : \A y \in S : ~(<<y, x>> \in OpToRel(<, Nat))
    BY <1>1
  <1>3. \A y \in S : x \in Nat /\ y \in Nat /\ ~(y < x)
    BY <1>2 DEF OpToRel
  <1>4. \A y \in S : x =< y
    BY <1>3
  <1> QED
    BY <1>4 DEF Min

LEMMA GreaterIsOne ==
    ASSUME NEW a \in Int, NEW b \in Int
    PROVE  Max({a, b}) = IF a >= b THEN a ELSE b
  <1> DEFINE m == IF a >= b THEN a ELSE b
  <1>1. m \in {a, b} /\ \A y \in {a, b} : m >= y
    OBVIOUS
  <1>2. \A x \in {a, b} : (\A y \in {a, b} : x >= y) => x = m
    OBVIOUS
  <1> QED
    BY <1>1, <1>2 DEF Max

LEMMA MaxIsThis ==
    ASSUME NEW S \in SUBSET Nat, NEW m \in S, \A x \in S : x <= m
    PROVE  Max(S) = m
  <1>1. m \in S /\ \A y \in S : m >= y
    OBVIOUS
  <1>2. \A x \in S : (\A y \in S : x >= y) => x = m
    OBVIOUS
  <1> QED
    BY <1>1, <1>2 DEF Max

-----------------------------------------------------------------------------
(* Wrapped: the lock and the reports *)

WrappedSpec == WrappedInit /\ [][WrappedNext]_wrappedVars

\* The row of the lock says when the last opening allows the next one.
LockIInv ==
    /\ today \in Nat /\ opened \in Seq(Nat) /\ OncePerPeriod
    /\ nextOpen = IF opened = <<>> THEN 0 ELSE opened[Len(opened)] + Period

\* An edit that has been checked stays in order, whatever the report becomes.
ReportIInv ==
    /\ PeriodsInOrder /\ edit = [e \in Edit |-> edit[e]]
    /\ \A e \in Edit : edit[e] # NoReport => edit[e].start <= edit[e].end

LEMMA LockStays ==
    ASSUME LockIInv, UNCHANGED <<nextOpen, opened>>, today' \in Nat
    PROVE  LockIInv'
  BY DEF LockIInv, OncePerPeriod

LEMMA AcquireKeepsLock ==
    ASSUME LockIInv, Acquires, nextOpen' = today + Period, opened' = Append(opened, today), today' = today
    PROVE  LockIInv'
  <1> DEFINE n == Len(opened)
  <1>1. n \in Nat /\ today \in Nat /\ opened \in Seq(Nat) /\ Period \in Nat \ {0}
    BY LenProperties, WrappedAssumption DEF LockIInv
  <1>2. /\ opened' \in Seq(Nat) /\ Len(opened') = n + 1 /\ opened'[n + 1] = today
        /\ \A i \in 1..n : opened'[i] = opened[i]
    BY <1>1, AppendProperties
  <1>3. opened' # <<>>
    BY <1>1, <1>2, EmptySeq
  <1>4. n # 0 => opened[n] \in Nat /\ nextOpen = opened[n] + Period
    BY <1>1, EmptySeq, ElementOfSeq DEF LockIInv
  <1>5. n # 0 => today - opened[n] >= Period
    BY <1>1, <1>4 DEF Acquires
  <1>6. \A i \in 2..n : opened[i] - opened[i - 1] >= Period
    BY DEF LockIInv, OncePerPeriod
  <1> HIDE DEF n
  <1>7. ASSUME NEW i \in 2..(n + 1) PROVE opened'[i] - opened'[i - 1] >= Period
    <2>1. CASE i = n + 1
      <3>1. n \in 1..n /\ i - 1 = n /\ n # 0
        BY <1>1, <1>7, <2>1
      <3> QED
        BY <1>2, <1>5, <2>1, <3>1
    <2>2. CASE i # n + 1
      <3>1. i \in 2..n /\ i \in 1..n /\ i - 1 \in 1..n
        BY <1>1, <1>7, <2>2
      <3> QED
        BY <1>2, <1>6, <3>1
    <2> QED
      BY <2>1, <2>2
  <1> QED
    BY <1>1, <1>2, <1>3, <1>7 DEF LockIInv, OncePerPeriod

\* However many requests ask at once, the lock opens once in a period: the
\* upsert that finds it shut returns no row, whatever the request saw before
\* (wrapped.js:502).
THEOREM OpensOncePerPeriod == WrappedSpec => []OncePerPeriod
  <1>1. WrappedInit => LockIInv
    BY EmptySeq DEF WrappedInit, LockIInv, OncePerPeriod
  <1>2. LockIInv /\ [WrappedNext]_wrappedVars => LockIInv'
    <2> SUFFICES ASSUME LockIInv, [WrappedNext]_wrappedVars PROVE LockIInv'
      OBVIOUS
    <2>1. ASSUME NEW v \in Visit, CurrentAcquires(v) PROVE LockIInv'
      <3>1. CASE Acquires
        BY <2>1, <3>1, AcquireKeepsLock DEF CurrentAcquires
      <3>2. CASE ~Acquires
        BY <2>1, <3>2, LockStays DEF CurrentAcquires, LockIInv
      <3> QED
        BY <3>1, <3>2
    <2>2. CASE ~(\E v \in Visit : CurrentAcquires(v))
      <3>1. UNCHANGED <<nextOpen, opened>>
        BY <2>2 DEF WrappedNext, Recording, Record, Opening, Midnight, CurrentAsks, Reporting,
               PostReport, PutReads, PutWrites, DeleteReport, wrappedVars
      <3>2. today' \in {today, today + 1}
        BY <2>2 DEF WrappedNext, Recording, Record, Opening, Midnight, CurrentAsks, Reporting,
               PostReport, PutReads, PutWrites, DeleteReport, wrappedVars
      <3> QED
        BY <3>1, <3>2, LockStays DEF LockIInv
    <2> QED
      BY <2>1, <2>2
  <1>3. LockIInv => OncePerPeriod
    BY DEF LockIInv
  <1> QED
    BY <1>1, <1>2, <1>3, PTL DEF WrappedSpec

\* No interleaving of two edits, each of which sets one of the days, leaves a
\* report that ends before it starts: an edit writes both days as it checked
\* them (wrapped.js:747).
THEOREM ReportsInOrder == WrappedSpec => []PeriodsInOrder
  <1>1. WrappedInit => ReportIInv
    BY DEF WrappedInit, ReportIInv, PeriodsInOrder
  <1>2. ReportIInv /\ [WrappedNext]_wrappedVars => ReportIInv'
    <2> SUFFICES ASSUME ReportIInv, [WrappedNext]_wrappedVars PROVE ReportIInv'
      OBVIOUS
    <2>1. CASE Reporting
      <3>1. ASSUME NEW start \in PeriodDay, NEW end \in PeriodDay, PostReport(start, end) PROVE ReportIInv'
        BY <3>1 DEF PostReport, ReportIInv, PeriodsInOrder
      <3>2. ASSUME NEW e \in Edit, NEW s, NEW f, PutReads(e, [start |-> s, end |-> f]) PROVE ReportIInv'
        <4>1. PICK from, to : /\ from <= to /\ report' = report
                              /\ edit' = [edit EXCEPT ![e] =
                                    [given |-> [start |-> s, end |-> f], start |-> from, end |-> to]]
          BY <3>2 DEF PutReads
        <4> QED
          BY <4>1 DEF ReportIInv, PeriodsInOrder
      <3>3. ASSUME NEW e \in Edit, PutWrites(e) PROVE ReportIInv'
        BY <3>3 DEF PutWrites, ReportIInv, PeriodsInOrder
      <3>4. CASE DeleteReport
        BY <3>4 DEF DeleteReport, ReportIInv, PeriodsInOrder
      <3> QED
        BY <2>1, <3>1, <3>2, <3>3, <3>4 DEF Reporting
    <2>2. CASE UNCHANGED <<report, edit>>
      BY <2>2 DEF ReportIInv, PeriodsInOrder
    <2> QED
      BY <2>1, <2>2 DEF WrappedNext, Recording, Record, Opening, Midnight, CurrentAsks,
             CurrentAcquires, wrappedVars
  <1>3. ReportIInv => PeriodsInOrder
    BY DEF ReportIInv
  <1> QED
    BY <1>1, <1>2, <1>3, PTL DEF WrappedSpec

-----------------------------------------------------------------------------
(* Wrapped: the events in their order *)

LEMMA EventTyped ==
    ASSUME NEW x \in Heard
    PROVE  /\ x.device \in Listener \union {NoAddress} /\ x.track \in Track /\ x.action \in {"play", "pause"}
           /\ x.at \in Nat /\ x.position \in Nat /\ KeyOf(x) \in Key /\ DayOf(x) \in Days
           /\ TrackLength[x.track] \in Nat
  <1>1. /\ x.device \in Listener \union {NoAddress} /\ x.track \in Track /\ x.action \in {"play", "pause"}
        /\ x.at \in Instant /\ x.position \in Spot
    BY DEF Heard
  <1> QED
    BY <1>1, WrappedAssumption DEF KeyOf, Key, DayOf, Days

\* Sorting gives all events of the log, as often as they are there, by time.
LEMMA SortedFacts ==
    ASSUME log \in Seq(Heard)
    PROVE  /\ SortedEvents \in Seq(Heard) /\ Len(SortedEvents) = Len(log) /\ DOMAIN SortedEvents = DOMAIN log
           /\ \A i, j \in 1..Len(log) : i < j => SortedEvents[i].at <= SortedEvents[j].at
           /\ \A i \in 1..Len(log) : \E k \in 1..Len(log) : SortedEvents[k] = log[i]
           /\ \A k \in 1..Len(log) : \E i \in 1..Len(log) : SortedEvents[k] = log[i]
  <1> DEFINE n == Len(log)
             ids == 1..n
             before == {p \in (DOMAIN log) \X (DOMAIN log) : Earlier(p[1], p[2])}
             id == Ordered(ids, before)
             e == SortedEvents
  <1>1. n \in Nat /\ DOMAIN log = ids /\ \A i \in ids : log[i] \in Heard /\ log[i].at \in Nat
    <2>1. n \in Nat /\ DOMAIN log = ids /\ \A i \in ids : log[i] \in Heard
      BY LenProperties, ElementOfSeq
    <2> QED
      BY <2>1, EventTyped
  <1>2. IsFiniteSet(ids) /\ Cardinality(ids) = n
    <2>1. IsFiniteSet(1..n) /\ Cardinality(1..n) = IF 1 > n THEN 0 ELSE n - 1 + 1
      BY <1>1, FS_Interval
    <2> QED
      BY <1>1, <2>1
  <1>3. \A i, j \in ids : <<i, j>> \in before <=> Earlier(i, j)
    BY <1>1
  <1>4. Orders(before, ids)
    <2>1. \A i \in ids : i \in Int
      BY <1>1
    <2>2. \A i, j, k \in ids : /\ ~Earlier(i, i) /\ (i = j \/ Earlier(i, j) \/ Earlier(j, i))
                               /\ Earlier(i, j) /\ Earlier(j, k) => Earlier(i, k)
      <3> SUFFICES ASSUME NEW i \in ids, NEW j \in ids, NEW k \in ids
                   PROVE  /\ ~Earlier(i, i) /\ (i = j \/ Earlier(i, j) \/ Earlier(j, i))
                          /\ Earlier(i, j) /\ Earlier(j, k) => Earlier(i, k)
        OBVIOUS
      <3>1. i \in Int /\ j \in Int /\ k \in Int /\ log[i].at \in Nat /\ log[j].at \in Nat /\ log[k].at \in Nat
        BY <1>1, <2>1
      <3> QED
        BY <3>1 DEF Earlier
    <2> HIDE DEF before, ids
    <2> QED
      BY <1>3, <2>2 DEF Orders
  <1>5. /\ id \in [1..n -> ids]
        /\ \A p \in ids : \E k \in 1..n : id[k] = p
        /\ \A i, j \in 1..n : i < j => <<id[i], id[j]>> \in before
    <2> HIDE DEF before, ids, n
    <2> QED
      BY <1>2, <1>4, OrderedIs
  <1>6. e = [k \in 1..n |-> log[id[k]]]
    <2>1. e = [k \in DOMAIN id |-> log[id[k]]]
      BY <1>1 DEF SortedEvents
    <2> QED
      BY <1>5, <2>1
  <1> HIDE DEF before, id, e
  <1>7. \A k \in 1..n : e[k] = log[id[k]] /\ id[k] \in 1..n
    BY <1>5, <1>6
  <1>8. e \in [1..n -> Heard]
    BY <1>1, <1>6, <1>7
  <1>9. e \in Seq(Heard) /\ Len(e) = n /\ DOMAIN e = 1..n
    BY <1>1, <1>8, SeqDef, LenProperties
  <1>10. ASSUME NEW i \in 1..n, NEW j \in 1..n, i < j PROVE e[i].at <= e[j].at
    <2>1. Earlier(id[i], id[j])
      BY <1>3, <1>5, <1>10
    <2>2. log[id[i]].at \in Nat /\ log[id[j]].at \in Nat
      BY <1>1, <1>7
    <2> QED
      BY <1>7, <2>1, <2>2 DEF Earlier
  <1>11. ASSUME NEW i \in 1..n PROVE \E k \in 1..n : e[k] = log[i]
    <2>1. PICK k \in 1..n : id[k] = i
      BY <1>5
    <2> QED
      BY <1>7, <2>1
  <1>12. \A k \in 1..n : \E i \in 1..n : e[k] = log[i]
    BY <1>7
  <1> QED
    BY <1>1, <1>9, <1>10, <1>11, <1>12 DEF e

\* What is listened to is no negative time.
LEMMA ListenedIsNat ==
    ASSUME NEW play \in Heard, NEW stop \in Heard, play.at <= stop.at
    PROVE  Listened(play, stop) \in Nat
  <1> DEFINE moved == Max({stop.position - play.position, 0})
             elapsed == stop.at - play.at
             left == TrackLength[play.track] - play.position
             rest == IF TrackLength[play.track] > 0 THEN Max({left, 0}) ELSE moved
  <1>1. /\ play.at \in Nat /\ stop.at \in Nat /\ play.position \in Nat /\ stop.position \in Nat
        /\ TrackLength[play.track] \in Nat
    BY EventTyped
  <1>2. moved \in Nat
    BY <1>1, GreaterIsOne
  <1>3. elapsed \in Nat
    BY <1>1
  <1>4. Max({left, 0}) \in Nat
    BY <1>1, GreaterIsOne
  <1>5. rest \in Nat
    BY <1>2, <1>4
  <1>6. Listened(play, stop) = Min({moved, elapsed, rest})
    BY DEF Listened
  <1> HIDE DEF moved, elapsed, rest
  <1> QED
    BY <1>2, <1>3, <1>5, <1>6, MinIsLeast

-----------------------------------------------------------------------------
(* Wrapped: the segments of the first events *)

Sorted(e) ==
    /\ e \in Seq(Heard) /\ Len(e) \in Nat
    /\ \A i \in 1..Len(e) : e[i] \in Heard
    /\ \A i, j \in 1..Len(e) : i < j => e[i].at <= e[j].at

SegmentsTo(e, n) == {s \in (1..n) \X (1..n) : Closed(e, s[1], s[2])}

\* The i-th of the first n events is a play that is the last event of its key.
LastPlay(e, n, i, k) ==
    e[i].action = "play" /\ KeyOf(e[i]) = k /\ \A j \in i + 1 .. n : KeyOf(e[j]) # k

LEMMA SegmentsFinite ==
    ASSUME NEW e, Sorted(e), NEW n \in 0..Len(e)
    PROVE  /\ IsFiniteSet(SegmentsTo(e, n))
           /\ \A s \in SegmentsTo(e, n) : /\ s[1] \in 1..n /\ s[2] \in 1..n /\ Closed(e, s[1], s[2])
                                          /\ s = <<s[1], s[2]>>
                                          /\ Listened(e[s[1]], e[s[2]]) \in Nat
  <1>1. n \in Nat /\ 1..n \subseteq 1..Len(e)
    BY DEF Sorted
  <1>2. IsFiniteSet(1..n)
    BY <1>1, FS_Interval
  <1>3. IsFiniteSet((1..n) \X (1..n))
    BY <1>2, FS_Product
  <1>4. SegmentsTo(e, n) \subseteq (1..n) \X (1..n)
    BY DEF SegmentsTo
  <1>5. IsFiniteSet(SegmentsTo(e, n))
    BY <1>3, <1>4, FS_Subset
  <1>6. ASSUME NEW s \in SegmentsTo(e, n)
        PROVE  /\ s[1] \in 1..n /\ s[2] \in 1..n /\ Closed(e, s[1], s[2]) /\ s = <<s[1], s[2]>>
               /\ Listened(e[s[1]], e[s[2]]) \in Nat
    <2>1. s[1] \in 1..n /\ s[2] \in 1..n /\ Closed(e, s[1], s[2]) /\ s = <<s[1], s[2]>>
      BY DEF SegmentsTo
    <2>2. e[s[1]] \in Heard /\ e[s[2]] \in Heard /\ e[s[1]].at <= e[s[2]].at
      BY <1>1, <2>1 DEF Sorted, Closed
    <2> QED
      BY <2>1, <2>2, ListenedIsNat
  <1> QED
    BY <1>5, <1>6

\* The event n + 1 closes the last play of its key, if it is a pause and there is
\* such a play, and nothing else.
LEMMA ClosedIsLast ==
    ASSUME NEW e, Sorted(e), NEW n \in 0..(Len(e) - 1), NEW i \in 1..n
    PROVE  Closed(e, i, n + 1) <=> e[n + 1].action = "pause" /\ LastPlay(e, n, i, KeyOf(e[n + 1]))
  <1>1. n \in Int /\ i \in Int /\ i < n + 1 /\ (n + 1) - 1 = n
    BY DEF Sorted
  <1>2. i + 1 .. (n + 1) - 1 = i + 1 .. n
    BY <1>1
  <1> QED
    BY <1>1, <1>2 DEF Closed, LastPlay

LEMMA SegmentsGrow ==
    ASSUME NEW e, Sorted(e), NEW n \in 0..(Len(e) - 1)
    PROVE  SegmentsTo(e, n + 1) = SegmentsTo(e, n) \union {<<i, n + 1>> : i \in {j \in 1..n : Closed(e, j, n + 1)}}
  <1> DEFINE new == {<<i, n + 1>> : i \in {j \in 1..n : Closed(e, j, n + 1)}}
  <1>1. n \in Nat /\ 1..(n + 1) = (1..n) \union {n + 1}
    BY DEF Sorted
  <1>2. ASSUME NEW s \in SegmentsTo(e, n + 1) PROVE s \in SegmentsTo(e, n) \union new
    <2>1. s[1] \in 1..(n + 1) /\ s[2] \in 1..(n + 1) /\ Closed(e, s[1], s[2]) /\ s = <<s[1], s[2]>>
      BY DEF SegmentsTo
    <2>2. s[1] < s[2]
      BY <2>1 DEF Closed
    <2>3. s[1] \in 1..n
      BY <1>1, <2>1, <2>2
    <2>4. CASE s[2] = n + 1
      BY <2>1, <2>3, <2>4
    <2>5. CASE s[2] # n + 1
      <3>1. s[2] \in 1..n
        BY <1>1, <2>1, <2>5
      <3> QED
        BY <2>1, <2>3, <3>1 DEF SegmentsTo
    <2> QED
      BY <2>4, <2>5
  <1>3. SegmentsTo(e, n) \subseteq SegmentsTo(e, n + 1)
    <2>1. 1..n \subseteq 1..(n + 1)
      BY <1>1
    <2> QED
      BY <2>1 DEF SegmentsTo
  <1>4. new \subseteq SegmentsTo(e, n + 1)
    <2>1. \A i \in 1..n : i \in 1..(n + 1) /\ n + 1 \in 1..(n + 1)
      BY <1>1
    <2> QED
      BY <2>1 DEF SegmentsTo
  <1> QED
    BY <1>2, <1>3, <1>4

\* No two plays are the last of a key.
LEMMA LastPlayIsOne ==
    ASSUME NEW e, NEW n \in Nat, NEW i \in 1..n, NEW j \in 1..n, NEW k,
           LastPlay(e, n, i, k), LastPlay(e, n, j, k)
    PROVE  i = j
  <1>1. CASE i < j
    <2>1. j \in i + 1 .. n
      BY <1>1
    <2> QED
      BY <2>1 DEF LastPlay
  <1>2. CASE j < i
    <2>1. i \in j + 1 .. n
      BY <1>2
    <2> QED
      BY <2>1 DEF LastPlay
  <1> QED
    BY <1>1, <1>2

\* How the last plays change with the event n + 1.
LEMMA LastPlayGoesOn ==
    ASSUME NEW e, NEW n \in Nat, NEW k, NEW i \in 1..(n + 1)
    PROVE  LastPlay(e, n + 1, i, k) <=>
             \/ KeyOf(e[n + 1]) # k /\ i # n + 1 /\ LastPlay(e, n, i, k)
             \/ KeyOf(e[n + 1]) = k /\ i = n + 1 /\ e[n + 1].action = "play"
  <1>1. CASE i = n + 1
    <2>1. i + 1 .. n + 1 = {}
      BY <1>1
    <2> QED
      BY <1>1, <2>1 DEF LastPlay
  <1>2. CASE i # n + 1
    <2>1. i + 1 .. n + 1 = (i + 1 .. n) \union {n + 1}
      BY <1>2
    <2> QED
      BY <1>2, <2>1 DEF LastPlay
  <1> QED
    BY <1>1, <1>2

-----------------------------------------------------------------------------
(* Wrapped: the seconds of segments *)

LEMMA SecondsFinite ==
    ASSUME NEW e, NEW segments, IsFiniteSet(segments),
           \A s \in segments : Listened(e[s[1]], e[s[2]]) \in Nat
    PROVE  IsFiniteSet(Seconds(e, segments)) /\ Cardinality(Seconds(e, segments)) \in Nat
  <1> DEFINE of(s) == {s} \X (1..Listened(e[s[1]], e[s[2]]))
             all == {of(s) : s \in segments}
             by == [s \in segments |-> of(s)]
  <1>1. \A s \in segments : IsFiniteSet(of(s))
    <2> SUFFICES ASSUME NEW s \in segments PROVE IsFiniteSet(of(s))
      OBVIOUS
    <2>1. IsFiniteSet(1..Listened(e[s[1]], e[s[2]]))
      <3> DEFINE m == Listened(e[s[1]], e[s[2]])
      <3>1. 1 \in Int /\ m \in Int
        OBVIOUS
      <3> HIDE DEF m
      <3>2. IsFiniteSet(1..m)
        BY <3>1, FS_Interval
      <3> QED
        BY <3>2 DEF m
    <2>2. IsFiniteSet({s})
      BY FS_Singleton
    <2> QED
      BY <2>1, <2>2, FS_Product
  <1>2. Seconds(e, segments) = UNION all
    BY DEF Seconds
  <1> HIDE DEF of
  <1>3. by \in Surjection(segments, all)
    BY DEF Surjection
  <1>4. \A t \in all : IsFiniteSet(t)
    BY <1>1
  <1> HIDE DEF all, by
  <1>5. IsFiniteSet(all)
    BY <1>3, FS_Surjection
  <1>6. IsFiniteSet(UNION all)
    BY <1>4, <1>5, FS_UNION
  <1> QED
    BY <1>2, <1>6, FS_CardinalityType

\* One more segment adds its own seconds.
LEMMA SecondsAdd ==
    ASSUME NEW e, NEW segments, IsFiniteSet(segments), NEW x, x \notin segments,
           \A s \in segments \union {x} : Listened(e[s[1]], e[s[2]]) \in Nat
    PROVE  Cardinality(Seconds(e, segments \union {x})) =
             Cardinality(Seconds(e, segments)) + Listened(e[x[1]], e[x[2]])
  <1> DEFINE m == Listened(e[x[1]], e[x[2]])
             old == Seconds(e, segments)
             new == {x} \X (1..m)
  <1>1. Seconds(e, segments \union {x}) = old \union new
    BY DEF Seconds
  <1>2. old \intersect new = {}
    <2>1. \A p \in old : p[1] \in segments
      BY DEF Seconds
    <2>2. \A p \in new : p[1] = x
      OBVIOUS
    <2> HIDE DEF old, new
    <2> QED
      BY <2>1, <2>2
  <1>3. m \in Nat
    OBVIOUS
  <1> HIDE DEF m
  <1>4. IsFiniteSet(1..m) /\ Cardinality(1..m) = m
    <2>1. IsFiniteSet(1..m) /\ Cardinality(1..m) = IF 1 > m THEN 0 ELSE m - 1 + 1
      BY <1>3, FS_Interval
    <2> QED
      BY <1>3, <2>1
  <1>5. IsFiniteSet({x}) /\ Cardinality({x}) = 1
    BY FS_Singleton
  <1>6. IsFiniteSet(new) /\ Cardinality(new) = 1 * m
    <2> DEFINE moments == 1..m
    <2> HIDE DEF moments
    <2>1. IsFiniteSet(moments) /\ Cardinality(moments) = m
      BY <1>4 DEF moments
    <2>2. IsFiniteSet({x} \X moments) /\ Cardinality({x} \X moments) = Cardinality({x}) * Cardinality(moments)
      BY <1>5, <2>1, FS_Product
    <2> QED
      BY <1>5, <2>1, <2>2 DEF moments
  <1>7. IsFiniteSet(old) /\ Cardinality(old) \in Nat
    BY SecondsFinite
  <1> HIDE DEF old, new
  <1>8. Cardinality(old \union new) = Cardinality(old) + Cardinality(new) - Cardinality(old \intersect new)
    BY <1>6, <1>7, FS_Union
  <1>9. Cardinality(old \intersect new) = 0
    BY <1>2, FS_EmptySet
  <1>10. Cardinality(new) = m
    BY <1>3, <1>6
  <1>11. Cardinality(old \union new) = Cardinality(old) + m
    BY <1>3, <1>7, <1>8, <1>9, <1>10
  <1> QED
    BY <1>1, <1>11 DEF m, old

-----------------------------------------------------------------------------
(* Wrapped: what the loop has counted after n events *)

Tally ==
    [open : [Key -> {<<>>} \union {<<x>> : x \in Heard}],
     tracks : [Track -> Nat], devices : [Listener -> Nat], days : [Days -> Nat],
     plays : [Days -> Nat], time : Nat]

\* The seconds of those of the first segments that are in a.
SecondsOf(e, n, a) == Cardinality(Seconds(e, SegmentsTo(e, n) \intersect a))

OfTrack(e, t) == {s \in Nat \X Nat : e[s[1]].track = t}
OfDay(e, d) == {s \in Nat \X Nat : DayOf(e[s[1]]) = d}
OfDevice(e, d) == {s \in Nat \X Nat : e[s[1]].device = d}

Counts(e, n, tally) ==
    /\ tally.time = SecondsOf(e, n, Nat \X Nat)
    /\ \A t \in Track : tally.tracks[t] = SecondsOf(e, n, OfTrack(e, t))
    /\ \A d \in Days : tally.days[d] = SecondsOf(e, n, OfDay(e, d))
    /\ \A d \in Listener : tally.devices[d] = SecondsOf(e, n, OfDevice(e, d))

OpensLast(e, n, tally) ==
    \A k \in Key : IF tally.open[k] = <<>> THEN \A i \in 1..n : ~LastPlay(e, n, i, k)
                   ELSE \E i \in 1..n : LastPlay(e, n, i, k) /\ tally.open[k] = <<e[i]>>

PlayedOn(e, n, tally) ==
    \A d \in Days : tally.plays[d] > 0 <=> \E i \in 1..n : e[i].action = "play" /\ DayOf(e[i]) = d

TallyOk(e, n, tally) ==
    tally \in Tally /\ Counts(e, n, tally) /\ OpensLast(e, n, tally) /\ PlayedOn(e, n, tally)

LEMMA OpensIs ==
    ASSUME NEW t \in Tally, NEW x \in Heard
    PROVE  /\ Opens(t, x) \in Tally
           /\ Opens(t, x).open = [t.open EXCEPT ![KeyOf(x)] = <<x>>]
           /\ Opens(t, x).plays = [t.plays EXCEPT ![DayOf(x)] = @ + 1]
           /\ Opens(t, x).tracks = t.tracks /\ Opens(t, x).devices = t.devices
           /\ Opens(t, x).days = t.days /\ Opens(t, x).time = t.time
  <1> DEFINE open == [t.open EXCEPT ![KeyOf(x)] = <<x>>]
             plays == [t.plays EXCEPT ![DayOf(x)] = @ + 1]
             u == Opens(t, x)
  <1>1. KeyOf(x) \in Key /\ DayOf(x) \in Days
    BY EventTyped
  <1>2. open \in [Key -> {<<>>} \union {<<y>> : y \in Heard}]
    BY <1>1 DEF Tally
  <1>3. plays \in [Days -> Nat]
    BY <1>1 DEF Tally
  <1>4. u = [t EXCEPT !.open = open, !.plays = plays]
    BY DEF Opens, Tally
  <1> HIDE DEF open, plays, u
  <1>5. /\ u \in Tally /\ u.open = open /\ u.plays = plays /\ u.tracks = t.tracks
        /\ u.devices = t.devices /\ u.days = t.days /\ u.time = t.time
    BY <1>2, <1>3, <1>4 DEF Tally
  <1> QED
    BY <1>5 DEF open, plays, u

LEMMA ClosesIs ==
    ASSUME NEW t \in Tally, NEW x \in Heard, NEW play \in Heard, t.open[KeyOf(x)] = <<play>>,
           Listened(play, x) \in Nat
    PROVE  /\ Closes(t, x) \in Tally
           /\ Closes(t, x).open = [t.open EXCEPT ![KeyOf(x)] = <<>>]
           /\ Closes(t, x).plays = t.plays
           /\ Closes(t, x).time = t.time + Listened(play, x)
           /\ \A r \in Track : Closes(t, x).tracks[r] =
                                 t.tracks[r] + IF r = x.track THEN Listened(play, x) ELSE 0
           /\ \A d \in Days : Closes(t, x).days[d] =
                                 t.days[d] + IF d = DayOf(play) THEN Listened(play, x) ELSE 0
           /\ \A d \in Listener : Closes(t, x).devices[d] =
                                 t.devices[d] + IF d = x.device THEN Listened(play, x) ELSE 0
  <1> DEFINE l == Listened(play, x)
             open == [t.open EXCEPT ![KeyOf(x)] = <<>>]
             tracks == [t.tracks EXCEPT ![x.track] = @ + l]
             devices == [d \in Listener |-> IF d = x.device THEN t.devices[d] + l ELSE t.devices[d]]
             days == [t.days EXCEPT ![DayOf(play)] = @ + l]
             u == Closes(t, x)
  <1>1. KeyOf(x) \in Key /\ x.track \in Track /\ DayOf(play) \in Days
    BY EventTyped
  <1>2. t.open[KeyOf(x)] # <<>> /\ Head(t.open[KeyOf(x)]) = play
    OBVIOUS
  <1>3. u = [t EXCEPT !.open = open, !.tracks = tracks, !.devices = devices, !.days = days, !.time = @ + l]
    BY <1>2 DEF Closes, Tally
  <1>4. l \in Nat
    OBVIOUS
  <1> HIDE DEF l, u
  <1>5. open \in [Key -> {<<>>} \union {<<y>> : y \in Heard}]
    BY <1>1 DEF Tally
  <1>6. t.tracks \in [Track -> Nat] /\ t.devices \in [Listener -> Nat] /\ t.days \in [Days -> Nat] /\ t.time \in Nat
    BY DEF Tally
  <1>7. /\ tracks \in [Track -> Nat]
        /\ \A r \in Track : tracks[r] = t.tracks[r] + IF r = x.track THEN l ELSE 0
    BY <1>1, <1>4, <1>6
  <1>8. /\ devices \in [Listener -> Nat]
        /\ \A d \in Listener : devices[d] = t.devices[d] + IF d = x.device THEN l ELSE 0
    BY <1>4, <1>6
  <1>9. /\ days \in [Days -> Nat]
        /\ \A d \in Days : days[d] = t.days[d] + IF d = DayOf(play) THEN l ELSE 0
    BY <1>1, <1>4, <1>6
  <1>10. t.time + l \in Nat
    BY <1>4, <1>6
  <1> HIDE DEF open, tracks, devices, days
  <1>11. /\ u \in Tally /\ u.open = open /\ u.plays = t.plays /\ u.tracks = tracks /\ u.devices = devices
         /\ u.days = days /\ u.time = t.time + l
    BY <1>3, <1>5, <1>7, <1>8, <1>9, <1>10 DEF Tally
  <1>12. u.open = [t.open EXCEPT ![KeyOf(x)] = <<>>]
    BY <1>11 DEF open
  <1> QED
    BY <1>7, <1>8, <1>9, <1>11, <1>12 DEF l, u

\* An event that closes nothing adds no second, the others those of what they close.
LEMMA SecondsStay ==
    ASSUME NEW e, Sorted(e), NEW n \in 0..(Len(e) - 1), \A i \in 1..n : ~Closed(e, i, n + 1), NEW a
    PROVE  SecondsOf(e, n + 1, a) = SecondsOf(e, n, a)
  <1>1. {<<i, n + 1>> : i \in {j \in 1..n : Closed(e, j, n + 1)}} = {}
    OBVIOUS
  <1>2. SegmentsTo(e, n + 1) = SegmentsTo(e, n)
    BY <1>1, SegmentsGrow
  <1> QED
    BY <1>2 DEF SecondsOf

LEMMA SecondsGrow ==
    ASSUME NEW e, Sorted(e), NEW n \in 0..(Len(e) - 1), NEW i \in 1..n, Closed(e, i, n + 1), NEW a
    PROVE  SecondsOf(e, n + 1, a) =
             SecondsOf(e, n, a) + IF <<i, n + 1>> \in a THEN Listened(e[i], e[n + 1]) ELSE 0
  <1> DEFINE x == <<i, n + 1>>
             old == SegmentsTo(e, n) \intersect a
  <1>1. n \in Nat /\ n \in 0..Len(e) /\ n + 1 \in 0..Len(e)
    BY DEF Sorted
  <1>2. {j \in 1..n : Closed(e, j, n + 1)} = {i}
    <2>1. ASSUME NEW j \in 1..n, Closed(e, j, n + 1) PROVE j = i
      BY <1>1, <2>1, ClosedIsLast, LastPlayIsOne
    <2> QED
      BY <2>1
  <1>3. SegmentsTo(e, n + 1) = SegmentsTo(e, n) \union {x}
    BY <1>2, SegmentsGrow
  <1>4. x \notin SegmentsTo(e, n)
    <2>1. \A s \in SegmentsTo(e, n) : s[2] \in 1..n
      BY <1>1, SegmentsFinite
    <2>2. x[2] = n + 1 /\ n + 1 \notin 1..n
      BY <1>1
    <2> QED
      BY <2>1, <2>2
  <1>5. \A s \in SegmentsTo(e, n) \union {x} : Listened(e[s[1]], e[s[2]]) \in Nat
    BY <1>1, <1>3, SegmentsFinite
  <1>6. IsFiniteSet(SegmentsTo(e, n))
    BY <1>1, SegmentsFinite
  <1>7. IsFiniteSet(old) /\ x \notin old
    BY <1>4, <1>6, FS_Subset
  <1>8. x[1] = i /\ x[2] = n + 1
    OBVIOUS
  <1>9. Cardinality(Seconds(e, old)) \in Nat
    <2>1. \A s \in old : Listened(e[s[1]], e[s[2]]) \in Nat
      BY <1>5
    <2> HIDE DEF old
    <2> QED
      BY <1>7, <2>1, SecondsFinite
  <1>10. CASE x \in a
    <2>1. SegmentsTo(e, n + 1) \intersect a = old \union {x}
      BY <1>3, <1>10
    <2>2. \A s \in old \union {x} : Listened(e[s[1]], e[s[2]]) \in Nat
      BY <1>5
    <2> HIDE DEF old, x
    <2>3. Cardinality(Seconds(e, old \union {x})) = Cardinality(Seconds(e, old)) + Listened(e[x[1]], e[x[2]])
      BY <1>7, <2>2, SecondsAdd
    <2> QED
      BY <1>8, <1>10, <2>1, <2>3 DEF SecondsOf, old, x
  <1>11. CASE x \notin a
    <2>1. SegmentsTo(e, n + 1) \intersect a = old
      BY <1>3, <1>11
    <2>2. SecondsOf(e, n, a) = Cardinality(Seconds(e, old)) /\ SecondsOf(e, n + 1, a) = Cardinality(Seconds(e, old))
      BY <2>1 DEF SecondsOf
    <2> HIDE DEF old, x
    <2>3. SecondsOf(e, n + 1, a) = SecondsOf(e, n, a) + 0
      BY <1>9, <2>2
    <2> QED
      BY <1>11, <2>3 DEF x
  <1> QED
    BY <1>10, <1>11

LEMMA TallyBegins ==
    ASSUME NEW e, Sorted(e)
    PROVE  TallyOk(e, 0, NothingTallied)
  <1> DEFINE none == NothingTallied
  <1>1. /\ none \in Tally /\ none.time = 0 /\ \A k \in Key : none.open[k] = <<>>
        /\ \A t \in Track : none.tracks[t] = 0
        /\ \A d \in Days : none.days[d] = 0 /\ none.plays[d] = 0
        /\ \A d \in Listener : none.devices[d] = 0
    BY DEF NothingTallied, Tally
  <1> HIDE DEF none
  <1>2. 1..0 = {}
    OBVIOUS
  <1>3. SegmentsTo(e, 0) = {}
    BY <1>2 DEF SegmentsTo
  <1>4. \A a : Seconds(e, SegmentsTo(e, 0) \intersect a) = {}
    BY <1>3 DEF Seconds
  <1>5. \A a : SecondsOf(e, 0, a) = 0
    BY <1>4, FS_EmptySet DEF SecondsOf
  <1>6. Counts(e, 0, none)
    BY <1>1, <1>5 DEF Counts
  <1>7. OpensLast(e, 0, none) /\ PlayedOn(e, 0, none)
    BY <1>1, <1>2 DEF OpensLast, PlayedOn
  <1> QED
    BY <1>1, <1>6, <1>7 DEF TallyOk, none

-----------------------------------------------------------------------------
(* Wrapped: the loop over the events *)

After(e, n, tally) == IF e[n].action = "play" THEN Opens(tally, e[n]) ELSE Closes(tally, e[n])

LEMMA TalliesExist ==
    ASSUME NEW e, NEW N \in Nat
    PROVE  \E f : f = [n \in 0..N |-> IF n = 0 THEN NothingTallied ELSE After(e, n, f[n - 1])]
  <1> DEFINE Up(f, m) == f = [n \in 0..m |-> IF n = 0 THEN NothingTallied ELSE After(e, n, f[n - 1])]
  <1> DEFINE bad == {m \in Nat : ~\E f : Up(f, m)}
  <1>1. CASE bad = {}
    BY <1>1
  <1>2. CASE bad # {}
    <2>1. PICK m \in bad : \A k \in bad : ~(<<k, m>> \in OpToRel(<, Nat))
      <3> HIDE DEF bad
      <3>1. bad \subseteq Nat
        BY DEF bad
      <3> QED
        BY <1>2, <3>1, WFMin, NatLessThanWellFounded
    <2>2. m \in Nat /\ ~\E f : Up(f, m)
      OBVIOUS
    <2>3. m # 0
      <3>1. ASSUME m = 0 PROVE Up([n \in 0..0 |-> NothingTallied], m)
        BY <3>1
      <3> QED
        BY <2>2, <3>1
    <2>4. m - 1 \in Nat /\ m - 1 \notin bad
      <3>1. m - 1 \in Nat /\ m - 1 < m
        BY <2>2, <2>3
      <3>2. <<m - 1, m>> \in OpToRel(<, Nat)
        BY <2>2, <3>1 DEF OpToRel
      <3> QED
        BY <2>1, <3>1, <3>2
    <2>5. PICK f : Up(f, m - 1)
      BY <2>4
    <2> DEFINE g == [n \in 0..m |-> IF n = m THEN After(e, m, f[m - 1]) ELSE f[n]]
    <2>6. \A n \in 0..m : g[n] = IF n = 0 THEN NothingTallied ELSE After(e, n, g[n - 1])
      <3> SUFFICES ASSUME NEW n \in 0..m PROVE g[n] = IF n = 0 THEN NothingTallied ELSE After(e, n, g[n - 1])
        OBVIOUS
      <3>1. CASE n = m
        <4>1. g[n] = After(e, m, f[m - 1]) /\ m - 1 \in 0..m /\ m - 1 # m
          BY <2>2, <2>3, <3>1
        <4>2. g[m - 1] = f[m - 1]
          BY <4>1
        <4> QED
          BY <2>3, <3>1, <4>1, <4>2
      <3>2. CASE n # m
        <4>1. g[n] = f[n] /\ n \in 0..(m - 1)
          BY <2>2, <3>2
        <4>2. f[n] = IF n = 0 THEN NothingTallied ELSE After(e, n, f[n - 1])
          BY <2>5, <4>1
        <4>3. n # 0 => g[n - 1] = f[n - 1]
          BY <2>2, <4>1
        <4> QED
          BY <4>1, <4>2, <4>3
      <3> QED
        BY <3>1, <3>2
    <2>7. g = [n \in 0..m |-> g[n]]
      OBVIOUS
    <2> HIDE DEF g
    <2>8. Up(g, m)
      BY <2>6, <2>7
    <2> QED
      BY <2>2, <2>8
  <1> QED
    BY <1>1, <1>2

LEMMA TalliesAre ==
    ASSUME NEW e, Len(e) \in Nat
    PROVE  TalliesOf(e) = [n \in 0..Len(e) |-> IF n = 0 THEN NothingTallied
                                               ELSE After(e, n, TalliesOf(e)[n - 1])]
  <1> DEFINE Up(f) == f = [n \in 0..Len(e) |-> IF n = 0 THEN NothingTallied ELSE After(e, n, f[n - 1])]
  <1>1. \E f : Up(f)
    BY TalliesExist
  <1>2. TalliesOf(e) = CHOOSE f : Up(f)
    BY DEF TalliesOf, After
  <1> HIDE DEF Up
  <1>3. Up(TalliesOf(e))
    BY <1>1, <1>2
  <1> QED
    BY <1>3 DEF Up

\* A play opens, whatever was open before.
LEMMA PlayKeepsTally ==
    ASSUME NEW e, Sorted(e), NEW n \in 0..(Len(e) - 1), NEW t, TallyOk(e, n, t), e[n + 1].action = "play"
    PROVE  TallyOk(e, n + 1, Opens(t, e[n + 1]))
  <1> DEFINE x == e[n + 1]
             u == Opens(t, x)
  <1>1. n \in Nat /\ n + 1 \in 1..Len(e) /\ x \in Heard /\ t \in Tally
    BY DEF Sorted, TallyOk
  <1>2. KeyOf(x) \in Key /\ DayOf(x) \in Days
    BY <1>1, EventTyped
  <1>3. /\ u \in Tally /\ u.open = [t.open EXCEPT ![KeyOf(x)] = <<x>>]
        /\ u.plays = [t.plays EXCEPT ![DayOf(x)] = @ + 1]
        /\ u.tracks = t.tracks /\ u.devices = t.devices /\ u.days = t.days /\ u.time = t.time
    BY <1>1, OpensIs
  <1>4. t.open \in [Key -> {<<>>} \union {<<y>> : y \in Heard}] /\ t.plays \in [Days -> Nat]
    BY <1>1 DEF Tally
  <1>5. \A i \in 1..n : ~Closed(e, i, n + 1)
    BY DEF Closed
  <1> HIDE DEF u
  <1>6. Counts(e, n + 1, u)
    <2>1. \A a : SecondsOf(e, n + 1, a) = SecondsOf(e, n, a)
      BY <1>5, SecondsStay
    <2> QED
      BY <1>3, <2>1 DEF TallyOk, Counts
  <1>7. OpensLast(e, n + 1, u)
    <2> SUFFICES ASSUME NEW k \in Key
                 PROVE  IF u.open[k] = <<>> THEN \A i \in 1..(n + 1) : ~LastPlay(e, n + 1, i, k)
                        ELSE \E i \in 1..(n + 1) : LastPlay(e, n + 1, i, k) /\ u.open[k] = <<e[i]>>
      BY DEF OpensLast
    <2>1. CASE k = KeyOf(x)
      <3>1. u.open[k] = <<x>> /\ n + 1 \in 1..(n + 1)
        BY <1>1, <1>3, <1>4, <2>1
      <3>2. LastPlay(e, n + 1, n + 1, k)
        <4>1. KeyOf(e[n + 1]) = k /\ e[n + 1].action = "play"
          BY <2>1
        <4> QED
          BY <1>1, <3>1, <4>1, LastPlayGoesOn
      <3> QED
        BY <3>1, <3>2
    <2>2. CASE k # KeyOf(x)
      <3>1. u.open[k] = t.open[k]
        BY <1>3, <1>4, <2>2
      <3>2. \A i \in 1..(n + 1) : LastPlay(e, n + 1, i, k) <=> i \in 1..n /\ LastPlay(e, n, i, k)
        <4>1. \A i \in 1..(n + 1) : i # n + 1 <=> i \in 1..n
          BY <1>1
        <4> QED
          BY <1>1, <2>2, <4>1, LastPlayGoesOn
      <3>3. \A i \in 1..n : i \in 1..(n + 1)
        BY <1>1
      <3>4. IF t.open[k] = <<>> THEN \A i \in 1..n : ~LastPlay(e, n, i, k)
            ELSE \E i \in 1..n : LastPlay(e, n, i, k) /\ t.open[k] = <<e[i]>>
        BY DEF TallyOk, OpensLast
      <3> QED
        BY <3>1, <3>2, <3>3, <3>4
    <2> QED
      BY <2>1, <2>2
  <1>8. PlayedOn(e, n + 1, u)
    <2> SUFFICES ASSUME NEW d \in Days
                 PROVE  u.plays[d] > 0 <=> \E i \in 1..(n + 1) : e[i].action = "play" /\ DayOf(e[i]) = d
      BY DEF PlayedOn
    <2>1. t.plays[d] > 0 <=> \E i \in 1..n : e[i].action = "play" /\ DayOf(e[i]) = d
      BY DEF TallyOk, PlayedOn
    <2>2. 1..(n + 1) = (1..n) \union {n + 1}
      BY <1>1
    <2>3. u.plays[d] = (IF d = DayOf(x) THEN t.plays[d] + 1 ELSE t.plays[d]) /\ t.plays[d] \in Nat
      BY <1>2, <1>3, <1>4
    <2>4. u.plays[d] > 0 <=> t.plays[d] > 0 \/ d = DayOf(x)
      BY <2>3
    <2> QED
      BY <2>1, <2>2, <2>4
  <1> QED
    BY <1>3, <1>6, <1>7, <1>8 DEF TallyOk, u

\* A pause closes the last play of its key, if there is one.
LEMMA PauseKeepsTally ==
    ASSUME NEW e, Sorted(e), NEW n \in 0..(Len(e) - 1), NEW t, TallyOk(e, n, t), e[n + 1].action = "pause"
    PROVE  TallyOk(e, n + 1, Closes(t, e[n + 1]))
  <1> DEFINE x == e[n + 1]
             key == KeyOf(x)
             u == Closes(t, x)
  <1>1. n \in Nat /\ n + 1 \in 1..Len(e) /\ x \in Heard /\ t \in Tally /\ n \in 0..Len(e)
    BY DEF Sorted, TallyOk
  <1>2. key \in Key /\ x.action # "play"
    BY <1>1, EventTyped
  <1>3. t.open \in [Key -> {<<>>} \union {<<y>> : y \in Heard}] /\ t.plays \in [Days -> Nat]
    BY <1>1 DEF Tally
  <1>4. \A i \in 1..n : Closed(e, i, n + 1) <=> LastPlay(e, n, i, key)
    BY ClosedIsLast
  <1>5. \A k \in Key : IF t.open[k] = <<>> THEN \A i \in 1..n : ~LastPlay(e, n, i, k)
                       ELSE \E i \in 1..n : LastPlay(e, n, i, k) /\ t.open[k] = <<e[i]>>
    BY DEF TallyOk, OpensLast
  <1>6. \A i \in 1..(n + 1), k \in Key : LastPlay(e, n + 1, i, k) <=> k # key /\ i \in 1..n /\ LastPlay(e, n, i, k)
    <2>1. \A i \in 1..(n + 1) : i # n + 1 <=> i \in 1..n
      BY <1>1
    <2> QED
      BY <1>1, <1>2, <2>1, LastPlayGoesOn
  <1>7. PlayedOn(e, n + 1, t)
    <2>1. 1..(n + 1) = (1..n) \union {n + 1}
      BY <1>1
    <2> QED
      BY <1>2, <2>1 DEF TallyOk, PlayedOn
  <1>8. 1..n \subseteq 1..(n + 1)
    BY <1>1
  <1>9. CASE t.open[key] = <<>>
    <2>1. u = t
      BY <1>9 DEF Closes
    <2>2. \A i \in 1..n : ~Closed(e, i, n + 1)
      BY <1>2, <1>4, <1>5, <1>9
    <2>3. \A a : SecondsOf(e, n + 1, a) = SecondsOf(e, n, a)
      BY <2>2, SecondsStay
    <2>4. Counts(e, n + 1, t)
      BY <2>3 DEF TallyOk, Counts
    <2>5. OpensLast(e, n + 1, t)
      <3> SUFFICES ASSUME NEW k \in Key
                   PROVE  IF t.open[k] = <<>> THEN \A i \in 1..(n + 1) : ~LastPlay(e, n + 1, i, k)
                          ELSE \E i \in 1..(n + 1) : LastPlay(e, n + 1, i, k) /\ t.open[k] = <<e[i]>>
        BY DEF OpensLast
      <3> HIDE DEF key
      <3> QED
        BY <1>5, <1>6, <1>8, <1>9
    <2> HIDE DEF u
    <2> QED
      BY <1>1, <1>7, <2>1, <2>4, <2>5 DEF TallyOk, u
  <1>10. CASE t.open[key] # <<>>
    <2>1. PICK i \in 1..n : LastPlay(e, n, i, key) /\ t.open[key] = <<e[i]>>
      BY <1>2, <1>5, <1>10
    <2> DEFINE play == e[i]
               l == Listened(play, x)
    <2>2. play \in Heard /\ play.at <= x.at /\ i \in Nat
      <3>1. i \in 1..Len(e) /\ i < n + 1
        BY <1>1
      <3> QED
        BY <1>1, <3>1 DEF Sorted
    <2>3. l \in Nat
      BY <1>1, <2>2, ListenedIsNat
    <2>4. KeyOf(play) = key /\ play.device = x.device /\ play.track = x.track
      BY <2>1 DEF LastPlay, KeyOf
    <2>5. Closed(e, i, n + 1)
      BY <1>4, <2>1
    <2>6. /\ u \in Tally /\ u.open = [t.open EXCEPT ![key] = <<>>] /\ u.plays = t.plays /\ u.time = t.time + l
          /\ \A r \in Track : u.tracks[r] = t.tracks[r] + IF r = x.track THEN l ELSE 0
          /\ \A d \in Days : u.days[d] = t.days[d] + IF d = DayOf(play) THEN l ELSE 0
          /\ \A d \in Listener : u.devices[d] = t.devices[d] + IF d = x.device THEN l ELSE 0
      <3>1. t.open[KeyOf(x)] = <<play>> /\ Listened(play, x) \in Nat /\ play \in Heard /\ x \in Heard
        BY <1>1, <2>1, <2>2, <2>3
      <3> HIDE DEF x, play
      <3> QED
        BY <1>1, <3>1, ClosesIs
    <2> DEFINE s == <<i, n + 1>>
    <2>7. \A a : SecondsOf(e, n + 1, a) = SecondsOf(e, n, a) + IF s \in a THEN l ELSE 0
      BY <2>5, SecondsGrow
    <2>8. /\ s \in Nat \X Nat
          /\ \A r : s \in OfTrack(e, r) <=> r = x.track
          /\ \A d : s \in OfDay(e, d) <=> d = DayOf(play)
          /\ \A d : s \in OfDevice(e, d) <=> d = x.device
      <3>1. s \in Nat \X Nat /\ s[1] = i
        BY <1>1, <2>2
      <3> QED
        BY <2>4, <3>1 DEF OfTrack, OfDay, OfDevice
    <2> HIDE DEF u, s, l, x, play, key
    <2>9. Counts(e, n + 1, u)
      <3>1. /\ t.time = SecondsOf(e, n, Nat \X Nat)
            /\ \A r \in Track : t.tracks[r] = SecondsOf(e, n, OfTrack(e, r))
            /\ \A d \in Days : t.days[d] = SecondsOf(e, n, OfDay(e, d))
            /\ \A d \in Listener : t.devices[d] = SecondsOf(e, n, OfDevice(e, d))
        BY DEF TallyOk, Counts
      <3>2. u.time = SecondsOf(e, n + 1, Nat \X Nat)
        BY <2>6, <2>7, <2>8, <3>1
      <3>3. \A r \in Track : u.tracks[r] = SecondsOf(e, n + 1, OfTrack(e, r))
        BY <2>6, <2>7, <2>8, <3>1
      <3>4. \A d \in Days : u.days[d] = SecondsOf(e, n + 1, OfDay(e, d))
        BY <2>6, <2>7, <2>8, <3>1
      <3>5. \A d \in Listener : u.devices[d] = SecondsOf(e, n + 1, OfDevice(e, d))
        BY <2>6, <2>7, <2>8, <3>1
      <3> QED
        BY <3>2, <3>3, <3>4, <3>5 DEF Counts
    <2>10. OpensLast(e, n + 1, u)
      <3> SUFFICES ASSUME NEW k \in Key
                   PROVE  IF u.open[k] = <<>> THEN \A j \in 1..(n + 1) : ~LastPlay(e, n + 1, j, k)
                          ELSE \E j \in 1..(n + 1) : LastPlay(e, n + 1, j, k) /\ u.open[k] = <<e[j]>>
        BY DEF OpensLast
      <3>1. CASE k = key
        <4>1. u.open[k] = <<>>
          BY <1>3, <2>6, <3>1
        <4> QED
          BY <1>6, <3>1, <4>1
      <3>2. CASE k # key
        <4>1. u.open[k] = t.open[k]
          BY <1>3, <2>6, <3>2
        <4> QED
          BY <1>5, <1>6, <1>8, <3>2, <4>1
      <3> QED
        BY <3>1, <3>2
    <2>11. PlayedOn(e, n + 1, u)
      BY <1>7, <2>6 DEF PlayedOn
    <2> QED
      BY <2>6, <2>9, <2>10, <2>11 DEF TallyOk, u, x
  <1> QED
    BY <1>9, <1>10

\* By induction: the least n after which it fails is neither 0 nor after another.
LEMMA TalliesOk ==
    ASSUME NEW e, Sorted(e), NEW n \in 0..Len(e)
    PROVE  TallyOk(e, n, TalliesOf(e)[n])
  <1> DEFINE after == TalliesOf(e)
             bad == {m \in 0..Len(e) : ~TallyOk(e, m, after[m])}
  <1>1. Len(e) \in Nat
    BY DEF Sorted
  <1>2. after = [m \in 0..Len(e) |-> IF m = 0 THEN NothingTallied ELSE After(e, m, after[m - 1])]
    BY <1>1, TalliesAre
  <1> HIDE DEF after
  <1>3. after[0] = NothingTallied
    BY <1>1, <1>2
  <1>4. \A m \in 0..Len(e) : m # 0 => after[m] = After(e, m, after[m - 1])
    BY <1>2
  <1>5. CASE bad = {}
    BY <1>5 DEF after
  <1>6. CASE bad # {}
    <2>1. PICK m \in bad : \A k \in bad : ~(<<k, m>> \in OpToRel(<, Nat))
      <3>1. bad \subseteq Nat
        BY <1>1
      <3> HIDE DEF bad
      <3> QED
        BY <1>6, <3>1, WFMin, NatLessThanWellFounded
    <2>2. m \in 0..Len(e) /\ ~TallyOk(e, m, after[m])
      OBVIOUS
    <2>3. m # 0
      BY <1>3, <2>2, TallyBegins
    <2> DEFINE p == m - 1
    <2>4. p \in 0..(Len(e) - 1) /\ p \in 0..Len(e) /\ p + 1 = m /\ p < m /\ p \in Nat /\ m \in Nat
      BY <1>1, <2>2, <2>3
    <2>5. TallyOk(e, p, after[p])
      <3>1. <<p, m>> \in OpToRel(<, Nat)
        BY <2>4 DEF OpToRel
      <3>2. p \notin bad
        BY <2>1, <3>1
      <3> QED
        BY <2>4, <3>2
    <2>6. after[m] = After(e, p + 1, after[p])
      BY <1>4, <2>2, <2>3, <2>4
    <2>7. e[p + 1].action \in {"play", "pause"}
      <3>1. e[p + 1] \in Heard
        BY <2>2, <2>3, <2>4 DEF Sorted
      <3> QED
        BY <3>1, EventTyped
    <2> HIDE DEF p
    <2>8. TallyOk(e, p + 1, after[m])
      <3>1. CASE e[p + 1].action = "play"
        BY <2>4, <2>5, <2>6, <3>1, PlayKeepsTally DEF After
      <3>2. CASE e[p + 1].action = "pause"
        BY <2>4, <2>5, <2>6, <3>2, PauseKeepsTally DEF After
      <3> QED
        BY <2>7, <3>1, <3>2
    <2> QED
      BY <2>2, <2>4, <2>8
  <1> QED
    BY <1>5, <1>6

LEMMA SortedIsSorted ==
    ASSUME log \in Seq(Heard)
    PROVE  /\ Sorted(SortedEvents) /\ Len(SortedEvents) = Len(log) /\ Len(log) \in Nat
           /\ TallyOk(SortedEvents, Len(log), AggregateWrappedEvents)
  <1> DEFINE e == SortedEvents
  <1>1. /\ e \in Seq(Heard) /\ Len(e) = Len(log) /\ Len(log) \in Nat
        /\ \A i, j \in 1..Len(log) : i < j => e[i].at <= e[j].at
    BY SortedFacts, LenProperties
  <1> HIDE DEF e
  <1>2. Sorted(e)
    BY <1>1, ElementOfSeq DEF Sorted
  <1>3. TallyOk(e, Len(e), TalliesOf(e)[Len(e)])
    BY <1>1, <1>2, TalliesOk
  <1> QED
    BY <1>1, <1>2, <1>3 DEF e, AggregateWrappedEvents

LEMMA CountsTheSegments ==
    ASSUME log \in Seq(Heard)
    PROVE  CountsSegments
  <1> DEFINE e == SortedEvents
             n == Len(log)
             tally == AggregateWrappedEvents
  <1>1. Sorted(e) /\ n \in Nat /\ n \in 0..Len(e) /\ Counts(e, n, tally)
    BY SortedIsSorted DEF TallyOk
  <1>2. DOMAIN log = 1..n
    BY LenProperties
  <1>3. Segments = SegmentsTo(e, n)
    BY <1>2 DEF Segments, SegmentsTo
  <1> HIDE DEF e, n, tally
  <1>4. \A s \in Segments : s \in Nat \X Nat
    <2>1. 1..n \subseteq Nat
      BY <1>1
    <2> QED
      BY <1>3, <2>1 DEF SegmentsTo
  <1>5. /\ Segments \intersect (Nat \X Nat) = Segments
        /\ \A t : Segments \intersect OfTrack(e, t) = {s \in Segments : e[s[1]].track = t}
        /\ \A d : Segments \intersect OfDay(e, d) = {s \in Segments : DayOf(e[s[1]]) = d}
        /\ \A d : Segments \intersect OfDevice(e, d) = {s \in Segments : e[s[1]].device = d}
    BY <1>4 DEF OfTrack, OfDay, OfDevice
  <1>6. \A a : SecondsOf(e, n, a) = Cardinality(Seconds(e, Segments \intersect a))
    BY <1>3 DEF SecondsOf
  <1>7. /\ tally.time = Cardinality(Seconds(e, Segments))
        /\ \A t \in Track : tally.tracks[t] = Cardinality(Seconds(e, {s \in Segments : e[s[1]].track = t}))
        /\ \A d \in Days : tally.days[d] = Cardinality(Seconds(e, {s \in Segments : DayOf(e[s[1]]) = d}))
        /\ \A d \in Listener : tally.devices[d] = Cardinality(Seconds(e, {s \in Segments : e[s[1]].device = d}))
    BY <1>1, <1>5, <1>6 DEF Counts
  <1> QED
    BY <1>7 DEF CountsSegments, e, tally

-----------------------------------------------------------------------------
(* Wrapped: the longest streak *)

\* The loop's body for the n-th day.
RunAfter(day, n, run) ==
    LET current == IF run.previous = day[n] - 1 THEN run.current + 1 ELSE 1
    IN [current |-> current, longest |-> Max({run.longest, current}), previous |-> day[n]]

NoRunYet == [current |-> 0, longest |-> 0, previous |-> -2]

LEMMA RunsExist ==
    ASSUME NEW day, NEW N \in Nat
    PROVE  \E f : f = [n \in 0..N |-> IF n = 0 THEN NoRunYet ELSE RunAfter(day, n, f[n - 1])]
  <1> DEFINE Up(f, m) == f = [n \in 0..m |-> IF n = 0 THEN NoRunYet ELSE RunAfter(day, n, f[n - 1])]
  <1> DEFINE bad == {m \in Nat : ~\E f : Up(f, m)}
  <1>1. CASE bad = {}
    BY <1>1
  <1>2. CASE bad # {}
    <2>1. PICK m \in bad : \A k \in bad : ~(<<k, m>> \in OpToRel(<, Nat))
      <3> HIDE DEF bad
      <3>1. bad \subseteq Nat
        BY DEF bad
      <3> QED
        BY <1>2, <3>1, WFMin, NatLessThanWellFounded
    <2>2. m \in Nat /\ ~\E f : Up(f, m)
      OBVIOUS
    <2>3. m # 0
      <3>1. ASSUME m = 0 PROVE Up([n \in 0..0 |-> NoRunYet], m)
        BY <3>1
      <3> QED
        BY <2>2, <3>1
    <2>4. m - 1 \in Nat /\ m - 1 \notin bad
      <3>1. m - 1 \in Nat /\ m - 1 < m
        BY <2>2, <2>3
      <3>2. <<m - 1, m>> \in OpToRel(<, Nat)
        BY <2>2, <3>1 DEF OpToRel
      <3> QED
        BY <2>1, <3>1, <3>2
    <2>5. PICK f : Up(f, m - 1)
      BY <2>4
    <2> DEFINE g == [n \in 0..m |-> IF n = m THEN RunAfter(day, m, f[m - 1]) ELSE f[n]]
    <2>6. \A n \in 0..m : g[n] = IF n = 0 THEN NoRunYet ELSE RunAfter(day, n, g[n - 1])
      <3> SUFFICES ASSUME NEW n \in 0..m
                   PROVE  g[n] = IF n = 0 THEN NoRunYet ELSE RunAfter(day, n, g[n - 1])
        OBVIOUS
      <3>1. CASE n = m
        <4>1. g[n] = RunAfter(day, m, f[m - 1]) /\ m - 1 \in 0..m /\ m - 1 # m
          BY <2>2, <2>3, <3>1
        <4>2. g[m - 1] = f[m - 1]
          BY <4>1
        <4> QED
          BY <2>3, <3>1, <4>1, <4>2
      <3>2. CASE n # m
        <4>1. g[n] = f[n] /\ n \in 0..(m - 1)
          BY <2>2, <3>2
        <4>2. f[n] = IF n = 0 THEN NoRunYet ELSE RunAfter(day, n, f[n - 1])
          BY <2>5, <4>1
        <4>3. n # 0 => g[n - 1] = f[n - 1]
          BY <2>2, <4>1
        <4> QED
          BY <4>1, <4>2, <4>3
      <3> QED
        BY <3>1, <3>2
    <2>7. g = [n \in 0..m |-> g[n]]
      OBVIOUS
    <2> HIDE DEF g
    <2>8. Up(g, m)
      BY <2>6, <2>7
    <2> QED
      BY <2>2, <2>8
  <1> QED
    BY <1>1, <1>2

LEMMA RunsAre ==
    ASSUME NEW day, Len(day) \in Nat
    PROVE  RunsOf(day) = [n \in 0..Len(day) |-> IF n = 0 THEN NoRunYet
                                                ELSE RunAfter(day, n, RunsOf(day)[n - 1])]
  <1> DEFINE Up(f) == f = [n \in 0..Len(day) |-> IF n = 0 THEN NoRunYet ELSE RunAfter(day, n, f[n - 1])]
  <1>1. \E f : Up(f)
    BY RunsExist
  <1>2. RunsOf(day) = CHOOSE f : Up(f)
    BY DEF RunsOf, RunAfter, NoRunYet
  <1> HIDE DEF Up
  <1>3. Up(RunsOf(day))
    BY <1>1, <1>2
  <1> QED
    BY <1>3 DEF Up

\* The days, from the first to the last.
Ascending(day, days) ==
    /\ Len(day) \in Nat /\ days \subseteq Nat
    /\ \A i \in 1..Len(day) : day[i] \in days
    /\ \A d \in days : \E i \in 1..Len(day) : day[i] = d
    /\ \A i, j \in 1..Len(day) : i < j => day[i] < day[j]

Before(day, n) == {day[i] : i \in 1..n}

\* The current run ends with the n-th day and cannot begin earlier; no run of
\* days up to then is longer than the longest.
RunOk(day, days, n, run) ==
    /\ run.current \in Nat /\ run.longest \in Nat /\ run.current <= run.longest
    /\ run.longest > 0 => \E d \in days : d .. d + run.longest - 1 \subseteq days
    /\ \A d \in Nat, m \in Nat \ {0} : d .. d + m - 1 \subseteq Before(day, n) => m <= run.longest
    /\ IF n = 0 THEN run.previous = -2
       ELSE /\ run.previous = day[n] /\ run.current > 0
            /\ day[n] - run.current \notin days
            /\ (day[n] - run.current) + 1 .. day[n] \subseteq days

LEMMA RunGoesOn ==
    ASSUME NEW day, NEW days, Ascending(day, days), NEW n \in 0..(Len(day) - 1), NEW run,
           RunOk(day, days, n, run)
    PROVE  RunOk(day, days, n + 1, RunAfter(day, n + 1, run))
  <1> DEFINE x == day[n + 1]
             current == IF run.previous = x - 1 THEN run.current + 1 ELSE 1
             longest == Max({run.longest, current})
             next == RunAfter(day, n + 1, run)
  <1>1. n \in Nat /\ n + 1 \in 1..Len(day) /\ n + 1 # 0 /\ (n # 0 => n \in 1..Len(day))
    BY DEF Ascending
  <1>2. x \in days /\ x \in Nat /\ days \subseteq Nat
    BY <1>1 DEF Ascending
  <1>3. next.current = current /\ next.longest = longest /\ next.previous = x
    BY DEF RunAfter
  <1>4. run.current \in Nat /\ run.longest \in Nat /\ run.current <= run.longest
    BY DEF RunOk
  <1>5. current \in Nat \ {0}
    BY <1>4
  <1> HIDE DEF current
  <1>6. longest = (IF run.longest >= current THEN run.longest ELSE current) /\ longest \in Nat
    BY <1>4, <1>5, GreaterIsOne
  <1> HIDE DEF longest, next
  <1>7. longest >= current /\ longest >= run.longest /\ longest > 0
    BY <1>4, <1>5, <1>6
  <1>8. \A j \in 1..Len(day) : day[j] \in Nat /\ (j < n + 1 => day[j] < x) /\ (n + 1 < j => x < day[j])
    BY <1>1, <1>2 DEF Ascending
  <1>9. x - current \notin days /\ (x - current) + 1 .. x \subseteq days
    <2>1. CASE run.previous = x - 1
      <3>1. n # 0
        BY <1>2, <2>1 DEF RunOk
      <3>2. /\ day[n] = x - 1 /\ run.current > 0 /\ day[n] - run.current \notin days
            /\ (day[n] - run.current) + 1 .. day[n] \subseteq days
        BY <2>1, <3>1 DEF RunOk
      <3>3. current = run.current + 1
        BY <2>1 DEF current
      <3> HIDE DEF x
      <3>4. x - current = day[n] - run.current
        BY <1>2, <1>4, <3>2, <3>3
      <3>5. \A y \in (x - current) + 1 .. x : y = x \/ y \in (day[n] - run.current) + 1 .. day[n]
        BY <1>2, <1>4, <3>2, <3>3
      <3> QED
        BY <1>2, <3>2, <3>4, <3>5
    <2>2. CASE run.previous # x - 1
      <3>1. current = 1
        BY <2>2 DEF current
      <3>2. ASSUME x - 1 \in days PROVE FALSE
        <4>1. PICK j \in 1..Len(day) : day[j] = x - 1
          BY <3>2 DEF Ascending
        <4>2. j \in 1..n /\ n # 0
          BY <1>1, <1>2, <1>8, <4>1
        <4>3. day[n] = run.previous /\ day[n] \in Nat /\ day[n] < x
          BY <1>1, <1>8, <4>2 DEF RunOk
        <4>4. j # n
          BY <2>2, <4>1, <4>3
        <4>5. day[j] < day[n]
          BY <1>1, <4>2, <4>4 DEF Ascending
        <4> HIDE DEF x
        <4> QED
          BY <1>2, <4>1, <4>3, <4>5
      <3> HIDE DEF x
      <3>3. (x - current) + 1 .. x = {x} /\ x - current = x - 1
        BY <1>2, <3>1
      <3> QED
        BY <1>2, <3>2, <3>3
    <2> QED
      BY <2>1, <2>2
  <1>10. \E d \in days : d .. d + longest - 1 \subseteq days
    <2>1. CASE run.longest >= current
      <3>1. longest = run.longest /\ run.longest > 0
        BY <1>4, <1>5, <1>6, <2>1
      <3> QED
        BY <3>1 DEF RunOk
    <2>2. CASE ~(run.longest >= current)
      <3> DEFINE d == (x - current) + 1
      <3> HIDE DEF x
      <3>1. longest = current /\ d + longest - 1 = x /\ d \in d .. x
        BY <1>2, <1>5, <1>6, <2>2
      <3>2. d .. x \subseteq days
        BY <1>9
      <3> HIDE DEF d
      <3> QED
        BY <3>1, <3>2
    <2> QED
      BY <2>1, <2>2
  <1>11. ASSUME NEW d \in Nat, NEW m \in Nat \ {0}, d .. d + m - 1 \subseteq Before(day, n + 1)
         PROVE  m <= longest
    <2> DEFINE z == d + m - 1
    <2>1. z \in Nat /\ z \in d .. z
      OBVIOUS
    <2>2. z \in Before(day, n + 1)
      BY <1>11, <2>1
    <2>3. PICK j \in 1..(n + 1) : z = day[j]
      BY <2>2 DEF Before
    <2>4. 1..(n + 1) \subseteq 1..Len(day)
      BY <1>1
    <2>5. CASE z = x
      <3>1. CASE m <= current
        BY <1>5, <1>6, <1>7, <3>1
      <3>2. CASE ~(m <= current)
        <4>1. x - current \in d .. z
          <5> HIDE DEF x
          <5> QED
            BY <1>2, <1>5, <2>5, <3>2
        <4>2. x - current \in Before(day, n + 1)
          BY <1>11, <4>1
        <4>3. Before(day, n + 1) \subseteq days
          BY <2>4 DEF Before, Ascending
        <4> QED
          BY <1>9, <4>2, <4>3
      <3> QED
        BY <3>1, <3>2
    <2>6. CASE z # x
      <3>1. z < x
        <4>1. j # n + 1 /\ j < n + 1
          BY <1>1, <2>3, <2>6
        <4> QED
          BY <1>8, <2>3, <2>4, <4>1
      <3>2. ASSUME NEW y \in d .. z PROVE y \in Before(day, n)
        <4>1. PICK i \in 1..(n + 1) : y = day[i]
          BY <1>11 DEF Before
        <4>2. y < x
          <5> HIDE DEF x
          <5> QED
            BY <1>2, <2>1, <3>1
        <4>3. i # n + 1
          BY <1>2, <4>1, <4>2
        <4>4. i \in 1..n
          BY <1>1, <4>3
        <4> QED
          BY <4>1, <4>4 DEF Before
      <3>3. m <= run.longest
        BY <3>2 DEF RunOk
      <3> QED
        BY <1>4, <1>6, <1>7, <3>3
    <2> QED
      BY <2>5, <2>6
  <1>12. /\ next.current \in Nat /\ next.longest \in Nat /\ next.current <= next.longest
         /\ next.longest > 0 => \E d \in days : d .. d + next.longest - 1 \subseteq days
         /\ next.previous = day[n + 1] /\ next.current > 0
         /\ day[n + 1] - next.current \notin days
         /\ (day[n + 1] - next.current) + 1 .. day[n + 1] \subseteq days
    <2>1. current \in Nat /\ current > 0 /\ current <= longest /\ longest \in Nat
      BY <1>5, <1>6, <1>7
    <2> QED
      BY <2>1, <1>3, <1>9, <1>10
  <1>13. \A d \in Nat, m \in Nat \ {0} : d .. d + m - 1 \subseteq Before(day, n + 1) => m <= next.longest
    BY <1>3, <1>11
  <1>14. RunAfter(day, n + 1, run) = next
    BY DEF next
  <1> QED
    BY <1>1, <1>12, <1>13, <1>14 DEF RunOk

LEMMA RunsOk ==
    ASSUME NEW day, NEW days, Ascending(day, days), NEW n \in 0..Len(day)
    PROVE  RunOk(day, days, n, RunsOf(day)[n])
  <1> DEFINE after == RunsOf(day)
             bad == {m \in 0..Len(day) : ~RunOk(day, days, m, after[m])}
  <1>1. Len(day) \in Nat
    BY DEF Ascending
  <1>2. after = [m \in 0..Len(day) |-> IF m = 0 THEN NoRunYet ELSE RunAfter(day, m, after[m - 1])]
    BY <1>1, RunsAre
  <1> HIDE DEF after
  <1>3. after[0] = NoRunYet
    BY <1>1, <1>2
  <1>4. \A m \in 0..Len(day) : m # 0 => after[m] = RunAfter(day, m, after[m - 1])
    BY <1>2
  <1>5. RunOk(day, days, 0, NoRunYet)
    <2>1. Before(day, 0) = {}
      BY DEF Before
    <2>2. \A d \in Nat, m \in Nat \ {0} : d \in d .. d + m - 1
      OBVIOUS
    <2> QED
      BY <2>1, <2>2 DEF RunOk, NoRunYet
  <1>6. CASE bad = {}
    BY <1>6 DEF after
  <1>7. CASE bad # {}
    <2>1. PICK m \in bad : \A k \in bad : ~(<<k, m>> \in OpToRel(<, Nat))
      <3>1. bad \subseteq Nat
        BY <1>1
      <3> HIDE DEF bad
      <3> QED
        BY <1>7, <3>1, WFMin, NatLessThanWellFounded
    <2>2. m \in 0..Len(day) /\ ~RunOk(day, days, m, after[m])
      OBVIOUS
    <2>3. m # 0
      BY <1>3, <1>5, <2>2
    <2> DEFINE p == m - 1
    <2>4. p \in 0..(Len(day) - 1) /\ p \in 0..Len(day) /\ p + 1 = m /\ p < m /\ p \in Nat /\ m \in Nat
      BY <1>1, <2>2, <2>3
    <2>5. RunOk(day, days, p, after[p])
      <3>1. <<p, m>> \in OpToRel(<, Nat)
        BY <2>4 DEF OpToRel
      <3>2. p \notin bad
        BY <2>1, <3>1
      <3> QED
        BY <2>4, <3>2
    <2>6. after[m] = RunAfter(day, p + 1, after[p])
      BY <1>4, <2>2, <2>3, <2>4
    <2> HIDE DEF p
    <2>7. RunOk(day, days, p + 1, after[m])
      BY <2>4, <2>5, <2>6, RunGoesOn
    <2> QED
      BY <2>2, <2>4, <2>7
  <1> QED
    BY <1>6, <1>7

LEMMA DaysAreFinite == Days \in SUBSET Nat /\ IsFiniteSet(Days)
  <1> DEFINE day == [t \in Instant |-> t \div DayLength]
  <1>1. /\ Instant \subseteq Nat /\ IsFiniteSet(Instant) /\ DayLength \in Nat /\ DayLength > 0
    BY WrappedAssumption
  <1>2. \A t \in Nat : t \div DayLength \in Nat
    BY <1>1
  <1>3. Days \subseteq Nat
    BY <1>1, <1>2 DEF Days
  <1>4. day \in Surjection(Instant, Days)
    <2>1. day \in [Instant -> Days]
      BY DEF Days
    <2>2. \A d \in Days : \E t \in Instant : day[t] = d
      BY DEF Days
    <2> HIDE DEF day
    <2> QED
      BY <2>1, <2>2 DEF Surjection
  <1> HIDE DEF day
  <1>5. IsFiniteSet(Days)
    BY <1>1, <1>4, FS_Surjection
  <1> QED
    BY <1>3, <1>5

LEMMA OrderedDays ==
    ASSUME NEW days \in SUBSET Nat, IsFiniteSet(days)
    PROVE  /\ Ascending(Ordered(days, {p \in days \X days : p[1] < p[2]}), days)
           /\ Len(Ordered(days, {p \in days \X days : p[1] < p[2]})) = Cardinality(days)
  <1> DEFINE before == {p \in days \X days : p[1] < p[2]}
             day == Ordered(days, before)
             n == Cardinality(days)
  <1>1. \A a, b \in days : (<<a, b>> \in before <=> a < b) /\ a \in Int
    OBVIOUS
  <1> HIDE DEF before
  <1>2. Orders(before, days)
    BY <1>1 DEF Orders
  <1>3. /\ n \in Nat /\ day \in [1..n -> days]
        /\ \A p \in days : \E k \in 1..n : day[k] = p
        /\ \A i, j \in 1..n : i < j => <<day[i], day[j]>> \in before
    <2> HIDE DEF n
    <2> QED
      BY <1>2, OrderedIs DEF n
  <1> HIDE DEF day, n
  <1>4. day \in Seq(days) /\ Len(day) = n
    BY <1>3, SeqDef, LenProperties
  <1>5. \A i \in 1..n : day[i] \in days
    BY <1>3
  <1>6. \A i, j \in 1..n : i < j => day[i] < day[j]
    BY <1>1, <1>3, <1>5
  <1>7. Ascending(day, days)
    BY <1>3, <1>4, <1>5, <1>6 DEF Ascending
  <1> QED
    BY <1>4, <1>7 DEF day, n, before

\* What the loop over the days in their order finds is the longest run of them.
LEMMA LongestIsLongest ==
    ASSUME NEW days \in SUBSET Nat, IsFiniteSet(days)
    PROVE  LongestDateStreak(days)
             = Max({0} \union {n \in 1..Cardinality(days) : \E d \in days : d .. d + n - 1 \subseteq days})
  <1> DEFINE day == Ordered(days, {p \in days \X days : p[1] < p[2]})
             run == RunsOf(day)[Len(day)]
             size == Cardinality(days)
             runs == {n \in 1..size : \E d \in days : d .. d + n - 1 \subseteq days}
             longest == run.longest
  <1>1. Ascending(day, days) /\ Len(day) = size /\ size \in Nat
    BY OrderedDays, FS_CardinalityType
  <1>2. LongestDateStreak(days) = longest
    BY DEF LongestDateStreak
  <1> HIDE DEF day
  <1>3. RunOk(day, days, Len(day), run)
    <2>1. Len(day) \in 0..Len(day)
      BY <1>1
    <2> QED
      BY <1>1, <2>1, RunsOk
  <1> HIDE DEF run
  <1>4. Before(day, Len(day)) = days
    BY <1>1 DEF Before, Ascending
  <1>5. /\ longest \in Nat
        /\ longest > 0 => \E d \in days : d .. d + longest - 1 \subseteq days
        /\ \A d \in Nat, m \in Nat \ {0} : d .. d + m - 1 \subseteq days => m <= longest
    <2>1. /\ run.longest \in Nat
          /\ run.longest > 0 => \E d \in days : d .. d + run.longest - 1 \subseteq days
          /\ \A d \in Nat, m \in Nat \ {0} : d .. d + m - 1 \subseteq Before(day, Len(day)) => m <= run.longest
      BY <1>3 DEF RunOk
    <2> QED
      BY <1>4, <2>1
  <1> HIDE DEF longest, size
  <1>6. longest > 0 => longest \in runs
    <2> SUFFICES ASSUME longest > 0 PROVE longest \in runs
      OBVIOUS
    <2>1. PICK d \in days : d .. d + longest - 1 \subseteq days
      BY <1>5
    <2>2. d \in Nat /\ d + longest - 1 \in Nat /\ d <= d + longest - 1
      BY <1>5
    <2>3. Cardinality(d .. d + longest - 1) = longest
      <3>1. Cardinality(d .. d + longest - 1) = (d + longest - 1) - d + 1
        BY <2>2, FS_Interval
      <3> QED
        BY <1>5, <2>2, <3>1
    <2>4. Cardinality(d .. d + longest - 1) <= size
      BY <2>1, FS_Subset DEF size
    <2>5. longest \in 1..size
      BY <1>1, <1>5, <2>3, <2>4
    <2> QED
      BY <2>1, <2>5
  <1>7. runs \subseteq Nat
    BY <1>1
  <1>8. \A m \in runs : m <= longest
    <2> SUFFICES ASSUME NEW m \in runs PROVE m <= longest
      OBVIOUS
    <2>1. m \in Nat \ {0}
      BY <1>1
    <2>2. PICK d \in days : d .. d + m - 1 \subseteq days
      OBVIOUS
    <2>3. d \in Nat
      OBVIOUS
    <2> QED
      BY <1>5, <2>1, <2>2, <2>3
  <1> HIDE DEF runs
  <1>9. Max({0} \union runs) = longest
    <2>1. longest \in {0} \union runs
      BY <1>5, <1>6
    <2>2. \A x \in {0} \union runs : x <= longest
      BY <1>5, <1>8
    <2> QED
      BY <1>7, <2>1, <2>2, MaxIsThis
  <1> QED
    BY <1>2, <1>9 DEF runs, size

LEMMA StreakIsTheLongest ==
    ASSUME log \in Seq(Heard)
    PROVE  StreakIsLongest
  <1> DEFINE e == SortedEvents
             tally == AggregateWrappedEvents
             days == {d \in Days : \E i \in DOMAIN log : log[i].action = "play" /\ DayOf(log[i]) = d}
  <1>1. DOMAIN log = 1..Len(log)
    BY LenProperties
  <1>2. PlayedOn(e, Len(log), tally)
    BY SortedIsSorted DEF TallyOk
  <1>3. /\ \A i \in 1..Len(log) : \E k \in 1..Len(log) : e[k] = log[i]
        /\ \A k \in 1..Len(log) : \E i \in 1..Len(log) : e[k] = log[i]
    BY SortedFacts
  <1> HIDE DEF e, tally
  <1>4. {d \in Days : tally.plays[d] > 0} = days
    <2>1. \A d \in Days : tally.plays[d] > 0
                            <=> \E i \in 1..Len(log) : e[i].action = "play" /\ DayOf(e[i]) = d
      BY <1>2 DEF PlayedOn
    <2>2. \A d : (\E i \in 1..Len(log) : e[i].action = "play" /\ DayOf(e[i]) = d)
                   <=> \E i \in 1..Len(log) : log[i].action = "play" /\ DayOf(log[i]) = d
      BY <1>3
    <2> QED
      BY <1>1, <2>1, <2>2
  <1>5. days \in SUBSET Nat /\ IsFiniteSet(days)
    <2>1. days \subseteq Days
      OBVIOUS
    <2> HIDE DEF days
    <2> QED
      BY <2>1, DaysAreFinite, FS_Subset
  <1> HIDE DEF days
  <1>6. LongestDateStreak(days)
          = Max({0} \union {n \in 1..Cardinality(days) : \E d \in days : d .. d + n - 1 \subseteq days})
    BY <1>5, LongestIsLongest
  <1> QED
    BY <1>4, <1>6 DEF StreakIsLongest, days, tally

-----------------------------------------------------------------------------
(* Wrapped: the theorem *)

LEMMA OpeningKeepsTypes ==
    ASSUME WrappedTypeOK, Opening
    PROVE  WrappedTypeOK'
  <1>1. today \in Nat /\ Period \in Nat /\ MaxToday \in Nat
    BY WrappedAssumption DEF WrappedTypeOK
  <1>2. CASE Midnight
    BY <1>1, <1>2 DEF Midnight, WrappedTypeOK
  <1>3. ASSUME NEW v \in Visit, CurrentAsks(v) PROVE WrappedTypeOK'
    BY <1>3 DEF CurrentAsks, WrappedTypeOK
  <1>4. ASSUME NEW v \in Visit, CurrentAcquires(v) PROVE WrappedTypeOK'
    <2>1. nextOpen' \in 0..(MaxToday + Period)
      BY <1>1, <1>4 DEF CurrentAcquires, WrappedTypeOK
    <2>2. opened' \in Seq(1..MaxToday)
      <3>1. Append(opened, today) \in Seq(1..MaxToday)
        BY AppendProperties DEF WrappedTypeOK
      <3> QED
        BY <1>4, <3>1 DEF CurrentAcquires, WrappedTypeOK
    <2> QED
      BY <1>4, <2>1, <2>2 DEF CurrentAcquires, WrappedTypeOK
  <1> QED
    BY <1>2, <1>3, <1>4 DEF Opening

LEMMA ReportingKeepsTypes ==
    ASSUME WrappedTypeOK, Reporting
    PROVE  WrappedTypeOK'
  <1>1. UNCHANGED <<log, today, nextOpen, visit, opened>>
    BY DEF Reporting, PostReport, PutReads, PutWrites, DeleteReport
  <1>2. report' \in Report \union {NoReport}
    <2>1. CASE \E start, end \in PeriodDay : PostReport(start, end)
      BY <2>1 DEF PostReport, Report
    <2>2. ASSUME NEW e \in Edit, PutWrites(e) PROVE report' \in Report \union {NoReport}
      BY <2>2 DEF PutWrites, Report, WrappedTypeOK
    <2>3. ASSUME NEW e \in Edit, NEW given, PutReads(e, given) PROVE report' \in Report \union {NoReport}
      BY <2>3 DEF PutReads, WrappedTypeOK
    <2> QED
      BY <2>1, <2>2, <2>3 DEF Reporting, DeleteReport
  <1> DEFINE Edited == [given : [start : PeriodDay \union {Keep}, end : PeriodDay \union {Keep}],
                        start : PeriodDay, end : PeriodDay] \union {NoReport}
  <1>3. edit' \in [Edit -> Edited]
    <2>1. edit \in [Edit -> Edited] /\ report \in Report \union {NoReport}
      BY DEF WrappedTypeOK
    <2>2. ASSUME NEW e \in Edit, NEW s \in PeriodDay \union {Keep}, NEW f \in PeriodDay \union {Keep},
                 PutReads(e, [start |-> s, end |-> f])
          PROVE  edit' \in [Edit -> Edited]
      <3> DEFINE given == [start |-> s, end |-> f]
                 start == IF s = Keep THEN report.start ELSE s
                 end == IF f = Keep THEN report.end ELSE f
                 new == [given |-> given, start |-> start, end |-> end]
      <3>1. report # NoReport /\ edit' = [edit EXCEPT ![e] = new]
        BY <2>2 DEF PutReads
      <3>2. start \in PeriodDay /\ end \in PeriodDay
        BY <2>1, <3>1 DEF Report
      <3>3. new \in Edited
        BY <3>2
      <3> HIDE DEF new, Edited
      <3> QED
        BY <2>1, <3>1, <3>3
    <2>3. ASSUME NEW e \in Edit, PutWrites(e) PROVE edit' \in [Edit -> Edited]
      <3>1. edit' = [edit EXCEPT ![e] = NoReport] /\ NoReport \in Edited
        BY <2>3 DEF PutWrites
      <3> HIDE DEF Edited
      <3> QED
        BY <2>1, <3>1
    <2>4. ASSUME NEW s, NEW f, PostReport(s, f) PROVE edit' \in [Edit -> Edited]
      BY <2>1, <2>4 DEF PostReport
    <2>5. CASE DeleteReport
      BY <2>1, <2>5 DEF DeleteReport
    <2> HIDE DEF Edited
    <2> QED
      BY <2>2, <2>3, <2>4, <2>5 DEF Reporting
  <1> QED
    BY <1>1, <1>2, <1>3 DEF WrappedTypeOK

\* The statistics, for every log of every length: what is counted are exactly
\* the plays that the next event of the same device and track closes, each once,
\* and the shares of the tracks, the days and the devices agree on it; the streak
\* is the longest run of days (wrapped.js:114, 213).  With that the lock and the
\* reports, whoever calls when.
THEOREM WrappedCorrect == WrappedSpec => []WrappedInv
  <1>1. WrappedInit => WrappedTypeOK
    <2> SUFFICES ASSUME WrappedInit PROVE WrappedTypeOK
      OBVIOUS
    <2>1. MaxToday \in Nat \ {0} /\ Period \in Nat /\ MaxEvents \in Nat
      BY WrappedAssumption
    <2>2. log = <<>> /\ opened = <<>> /\ Len(<<>>) = 0
      BY EmptySeq DEF WrappedInit
    <2>3. log \in Seq(Heard) /\ opened \in Seq(1..MaxToday) /\ Len(log) = 0
      BY <2>2, EmptySeq
    <2> QED
      BY <2>1, <2>3 DEF WrappedInit, WrappedTypeOK
  <1>2. WrappedTypeOK /\ [WrappedNext]_wrappedVars => WrappedTypeOK'
    <2> SUFFICES ASSUME WrappedTypeOK, [WrappedNext]_wrappedVars PROVE WrappedTypeOK'
      OBVIOUS
    <2>1. ASSUME NEW event \in Heard, Record(event) PROVE WrappedTypeOK'
      <3>1. /\ log' \in Seq(Heard) /\ Len(log') = Len(log) + 1 /\ Len(log) \in Nat /\ Len(log) < MaxEvents
        BY <2>1, AppendProperties, LenProperties DEF Record, WrappedTypeOK
      <3>2. Len(log') <= MaxEvents
        BY <3>1, WrappedAssumption
      <3> QED
        BY <2>1, <3>1, <3>2 DEF Record, WrappedTypeOK
    <2>2. CASE Opening
      BY <2>2, OpeningKeepsTypes
    <2>3. CASE Reporting
      BY <2>3, ReportingKeepsTypes
    <2>4. CASE UNCHANGED wrappedVars
      BY <2>4 DEF wrappedVars, WrappedTypeOK
    <2> QED
      BY <2>1, <2>2, <2>3, <2>4 DEF WrappedNext, Recording
  <1>3. WrappedTypeOK => CountsSegments /\ StreakIsLongest
    BY CountsTheSegments, StreakIsTheLongest DEF WrappedTypeOK
  <1> QED
    BY <1>1, <1>2, <1>3, OpensOncePerPeriod, ReportsInOrder, PTL DEF WrappedSpec, WrappedInv

-----------------------------------------------------------------------------
(* Lyrics: the invariant *)

\* A row of the provider's holds the words of the title it says.
RowOk(row) == row.source = "lrclib" => row.words.of = row.lookup

\* What the request g has in its hands.
AskerOk(g) ==
    LET mine == asker[g] IN
    /\ RowOk(mine.row)
    /\ mine.step \notin {"idle", "drop"} => mine.title \in Title
    /\ mine.step \in {"store", "persist"} /\ mine.words # NoWords => mine.words.of = mine.title
    /\ mine.step = "persist" => mine.words # NoWords
    /\ mine.step = "touch" => IsCurrent(mine.row, mine.title)
    /\ mine.step # "idle" /\ lyricsRow.source = "uploaded" => lyricsRow.words \in mine.met

LyricsIInv ==
    /\ LyricsTypeOK /\ UploadStands /\ WordsAreOfTheirTitle /\ AnswersFit
    /\ \A t \in Title : provider[t] # NoWords => provider[t].of = t
    /\ \A g \in Asker : AskerOk(g)

-----------------------------------------------------------------------------
(* Rows and requests *)

LEMMA RowFacts ==
    /\ \A row \in LyricsRow :
         /\ row.source \in {"none", "lrclib", "uploaded"}
         /\ row.source = "none" => row = NoRow
         /\ row.source = "lrclib" => row.words \in Words /\ row.lookup \in Title
                                     /\ [row EXCEPT !.fresh = TRUE] \in LyricsRow
         /\ row.source = "uploaded" => row.words \in Words
         /\ row.fresh => [row EXCEPT !.fresh = FALSE] \in LyricsRow
    /\ NoRow \in LyricsRow /\ RowOk(NoRow)
    /\ NoRow.source = "none" /\ NoRow.words = NoWords
  <1>1. ASSUME NEW row \in LyricsRow
        PROVE  /\ row.source \in {"none", "lrclib", "uploaded"}
               /\ row.source = "none" => row = NoRow
               /\ row.source = "lrclib" => row.words \in Words /\ row.lookup \in Title
                                           /\ [row EXCEPT !.fresh = TRUE] \in LyricsRow
               /\ row.source = "uploaded" => row.words \in Words
               /\ row.fresh => [row EXCEPT !.fresh = FALSE] \in LyricsRow
    <2>1. CASE row \in [source : {"lrclib"}, words : Words, lookup : Title, fresh : BOOLEAN]
      BY <2>1 DEF LyricsRow
    <2>2. CASE row \in [source : {"uploaded"}, words : Words, lookup : {NoTitle}, fresh : BOOLEAN]
      BY <2>2 DEF LyricsRow
    <2>3. CASE row = NoRow
      BY <2>3 DEF NoRow
    <2> QED
      BY <2>1, <2>2, <2>3 DEF LyricsRow
  <1>2. NoRow \in LyricsRow /\ RowOk(NoRow) /\ NoRow.source = "none" /\ NoRow.words = NoWords
    BY DEF LyricsRow, NoRow, RowOk
  <1> QED
    BY <1>1, <1>2

LEMMA NoGetFacts == NoGet \in AskerState /\ NoGet.step = "idle" /\ NoGet.row = NoRow
  BY RowFacts DEF NoGet, AskerState, AskerSteps

\* A step of the request g leaves the other requests as they are: it has to
\* account for itself, and for what it stores.
LEMMA AskerStep ==
    ASSUME LyricsIInv, NEW g \in Asker, NEW mine \in AskerState,
           asker' = [asker EXCEPT ![g] = mine], misfits' = {}, OnlyAskers,
           lyricsRow' \in LyricsRow, RowOk(lyricsRow'),
           lyricsRow'.source = "uploaded" => lyricsRow' = lyricsRow,
           lyricsRow.source = "uploaded" => lyricsRow' = lyricsRow,
           lyricsCache' \in [Title -> Words \union {NoWords, Unknown}],
           \A t \in Title : lyricsCache'[t] \in Words => lyricsCache'[t].of = t,
           RowOk(mine.row),
           mine.step \notin {"idle", "drop"} => mine.title \in Title,
           mine.step \in {"store", "persist"} /\ mine.words # NoWords => mine.words.of = mine.title,
           mine.step = "persist" => mine.words # NoWords,
           mine.step = "touch" => IsCurrent(mine.row, mine.title),
           mine.step # "idle" /\ lyricsRow'.source = "uploaded" => lyricsRow'.words \in mine.met
    PROVE  LyricsIInv'
  <1>1. /\ asker' \in [Asker -> AskerState] /\ asker'[g] = mine
        /\ \A h \in Asker : h # g => asker'[h] = asker[h]
    BY DEF LyricsIInv, LyricsTypeOK
  <1>2. LyricsTypeOK'
    BY <1>1 DEF LyricsIInv, LyricsTypeOK, OnlyAskers
  <1>3. UploadStands' /\ WordsAreOfTheirTitle' /\ AnswersFit'
    BY DEF LyricsIInv, UploadStands, WordsAreOfTheirTitle, AnswersFit, OnlyAskers, RowOk
  <1>4. ASSUME NEW h \in Asker PROVE AskerOk(h)'
    <2>1. CASE h = g
      BY <1>1, <2>1 DEF AskerOk, RowOk, IsCurrent
    <2>2. CASE h # g
      BY <1>1, <2>2 DEF LyricsIInv, AskerOk, RowOk, IsCurrent
    <2> QED
      BY <2>1, <2>2
  <1>5. \A t \in Title : provider'[t] # NoWords => provider'[t].of = t
    BY DEF LyricsIInv, OnlyAskers
  <1> QED
    BY <1>2, <1>3, <1>4, <1>5 DEF LyricsIInv

\* A request ends with words that fit.
LEMMA EndStep ==
    ASSUME LyricsIInv, NEW g \in Asker, NEW words, Replies(g, words), Fits(g, words), OnlyAskers,
           lyricsRow' \in LyricsRow, RowOk(lyricsRow'),
           lyricsRow'.source = "uploaded" => lyricsRow' = lyricsRow,
           lyricsRow.source = "uploaded" => lyricsRow' = lyricsRow,
           lyricsCache' \in [Title -> Words \union {NoWords, Unknown}],
           \A t \in Title : lyricsCache'[t] \in Words => lyricsCache'[t].of = t
    PROVE  LyricsIInv'
  <1>1. asker' = [asker EXCEPT ![g] = NoGet] /\ misfits' = {}
    BY DEF Replies, LyricsIInv, AnswersFit
  <1> QED
    BY <1>1, AskerStep, NoGetFacts, RowFacts

LEMMA AskerFacts ==
    ASSUME LyricsIInv, NEW g \in Asker
    PROVE  /\ asker[g] \in AskerState /\ AskerOk(g)
           /\ asker \in [Asker -> AskerState]
           /\ asker[g].row \in LyricsRow /\ asker[g].words \in Words \union {NoWords}
           /\ lyricsRow \in LyricsRow /\ RowOk(lyricsRow)
           /\ lyricsCache \in [Title -> Words \union {NoWords, Unknown}]
           /\ \A t \in Title : lyricsCache[t] \in Words => lyricsCache[t].of = t
  BY DEF LyricsIInv, LyricsTypeOK, AskerState, WordsAreOfTheirTitle, RowOk

\* What follows when the cache or the provider has said something about the
\* title of the request.
LEMMA ResolvedStep ==
    ASSUME LyricsIInv, NEW g \in Asker, AskerAt(g, "cache") \/ AskerAt(g, "store"),
           NEW words \in Words \union {NoWords}, words # NoWords => words.of = asker[g].title,
           Resolved(g, words), OnlyAskers, UNCHANGED lyricsRow,
           lyricsCache' \in [Title -> Words \union {NoWords, Unknown}],
           \A t \in Title : lyricsCache'[t] \in Words => lyricsCache'[t].of = t
    PROVE  LyricsIInv'
  <1> DEFINE step == CASE words # NoWords -> "persist"
                       [] words = NoWords /\ HasExisting(g) -> "touch"
                       [] words = NoWords /\ ~HasExisting(g) /\ asker[g].row.source = "lrclib" -> "drop"
                       [] OTHER -> "idle"
             mine == [asker[g] EXCEPT !.step = step, !.words = words,
                                      !.row = IF step = "touch" THEN @ ELSE NoRow]
  <1>1. /\ step \in {"persist", "touch", "drop", "idle"}
        /\ step = "persist" => words # NoWords
        /\ step = "touch" => HasExisting(g)
    OBVIOUS
  <1>2. IF step = "idle" THEN Replies(g, NoWords)
        ELSE asker' = [asker EXCEPT ![g] = mine] /\ UNCHANGED misfits
    BY DEF Resolved
  <1>3. asker[g].title \in Title /\ asker[g].step # "idle"
    BY AskerFacts DEF AskerOk, AskerAt
  <1> HIDE DEF step
  <1>4. CASE step = "idle"
    <2>1. Replies(g, NoWords) /\ Fits(g, NoWords)
      BY <1>2, <1>4 DEF Fits
    <2> QED
      BY <2>1, EndStep, AskerFacts
  <1>5. CASE step # "idle"
    <2>1. /\ mine \in AskerState /\ mine.step = step /\ mine.words = words
          /\ mine.title = asker[g].title /\ mine.met = asker[g].met
          /\ mine.row = IF step = "touch" THEN asker[g].row ELSE NoRow
      BY <1>1, AskerFacts, RowFacts DEF AskerState, AskerSteps
    <2>2. asker' = [asker EXCEPT ![g] = mine] /\ misfits' = {}
      BY <1>2, <1>5 DEF LyricsIInv, AnswersFit
    <2>3. RowOk(mine.row) /\ (step = "touch" => IsCurrent(mine.row, mine.title))
      BY <1>1, <2>1, AskerFacts, RowFacts DEF AskerOk, HasExisting
    <2>4. lyricsRow.source = "uploaded" => lyricsRow.words \in mine.met
      BY <1>3, <2>1, AskerFacts DEF AskerOk
    <2> HIDE DEF mine
    <2> QED
      BY <1>1, <1>3, <2>1, <2>2, <2>3, <2>4, AskerFacts, AskerStep
  <1> QED
    BY <1>4, <1>5

-----------------------------------------------------------------------------
(* GET /media/:id/lyrics *)

LEMMA GetReadKeeps ==
    ASSUME LyricsIInv, NEW g \in Asker, GetRead(g)
    PROVE  LyricsIInv'
  <1> DEFINE mine == [step |-> IF title # NoTitle THEN "cache" ELSE "drop", title |-> title,
                      row |-> lyricsRow, words |-> NoWords, met |-> {}]
  <1>1. /\ asker' = [asker EXCEPT ![g] = mine] /\ OnlyAskers /\ misfits' = misfits
        /\ UNCHANGED <<lyricsRow, lyricsCache>> /\ lyricsRow.source # "uploaded"
    BY DEF GetRead, Goes
  <1>2. title \in Title \union {NoTitle} /\ misfits = {}
    BY DEF LyricsIInv, LyricsTypeOK, AnswersFit
  <1>3. mine \in AskerState
    BY <1>2, AskerFacts DEF AskerState, AskerSteps
  <1> QED
    BY <1>1, <1>2, <1>3, AskerStep, AskerFacts

LEMMA GetCacheKeeps ==
    ASSUME LyricsIInv, NEW g \in Asker, GetCache(g)
    PROVE  LyricsIInv'
  <1> DEFINE cached == lyricsCache[asker[g].title]
  <1>1. /\ AskerAt(g, "cache") /\ OnlyAskers /\ UNCHANGED <<lyricsRow, lyricsCache>>
        /\ (cached # Unknown /\ Resolved(g, cached)) \/ (AskerTo(g, "fetch") /\ UNCHANGED misfits)
    BY DEF GetCache
  <1>2. asker[g].title \in Title
    BY <1>1, AskerFacts DEF AskerOk, AskerAt
  <1>3. CASE cached # Unknown /\ Resolved(g, cached)
    <2>1. cached \in Words \union {NoWords}
      BY <1>2, <1>3, AskerFacts
    <2>2. cached # NoWords => cached.of = asker[g].title
      BY <1>2, <2>1, AskerFacts
    <2> QED
      BY <1>1, <1>3, <2>1, <2>2, AskerFacts, ResolvedStep
  <1>4. CASE AskerTo(g, "fetch") /\ UNCHANGED misfits
    <2> DEFINE mine == [asker[g] EXCEPT !.step = "fetch"]
    <2>1. /\ mine \in AskerState /\ mine.step = "fetch" /\ mine.title = asker[g].title
          /\ mine.row = asker[g].row /\ mine.met = asker[g].met
      BY AskerFacts DEF AskerState, AskerSteps
    <2>2. asker' = [asker EXCEPT ![g] = mine] /\ misfits' = {}
      BY <1>4 DEF AskerTo, LyricsIInv, AnswersFit
    <2> HIDE DEF mine
    <2>3. RowOk(mine.row) /\ (lyricsRow.source = "uploaded" => lyricsRow.words \in mine.met)
      BY <1>1, <2>1, AskerFacts DEF AskerOk, AskerAt
    <2> QED
      BY <1>1, <1>2, <2>1, <2>2, <2>3, AskerFacts, AskerStep
  <1> QED
    BY <1>1, <1>3, <1>4

LEMMA GetFetchKeeps ==
    ASSUME LyricsIInv, NEW g \in Asker, GetFetch(g)
    PROVE  LyricsIInv'
  <1> DEFINE mine == [asker[g] EXCEPT !.step = "store", !.words = provider[asker[g].title]]
  <1>1. /\ AskerAt(g, "fetch") /\ OnlyAskers /\ UNCHANGED <<lyricsRow, lyricsCache>>
        /\ asker' = [asker EXCEPT ![g] = mine] /\ misfits' = {}
    BY DEF GetFetch, Goes, LyricsIInv, AnswersFit
  <1>2. asker[g].title \in Title
    BY <1>1, AskerFacts DEF AskerOk, AskerAt
  <1>3. /\ provider[asker[g].title] \in Words \union {NoWords}
        /\ provider[asker[g].title] # NoWords => provider[asker[g].title].of = asker[g].title
    BY <1>2 DEF LyricsIInv, LyricsTypeOK
  <1>4. /\ mine \in AskerState /\ mine.step = "store" /\ mine.title = asker[g].title
        /\ mine.row = asker[g].row /\ mine.met = asker[g].met
        /\ mine.words = provider[asker[g].title]
    BY <1>3, AskerFacts DEF AskerState, AskerSteps
  <1> HIDE DEF mine
  <1>5. RowOk(mine.row) /\ (lyricsRow.source = "uploaded" => lyricsRow.words \in mine.met)
    BY <1>1, <1>4, AskerFacts DEF AskerOk, AskerAt
  <1> QED
    BY <1>1, <1>2, <1>3, <1>4, <1>5, AskerFacts, AskerStep

LEMMA GetFetchFailsKeeps ==
    ASSUME LyricsIInv, NEW g \in Asker, GetFetchFails(g)
    PROVE  LyricsIInv'
  <1> DEFINE words == IF HasExisting(g) THEN asker[g].row.words ELSE NoWords
  <1>1. OnlyAskers /\ UNCHANGED <<lyricsRow, lyricsCache>> /\ Replies(g, words)
    BY DEF GetFetchFails
  <1>2. Fits(g, words)
    BY AskerFacts DEF Fits, HasExisting, IsCurrent, AskerOk, RowOk
  <1> HIDE DEF words
  <1> QED
    BY <1>1, <1>2, AskerFacts, EndStep

LEMMA GetStoreKeeps ==
    ASSUME LyricsIInv, NEW g \in Asker, GetStore(g)
    PROVE  LyricsIInv'
  <1> DEFINE words == asker[g].words
  <1>1. /\ AskerAt(g, "store") /\ Resolved(g, words) /\ OnlyAskers /\ UNCHANGED lyricsRow
        /\ \/ lyricsCache' = [lyricsCache EXCEPT ![asker[g].title] = words]
           \/ UNCHANGED lyricsCache
    BY DEF GetStore
  <1>2. /\ words \in Words \union {NoWords} /\ asker[g].title \in Title
        /\ words # NoWords => words.of = asker[g].title
    BY <1>1, AskerFacts DEF AskerOk, AskerAt
  <1> HIDE DEF words
  <1>3. /\ lyricsCache' \in [Title -> Words \union {NoWords, Unknown}]
        /\ \A t \in Title : lyricsCache'[t] \in Words => lyricsCache'[t].of = t
    BY <1>1, <1>2, AskerFacts, NoWordsAssumption
  <1> QED
    BY <1>1, <1>2, <1>3, ResolvedStep

LEMMA GetTouchKeeps ==
    ASSUME LyricsIInv, NEW g \in Asker, GetTouch(g)
    PROVE  LyricsIInv'
  <1>1. /\ AskerAt(g, "touch") /\ Replies(g, asker[g].row.words) /\ OnlyAskers
        /\ UNCHANGED lyricsCache
        /\ lyricsRow' = IF lyricsRow.source = "lrclib" THEN [lyricsRow EXCEPT !.fresh = TRUE]
                        ELSE lyricsRow
    BY DEF GetTouch
  <1>2. Fits(g, asker[g].row.words)
    BY <1>1, AskerFacts DEF Fits, IsCurrent, AskerOk, RowOk, AskerAt
  <1>3. /\ lyricsRow' \in LyricsRow /\ RowOk(lyricsRow')
        /\ lyricsRow'.source = "uploaded" => lyricsRow' = lyricsRow
        /\ lyricsRow.source = "uploaded" => lyricsRow' = lyricsRow
    <2>1. CASE lyricsRow.source = "lrclib"
      <3>1. lyricsRow \in [source : {"lrclib"}, words : Words, lookup : Title, fresh : BOOLEAN]
        BY <2>1, AskerFacts DEF LyricsRow, NoRow
      <3> QED
        BY <1>1, <2>1, <3>1, AskerFacts DEF LyricsRow, RowOk
    <2>2. CASE lyricsRow.source # "lrclib"
      BY <1>1, <2>2, AskerFacts
    <2> QED
      BY <2>1, <2>2
  <1> QED
    BY <1>1, <1>2, <1>3, AskerFacts, EndStep

LEMMA GetDropKeeps ==
    ASSUME LyricsIInv, NEW g \in Asker, GetDrop(g)
    PROVE  LyricsIInv'
  <1>1. /\ Replies(g, NoWords) /\ OnlyAskers /\ UNCHANGED lyricsCache
        /\ lyricsRow' = IF lyricsRow.source = "lrclib" THEN NoRow ELSE lyricsRow
    BY DEF GetDrop
  <1>2. Fits(g, NoWords)
    BY DEF Fits
  <1> QED
    BY <1>1, <1>2, AskerFacts, RowFacts, EndStep

\* An uploaded row escapes the upsert: the request has met it.
LEMMA GetPersistKeeps ==
    ASSUME LyricsIInv, NEW g \in Asker, GetPersist(g)
    PROVE  LyricsIInv'
  <1>1. AskerAt(g, "persist") /\ OnlyAskers /\ UNCHANGED lyricsCache
    BY DEF GetPersist
  <1>2. /\ asker[g].title \in Title /\ asker[g].words \in Words
        /\ asker[g].words.of = asker[g].title
    BY <1>1, AskerFacts DEF AskerOk, AskerAt
  <1>3. CASE lyricsRow.source = "uploaded"
    <2> DEFINE mine == [asker[g] EXCEPT !.step = "reread"]
    <2>1. /\ mine \in AskerState /\ mine.step = "reread" /\ mine.title = asker[g].title
          /\ mine.row = asker[g].row /\ mine.met = asker[g].met
      BY AskerFacts DEF AskerState, AskerSteps
    <2>2. asker' = [asker EXCEPT ![g] = mine] /\ misfits' = {} /\ UNCHANGED lyricsRow
      BY <1>3 DEF GetPersist, AskerTo, LyricsIInv, AnswersFit
    <2> HIDE DEF mine
    <2>3. RowOk(mine.row) /\ lyricsRow.words \in mine.met
      BY <1>1, <1>3, <2>1, AskerFacts DEF AskerOk, AskerAt
    <2> QED
      BY <1>1, <1>2, <2>1, <2>2, <2>3, AskerFacts, AskerStep
  <1>4. CASE lyricsRow.source # "uploaded"
    <2> DEFINE row == [source |-> "lrclib", words |-> asker[g].words,
                       lookup |-> asker[g].title, fresh |-> TRUE]
    <2>1. lyricsRow' = row /\ Replies(g, asker[g].words)
      BY <1>4 DEF GetPersist
    <2>2. row \in LyricsRow /\ RowOk(row) /\ row.source = "lrclib"
      BY <1>2 DEF LyricsRow, RowOk
    <2>3. Fits(g, asker[g].words)
      BY <1>2 DEF Fits
    <2> HIDE DEF row
    <2> QED
      BY <1>1, <1>4, <2>1, <2>2, <2>3, AskerFacts, EndStep
  <1> QED
    BY <1>3, <1>4

LEMMA GetRereadKeeps ==
    ASSUME LyricsIInv, NEW g \in Asker, GetReread(g)
    PROVE  LyricsIInv'
  <1>1. /\ AskerAt(g, "reread") /\ Replies(g, lyricsRow.words) /\ OnlyAskers
        /\ UNCHANGED <<lyricsRow, lyricsCache>>
    BY DEF GetReread
  <1>2. Fits(g, lyricsRow.words)
    <2>1. CASE lyricsRow.source = "uploaded"
      BY <1>1, <2>1, AskerFacts DEF Fits, AskerOk, AskerAt
    <2>2. CASE lyricsRow.source = "lrclib"
      BY <1>1, <2>2, AskerFacts, RowFacts DEF Fits, RowOk
    <2>3. CASE lyricsRow.source = "none"
      BY <2>3, AskerFacts, RowFacts DEF Fits
    <2> QED
      BY <2>1, <2>2, <2>3, AskerFacts, RowFacts
  <1> QED
    BY <1>1, <1>2, AskerFacts, EndStep

-----------------------------------------------------------------------------
(* The administrator, time and the provider *)

\* What happens besides GETs leaves what the requests have in their hands.
LEMMA ActStep ==
    ASSUME LyricsIInv, Act, UNCHANGED <<misfits, lrc, duration>>,
           title' \in Title \union {NoTitle},
           lyricsRow' \in LyricsRow, RowOk(lyricsRow'),
           standing' \in Words \union {NoWords},
           standing' # NoWords =>
               lyricsRow'.source = "uploaded" /\ lyricsRow'.words = standing',
           lyricsCache' \in [Title -> Words \union {NoWords, Unknown}],
           \A t \in Title : lyricsCache'[t] \in Words => lyricsCache'[t].of = t,
           provider' \in [Title -> Words \union {NoWords}],
           \A t \in Title : provider'[t] # NoWords => provider'[t].of = t,
           asker' \in [Asker -> AskerState],
           \A g \in Asker :
               /\ asker'[g].step = asker[g].step /\ asker'[g].title = asker[g].title
               /\ asker'[g].row = asker[g].row /\ asker'[g].words = asker[g].words
               /\ asker[g].step # "idle" /\ lyricsRow'.source = "uploaded" =>
                     lyricsRow'.words \in asker'[g].met
    PROVE  LyricsIInv'
  <1>1. LyricsTypeOK'
    BY LyricsAssumption DEF LyricsIInv, LyricsTypeOK, Act
  <1>2. UploadStands' /\ WordsAreOfTheirTitle' /\ AnswersFit'
    BY DEF LyricsIInv, UploadStands, WordsAreOfTheirTitle, AnswersFit, RowOk
  <1>3. ASSUME NEW g \in Asker PROVE AskerOk(g)'
    BY AskerFacts DEF AskerOk, RowOk, IsCurrent
  <1> QED
    BY <1>1, <1>2, <1>3 DEF LyricsIInv

LEMMA StateFacts ==
    ASSUME LyricsIInv
    PROVE  /\ title \in Title \union {NoTitle} /\ lyricsRow \in LyricsRow /\ RowOk(lyricsRow)
           /\ standing \in Words \union {NoWords}
           /\ standing # NoWords => lyricsRow.source = "uploaded" /\ lyricsRow.words = standing
           /\ lyricsCache \in [Title -> Words \union {NoWords, Unknown}]
           /\ \A t \in Title : lyricsCache[t] \in Words => lyricsCache[t].of = t
           /\ provider \in [Title -> Words \union {NoWords}]
           /\ \A t \in Title : provider[t] # NoWords => provider[t].of = t
           /\ asker \in [Asker -> AskerState]
           /\ \A g \in Asker : asker[g].step # "idle" /\ lyricsRow.source = "uploaded" =>
                                   lyricsRow.words \in asker[g].met
  BY DEF LyricsIInv, LyricsTypeOK, UploadStands, WordsAreOfTheirTitle, RowOk, AskerOk

LEMMA UpsertUploadedKeeps ==
    ASSUME LyricsIInv, UpsertUploaded
    PROVE  LyricsIInv'
  <1>1. PICK edition \in 1..MaxEdition :
          LET words == [of |-> "uploaded", edition |-> edition]
          IN /\ lyricsRow' = [source |-> "uploaded", words |-> words, lookup |-> NoTitle,
                              fresh |-> TRUE]
             /\ standing' = words
             /\ asker' = [g \in Asker |-> [asker[g] EXCEPT !.met =
                             IF AskerAt(g, "idle") THEN @ ELSE @ \union {words}]]
             /\ OnlyRow
    BY DEF UpsertUploaded
  <1> DEFINE words == [of |-> "uploaded", edition |-> edition]
             row == [source |-> "uploaded", words |-> words, lookup |-> NoTitle, fresh |-> TRUE]
             next(g) == [asker[g] EXCEPT !.met = IF AskerAt(g, "idle") THEN @ ELSE @ \union {words}]
  <1>2. words \in Words
    BY DEF Words
  <1>3. row \in LyricsRow /\ RowOk(row) /\ row.source = "uploaded" /\ row.words = words
    <2> HIDE DEF words
    <2> QED
      BY <1>2 DEF LyricsRow, RowOk
  <1>4. lyricsRow' = row /\ standing' = words /\ asker' = [g \in Asker |-> next(g)] /\ OnlyRow
    BY <1>1
  <1> HIDE DEF words, row
  <1>5. ASSUME NEW g \in Asker
        PROVE  /\ next(g) \in AskerState
               /\ next(g).step = asker[g].step /\ next(g).title = asker[g].title
               /\ next(g).row = asker[g].row /\ next(g).words = asker[g].words
               /\ asker[g].step # "idle" => words \in next(g).met
    BY <1>2, AskerFacts DEF AskerState, AskerAt
  <1>6. /\ asker' \in [Asker -> AskerState]
        /\ \A g \in Asker :
              /\ asker'[g].step = asker[g].step /\ asker'[g].title = asker[g].title
              /\ asker'[g].row = asker[g].row /\ asker'[g].words = asker[g].words
              /\ asker[g].step # "idle" => words \in asker'[g].met
    <2> HIDE DEF next
    <2> QED
      BY <1>4, <1>5
  <1>7. Act /\ UNCHANGED <<title, lyricsCache, provider, misfits, lrc, duration>>
    BY <1>4 DEF OnlyRow
  <1> QED
    BY <1>2, <1>3, <1>4, <1>6, <1>7, StateFacts, ActStep

LEMMA ActsKeep ==
    ASSUME LyricsIInv,
           \/ DeleteLyrics \/ Ages
           \/ \E t \in Title \union {NoTitle} : Rename(t)
           \/ \E t \in Title : CacheExpires(t)
           \/ \E t \in Title, words \in Words \union {NoWords} : Publishes(t, words)
    PROVE  LyricsIInv'
  <1>1. CASE DeleteLyrics
    BY <1>1, StateFacts, ActStep, RowFacts DEF DeleteLyrics, OnlyRow
  <1>2. CASE Ages
    <2>1. /\ lyricsRow' = [lyricsRow EXCEPT !.fresh = FALSE] /\ lyricsRow.fresh /\ Act
          /\ UNCHANGED <<title, lyricsCache, provider, misfits, lrc, duration, asker, standing>>
      BY <1>2 DEF Ages, OnlyRow
    <2>2. lyricsRow' \in LyricsRow
      BY <2>1, StateFacts, RowFacts
    <2>3. /\ lyricsRow'.source = lyricsRow.source /\ lyricsRow'.words = lyricsRow.words
          /\ lyricsRow'.lookup = lyricsRow.lookup
      BY <2>1, StateFacts DEF LyricsRow, NoRow
    <2> QED
      BY <2>1, <2>2, <2>3, StateFacts, ActStep DEF RowOk
  <1>3. ASSUME NEW t \in Title \union {NoTitle}, Rename(t) PROVE LyricsIInv'
    BY <1>3, StateFacts, ActStep DEF Rename
  <1>4. ASSUME NEW t \in Title, CacheExpires(t) PROVE LyricsIInv'
    <2>1. /\ lyricsCache' = [lyricsCache EXCEPT ![t] = Unknown] /\ Act
          /\ UNCHANGED <<title, lyricsRow, provider, asker, standing, misfits, lrc, duration>>
      BY <1>4 DEF CacheExpires
    <2>2. /\ lyricsCache' \in [Title -> Words \union {NoWords, Unknown}]
          /\ \A k \in Title : lyricsCache'[k] \in Words => lyricsCache'[k].of = k
      BY <2>1, StateFacts, NoWordsAssumption
    <2> QED
      BY <2>1, <2>2, StateFacts, ActStep
  <1>5. ASSUME NEW t \in Title, NEW words \in Words \union {NoWords}, Publishes(t, words)
        PROVE  LyricsIInv'
    <2>1. /\ provider' = [provider EXCEPT ![t] = words] /\ (words # NoWords => words.of = t) /\ Act
          /\ UNCHANGED <<title, lyricsRow, lyricsCache, asker, standing, misfits, lrc, duration>>
      BY <1>5 DEF Publishes
    <2>2. /\ provider' \in [Title -> Words \union {NoWords}]
          /\ \A k \in Title : provider'[k] # NoWords => provider'[k].of = k
      BY <2>1, StateFacts
    <2> QED
      BY <2>1, <2>2, StateFacts, ActStep
  <1> QED
    BY <1>1, <1>2, <1>3, <1>4, <1>5

LEMMA ReadsKeeps ==
    ASSUME LyricsIInv, NEW line \in Line, Reads(line)
    PROVE  LyricsIInv'
  <1> DEFINE Lines == [stamps : Seq(Stamp), text : BOOLEAN]
  <1>1. /\ Len(lrc) < MaxLines /\ lrc' = Append(lrc, line)
        /\ UNCHANGED <<title, lyricsRow, lyricsCache, provider, asker, standing, acts, misfits, duration>>
    BY DEF Reads
  <1>2. line \in Lines
    BY DEF Line, BoundedSeq, SeqOf
  <1>3. lrc' \in Seq(Lines) /\ Len(lrc') = Len(lrc) + 1 /\ Len(lrc) \in Nat
    <2> HIDE DEF Lines
    <2>1. lrc \in Seq(Lines)
      BY DEF LyricsIInv, LyricsTypeOK, Lines
    <2> QED
      BY <1>1, <1>2, <2>1, AppendProperties, LenProperties
  <1>4. LyricsTypeOK'
    BY <1>1, <1>3, LyricsAssumption DEF LyricsIInv, LyricsTypeOK
  <1> QED
    BY <1>1, <1>4 DEF LyricsIInv, UploadStands, WordsAreOfTheirTitle, AnswersFit, AskerOk, RowOk,
                      IsCurrent

-----------------------------------------------------------------------------
LEMMA LyricsIInvInit == LyricsInit => LyricsIInv
  <1> SUFFICES ASSUME LyricsInit PROVE LyricsIInv
    OBVIOUS
  <1>1. lyricsRow \in LyricsRow /\ RowOk(lyricsRow) /\ lyricsRow.source # "uploaded"
    <2>1. CASE lyricsRow = NoRow
      BY <2>1, RowFacts
    <2>2. ASSUME NEW t \in Title, lyricsRow = [source |-> "lrclib", words |-> [of |-> t, edition |-> 1],
                                               lookup |-> t, fresh |-> FALSE]
          PROVE  lyricsRow \in LyricsRow /\ RowOk(lyricsRow) /\ lyricsRow.source # "uploaded"
      <3>1. MaxEdition \in Nat \ {0} => [of |-> t, edition |-> 1] \in Words
        BY DEF Words
      <3> QED
        BY <2>2, <3>1, LyricsAssumption DEF LyricsRow, RowOk
    <2> QED
      BY <2>1, <2>2 DEF LyricsInit
  <1>2. <<>> \in Seq([stamps : Seq(Stamp), text : BOOLEAN]) /\ Len(<<>>) = 0
    BY EmptySeq
  <1>3. LyricsTypeOK
    BY <1>1, <1>2, NoGetFacts, LyricsAssumption DEF LyricsInit, LyricsTypeOK
  <1>4. UploadStands /\ WordsAreOfTheirTitle /\ AnswersFit
    BY <1>1, NoWordsAssumption DEF LyricsInit, UploadStands, WordsAreOfTheirTitle, AnswersFit, RowOk
  <1>5. ASSUME NEW g \in Asker PROVE AskerOk(g)
    BY NoGetFacts, RowFacts DEF LyricsInit, AskerOk
  <1> QED
    BY <1>3, <1>4, <1>5 DEF LyricsIInv, LyricsInit

LEMMA LyricsIInvNext == LyricsIInv /\ [LyricsNext]_lyricsVars => LyricsIInv'
  <1> SUFFICES ASSUME LyricsIInv, [LyricsNext]_lyricsVars PROVE LyricsIInv'
    OBVIOUS
  <1>1. ASSUME NEW g \in Asker, Getting(g) PROVE LyricsIInv'
    BY <1>1, GetReadKeeps, GetCacheKeeps, GetFetchKeeps, GetFetchFailsKeeps, GetStoreKeeps,
       GetTouchKeeps, GetDropKeeps, GetPersistKeeps, GetRereadKeeps DEF Getting
  <1>2. CASE LyricsServes
    BY <1>1, <1>2, UpsertUploadedKeeps, ActsKeep DEF LyricsServes
  <1>3. CASE LyricsParses
    BY <1>3, ReadsKeeps DEF LyricsParses
  <1>4. CASE UNCHANGED lyricsVars
    BY <1>4 DEF lyricsVars, LyricsIInv, LyricsTypeOK, UploadStands, WordsAreOfTheirTitle,
                AnswersFit, AskerOk, RowOk, IsCurrent
  <1> QED
    BY <1>2, <1>3, <1>4 DEF LyricsNext

\* Whatever GETs are under way while an administrator uploads, deletes or
\* renames, an upload stands until it is replaced or deleted (lyrics.js:75), the
\* row and the cache hold words of the title they say (lrclib.js:354), and every
\* answer holds an upload that was there meanwhile or words of the title that the
\* medium had when the request read it (routes/lyrics.js:88).
THEOREM LyricsCorrect == LyricsSpec => []LyricsInv
  <1>1. LyricsIInv => LyricsInv
    BY DEF LyricsIInv, LyricsInv
  <1> QED
    BY <1>1, LyricsIInvInit, LyricsIInvNext, PTL DEF LyricsSpec

\* A request that goes on to ask the cache, the provider or the table has met
\* every upload that it could run into: the one that is stored came after its
\* first read (routes/lyrics.js:81).
THEOREM UploadIsMet ==
    LyricsSpec => [](\A g \in Asker : asker[g].step # "idle" /\ lyricsRow.source = "uploaded" =>
                                          lyricsRow.words \in asker[g].met)
  <1>1. LyricsIInv => \A g \in Asker : asker[g].step # "idle" /\ lyricsRow.source = "uploaded" =>
                                           lyricsRow.words \in asker[g].met
    BY DEF LyricsIInv, AskerOk
  <1> QED
    BY <1>1, LyricsIInvInit, LyricsIInvNext, PTL DEF LyricsSpec
-----------------------------------------------------------------------------
(* Lyrics: the lines of a file *)

LrcTypes ==
    /\ lrc \in Seq([stamps : Seq(Stamp), text : BOOLEAN])
    /\ duration \in Duration

LEMMA LrcTyped ==
    ASSUME LyricsTypeOK
    PROVE  LrcTypes
  BY DEF LyricsTypeOK, LrcTypes

LEMMA CueTyped ==
    ASSUME LrcTypes, NEW p \in CuePlaces
    PROVE  p[1] \in Nat /\ p[2] \in Nat /\ TimeOf(p) \in Nat /\ lrc[p[1]].text \in BOOLEAN
           /\ p = <<p[1], p[2]>>
  <1>1. PICK i \in DOMAIN lrc : p \in {i} \X DOMAIN lrc[i].stamps
    BY DEF CuePlaces
  <1>2. i \in 1..Len(lrc) /\ lrc[i] \in [stamps : Seq(Stamp), text : BOOLEAN]
    BY LenProperties, ElementOfSeq DEF LrcTypes
  <1>3. lrc[i].stamps \in Seq(Stamp) /\ lrc[i].text \in BOOLEAN
    BY <1>2
  <1>4. PICK k \in DOMAIN lrc[i].stamps : p = <<i, k>>
    BY <1>1
  <1>5. k \in 1..Len(lrc[i].stamps) /\ lrc[i].stamps[k] \in Stamp
    BY <1>3, <1>4, LenProperties, ElementOfSeq
  <1>6. Stamp \subseteq Nat /\ i \in Nat /\ k \in Nat
    BY <1>2, <1>3, <1>5, LenProperties, LyricsAssumption
  <1>7. p[1] = i /\ p[2] = k
    BY <1>4
  <1> QED
    BY <1>3, <1>4, <1>5, <1>6, <1>7 DEF TimeOf

LEMMA CuesFinite ==
    ASSUME LrcTypes
    PROVE  IsFiniteSet(CuePlaces) /\ Cardinality(CuePlaces) \in Nat
  <1> DEFINE ofLine == [i \in DOMAIN lrc |-> {i} \X DOMAIN lrc[i].stamps]
  <1> DEFINE lines == {{i} \X DOMAIN lrc[i].stamps : i \in DOMAIN lrc}
  <1>1. DOMAIN lrc = 1..Len(lrc) /\ Len(lrc) \in Nat
    BY LenProperties DEF LrcTypes
  <1>2. IsFiniteSet(DOMAIN lrc)
    BY <1>1, FS_Interval
  <1>3. ofLine \in Surjection(DOMAIN lrc, lines)
    BY DEF Surjection
  <1>4. IsFiniteSet(lines)
    <2> HIDE DEF ofLine, lines
    <2> QED
      BY <1>2, <1>3, FS_Surjection
  <1>5. ASSUME NEW i \in DOMAIN lrc
        PROVE  IsFiniteSet({i} \X DOMAIN lrc[i].stamps)
    <2>1. lrc[i].stamps \in Seq(Stamp)
      <3>1. lrc[i] \in [stamps : Seq(Stamp), text : BOOLEAN]
        BY <1>1, ElementOfSeq DEF LrcTypes
      <3> QED
        BY <3>1
    <2>2. DOMAIN lrc[i].stamps = 1..Len(lrc[i].stamps) /\ Len(lrc[i].stamps) \in Nat
      BY <2>1, LenProperties
    <2>3. IsFiniteSet(DOMAIN lrc[i].stamps)
      BY <2>2, FS_Interval
    <2>4. IsFiniteSet({i})
      BY FS_Singleton
    <2> QED
      BY <2>3, <2>4, FS_Product
  <1>6. \A line \in lines : IsFiniteSet(line)
    BY <1>5
  <1>7. CuePlaces = UNION lines
    BY DEF CuePlaces
  <1>8. IsFiniteSet(CuePlaces)
    <2> HIDE DEF lines
    <2> QED
      BY <1>4, <1>6, <1>7, FS_UNION
  <1> QED
    BY <1>8, FS_CardinalityType

\* The order of the sort is a strict and total one, because the places break
\* the ties.
LEMMA PrecedesOrders ==
    ASSUME LrcTypes
    PROVE  Orders({p \in CuePlaces \X CuePlaces : Precedes(p[1], p[2])}, CuePlaces)
  <1> DEFINE before == {p \in CuePlaces \X CuePlaces : Precedes(p[1], p[2])}
  <1>1. \A p, q \in CuePlaces : <<p, q>> \in before <=> Precedes(p, q)
    OBVIOUS
  <1>2. \A p \in CuePlaces : ~Precedes(p, p)
    BY CueTyped DEF Precedes, InFile
  <1>3. ASSUME NEW p \in CuePlaces, NEW q \in CuePlaces
        PROVE  p = q \/ Precedes(p, q) \/ Precedes(q, p)
    <2>1. /\ p[1] \in Nat /\ p[2] \in Nat /\ TimeOf(p) \in Nat /\ p = <<p[1], p[2]>>
          /\ q[1] \in Nat /\ q[2] \in Nat /\ TimeOf(q) \in Nat /\ q = <<q[1], q[2]>>
      BY CueTyped
    <2>2. p[1] = q[1] /\ p[2] = q[2] => p = q
      BY <2>1
    <2> QED
      BY <2>1, <2>2 DEF Precedes, InFile
  <1>4. ASSUME NEW p \in CuePlaces, NEW q \in CuePlaces, NEW r \in CuePlaces, Precedes(p, q), Precedes(q, r)
        PROVE  Precedes(p, r)
    <2>1. /\ p[1] \in Nat /\ p[2] \in Nat /\ TimeOf(p) \in Nat
          /\ q[1] \in Nat /\ q[2] \in Nat /\ TimeOf(q) \in Nat
          /\ r[1] \in Nat /\ r[2] \in Nat /\ TimeOf(r) \in Nat
      BY CueTyped
    <2> QED
      BY <1>4, <2>1 DEF Precedes, InFile
  <1> HIDE DEF before
  <1>5. Orders(before, CuePlaces)
    BY <1>1, <1>2, <1>3, <1>4 DEF Orders
  <1> QED
    BY <1>5 DEF before

\* The cues come in the order of their times.
LEMMA CuesSorted ==
    ASSUME LrcTypes
    PROVE  /\ DOMAIN Cues = 1..Cardinality(CuePlaces)
           /\ \A n \in DOMAIN Cues : Cues[n].start \in Nat /\ Cues[n].text \in BOOLEAN
           /\ \A n, m \in DOMAIN Cues : n < m => Cues[n].start <= Cues[m].start
  <1> DEFINE before == {p \in CuePlaces \X CuePlaces : Precedes(p[1], p[2])}
             place == Ordered(CuePlaces, before)
             size == Cardinality(CuePlaces)
  <1>1. /\ place \in [1..size -> CuePlaces]
        /\ \A n, m \in 1..size : n < m => <<place[n], place[m]>> \in before
    <2>1. Orders(before, CuePlaces)
      BY PrecedesOrders
    <2> HIDE DEF before
    <2> QED
      BY <2>1, CuesFinite, OrderedIs
  <1>2. \A p, q \in CuePlaces : <<p, q>> \in before => Precedes(p, q)
    OBVIOUS
  <1>3. Cues = [n \in DOMAIN place |-> [start |-> TimeOf(place[n]), text |-> lrc[place[n][1]].text]]
    BY DEF Cues
  <1> HIDE DEF place, before, size
  <1>4. DOMAIN place = 1..size /\ \A n \in 1..size : place[n] \in CuePlaces
    BY <1>1
  <1>5. \A n \in 1..size : TimeOf(place[n]) \in Nat /\ lrc[place[n][1]].text \in BOOLEAN
    BY <1>4, CueTyped
  <1>6. /\ DOMAIN Cues = 1..size
        /\ \A n \in 1..size : Cues[n].start = TimeOf(place[n]) /\ Cues[n].text = lrc[place[n][1]].text
    BY <1>3, <1>4
  <1>7. ASSUME NEW n \in 1..size, NEW m \in 1..size, n < m
        PROVE  TimeOf(place[n]) <= TimeOf(place[m])
    <2>1. Precedes(place[n], place[m])
      BY <1>1, <1>2, <1>4, <1>7
    <2> QED
      BY <1>5, <2>1 DEF Precedes
  <1> QED
    BY <1>5, <1>6, <1>7 DEF size

LEMMA LesserIsOne ==
    ASSUME NEW a \in Nat, NEW b \in Nat
    PROVE  Min({a, b}) \in {a, b} /\ Min({a, b}) <= a /\ Min({a, b}) <= b
  BY MinIsLeast

\* A line ends after its start and not after any later time.
LEMMA LineEnds ==
    ASSUME LrcTypes, NEW i \in DOMAIN Cues
    PROVE  /\ LineEnd(Cues, i) > Cues[i].start
           /\ \A k \in DOMAIN Cues : Cues[k].start > Cues[i].start => LineEnd(Cues, i) <= Cues[k].start
  <1> DEFINE start == Cues[i].start
  <1> DEFINE later == {Cues[j].start : j \in {k \in DOMAIN Cues : i < k}} \ {start}
  <1>1. /\ start \in Nat /\ duration \in Nat
        /\ \A k \in DOMAIN Cues : k \in Int /\ Cues[k].start \in Nat
    BY CuesSorted, CuesFinite, LyricsAssumption DEF LrcTypes
  <1>2. LineEnd(Cues, i) = IF later # {} THEN Min({Min(later), start + 12})
                           ELSE IF duration > start THEN Min({duration, start + 8}) ELSE start + 5
    BY DEF LineEnd
  <1>3. \A x \in later : x \in Nat /\ x > start
    <2>1. ASSUME NEW j \in DOMAIN Cues, i < j, Cues[j].start # start
          PROVE  Cues[j].start \in Nat /\ Cues[j].start > start
      <3>1. Cues[i].start <= Cues[j].start
        BY <2>1, CuesSorted
      <3> QED
        BY <1>1, <2>1, <3>1
    <2> QED
      BY <2>1
  <1>4. \A k \in DOMAIN Cues : Cues[k].start > start => Cues[k].start \in later
    <2>1. ASSUME NEW k \in DOMAIN Cues, Cues[k].start > start
          PROVE  i < k
      <3>1. CASE k < i
        <4>1. Cues[k].start <= Cues[i].start
          BY <3>1, CuesSorted
        <4> QED
          BY <1>1, <2>1, <4>1
      <3>2. k # i
        BY <1>1, <2>1
      <3>3. k \in Int /\ i \in Int
        BY <1>1
      <3> QED
        BY <3>1, <3>2, <3>3
    <2>2. \A k \in DOMAIN Cues : Cues[k].start > start => Cues[k].start # start
      BY <1>1
    <2> QED
      BY <2>1, <2>2
  <1> HIDE DEF later, start
  <1>5. CASE later # {}
    <2>1. Min(later) \in later /\ \A x \in later : Min(later) <= x
      BY <1>3, <1>5, MinIsLeast
    <2> DEFINE first == Min(later)
    <2>2. first \in Nat /\ first > start /\ start + 12 \in Nat
      BY <1>1, <1>3, <2>1
    <2>3. \A k \in DOMAIN Cues : Cues[k].start > start => first <= Cues[k].start
      BY <1>4, <2>1
    <2> HIDE DEF first
    <2>4. /\ Min({first, start + 12}) \in {first, start + 12}
          /\ Min({first, start + 12}) <= first
      BY <2>2, LesserIsOne
    <2>5. LineEnd(Cues, i) = Min({first, start + 12})
      BY <1>2, <1>5 DEF first
    <2>6. LineEnd(Cues, i) \in Nat /\ LineEnd(Cues, i) > start /\ LineEnd(Cues, i) <= first
      BY <1>1, <2>2, <2>4, <2>5
    <2>7. \A k \in DOMAIN Cues : Cues[k].start > start => LineEnd(Cues, i) <= Cues[k].start
      BY <1>1, <2>2, <2>3, <2>6
    <2> QED
      BY <2>6, <2>7 DEF start
  <1>6. CASE later = {}
    <2>1. \A k \in DOMAIN Cues : ~(Cues[k].start > start)
      BY <1>4, <1>6
    <2>2. LineEnd(Cues, i) > start
      <3>1. CASE duration > start
        <4>1. start + 8 \in Nat
          BY <1>1
        <4>2. Min({duration, start + 8}) \in {duration, start + 8}
          BY <1>1, <4>1, LesserIsOne
        <4>3. LineEnd(Cues, i) = Min({duration, start + 8})
          BY <1>2, <1>6, <3>1
        <4> QED
          BY <1>1, <3>1, <4>2, <4>3
      <3>2. CASE ~(duration > start)
        <4>1. LineEnd(Cues, i) = start + 5
          BY <1>2, <1>6, <3>2
        <4> QED
          BY <1>1, <4>1
      <3> QED
        BY <3>1, <3>2
    <2> QED
      BY <2>1, <2>2 DEF start
  <1> QED
    BY <1>5, <1>6

LEMMA LinesApart ==
    ASSUME LrcTypes
    PROVE  LinesDoNotOverlap
  <1>1. TimedLines = [i \in {j \in DOMAIN Cues : Cues[j].text} |->
                          [start |-> Cues[i].start, end |-> LineEnd(Cues, i)]]
    BY DEF TimedLines
  <1>2. /\ DOMAIN TimedLines \subseteq DOMAIN Cues
        /\ \A i \in DOMAIN TimedLines : TimedLines[i].start = Cues[i].start /\ TimedLines[i].end = LineEnd(Cues, i)
    BY <1>1
  <1>3. ASSUME NEW i \in DOMAIN TimedLines
        PROVE  /\ TimedLines[i].end > TimedLines[i].start
               /\ \A k \in DOMAIN Cues : Cues[k].start > TimedLines[i].start => TimedLines[i].end <= Cues[k].start
    <2>1. i \in DOMAIN Cues /\ TimedLines[i].start = Cues[i].start /\ TimedLines[i].end = LineEnd(Cues, i)
      BY <1>2
    <2> QED
      BY <2>1, LineEnds
  <1>4. \A i, j \in DOMAIN TimedLines : i < j => TimedLines[i].start <= TimedLines[j].start
    BY <1>2, CuesSorted
  <1> QED
    BY <1>3, <1>4 DEF LinesDoNotOverlap

\* lrclib.js:84: whatever the file and however long the medium, its lines come in
\* order, none is empty, and each has ended when a later time begins.
THEOREM LinesAreApart == LyricsSpec => []LinesDoNotOverlap
  <1>1. LyricsIInv => LinesDoNotOverlap
    BY LrcTyped, LinesApart DEF LyricsIInv
  <1> QED
    BY <1>1, LyricsIInvInit, LyricsIInvNext, PTL DEF LyricsSpec
=============================================================================
